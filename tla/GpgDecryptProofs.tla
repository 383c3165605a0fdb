-------------------------- MODULE GpgDecryptProofs --------------------------
(***************************************************************************)
(* Proofs about GpgDecrypt, for every program gpg may run, every exit code *)
(* and a pipe of any size.                                                 *)
(***************************************************************************)
EXTENDS GpgDecrypt, WellFoundedInduction, TLAPS

(* A nonempty set of naturals has a least element.                         *)
LEMMA LeastExists ==
  ASSUME NEW S \in SUBSET Nat, S # {}
  PROVE  \E m \in S : \A n \in S : m <= n
<1> DEFINE R == OpToRel(<, Nat)
<1>1. IsWellFoundedOn(R, Nat)
  BY NatLessThanWellFounded
<1>2. \A x, y \in Nat : <<y, x>> \in R <=> y < x
  BY DEF OpToRel
<1> HIDE DEF R
<1>3. PICK m \in S : \A n \in S : ~(<<n, m>> \in R)
  BY <1>1, WFMin
<1>4. ASSUME NEW n \in S PROVE m <= n
  <2>1. ~(n < m)
    BY <1>2, <1>3
  <2> QED BY <2>1
<1> QED BY <1>4

-----------------------------------------------------------------------------
(* Kept is the function its equation says, on longer and longer parts of   *)
(* the sequence: were there a first length without, the one before it has  *)
(* a function that goes one further.                                       *)
Equation(k, s, these, m) ==
  k = [n \in 0..m |->
         IF n = 0 THEN <<>>
         ELSE IF s[n] \in these THEN Append(k[n - 1], s[n])
                                ELSE k[n - 1]]

LEMMA KeptExists ==
  ASSUME NEW s, NEW these, NEW N \in Nat
  PROVE  \E k : Equation(k, s, these, N)
<1> DEFINE Without == {m \in 0..N : ~\E k : Equation(k, s, these, m)}
<1>1. ASSUME Without # {} PROVE FALSE
  <2>1. PICK m \in Without : \A n \in Without : m <= n
    <3>1. Without \in SUBSET Nat
      OBVIOUS
    <3>. HIDE DEF Without
    <3>. QED  BY <1>1, <3>1, LeastExists
  <2>2. m \in 0..N /\ ~\E k : Equation(k, s, these, m)
    BY <2>1
  <2>3. m # 0
    <3>1. Equation([n \in 0..0 |-> <<>>], s, these, 0)
      BY DEF Equation
    <3>. QED  BY <2>2, <3>1
  <2>4. m - 1 \in 0..N /\ m - 1 \notin Without
    <3>1. m - 1 \in 0..N /\ ~(m <= m - 1)
      BY <2>2, <2>3
    <3>. HIDE DEF Without
    <3>. QED  BY <2>1, <3>1
  <2>5. PICK k : Equation(k, s, these, m - 1)
    BY <2>4
  <2> DEFINE next == IF s[m] \in these THEN Append(k[m - 1], s[m]) ELSE k[m - 1]
             longer == [n \in 0..m |-> IF n = m THEN next ELSE k[n]]
  <2>6. /\ \A n \in 0..(m - 1) : longer[n] = k[n]
        /\ longer[m] = next
    BY <2>2
  <2>7. \A n \in 0..(m - 1) :
          k[n] = IF n = 0 THEN <<>>
                 ELSE IF s[n] \in these THEN Append(k[n - 1], s[n]) ELSE k[n - 1]
    BY <2>5 DEF Equation
  <2>8. Equation(longer, s, these, m)
    <3>1. ASSUME NEW n \in 0..m
          PROVE  longer[n] = IF n = 0 THEN <<>>
                             ELSE IF s[n] \in these THEN Append(longer[n - 1], s[n])
                                                    ELSE longer[n - 1]
      <4>1. CASE n = m
        <5>1. n # 0 /\ longer[n - 1] = k[m - 1]
          BY <2>2, <2>3, <2>6, <4>1
        <5>. HIDE DEF longer
        <5>. QED  BY <2>6, <4>1, <5>1
      <4>2. CASE n # m
        <5>1. n \in 0..(m - 1) /\ (n # 0 => n - 1 \in 0..(m - 1))
          BY <2>2, <4>2
        <5>. HIDE DEF longer
        <5>. QED  BY <2>6, <2>7, <5>1
      <4>. QED  BY <4>1, <4>2
    <3>2. longer = [n \in 0..m |-> longer[n]]
      OBVIOUS
    <3>. HIDE DEF longer
    <3>. QED  BY <3>1, <3>2 DEF Equation
  <2>. QED  BY <2>2, <2>8
<1>. QED  BY <1>1

LEMMA KeptDef ==
  ASSUME NEW s, NEW these, Len(s) \in Nat
  PROVE  /\ DOMAIN Kept(s, these) = 0..Len(s)
         /\ Kept(s, these)[0] = <<>>
         /\ \A n \in 1..Len(s) :
              Kept(s, these)[n] = IF s[n] \in these
                                    THEN Append(Kept(s, these)[n - 1], s[n])
                                    ELSE Kept(s, these)[n - 1]
<1>1. \E k : Equation(k, s, these, Len(s))
  BY KeptExists
<1>2. Kept(s, these) = CHOOSE k : Equation(k, s, these, Len(s))
  BY DEF Kept, Equation
<1>3. Equation(Kept(s, these), s, these, Len(s))
  BY <1>1, <1>2
<1> DEFINE k == Kept(s, these)
<1> HIDE DEF k
<1>4. k = [n \in 0..Len(s) |->
            IF n = 0 THEN <<>>
            ELSE IF s[n] \in these THEN Append(k[n - 1], s[n])
                                   ELSE k[n - 1]]
  BY <1>3 DEF Equation, k
<1>5. DOMAIN k = 0..Len(s) /\ k[0] = <<>>
  <2>1. 0 \in 0..Len(s)
    OBVIOUS
  <2>. QED  BY <1>4, <2>1
<1>6. ASSUME NEW n \in 1..Len(s)
      PROVE  k[n] = IF s[n] \in these THEN Append(k[n - 1], s[n]) ELSE k[n - 1]
  <2>1. n \in 0..Len(s) /\ n # 0
    OBVIOUS
  <2>. QED  BY <1>4, <2>1
<1>. QED  BY <1>5, <1>6 DEF k

(* Nothing but what is kept is in it, and a longer part keeps more.        *)
LEMMA KeptType ==
  ASSUME NEW s, NEW these, Len(s) \in Nat, NEW n \in 0..Len(s)
  PROVE  Kept(s, these)[n] \in Seq(these)
<1> DEFINE k == Kept(s, these)
           Bad == {i \in 0..Len(s) : k[i] \notin Seq(these)}
<1> HIDE DEF k
<1>1. /\ k[0] = <<>>
      /\ \A i \in 1..Len(s) :
           k[i] = IF s[i] \in these THEN Append(k[i - 1], s[i]) ELSE k[i - 1]
  BY KeptDef DEF k
<1>2. /\ <<>> \in Seq(these)
      /\ \A q \in Seq(these), x \in these : Append(q, x) \in Seq(these)
  <2>1. <<>> \in Seq(these)
    OBVIOUS
  <2>2. ASSUME NEW q \in Seq(these), NEW x \in these
        PROVE  Append(q, x) \in Seq(these)
    OBVIOUS
  <2>. QED  BY <2>1, <2>2
<1>3. ASSUME Bad # {} PROVE FALSE
  <2>1. PICK m \in Bad : \A i \in Bad : m <= i
    <3>1. Bad \in SUBSET Nat
      OBVIOUS
    <3>. HIDE DEF Bad
    <3>. QED  BY <1>3, <3>1, LeastExists
  <2>2. m \in 0..Len(s) /\ k[m] \notin Seq(these)
    BY <2>1
  <2>3. m # 0
    BY <1>1, <1>2, <2>2, Zenon
  <2>4. m - 1 \in 0..Len(s) /\ ~(m <= m - 1) /\ m \in 1..Len(s)
    BY <2>2, <2>3
  <2>5. m - 1 \notin Bad
    <3>. HIDE DEF Bad
    <3>. QED  BY <2>1, <2>4
  <2>6. k[m - 1] \in Seq(these)
    BY <2>4, <2>5
  <2>7. k[m] = IF s[m] \in these THEN Append(k[m - 1], s[m]) ELSE k[m - 1]
    BY <1>1, <2>4, Zenon
  <2>. QED  BY <1>2, <2>2, <2>6, <2>7, Zenon
<1>. QED  BY <1>3 DEF k

LEMMA KeptGrows ==
  ASSUME NEW s, NEW these, Len(s) \in Nat, NEW m \in 0..Len(s), NEW n \in 0..m
  PROVE  IsPrefix(Kept(s, these)[n], Kept(s, these)[m])
<1> DEFINE k == Kept(s, these)
           Bad == {i \in n..m : ~IsPrefix(k[n], k[i])}
<1>1. \A i \in 0..Len(s) : k[i] \in Seq(these)
  BY KeptType
<1> HIDE DEF k
<1>2. \A i \in 1..Len(s) :
        k[i] = IF s[i] \in these THEN Append(k[i - 1], s[i]) ELSE k[i - 1]
  BY KeptDef DEF k
<1>3. \A q \in Seq(these) : IsPrefix(q, q)
  BY DEF IsPrefix
<1>4. ASSUME NEW q \in Seq(these), NEW r \in Seq(these), NEW x \in these, IsPrefix(q, r)
      PROVE  IsPrefix(q, Append(r, x))
  BY <1>4 DEF IsPrefix
<1>5. ASSUME Bad # {} PROVE FALSE
  <2>1. PICK l \in Bad : \A i \in Bad : l <= i
    <3>1. Bad \in SUBSET Nat
      OBVIOUS
    <3>. HIDE DEF Bad
    <3>. QED  BY <1>5, <3>1, LeastExists
  <2>2. l \in n..m /\ ~IsPrefix(k[n], k[l])
    BY <2>1
  <2>3. l # n /\ n \in 0..Len(s)
    BY <1>1, <1>3, <2>2
  <2>4. l - 1 \in n..m /\ ~(l <= l - 1) /\ l \in 1..Len(s) /\ l - 1 \in 0..Len(s)
    BY <2>2, <2>3
  <2>5. l - 1 \notin Bad
    <3>. HIDE DEF Bad
    <3>. QED  BY <2>1, <2>4
  <2>6. IsPrefix(k[n], k[l - 1])
    BY <2>4, <2>5
  <2>. QED  BY <1>1, <1>2, <1>4, <2>2, <2>3, <2>4, <2>6
<1>6. m \in n..m
  OBVIOUS
<1>. QED  BY <1>5, <1>6 DEF k

(* What is appended changes nothing before it.                             *)
LEMMA KeptOfAppend ==
  ASSUME NEW T, NEW s \in Seq(T), NEW x \in T, NEW these, NEW n \in 0..Len(s)
  PROVE  Kept(Append(s, x), these)[n] = Kept(s, these)[n]
<1> DEFINE a == Append(s, x)
           j == Kept(a, these)
           k == Kept(s, these)
           Bad == {i \in 0..Len(s) : j[i] # k[i]}
<1>1. /\ Len(a) = Len(s) + 1 /\ Len(s) \in Nat /\ Len(a) \in Nat
      /\ \A i \in 1..Len(s) : a[i] = s[i] /\ i \in 1..Len(a)
  OBVIOUS
<1> HIDE DEF a
<1>2. /\ j[0] = <<>>
      /\ \A i \in 1..Len(a) :
           j[i] = IF a[i] \in these THEN Append(j[i - 1], a[i]) ELSE j[i - 1]
  BY <1>1, KeptDef
<1>3. /\ k[0] = <<>>
      /\ \A i \in 1..Len(s) :
           k[i] = IF s[i] \in these THEN Append(k[i - 1], s[i]) ELSE k[i - 1]
  BY <1>1, KeptDef
<1> HIDE DEF j, k
<1>4. ASSUME Bad # {} PROVE FALSE
  <2>1. PICK m \in Bad : \A i \in Bad : m <= i
    <3>1. Bad \in SUBSET Nat
      OBVIOUS
    <3>. HIDE DEF Bad
    <3>. QED  BY <1>4, <3>1, LeastExists
  <2>2. m \in 0..Len(s) /\ j[m] # k[m]
    BY <2>1
  <2>3. m # 0
    BY <1>2, <1>3, <2>2
  <2>4. m - 1 \in 0..Len(s) /\ ~(m <= m - 1) /\ m \in 1..Len(s)
    BY <2>2, <2>3
  <2>5. m - 1 \notin Bad
    <3>. HIDE DEF Bad
    <3>. QED  BY <2>1, <2>4
  <2>6. j[m - 1] = k[m - 1]
    BY <2>4, <2>5
  <2>. QED  BY <1>1, <1>2, <1>3, <2>2, <2>4, <2>6
<1>. QED  BY <1>4 DEF j, k, a

-----------------------------------------------------------------------------
(* Taking the head off the end of a sequence leaves a shorter end of it.   *)
Ends(part, whole) ==
  /\ Len(part) <= Len(whole)
  /\ \A i \in 1..Len(part) : part[i] = whole[Len(whole) - Len(part) + i]

LEMMA EndsTail ==
  ASSUME NEW T, NEW part \in Seq(T), NEW whole \in Seq(T), Ends(part, whole),
         part # <<>>
  PROVE  /\ Tail(part) \in Seq(T) /\ Head(part) \in T
         /\ Ends(Tail(part), whole)
         /\ Len(whole) - Len(part) \in 0..(Len(whole) - 1)
         /\ Len(whole) - Len(Tail(part)) = Len(whole) - Len(part) + 1
         /\ Head(part) = whole[Len(whole) - Len(part) + 1]
<1> DEFINE rest == Tail(part)
<1>1. /\ rest \in Seq(T) /\ Head(part) \in T /\ Head(part) = part[1]
      /\ Len(part) \in Nat \ {0} /\ Len(whole) \in Nat
      /\ Len(rest) = Len(part) - 1
      /\ \A i \in 1..Len(rest) : rest[i] = part[i + 1]
  OBVIOUS
<1> HIDE DEF rest
<1>2. Head(part) = whole[Len(whole) - Len(part) + 1]
  BY <1>1 DEF Ends
<1>3. ASSUME NEW i \in 1..Len(rest)
      PROVE  rest[i] = whole[Len(whole) - Len(rest) + i]
  <2>1. i + 1 \in 1..Len(part) /\ rest[i] = part[i + 1]
    BY <1>1
  <2>2. part[i + 1] = whole[Len(whole) - Len(part) + (i + 1)]
    BY <2>1 DEF Ends
  <2>3. Len(whole) - Len(part) + (i + 1) = Len(whole) - Len(rest) + i
    BY <1>1
  <2>. QED  BY <2>1, <2>2, <2>3
<1>4. Ends(rest, whole)
  BY <1>1, <1>3 DEF Ends
<1>5. Len(part) <= Len(whole)
  BY DEF Ends
<1>. QED  BY <1>1, <1>2, <1>4, <1>5 DEF rest

LEMMA EndsAppend ==
  ASSUME NEW T, NEW part \in Seq(T), NEW whole \in Seq(T), Ends(part, whole),
         NEW x \in T
  PROVE  /\ Append(part, x) \in Seq(T) /\ Append(whole, x) \in Seq(T)
         /\ Ends(Append(part, x), Append(whole, x))
         /\ Len(Append(whole, x)) - Len(Append(part, x)) = Len(whole) - Len(part)
         /\ Len(whole) - Len(part) \in 0..Len(whole)
<1> DEFINE p == Append(part, x)
           w == Append(whole, x)
<1>1. /\ p \in Seq(T) /\ w \in Seq(T) /\ Len(part) \in Nat /\ Len(whole) \in Nat
      /\ Len(p) = Len(part) + 1 /\ Len(w) = Len(whole) + 1
      /\ p[Len(part) + 1] = x /\ w[Len(whole) + 1] = x
  OBVIOUS
<1>2. /\ \A i \in 1..Len(part) : p[i] = part[i]
      /\ \A i \in 1..Len(whole) : w[i] = whole[i]
  OBVIOUS
<1> HIDE DEF p, w
<1>3. ASSUME NEW i \in 1..Len(p)
      PROVE  p[i] = w[Len(w) - Len(p) + i]
  <2>1. CASE i = Len(part) + 1
    <3>1. Len(w) - Len(p) + i = Len(whole) + 1
      BY <1>1, <2>1
    <3>. QED  BY <1>1, <2>1, <3>1
  <2>2. CASE i # Len(part) + 1
    <3>1. i \in 1..Len(part)
      BY <1>1, <2>2
    <3>2. Len(whole) - Len(part) + i \in 1..Len(whole)
      BY <1>1, <3>1 DEF Ends
    <3>3. Len(w) - Len(p) + i = Len(whole) - Len(part) + i
      BY <1>1, <3>1
    <3>. QED  BY <1>2, <3>1, <3>2, <3>3 DEF Ends
  <2>. QED  BY <2>1, <2>2
<1>4. Len(part) <= Len(whole)
  BY DEF Ends
<1>5. Ends(p, w)
  BY <1>1, <1>3, <1>4 DEF Ends
<1>6. Len(w) - Len(p) = Len(whole) - Len(part) /\ Len(whole) - Len(part) \in 0..Len(whole)
  BY <1>1, <1>4
<1>. QED  BY <1>1, <1>5, <1>6 DEF p, w

LEMMA EndsOfIt ==
  ASSUME NEW T, NEW whole \in Seq(T)
  PROVE  /\ Ends(whole, whole) /\ Ends(<<>>, whole)
         /\ Len(whole) \in Nat /\ Len(whole) - Len(whole) = 0
         /\ Len(<<>>) = 0
  BY DEF Ends

(* One more element is one more step of Kept.                              *)
LEMMA KeptNext ==
  ASSUME NEW T, NEW s \in Seq(T), NEW these, NEW n \in 0..(Len(s) - 1)
  PROVE  Kept(s, these)[n + 1] = IF s[n + 1] \in these
                                   THEN Append(Kept(s, these)[n], s[n + 1])
                                   ELSE Kept(s, these)[n]
<1>1. Len(s) \in Nat
  OBVIOUS
<1>2. n + 1 \in 1..Len(s) /\ (n + 1) - 1 = n
  BY <1>1
<1>. QED  BY <1>1, <1>2, KeptDef

-----------------------------------------------------------------------------
(* The inductive invariant.  The lines the thread lets through:            *)
Shown == {l \in Lines : ~Leaks(l)}

GpgDecryptTypes ==
  /\ pc \in {"open", "spawn", "write", "wait", "join", "returned"}
  /\ result \in {Nothing, Error} \cup {Code(n) : n \in Nat}
  /\ program \in Seq(Instructions) /\ job \in Seq(Instructions)
  /\ code \in Nat
  /\ gpg \in {"none", "running", "exited", "killed"}
  /\ pipe \in Seq(Lines) /\ emitted \in Seq(Lines)
  /\ forwarded \in Seq(Shown)
  /\ reader \in {"none", "reading", "done"}
  /\ output \in BOOLEAN

(* Where the client is, and what it knows of the other two there.          *)
WhereClientIs ==
  /\ reader = "none" <=> gpg = "none"
  /\ pc \in {"open", "spawn"} => gpg = "none"
  /\ pc \in {"write", "wait", "join"} => gpg # "none"
  /\ pc \in {"join", "returned"} => gpg # "running"
  /\ HasCode => pc = "returned" /\ reader = "done"
  /\ result = Code(0) => gpg = "exited" /\ code = 0

(* The pipe holds the last lines gpg wrote, and the thread has been        *)
(* through all the others; once it has stopped it is where it was then,    *)
(* which is the end unless a line was not text.                            *)
WhereReaderIs ==
  /\ reader = "none" => emitted = <<>> /\ pipe = <<>> /\ forwarded = <<>>
  /\ reader = "reading" =>
       /\ Ends(pipe, emitted)
       /\ forwarded = Kept(emitted, Shown)[Len(emitted) - Len(pipe)]
  /\ reader = "done" =>
       /\ \E n \in 0..Len(emitted) : forwarded = Kept(emitted, Shown)[n]
       /\ \/ \E i \in 1..Len(emitted) : emitted[i] = "bytes"
          \/ /\ gpg \in {"exited", "killed"}
             /\ forwarded = Kept(emitted, Shown)[Len(emitted)]

(* What gpg has still to do is the end of its program, and the file holds  *)
(* the plaintext of the rest of it.                                        *)
WhereGpgIs ==
  /\ Ends(program, job)
  /\ gpg = "none" => program = job
  /\ gpg = "exited" /\ code = 0 => program = <<>>
  /\ pc = "spawn" /\ output => file = <<>>
  /\ output /\ gpg # "none" =>
       file = Kept(job, {"plain"})[Len(job) - Len(program)]

GpgDecryptInv ==
  GpgDecryptTypes /\ WhereClientIs /\ WhereReaderIs /\ WhereGpgIs

LEMMA GpgDecryptInvInit ==
  ASSUME Init PROVE GpgDecryptInv
<1>1. GpgDecryptTypes
  <2>1. program \in Seq(Instructions) /\ code \in Nat
    BY GpgDecryptAssumption DEF Init
  <2>2. <<>> \in Seq(Lines) /\ <<>> \in Seq(Shown)
    OBVIOUS
  <2>. QED  BY <2>1, <2>2 DEF Init, GpgDecryptTypes, Nothing
<1>2. WhereClientIs
  BY DEF Init, WhereClientIs, HasCode, Nothing, Code
<1>3. WhereReaderIs
  BY DEF Init, WhereReaderIs
<1>4. WhereGpgIs
  BY <1>1, EndsOfIt DEF Init, WhereGpgIs, GpgDecryptTypes
<1>. QED  BY <1>1, <1>2, <1>3, <1>4 DEF GpgDecryptInv

(* Every step is one of these.                                             *)
LEMMA Steps ==
  ASSUME [Next]_vars
  PROVE  \/ Open \/ Spawn \/ WriteKey \/ Wait \/ Join
         \/ ReadLine \/ StopReading
         \/ \E line \in Lines : Emit(line)
         \/ ReadKey \/ WritePlain \/ Exit \/ Killed
         \/ UNCHANGED vars
  BY DEF Next, Client, Reader, Gpg, Done

LEMMA TypesStep ==
  ASSUME GpgDecryptInv, [Next]_vars
  PROVE  GpgDecryptTypes'
<1> USE DEF GpgDecryptTypes
<1>0. GpgDecryptTypes /\ (reader = "reading" => Ends(pipe, emitted)) /\ Ends(program, job)
  BY DEF GpgDecryptInv, WhereReaderIs, WhereGpgIs
<1>1. Status \in Nat
  BY <1>0 DEF Status
<1>2. ASSUME program # <<>> PROVE Tail(program) \in Seq(Instructions)
  BY <1>0, <1>2, EndsTail
<1>3. CASE Open
  BY <1>0, <1>3 DEF Open, child, Return
<1>4. CASE Spawn
  BY <1>0, <1>4 DEF Spawn, Return
<1>5. CASE WriteKey
  BY <1>0, <1>5 DEF WriteKey, child, Return
<1>6. CASE Wait
  BY <1>0, <1>6 DEF Wait, child
<1>7. CASE Join
  <2>1. Code(Status) \in {Code(n) : n \in Nat}
    BY <1>1
  <2>. QED  BY <1>0, <1>7, <2>1 DEF Join, child, Return
<1>8. CASE ReadLine
  <2>1. Tail(pipe) \in Seq(Lines) /\ Head(pipe) \in Lines
    BY <1>0, <1>8, EndsTail DEF ReadLine
  <2>2. ASSUME ~Leaks(Head(pipe)) PROVE Append(forwarded, Head(pipe)) \in Seq(Shown)
    <3>1. Head(pipe) \in Shown
      BY <2>1, <2>2 DEF Shown
    <3>2. \A q \in Seq(Shown), x \in Shown : Append(q, x) \in Seq(Shown)
      <4>1. ASSUME NEW S, NEW q \in Seq(S), NEW x \in S PROVE Append(q, x) \in Seq(S)
        OBVIOUS
      <4>. QED  BY <4>1
    <3>. QED  BY <1>0, <3>1, <3>2
  <2>. QED  BY <1>0, <1>8, <2>1, <2>2 DEF ReadLine, client, child
<1>9. CASE StopReading
  <2>1. <<>> \in Seq(Lines)
    OBVIOUS
  <2>. QED  BY <1>0, <1>9, <2>1 DEF StopReading, client, child
<1>10. ASSUME NEW line \in Lines, Emit(line) PROVE GpgDecryptTypes'
  <2>1. Append(emitted, line) \in Seq(Lines) /\ Append(pipe, line) \in Seq(Lines)
    BY <1>0
  <2>. QED  BY <1>0, <1>2, <1>10, <2>1 DEF Emit, Doing, client
<1>11. CASE ReadKey
  <2>1. /\ program # <<>>
        /\ \/ UNCHANGED <<code, gpg>> /\ program' = Tail(program)
           \/ gpg' = "exited" /\ code' = 2 /\ UNCHANGED program
        /\ UNCHANGED <<pc, result, output, job, pipe, reader, emitted, forwarded>>
    BY <1>11 DEF ReadKey, Doing, client
  <2>2. program' \in Seq(Instructions) /\ code' \in Nat
    <3>1. Tail(program) \in Seq(Instructions)
      BY <1>2, <2>1
    <3>2. program' \in {program, Tail(program)} /\ code' \in {code, 2}
      BY <2>1
    <3>3. 2 \in Nat
      OBVIOUS
    <3>4. program \in Seq(Instructions) /\ code \in Nat
      BY <1>0
    <3>. QED  BY <3>1, <3>2, <3>3, <3>4
  <2>3. gpg' \in {"none", "running", "exited", "killed"}
    BY <1>0, <2>1
  <2>. QED  BY <1>0, <2>1, <2>2, <2>3
<1>12. CASE WritePlain
  BY <1>0, <1>2, <1>12 DEF WritePlain, Doing, client
<1>13. CASE Exit
  BY <1>0, <1>13 DEF Exit, client
<1>14. CASE Killed
  BY <1>0, <1>14 DEF Killed, client
<1>15. CASE UNCHANGED vars
  BY <1>0, <1>15 DEF vars, client, child
<1>. HIDE DEF GpgDecryptTypes
<1>. QED
  BY <1>3, <1>4, <1>5, <1>6, <1>7, <1>8, <1>9, <1>10, <1>11, <1>12, <1>13, <1>14,
     <1>15, Steps

LEMMA ClientStep ==
  ASSUME GpgDecryptInv, [Next]_vars
  PROVE  WhereClientIs'
<1> USE DEF WhereClientIs, HasCode
<1>0. GpgDecryptTypes /\ WhereClientIs
  BY DEF GpgDecryptInv
<1>1. /\ Nothing.is # "code" /\ Error.is # "code"
      /\ \A n : Code(n).is = "code" /\ Error # Code(n) /\ Nothing # Code(n)
      /\ \A n : Code(n) = Code(0) => n = 0
  <2>1. \A n : Code(n).code = n
    BY DEF Code
  <2>. QED  BY <2>1 DEF Nothing, Error, Code
<1>2. Nothing = result => ~HasCode
  BY <1>1
<1>3. CASE Open
  BY <1>0, <1>1, <1>3 DEF Open, child, Return, GpgDecryptTypes
<1>4. CASE Spawn
  BY <1>0, <1>1, <1>4 DEF Spawn, Return, GpgDecryptTypes
<1>5. CASE WriteKey
  BY <1>0, <1>1, <1>5 DEF WriteKey, child, Return, GpgDecryptTypes
<1>6. CASE Wait
  BY <1>0, <1>6 DEF Wait, child
<1>7. CASE Join
  <2>1. gpg \in {"exited", "killed"}
    BY <1>0, <1>7 DEF Join, GpgDecryptTypes
  <2>2. Code(Status) = Code(0) => gpg = "exited" /\ code = 0
    BY <1>1, <2>1 DEF Status
  <2>. QED  BY <1>0, <1>1, <1>7, <2>1, <2>2 DEF Join, child, Return
<1>8. CASE ReadLine
  BY <1>0, <1>8 DEF ReadLine, client, child
<1>9. CASE StopReading
  BY <1>0, <1>9 DEF StopReading, client, child
<1>10. ASSUME NEW line \in Lines, Emit(line) PROVE WhereClientIs'
  BY <1>0, <1>10 DEF Emit, Doing, client
<1>11. CASE ReadKey
  BY <1>0, <1>11 DEF ReadKey, Doing, client
<1>12. CASE WritePlain
  BY <1>0, <1>12 DEF WritePlain, Doing, client
<1>13. CASE Exit
  BY <1>0, <1>13 DEF Exit, client
<1>14. CASE Killed
  BY <1>0, <1>14 DEF Killed, client
<1>15. CASE UNCHANGED vars
  BY <1>0, <1>15 DEF vars, client, child
<1>. HIDE DEF WhereClientIs
<1>. QED
  BY <1>3, <1>4, <1>5, <1>6, <1>7, <1>8, <1>9, <1>10, <1>11, <1>12, <1>13, <1>14,
     <1>15, Steps

(* A line the thread lets through is one of those shown.                   *)
LEMMA LetThrough ==
  ASSUME NEW line \in Lines
  PROVE  line \in Shown <=> ~Leaks(line)
  BY DEF Shown

LEMMA ReaderStep ==
  ASSUME GpgDecryptInv, [Next]_vars
  PROVE  WhereReaderIs'
<1>0. /\ GpgDecryptTypes /\ WhereClientIs /\ WhereReaderIs
      /\ emitted \in Seq(Lines) /\ pipe \in Seq(Lines) /\ Len(emitted) \in Nat
  BY DEF GpgDecryptInv, GpgDecryptTypes
<1> DEFINE kept == Kept(emitted, Shown)
           seen == Len(emitted) - Len(pipe)
<1>1. ASSUME UNCHANGED <<pipe, reader, emitted, forwarded>>,
             gpg \in {"exited", "killed"} => UNCHANGED gpg
      PROVE  WhereReaderIs'
  <2>1. gpg \in {"exited", "killed"} => gpg' \in {"exited", "killed"}
    BY <1>1
  <2>. QED  BY <1>0, <1>1, <2>1 DEF WhereReaderIs
<1>2. CASE Open
  BY <1>1, <1>2 DEF Open, child
<1>3. CASE Spawn
  <2>1. CASE UNCHANGED <<gpg, reader>>
    BY <1>1, <1>3, <2>1 DEF Spawn
  <2>2. CASE reader' = "reading"
    <3>1. reader = "none"
      BY <1>0, <1>3 DEF WhereClientIs, Spawn
    <3>2. emitted = <<>> /\ pipe = <<>> /\ forwarded = <<>>
      BY <1>0, <3>1 DEF WhereReaderIs
    <3>3. UNCHANGED <<pipe, emitted, forwarded>>
      BY <1>3 DEF Spawn
    <3>4. kept[0] = <<>>
      BY <1>0, KeptDef
    <3>5. Ends(pipe, emitted) /\ seen = 0
      BY <1>0, <3>2, EndsOfIt
    <3>6. forwarded = kept[seen]
      BY <3>2, <3>4, <3>5
    <3>7. Ends(pipe', emitted') /\ forwarded' = Kept(emitted', Shown)[Len(emitted') - Len(pipe')]
      BY <3>3, <3>5, <3>6
    <3>. QED  BY <2>2, <3>7 DEF WhereReaderIs
  <2>. QED  BY <1>3, <2>1, <2>2 DEF Spawn
<1>4. CASE WriteKey
  BY <1>1, <1>4 DEF WriteKey, child
<1>5. CASE Wait
  BY <1>1, <1>5 DEF Wait, child
<1>6. CASE Join
  BY <1>1, <1>6 DEF Join, child
<1>7. CASE ReadLine
  <2>1. /\ reader = "reading" /\ reader' = "reading" /\ pipe # <<>>
        /\ pipe' = Tail(pipe) /\ UNCHANGED emitted
        /\ forwarded' = IF Leaks(Head(pipe)) THEN forwarded
                                             ELSE Append(forwarded, Head(pipe))
    BY <1>7 DEF ReadLine
  <2>2. Ends(pipe, emitted) /\ forwarded = kept[seen]
    BY <1>0, <2>1 DEF WhereReaderIs
  <2>3. /\ Ends(Tail(pipe), emitted) /\ seen \in 0..(Len(emitted) - 1)
        /\ Len(emitted) - Len(Tail(pipe)) = seen + 1
        /\ Head(pipe) = emitted[seen + 1] /\ Head(pipe) \in Lines
    BY <1>0, <2>1, <2>2, EndsTail
  <2>4. kept[seen + 1] = IF Head(pipe) \in Shown THEN Append(kept[seen], Head(pipe))
                                                 ELSE kept[seen]
    BY <1>0, <2>3, KeptNext
  <2>5. forwarded' = kept[seen + 1]
    BY <2>1, <2>2, <2>3, <2>4, LetThrough
  <2>6. Ends(pipe', emitted') /\ forwarded' = Kept(emitted', Shown)[Len(emitted') - Len(pipe')]
    BY <2>1, <2>3, <2>5
  <2>. QED  BY <2>1, <2>6 DEF WhereReaderIs
<1>8. CASE StopReading
  <2>1. /\ reader = "reading" /\ reader' = "done" /\ UNCHANGED <<gpg, emitted, forwarded>>
        /\ \/ pipe # <<>> /\ Head(pipe) = "bytes"
           \/ pipe = <<>> /\ gpg \in {"exited", "killed"}
    BY <1>8 DEF StopReading, child
  <2>2. Ends(pipe, emitted) /\ forwarded = kept[seen]
    BY <1>0, <2>1 DEF WhereReaderIs
  <2>3. /\ \E n \in 0..Len(emitted) : forwarded = kept[n]
        /\ \/ \E i \in 1..Len(emitted) : emitted[i] = "bytes"
           \/ gpg \in {"exited", "killed"} /\ forwarded = kept[Len(emitted)]
    <3>1. CASE pipe # <<>> /\ Head(pipe) = "bytes"
      <4>1. /\ seen \in 0..(Len(emitted) - 1)
            /\ "bytes" = emitted[seen + 1]
        BY <1>0, <2>2, <3>1, EndsTail
      <4>2. seen \in 0..Len(emitted) /\ seen + 1 \in 1..Len(emitted)
        BY <1>0, <4>1
      <4>. QED  BY <2>2, <4>1, <4>2
    <3>2. CASE pipe = <<>> /\ gpg \in {"exited", "killed"}
      <4>1. seen = Len(emitted) /\ Len(emitted) \in 0..Len(emitted)
        BY <1>0, <3>2
      <4>. QED  BY <2>2, <3>2, <4>1
    <3>. QED  BY <2>1, <3>1, <3>2
  <2>4. /\ \E n \in 0..Len(emitted') : forwarded' = Kept(emitted', Shown)[n]
        /\ \/ \E i \in 1..Len(emitted') : emitted'[i] = "bytes"
           \/ /\ gpg' \in {"exited", "killed"}
              /\ forwarded' = Kept(emitted', Shown)[Len(emitted')]
    BY <2>1, <2>3
  <2>. QED  BY <2>1, <2>4 DEF WhereReaderIs
<1>9. ASSUME NEW line \in Lines, Emit(line) PROVE WhereReaderIs'
  <2> DEFINE now == Append(emitted, line)
  <2>1. /\ gpg = "running" /\ emitted' = now /\ UNCHANGED <<reader, forwarded>>
        /\ \/ reader = "reading" /\ pipe' = Append(pipe, line)
           \/ reader = "done"
    BY <1>9 DEF Emit, Doing
  <2>2. \A n \in 0..Len(emitted) : Kept(now, Shown)[n] = kept[n]
    BY <1>0, KeptOfAppend
  <2>3. /\ Len(now) = Len(emitted) + 1 /\ Len(emitted) \in Nat
        /\ \A i \in 1..Len(emitted) : now[i] = emitted[i]
    BY <1>0
  <2>4. CASE reader = "reading" /\ pipe' = Append(pipe, line)
    <3>1. Ends(pipe, emitted) /\ forwarded = kept[seen]
      BY <1>0, <2>4 DEF WhereReaderIs
    <3>2. /\ Ends(Append(pipe, line), now) /\ seen \in 0..Len(emitted)
          /\ Len(now) - Len(Append(pipe, line)) = seen
      BY <1>0, <3>1, EndsAppend
    <3>3. forwarded = Kept(now, Shown)[seen]
      BY <2>2, <3>1, <3>2
    <3> HIDE DEF now, seen
    <3>4. Ends(pipe', emitted') /\ forwarded' = Kept(emitted', Shown)[Len(emitted') - Len(pipe')]
      BY <2>1, <2>4, <3>2, <3>3
    <3>. QED  BY <2>1, <2>4, <3>4 DEF WhereReaderIs
  <2>5. CASE reader = "done"
    <3>1. /\ \E n \in 0..Len(emitted) : forwarded = kept[n]
          /\ \E i \in 1..Len(emitted) : emitted[i] = "bytes"
      BY <1>0, <2>1, <2>5 DEF WhereReaderIs
    <3>2. PICK n \in 0..Len(emitted) : forwarded = kept[n]
      BY <3>1
    <3>3. PICK i \in 1..Len(emitted) : emitted[i] = "bytes"
      BY <3>1
    <3>4. n \in 0..Len(now) /\ i \in 1..Len(now)
      BY <2>3
    <3>5. forwarded = Kept(now, Shown)[n] /\ now[i] = "bytes"
      BY <2>2, <2>3, <3>2, <3>3
    <3> HIDE DEF now, kept
    <3>6. /\ \E m \in 0..Len(emitted') : forwarded' = Kept(emitted', Shown)[m]
          /\ \E m \in 1..Len(emitted') : emitted'[m] = "bytes"
      BY <2>1, <3>4, <3>5
    <3>. QED  BY <2>1, <2>5, <3>6 DEF WhereReaderIs
  <2>. QED  BY <2>1, <2>4, <2>5
<1>10. CASE ReadKey
  BY <1>1, <1>10 DEF ReadKey, Doing
<1>11. CASE WritePlain
  BY <1>1, <1>11 DEF WritePlain, Doing
<1>12. CASE Exit
  BY <1>1, <1>12 DEF Exit
<1>13. CASE Killed
  BY <1>1, <1>13 DEF Killed
<1>14. CASE UNCHANGED vars
  BY <1>1, <1>14 DEF vars, child
<1>. QED
  BY <1>2, <1>3, <1>4, <1>5, <1>6, <1>7, <1>8, <1>9, <1>10, <1>11, <1>12, <1>13,
     <1>14, Steps

LEMMA GpgStep ==
  ASSUME GpgDecryptInv, [Next]_vars
  PROVE  WhereGpgIs'
<1>0. /\ GpgDecryptTypes /\ WhereClientIs /\ WhereGpgIs /\ Ends(program, job)
      /\ job \in Seq(Instructions) /\ program \in Seq(Instructions) /\ Len(job) \in Nat
  BY DEF GpgDecryptInv, GpgDecryptTypes, WhereGpgIs
<1> DEFINE written == Kept(job, {"plain"})
           done == Len(job) - Len(program)
<1>1. ASSUME UNCHANGED <<program, code, gpg, job, output, file>>,
             pc' = "spawn" => pc = "spawn"
      PROVE  WhereGpgIs'
  BY <1>0, <1>1 DEF WhereGpgIs
<1>2. ASSUME UNCHANGED <<program, code, job, output, file, pc>>, gpg = "running",
             \/ gpg' = "killed"
             \/ gpg' = "exited" /\ program = <<>>
      PROVE  WhereGpgIs'
  BY <1>0, <1>2 DEF WhereGpgIs
<1>3. ASSUME UNCHANGED <<code, gpg, job, output, pc>>, gpg = "running",
             program # <<>>, program' = Tail(program),
             file' = IF Head(program) = "plain" /\ output
                       THEN Append(file, "plain") ELSE file
      PROVE  WhereGpgIs'
  <2>1. /\ Ends(Tail(program), job) /\ done \in 0..(Len(job) - 1)
        /\ Len(job) - Len(Tail(program)) = done + 1
        /\ Head(program) = job[done + 1]
    BY <1>0, <1>3, EndsTail
  <2>2. written[done + 1] = IF Head(program) = "plain" THEN Append(written[done], "plain")
                                                      ELSE written[done]
    BY <1>0, <2>1, KeptNext
  <2>3. output => file = written[done]
    BY <1>0, <1>3 DEF WhereGpgIs
  <2>4. output => file' = written[done + 1]
    BY <1>3, <2>2, <2>3
  <2>5. /\ Ends(program', job')
        /\ output' => file' = Kept(job', {"plain"})[Len(job') - Len(program')]
    BY <1>3, <2>1, <2>4
  <2>6. gpg' = "running" /\ pc' # "spawn"
    BY <1>0, <1>3 DEF WhereClientIs
  <2>. QED  BY <2>5, <2>6 DEF WhereGpgIs
<1>4. CASE Open
  <2>1. gpg = "none" /\ UNCHANGED <<program, code, gpg, job, output>>
    BY <1>0, <1>4 DEF Open, child, WhereClientIs
  <2>2. pc' = "spawn" /\ output => file' = <<>>
    BY <1>4 DEF Open, Return
  <2>. QED  BY <1>0, <2>1, <2>2 DEF WhereGpgIs
<1>5. CASE Spawn
  <2>1. /\ gpg = "none" /\ gpg' \in {"none", "running"} /\ pc' # "spawn"
        /\ UNCHANGED <<program, code, job, output, file>>
        /\ output => file = <<>>
        /\ program = job
    BY <1>0, <1>5 DEF Spawn, Return, WhereClientIs, WhereGpgIs
  <2>2. done = 0 /\ written[0] = <<>>
    BY <1>0, <2>1, KeptDef
  <2>3. output' => file' = Kept(job', {"plain"})[Len(job') - Len(program')]
    BY <2>1, <2>2
  <2>. QED  BY <1>0, <2>1, <2>3 DEF WhereGpgIs
<1>6. CASE WriteKey
  BY <1>1, <1>6 DEF WriteKey, child, Return
<1>7. CASE Wait
  BY <1>1, <1>7 DEF Wait, child
<1>8. CASE Join
  BY <1>1, <1>8 DEF Join, child, Return
<1>9. CASE ReadLine
  BY <1>1, <1>9 DEF ReadLine, client, child
<1>10. CASE StopReading
  BY <1>1, <1>10 DEF StopReading, client, child
<1>11. ASSUME NEW line \in Lines, Emit(line) PROVE WhereGpgIs'
  <2>1. /\ gpg = "running" /\ program # <<>> /\ Head(program) # "plain"
        /\ UNCHANGED <<code, job, output, file, pc>>
        /\ \/ gpg' = gpg /\ program' = Tail(program)
           \/ gpg' = "killed" /\ program' = program
    BY <1>11 DEF Emit, Doing, client, Lines
  <2>. QED  BY <1>2, <1>3, <2>1
<1>12. CASE ReadKey
  <2>1. /\ gpg = "running" /\ program # <<>> /\ Head(program) # "plain"
        /\ UNCHANGED <<job, output, file, pc>>
        /\ \/ UNCHANGED <<code, gpg>> /\ program' = Tail(program)
           \/ gpg' = "exited" /\ code' = 2 /\ program' = program
    BY <1>12 DEF ReadKey, Doing, client
  <2>2. CASE UNCHANGED <<code, gpg>> /\ program' = Tail(program)
    BY <1>3, <2>1, <2>2
  <2>3. CASE gpg' = "exited" /\ code' = 2 /\ program' = program
    BY <1>0, <2>1, <2>3 DEF WhereGpgIs
  <2>. QED  BY <2>1, <2>2, <2>3
<1>13. CASE WritePlain
  <2>1. /\ gpg = "running" /\ program # <<>> /\ Head(program) = "plain"
        /\ UNCHANGED <<code, gpg, job, output, pc>> /\ program' = Tail(program)
        /\ file' = IF output THEN Append(file, "plain") ELSE file
    BY <1>13 DEF WritePlain, Doing, client
  <2>. QED  BY <1>3, <2>1
<1>14. CASE Exit
  BY <1>2, <1>14 DEF Exit, client
<1>15. CASE Killed
  BY <1>2, <1>15 DEF Killed, client
<1>16. CASE UNCHANGED vars
  BY <1>1, <1>16 DEF vars, client, child
<1>. QED
  BY <1>4, <1>5, <1>6, <1>7, <1>8, <1>9, <1>10, <1>11, <1>12, <1>13, <1>14,
     <1>15, <1>16, Steps

LEMMA GpgDecryptAlwaysInv ==
  Spec => []GpgDecryptInv
<1>1. Init => GpgDecryptInv
  BY GpgDecryptInvInit
<1>2. GpgDecryptInv /\ [Next]_vars => GpgDecryptInv'
  BY TypesStep, ClientStep, ReaderStep, GpgStep DEF GpgDecryptInv
<1>. QED  BY <1>1, <1>2, PTL DEF Spec

-----------------------------------------------------------------------------
(* Forwarding, whatever gpg writes and however the three interleave: what  *)
(* the thread has forwarded is a beginning of what it should, without the  *)
(* line of the key, and all of it once decrypt returns a code, unless gpg  *)
(* wrote a line that is not text.                                          *)
THEOREM ForwardingAlways ==
  Spec => []Forwarding
<1>1. ASSUME GpgDecryptInv PROVE Forwarding
  <2>1. /\ GpgDecryptTypes /\ WhereReaderIs /\ WhereClientIs
        /\ Len(emitted) \in Nat /\ emitted \in Seq(Lines) /\ pipe \in Seq(Lines)
    BY <1>1 DEF GpgDecryptInv, GpgDecryptTypes
  <2>2. WithoutKey(emitted) = Kept(emitted, Shown)[Len(emitted)]
    BY DEF WithoutKey, Only, Shown
  <2>3. \E n \in 0..Len(emitted) : forwarded = Kept(emitted, Shown)[n]
    <3>1. CASE reader = "none"
      <4>1. forwarded = <<>> /\ 0 \in 0..Len(emitted)
        BY <2>1, <3>1 DEF WhereReaderIs
      <4>2. Kept(emitted, Shown)[0] = <<>>
        BY <2>1, KeptDef
      <4>. QED  BY <4>1, <4>2
    <3>2. CASE reader = "reading"
      <4>1. Len(emitted) - Len(pipe) \in 0..Len(emitted)
        BY <2>1, <3>2 DEF WhereReaderIs, Ends
      <4>. QED  BY <2>1, <3>2, <4>1 DEF WhereReaderIs
    <3>3. CASE reader = "done"
      BY <2>1, <3>3 DEF WhereReaderIs
    <3>. QED  BY <2>1, <3>1, <3>2, <3>3 DEF GpgDecryptTypes
  <2>4. IsPrefix(forwarded, WithoutKey(emitted))
    <3>1. PICK n \in 0..Len(emitted) : forwarded = Kept(emitted, Shown)[n]
      BY <2>3
    <3>2. Len(emitted) \in 0..Len(emitted)
      BY <2>1
    <3>. QED  BY <2>1, <2>2, <3>1, <3>2, KeptGrows
  <2>5. \A i \in DOMAIN forwarded : forwarded[i] # "seskey"
    <3>1. \A i \in DOMAIN forwarded : forwarded[i] \in Shown
      BY <2>1 DEF GpgDecryptTypes
    <3>. QED  BY <3>1 DEF Shown, Leaks
  <2>6. ASSUME HasCode, "bytes" \notin Range(emitted)
        PROVE  forwarded = WithoutKey(emitted)
    <3>1. \A i \in 1..Len(emitted) : emitted[i] # "bytes"
      BY <2>1, <2>6 DEF Range
    <3>2. reader = "done"
      BY <2>1, <2>6 DEF WhereClientIs
    <3>. QED  BY <2>1, <2>2, <3>1, <3>2 DEF WhereReaderIs
  <2>. QED  BY <2>4, <2>5, <2>6 DEF Forwarding
<1>. QED  BY <1>1, GpgDecryptAlwaysInv, PTL

(* An exit code of zero, for every program gpg may run: it comes back only *)
(* from a gpg that got to the end of its program, whose plaintext is then  *)
(* all in the output file, and nothing else.                               *)
THEOREM ZeroAlwaysMeansDone ==
  Spec => []ZeroMeansDone
<1>1. ASSUME GpgDecryptInv PROVE ZeroMeansDone
  <2>1. ASSUME result = Code(0)
        PROVE  /\ gpg = "exited" /\ code = 0 /\ program = <<>>
               /\ output => file = Plain(job)
    <3>1. gpg = "exited" /\ code = 0 /\ program = <<>>
      BY <1>1, <2>1 DEF GpgDecryptInv, WhereClientIs, WhereGpgIs
    <3>2. job \in Seq(Instructions)
      BY <1>1 DEF GpgDecryptInv, GpgDecryptTypes
    <3>3. Len(job) - Len(program) = Len(job)
      BY <3>1, <3>2
    <3>4. output => file = Kept(job, {"plain"})[Len(job)]
      BY <1>1, <3>1, <3>3 DEF GpgDecryptInv, WhereGpgIs
    <3>. QED  BY <3>1, <3>4 DEF Plain, Only
  <2>. QED  BY <2>1 DEF ZeroMeansDone
<1>. QED  BY <1>1, GpgDecryptAlwaysInv, PTL

(* When decrypt has returned, on every path it can take, gpg is not        *)
(* running, so that no step of anyone's writes to the output file.         *)
THEOREM NothingWritesLate ==
  Spec => NoLateWrites
<1>1. ASSUME GpgDecryptInv, [Next]_vars PROVE [pc = "returned" => UNCHANGED file]_vars
  <2>1. ASSUME pc = "returned" PROVE UNCHANGED file
    <3>1. gpg # "running"
      BY <1>1, <2>1 DEF GpgDecryptInv, WhereClientIs
    <3>2. ~Open
      BY <2>1 DEF Open
    <3>. QED
      BY <1>1, <3>1, <3>2, Steps
         DEF Spawn, WriteKey, Wait, Join, ReadLine, StopReading, Emit, ReadKey,
             WritePlain, Exit, Killed, Doing, vars
  <2>. QED  BY <2>1
<1>. QED  BY <1>1, GpgDecryptAlwaysInv, PTL DEF Spec, NoLateWrites
=============================================================================
