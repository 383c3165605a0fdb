--------------------------- MODULE TeamKeyProofs ---------------------------
(***************************************************************************)
(* Proofs about TeamKey, for any seeds, paths, clocks, number of hosts and *)
(* of counters, and any HKDF.                                              *)
(***************************************************************************)
EXTENDS TeamKey, TLAPS

(* derive_scalar's buffer holds the salt of the last try, and every salt   *)
(* before the counter was out of range.                                    *)
Loop(h) ==
  pc[h] \in {"primary", "subkey"} =>
    /\ salt[h] = SaltAt(PathOf(pc[h]), IF counter[h] = 0 THEN 0 ELSE counter[h] - 1)
    /\ Reaches(seed[h], PathOf(pc[h]), counter[h])

(* What ScalarsExact says of one host.                                     *)
Exact(h) ==
  /\ pc[h] \in {"subkey", "sign", "ready"} =>
       FirstScalar(seed[h], PrimaryPath, scalars[h].primary)
  /\ pc[h] \in {"sign", "ready"} =>
       FirstScalar(seed[h], SubkeyPath, scalars[h].subkey)
  /\ pc[h] = "exhausted" =>
       \E path \in Paths : Reaches(seed[h], path, MaxCounter + 1)

(* A key is made of the scalars beside it.                                 *)
KeyRight(h) ==
  pc[h] = "ready" =>
    teamKey[h] = KeyOf(Key(scalars[h].primary), Key(scalars[h].subkey))

HostRight(h) == Loop(h) /\ Exact(h) /\ KeyRight(h)

Text(kind, key) ==
  CASE kind = "publicKey" -> key
    [] kind = "revocation" -> RevocationCertificate(key)
    [] kind = "keyId" -> key.subkey

(* What was published is read off the one key the seed stands for.         *)
PublishedRight(e) ==
  /\ e.kind \in {"publicKey", "revocation", "keyId"} /\ e.seed \in Seeds
  /\ \E p, q : /\ FirstScalar(e.seed, PrimaryPath, p)
               /\ FirstScalar(e.seed, SubkeyPath, q)
               /\ e.text = Text(e.kind, KeyOf(Key(p), Key(q)))
PublishedInv == \A e \in published : PublishedRight(e)

HostInv == \A h \in Hosts : HostRight(h)
Inv == TypeOK /\ HostInv /\ PublishedInv

-----------------------------------------------------------------------------
(* The salts of one path and of the other are never the same.              *)
LEMMA SaltsApart ==
  ASSUME NEW m \in Counters, NEW n \in Counters
  PROVE  SaltAt(PrimaryPath, m) # SaltAt(SubkeyPath, n)
<1> USE TeamKeyAssumption DEF SaltAt, Counters
<1>1. CASE m = 0 /\ n = 0
  BY <1>1
<1>2. CASE m = 0 /\ n # 0
  BY <1>2
<1>3. CASE m # 0 /\ n = 0
  BY <1>3
<1>4. CASE m # 0 /\ n # 0
  <2>1. SUFFICES ASSUME Append(PrimaryPath, m) = Append(SubkeyPath, n) PROVE FALSE
    BY <1>4
  <2>2. \A i \in 1..Len(PrimaryPath) : PrimaryPath[i] = SubkeyPath[i]
    <3>1. TAKE i \in 1..Len(PrimaryPath)
    <3>2. Append(PrimaryPath, m)[i] = PrimaryPath[i]
      BY <3>1
    <3>3. Append(SubkeyPath, n)[i] = SubkeyPath[i]
      BY <3>1
    <3> QED BY <2>1, <3>2, <3>3
  <2> QED BY <2>2
<1> QED BY <1>1, <1>2, <1>3, <1>4

(* The loop body tries the salt of its counter.                            *)
LEMMA SaltNowIs ==
  ASSUME TypeOK, NEW h \in Hosts, Loop(h),
         pc[h] \in {"primary", "subkey"}
  PROVE  SaltNow(h) = SaltAt(PathOf(pc[h]), counter[h])
<1> DEFINE path == PathOf(pc[h])
<1>1. path \in Seq(Nat) /\ counter[h] \in Nat
  BY TeamKeyAssumption DEF TypeOK, PathOf, Counters
<1>2. salt[h] = SaltAt(path, IF counter[h] = 0 THEN 0 ELSE counter[h] - 1)
  BY DEF Loop
<1>3. CASE counter[h] = 0
  BY <1>2, <1>3 DEF SaltNow, SaltAt
<1>4. CASE counter[h] = 1
  <2>1. salt[h] = path /\ SubSeq(path, 1, Len(path)) = path
    BY <1>1, <1>2, <1>4 DEF SaltAt
  <2> QED BY <2>1, <1>4 DEF SaltNow, SaltAt
<1>5. CASE counter[h] > 1
  <2>1. salt[h] = Append(path, counter[h] - 1)
    BY <1>1, <1>2, <1>5 DEF SaltAt
  <2>2. SubSeq(salt[h], 1, Len(path)) = path
    BY <1>1, <1>5, <2>1
  <2>3. SaltNow(h) = Append(path, counter[h])
    BY <1>1, <2>2, <1>5 DEF SaltNow
  <2>4. SaltAt(path, counter[h]) = Append(path, counter[h])
    BY <1>1, <1>5 DEF SaltAt
  <2> QED BY <2>3, <2>4
<1> QED BY <1>1, <1>3, <1>4, <1>5

(* A seed and a path stand for one scalar at most.                         *)
LEMMA OneScalar ==
  ASSUME NEW s \in Seeds, NEW path \in Paths, NEW p, NEW q,
         FirstScalar(s, path, p), FirstScalar(s, path, q)
  PROVE  p = q
<1>1. PICK m \in Counters : /\ Reaches(s, path, m)
                            /\ fate[s][SaltAt(path, m)] = "scalar"
                            /\ p = Scalar(s, SaltAt(path, m))
  BY DEF FirstScalar
<1>2. PICK n \in Counters : /\ Reaches(s, path, n)
                            /\ fate[s][SaltAt(path, n)] = "scalar"
                            /\ q = Scalar(s, SaltAt(path, n))
  BY DEF FirstScalar
<1>3. ~(m < n) /\ ~(n < m)
  BY <1>1, <1>2, TeamKeyAssumption DEF Reaches, Counters
<1>4. m = n
  BY <1>3, TeamKeyAssumption DEF Counters
<1> QED BY <1>1, <1>2, <1>4

-----------------------------------------------------------------------------
LEMMA InitInv == Init => Inv
<1> SUFFICES ASSUME Init PROVE Inv
  OBVIOUS
<1>1. TypeOK
  <2>1. NoScalars \in ScalarPairs
    BY DEF NoScalars, ScalarPairs
  <2> QED BY <2>1, TeamKeyAssumption DEF Init, TypeOK, Working, Counters
<1>2. HostInv /\ PublishedInv
  BY DEF Init, HostInv, HostRight, Loop, Exact, KeyRight, PublishedInv
<1> QED BY <1>1, <1>2 DEF Inv

(* A host that does not move stays right, and so does what was published.  *)
LEMMA HostFrame ==
  ASSUME fate' = fate, seed' = seed, NEW g \in Hosts, HostRight(g),
         pc'[g] = pc[g], counter'[g] = counter[g], salt'[g] = salt[g],
         scalars'[g] = scalars[g], teamKey'[g] = teamKey[g]
  PROVE  HostRight(g)'
<1>1. Loop(g)'
  BY DEF HostRight, Loop, Reaches
<1>2. Exact(g)'
  BY DEF HostRight, Exact, FirstScalar, Reaches
<1>3. KeyRight(g)'
  BY DEF HostRight, KeyRight
<1> QED BY <1>1, <1>2, <1>3 DEF HostRight

LEMMA PublishedFrame ==
  ASSUME PublishedInv, fate' = fate, published' = published
  PROVE  PublishedInv'
BY DEF PublishedInv, PublishedRight, FirstScalar, Reaches

(* A try that gives a scalar: it is the first of its path.                 *)
LEMMA AcceptIsFirst ==
  ASSUME Inv, NEW h \in Hosts, pc[h] \in {"primary", "subkey"},
         fate[seed[h]][SaltNow(h)] = "scalar"
  PROVE  FirstScalar(seed[h], PathOf(pc[h]), Scalar(seed[h], SaltNow(h)))
<1>1. SaltNow(h) = SaltAt(PathOf(pc[h]), counter[h])
  BY SaltNowIs DEF Inv, HostInv, HostRight
<1>2. counter[h] \in Counters /\ Reaches(seed[h], PathOf(pc[h]), counter[h])
  BY DEF Inv, TypeOK, HostInv, HostRight, Loop
<1> QED BY <1>1, <1>2 DEF FirstScalar

LEMMA SaltNowType ==
  ASSUME Inv, NEW h \in Hosts, pc[h] \in {"primary", "subkey"}
  PROVE  SaltNow(h) \in Salts /\ Scalar(seed[h], SaltNow(h)) \in Scalars
<1>1. SaltNow(h) = SaltAt(PathOf(pc[h]), counter[h])
  BY SaltNowIs DEF Inv, HostInv, HostRight
<1>2. SaltNow(h) \in Salts
  BY <1>1 DEF Inv, TypeOK, Salts, PathOf, Paths
<1> QED BY <1>2 DEF Inv, TypeOK, Scalars

LEMMA PathsAreSalts == PrimaryPath \in Salts /\ SubkeyPath \in Salts
<1>1. 0 \in Counters
  BY TeamKeyAssumption DEF Counters
<1> QED BY <1>1 DEF Salts, SaltAt, Paths

(* A call of derive_scalar starts right.                                   *)
LEMMA CallIsRight ==
  ASSUME TypeOK, NEW h \in Hosts, NEW step \in {"primary", "subkey"},
         Call(h, step, PathOf(step)), fate' = fate, seed' = seed
  PROVE  Loop(h)'
<1>1. pc'[h] = step /\ salt'[h] = PathOf(step) /\ counter'[h] = 0
  BY DEF Call, Goto, TypeOK
<1> QED BY <1>1 DEF Loop, SaltAt, Reaches

LEMMA BeginInv ==
  ASSUME Inv, NEW h \in Hosts, Begin(h)
  PROVE  Inv'
<1> USE DEF Inv
<1>1. TypeOK'
  BY PathsAreSalts, TeamKeyAssumption
     DEF Begin, Call, Goto, TypeOK, Working, Counters
<1>2. ASSUME NEW g \in Hosts PROVE HostRight(g)'
  <2>1. CASE g # h
    BY <2>1, HostFrame DEF Begin, Call, Goto, TypeOK, HostInv
  <2>2. CASE g = h
    <3>1. Loop(h)'
      <4>1. Call(h, "primary", PathOf("primary"))
        BY DEF Begin, PathOf
      <4> QED BY <4>1, CallIsRight DEF Begin
    <3>2. Exact(h)' /\ KeyRight(h)'
      BY DEF Exact, KeyRight, Begin, Call, Goto, TypeOK
    <3> QED BY <2>2, <3>1, <3>2 DEF HostRight
  <2> QED BY <2>1, <2>2
<1>3. PublishedInv'
  BY PublishedFrame DEF Begin
<1> QED BY <1>1, <1>2, <1>3 DEF HostInv

LEMMA TryInv ==
  ASSUME Inv, NEW h \in Hosts, Try(h)
  PROVE  Inv'
<1> DEFINE result == fate[seed[h]][SaltNow(h)]
           path == PathOf(pc[h])
<1>a. pc[h] \in {"primary", "subkey"} /\ UNCHANGED <<fate, seed, teamKey, clock, published>>
  BY DEF Try
<1>b. SaltNow(h) = SaltAt(path, counter[h])
  BY <1>a, SaltNowIs DEF Inv, HostInv, HostRight
<1>c. SaltNow(h) \in Salts /\ Scalar(seed[h], SaltNow(h)) \in Scalars
  BY <1>a, SaltNowType
<1>d. path \in Paths /\ counter[h] \in Counters /\ Reaches(seed[h], path, counter[h])
  BY <1>a DEF Inv, HostInv, HostRight, Loop, TypeOK, Paths, PathOf
<1>1. CASE result = "scalar" /\ Accept(h)
  <2>a. FirstScalar(seed[h], path, Scalar(seed[h], SaltNow(h)))
    BY <1>1, <1>a, AcceptIsFirst
  <2>1. TypeOK'
    <3>1. scalars' \in [Hosts -> ScalarPairs]
      BY <1>1, <1>a, <1>c DEF Accept, ScalarPairs, Inv, TypeOK
    <3>2. 0 \in Counters
      BY TeamKeyAssumption DEF Counters
    <3>3. counter' \in [Hosts -> Counters]
      BY <1>1, <3>2 DEF Accept, Call, Inv, TypeOK
    <3>4. salt' \in [Hosts -> Salts \cup {<<>>}]
      BY <1>1, <1>c, PathsAreSalts DEF Accept, Call, Inv, TypeOK
    <3>5. /\ pc' \in [Hosts -> Working \cup {"idle", "ready", "exhausted", "failed"}]
          /\ \A g \in Hosts : pc'[g] # "ready" => pc[g] # "ready"
      BY <1>1, <1>a DEF Accept, Call, Goto, Inv, TypeOK, Working
    <3> QED BY <1>a, <3>1, <3>3, <3>4, <3>5 DEF Inv, TypeOK
  <2>2. ASSUME NEW g \in Hosts PROVE HostRight(g)'
    <3>1. CASE g # h
      BY <1>1, <1>a, <3>1, HostFrame
         DEF Accept, Call, Goto, Inv, TypeOK, ScalarPairs, HostInv
    <3>2. CASE g = h /\ pc[h] = "primary"
      <4>1. Call(h, "subkey", PathOf("subkey"))
        BY <1>1, <3>2 DEF Accept, PathOf
      <4>2. Loop(h)'
        BY <1>a, <4>1, CallIsRight DEF Inv
      <4>3. scalars'[h].primary = Scalar(seed[h], SaltNow(h)) /\ pc'[h] = "subkey"
        BY <1>1, <3>2, <4>1 DEF Accept, Call, Goto, Inv, TypeOK, ScalarPairs
      <4>4. FirstScalar(seed[h], PrimaryPath, scalars'[h].primary)
        BY <2>a, <3>2, <4>3 DEF PathOf
      <4>5. Exact(h)'
        BY <1>a, <4>3, <4>4 DEF Exact, FirstScalar, Reaches
      <4> QED BY <3>2, <4>2, <4>3, <4>5 DEF HostRight, KeyRight
    <3>3. CASE g = h /\ pc[h] = "subkey"
      <4>1. /\ scalars'[h].primary = scalars[h].primary
            /\ scalars'[h].subkey = Scalar(seed[h], SaltNow(h))
            /\ pc'[h] = "sign"
        BY <1>1, <3>3 DEF Accept, Goto, Inv, TypeOK, ScalarPairs
      <4>2. /\ FirstScalar(seed[h], SubkeyPath, scalars'[h].subkey)
            /\ FirstScalar(seed[h], PrimaryPath, scalars'[h].primary)
        BY <2>a, <3>3, <4>1 DEF PathOf, Inv, HostInv, HostRight, Exact
      <4>3. Exact(h)'
        BY <1>a, <4>1, <4>2 DEF Exact, FirstScalar, Reaches
      <4> QED BY <3>3, <4>1, <4>3 DEF HostRight, Loop, KeyRight
    <3> QED BY <1>a, <3>1, <3>2, <3>3
  <2> QED BY <1>a, <2>1, <2>2, PublishedFrame DEF Inv, HostInv
<1>2. CASE result = "outOfRange" /\ Reject(h) /\ UNCHANGED scalars
           /\ salt' = [salt EXCEPT ![h] = SaltNow(h)]
  <2>1. TypeOK'
    <3>1. counter' \in [Hosts -> Counters]
      <4>1. counter[h] < MaxCounter => counter[h] + 1 \in Counters
        BY <1>d, TeamKeyAssumption DEF Counters
      <4> QED BY <1>2, <4>1 DEF Reject, Inv, TypeOK
    <3>2. salt' \in [Hosts -> Salts \cup {<<>>}]
      BY <1>2, <1>c DEF Inv, TypeOK
    <3>3. /\ pc' \in [Hosts -> Working \cup {"idle", "ready", "exhausted", "failed"}]
          /\ \A g \in Hosts : pc'[g] # "ready" => pc[g] # "ready"
      BY <1>2, <1>a DEF Reject, Goto, Inv, TypeOK, Working
    <3> QED BY <1>2, <1>a, <3>1, <3>2, <3>3 DEF Inv, TypeOK
  <2>2. ASSUME NEW g \in Hosts PROVE HostRight(g)'
    <3>1. CASE g # h
      BY <1>2, <1>a, <3>1, HostFrame DEF Reject, Goto, Inv, TypeOK, HostInv
    <3>a. Reaches(seed[h], path, counter[h] + 1)
      <4>1. counter[h] \in Nat
        BY <1>d, TeamKeyAssumption DEF Counters
      <4>2. fate[seed[h]][SaltAt(path, counter[h])] = "outOfRange"
        BY <1>2, <1>b
      <4>3. \A m \in 0..((counter[h] + 1) - 1) :
              m \in 0..(counter[h] - 1) \/ m = counter[h]
        BY <4>1
      <4> HIDE DEF result, path
      <4> QED BY <1>d, <4>2, <4>3 DEF Reaches
    <3>2. CASE g = h /\ counter[h] < MaxCounter
      <4>1. /\ pc' = pc /\ counter'[h] = counter[h] + 1
            /\ salt'[h] = SaltAt(path, counter[h])
        BY <1>2, <1>b, <1>d, <3>2, TeamKeyAssumption
           DEF Reject, Inv, TypeOK, Counters
      <4>2. Loop(h)'
        <5>1. salt'[h] = SaltAt(PathOf(pc'[h]),
                            IF counter'[h] = 0 THEN 0 ELSE counter'[h] - 1)
          <6>1. counter[h] \in Nat /\ counter[h] + 1 # 0 /\ (counter[h] + 1) - 1 = counter[h]
            BY <1>d, TeamKeyAssumption DEF Counters
          <6> QED BY <4>1, <6>1
        <5> QED BY <1>a, <3>a, <4>1, <5>1 DEF Loop, Reaches
      <4>3. Exact(h)'
        BY <1>a, <1>2, <4>1 DEF Exact, FirstScalar, Reaches, Inv, HostInv, HostRight
      <4> QED BY <1>a, <3>2, <4>1, <4>2, <4>3 DEF HostRight, KeyRight
    <3>3. CASE g = h /\ counter[h] = MaxCounter
      <4>1. pc'[h] = "exhausted"
        BY <1>2, <3>3, TeamKeyAssumption DEF Reject, Goto, Inv, TypeOK, Counters
      <4>2. Exact(h)'
        BY <1>a, <1>d, <3>a, <3>3, <4>1 DEF Exact, Reaches
      <4> QED BY <3>3, <4>1, <4>2 DEF HostRight, Loop, KeyRight
    <3> QED BY <3>1, <3>2, <3>3, <1>2 DEF Reject
  <2> QED BY <1>a, <2>1, <2>2, PublishedFrame DEF Inv, HostInv
<1>3. CASE Goto(h, "failed") /\ UNCHANGED <<counter, salt, scalars>>
  <2>1. TypeOK'
    BY <1>3, <1>a DEF Goto, Inv, TypeOK
  <2>2. ASSUME NEW g \in Hosts PROVE HostRight(g)'
    <3>1. CASE g # h
      BY <1>3, <1>a, <3>1, HostFrame DEF Goto, Inv, TypeOK, HostInv
    <3>2. CASE g = h
      BY <1>3, <3>2 DEF Goto, Inv, TypeOK, HostRight, Loop, Exact, KeyRight
    <3> QED BY <3>1, <3>2
  <2> QED BY <1>a, <2>1, <2>2, PublishedFrame DEF Inv, HostInv
<1> QED BY <1>1, <1>2, <1>3 DEF Try, RefusePrimary

LEMMA SignInv ==
  ASSUME Inv, NEW h \in Hosts, Sign(h)
  PROVE  Inv'
<1> DEFINE key == KeyOf(Key(scalars[h].primary), Key(scalars[h].subkey))
<1>a. /\ pc[h] = "sign"
      /\ UNCHANGED <<fate, seed, counter, salt, scalars, clock, published>>
      /\ \/ Goto(h, "ready") /\ teamKey' = [teamKey EXCEPT ![h] = key]
         \/ Goto(h, "failed") /\ UNCHANGED teamKey
  BY DEF Sign
<1>b. key \in TeamKeys
  <2>1. scalars[h].primary \in Scalars /\ scalars[h].subkey \in Scalars
    BY <1>a DEF Inv, TypeOK, HostInv, HostRight, Exact, FirstScalar, Scalars,
                Salts, Paths
  <2> QED BY <2>1 DEF TeamKeys
<1>1. TypeOK'
  BY <1>a, <1>b DEF Goto, Inv, TypeOK, Working
<1>2. ASSUME NEW g \in Hosts PROVE HostRight(g)'
  <2>1. CASE g # h
    BY <1>a, <2>1, HostFrame DEF Goto, Inv, TypeOK, HostInv
  <2>2. CASE g = h
    <3>1. pc'[h] \in {"ready", "failed"} /\ (pc'[h] = "ready" => teamKey'[h] = key)
      BY <1>a DEF Goto, Inv, TypeOK
    <3>2. Loop(h)'
      BY <3>1 DEF Loop
    <3>3. Exact(h)'
      BY <1>a, <3>1 DEF Exact, FirstScalar, Reaches, Inv, HostInv, HostRight
    <3>4. KeyRight(h)'
      BY <1>a, <3>1 DEF KeyRight
    <3> QED BY <2>2, <3>2, <3>3, <3>4 DEF HostRight
  <2> QED BY <2>1, <2>2
<1> QED BY <1>a, <1>1, <1>2, PublishedFrame DEF Inv, HostInv

LEMMA PublishInv ==
  ASSUME Inv, NEW h \in Hosts, Export(h)
  PROVE  Inv'
<1> DEFINE key == KeyOf(Key(scalars[h].primary), Key(scalars[h].subkey))
<1>a. /\ pc[h] = "ready" /\ UNCHANGED <<fate, seed, local, clock>>
      /\ \E kind \in {"publicKey", "revocation", "keyId"} :
           published' = published \cup
             {[seed |-> seed[h], kind |-> kind, text |-> Text(kind, teamKey[h])]}
  BY DEF Export, ExportPublicKey, ExportRevocation, ExportKeyId, Publish, Text
<1>1. TypeOK'
  BY <1>a DEF Inv, TypeOK, local
<1>2. HostInv'
  BY <1>a, HostFrame DEF Inv, HostInv, local
<1>3. PublishedInv'
  <2>1. /\ teamKey[h] = key
        /\ FirstScalar(seed[h], PrimaryPath, scalars[h].primary)
        /\ FirstScalar(seed[h], SubkeyPath, scalars[h].subkey)
    BY <1>a DEF Inv, HostInv, HostRight, KeyRight, Exact
  <2>2. PICK kind \in {"publicKey", "revocation", "keyId"} :
           published' = published \cup
             {[seed |-> seed[h], kind |-> kind, text |-> Text(kind, key)]}
    BY <1>a, <2>1
  <2>3. PublishedRight([seed |-> seed[h], kind |-> kind, text |-> Text(kind, key)])
    BY <2>1 DEF PublishedRight, Inv, TypeOK
  <2>4. \A e \in published' : PublishedRight(e)
    BY <2>2, <2>3 DEF Inv, PublishedInv
  <2> QED BY <1>a, <2>4 DEF PublishedInv, PublishedRight, FirstScalar, Reaches
<1> QED BY <1>1, <1>2, <1>3 DEF Inv

LEMMA RestartInv ==
  ASSUME Inv, NEW h \in Hosts, Restart(h)
  PROVE  Inv'
<1>1. TypeOK'
  <2>1. NoScalars \in ScalarPairs /\ 0 \in Counters
    BY TeamKeyAssumption DEF NoScalars, ScalarPairs, Counters
  <2> QED BY <2>1 DEF Restart, Goto, Inv, TypeOK, Working
<1>2. ASSUME NEW g \in Hosts PROVE HostRight(g)'
  <2>1. CASE g # h
    BY <2>1, HostFrame DEF Restart, Goto, Inv, TypeOK, HostInv
  <2>2. CASE g = h
    BY <2>2 DEF Restart, Goto, Inv, TypeOK, HostRight, Loop, Exact, KeyRight
  <2> QED BY <2>1, <2>2
<1>3. PublishedInv'
  BY PublishedFrame DEF Restart, Inv
<1> QED BY <1>1, <1>2, <1>3 DEF Inv, HostInv

LEMMA StillInv ==
  ASSUME Inv, Tick \/ UNCHANGED vars
  PROVE  Inv'
<1>a. UNCHANGED <<fate, seed, local, published>> /\ clock' \in Clock
  BY DEF Tick, vars, Inv, TypeOK
<1>1. TypeOK'
  BY <1>a DEF Inv, TypeOK, local
<1>2. HostInv'
  BY <1>a, HostFrame DEF Inv, HostInv, local
<1>3. PublishedInv'
  BY <1>a, PublishedFrame DEF Inv
<1> QED BY <1>1, <1>2, <1>3 DEF Inv

THEOREM AlwaysInv == Spec => []Inv
<1>1. Inv /\ [Next]_vars => Inv'
  BY BeginInv, TryInv, SignInv, PublishInv, RestartInv, StillInv DEF Next, Derive
<1> QED BY InitInv, <1>1, PTL DEF Spec

-----------------------------------------------------------------------------
(* The types, for any number of hosts and of counters.                     *)
THEOREM TypeCorrect == Spec => []TypeOK
BY AlwaysInv, PTL DEF Inv

(* Each scalar is the first of its path that is in range.                  *)
THEOREM ScalarsAlwaysExact == Spec => []ScalarsExact
<1>1. Inv => ScalarsExact
  BY DEF Inv, HostInv, HostRight, Exact, ScalarsExact
<1> QED BY <1>1, AlwaysInv, PTL

LEMMA KeyOfFields ==
  ASSUME NEW p, NEW q
  PROVE  KeyOf(p, q).primary = p /\ KeyOf(p, q).subkey = q
BY DEF KeyOf

LEMMA ScalarSalt ==
  ASSUME NEW s, NEW t, NEW x, NEW y, Scalar(s, x) = Scalar(t, y)
  PROVE  x = y
BY DEF Scalar

(* The two secrets of a key, or of two keys, are never the same.           *)
THEOREM SecretsAlwaysApart == Spec => []SecretsApart
<1>1. Inv => SecretsApart
  <2>1. SUFFICES ASSUME Inv, NEW g \in Hosts, NEW h \in Hosts,
                        pc[g] = "ready", pc[h] = "ready",
                        teamKey[g].primary = teamKey[h].subkey
                 PROVE  FALSE
    BY DEF SecretsApart
  <2>2. scalars[g].primary = scalars[h].subkey
    <3>1. \A k \in Hosts : pc[k] = "ready" =>
            /\ teamKey[k].primary = Key(scalars[k].primary)
            /\ teamKey[k].subkey = Key(scalars[k].subkey)
      BY <2>1, KeyOfFields DEF Inv, HostInv, HostRight, KeyRight
    <3>2. Key(scalars[g].primary) = Key(scalars[h].subkey)
      BY <2>1, <3>1
    <3> QED BY <3>2 DEF Key
  <2>3. PICK m \in Counters : scalars[g].primary = Scalar(seed[g], SaltAt(PrimaryPath, m))
    BY <2>1 DEF Inv, HostInv, HostRight, Exact, FirstScalar
  <2>4. PICK n \in Counters : scalars[h].subkey = Scalar(seed[h], SaltAt(SubkeyPath, n))
    BY <2>1 DEF Inv, HostInv, HostRight, Exact, FirstScalar
  <2>5. SaltAt(PrimaryPath, m) = SaltAt(SubkeyPath, n)
    BY <2>2, <2>3, <2>4, ScalarSalt
  <2> QED BY <2>5, SaltsApart
<1> QED BY <1>1, AlwaysInv, PTL

(* What any hosts ever publish of a seed is one key.                       *)
THEOREM AlwaysSameKeyEverywhere == Spec => []SameKeyEverywhere
<1>1. Inv => SameKeyEverywhere
  <2>1. SUFFICES ASSUME Inv, NEW a \in published, NEW b \in published, a.seed = b.seed
                 PROVE  /\ a.kind = b.kind => a.text = b.text
                        /\ a.kind = "publicKey" /\ b.kind = "revocation" =>
                             b.text.by = a.text.primary /\ b.text.over = a.text.primary
                        /\ a.kind = "publicKey" /\ b.kind = "keyId" =>
                             b.text = a.text.subkey
    BY DEF SameKeyEverywhere
  <2>2. PICK p, q : /\ FirstScalar(a.seed, PrimaryPath, p)
                    /\ FirstScalar(a.seed, SubkeyPath, q)
                    /\ a.text = Text(a.kind, KeyOf(Key(p), Key(q)))
    BY <2>1 DEF Inv, PublishedInv, PublishedRight
  <2>3. PICK r, t : /\ FirstScalar(b.seed, PrimaryPath, r)
                    /\ FirstScalar(b.seed, SubkeyPath, t)
                    /\ b.text = Text(b.kind, KeyOf(Key(r), Key(t)))
    BY <2>1 DEF Inv, PublishedInv, PublishedRight
  <2>4. p = r /\ q = t
    <3>1. a.seed \in Seeds /\ PrimaryPath \in Paths /\ SubkeyPath \in Paths
      BY <2>1 DEF Inv, PublishedInv, PublishedRight, Paths
    <3> QED BY <2>1, <2>2, <2>3, <3>1, OneScalar
  <2> DEFINE key == KeyOf(Key(p), Key(q))
  <2>5. a.text = Text(a.kind, key) /\ b.text = Text(b.kind, key)
    BY <2>2, <2>3, <2>4
  <2>6. Text("publicKey", key) = key /\ Text("keyId", key) = key.subkey
    BY DEF Text
  <2>7. LET text == Text("revocation", key) IN
          text.by = key.primary /\ text.over = key.primary
    BY DEF Text, RevocationCertificate, Signature
  <2> HIDE DEF key
  <2> QED BY <2>1, <2>5, <2>6, <2>7
<1> QED BY <1>1, AlwaysInv, PTL
=============================================================================
