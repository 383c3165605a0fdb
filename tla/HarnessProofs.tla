--------------------------- MODULE HarnessProofs ---------------------------
(***************************************************************************)
(* Proofs about Startup, which keys get out and what a bound port means,   *)
(* for any number of processes, ports, keys and builds; and about Harness, *)
(* for any number of tests that run at once beside them.                   *)
(***************************************************************************)
EXTENDS Harness, TLAPS

(* Past the derivation, past the pin, past the allowlist.                  *)
Serving == {"metrics", "allowlist", "bind", "serving"}
Pinned == Serving \cup {"print"}
Derived == Pinned \cup {"pin"}

(* What main knows of a process by where it is.                            *)
ProcessRight(p) ==
  /\ pc[p] \in Derived => teamKey[p] = cli[p].quorum
  /\ pc[p] \in Pinned => ~Mismatch(p)
  /\ pc[p] \in Serving => ~cli[p].print
  /\ pc[p] \in {"bind", "serving"} => build.allowlist = "good"

(* Whoever showed a key had been started, so its arguments stay.           *)
ShownRight(e) ==
  /\ e.by \in Processes /\ pc[e.by] # "unborn"
  /\ e.key = cli[e.by].quorum /\ build.pin \in {None, e.key}

Functions ==
  /\ DOMAIN cli = Processes /\ DOMAIN pc = Processes
  /\ DOMAIN code = Processes /\ DOMAIN teamKey = Processes
  /\ DOMAIN owner = Ports
  /\ \A p \in Processes : pc[p] # "unborn" => cli[p] \in CliType

Inv ==
  /\ Functions
  /\ \A p \in Processes : ProcessRight(p)
  /\ \A e \in shown : ShownRight(e)
  /\ \A p \in Processes : code[p] = 0 => \E e \in shown : e.by = p
  /\ BoundMeansServing

-----------------------------------------------------------------------------
LEMMA InitInv == Init => Inv
<1>. SUFFICES ASSUME Init PROVE Inv
  OBVIOUS
<1>1. Functions
  BY DEF Init, Functions
<1>2. \A p \in Processes : ProcessRight(p)
  BY DEF Init, ProcessRight, Derived, Pinned, Serving
<1>3. \A e \in shown : ShownRight(e)
  BY DEF Init
<1>4. \A p \in Processes : code[p] = 0 => \E e \in shown : e.by = p
  BY StartupAssumption DEF Init
<1>5. BoundMeansServing
  BY StartupAssumption DEF Init, BoundMeansServing
<1>. QED  BY <1>1, <1>2, <1>3, <1>4, <1>5 DEF Inv

(* A step of main that goes on, or exits with an error, and shows nothing  *)
(* and takes no port.                                                      *)
Quiet(p) ==
  /\ \/ \E s \in Derived \cup {"derive"} : s # "serving" /\ GoOn(p, s)
     \/ \E n \in {1, 101} : Exit(p, n)
  /\ pc[p] \notin {"unborn", "serving"}
  /\ UNCHANGED <<build, cli, owner, shown>>

LEMMA QuietInv ==
  ASSUME Inv, NEW p \in Processes, Quiet(p), ProcessRight(p)',
         \A q \in Processes \ {p} : teamKey'[q] = teamKey[q],
         DOMAIN teamKey' = Processes
  PROVE  Inv'
<1>1. /\ \A q \in Processes \ {p} : pc'[q] = pc[q] /\ code'[q] = code[q]
      /\ pc'[p] \notin {"unborn", "serving"}
      /\ code'[p] = code[p] \/ code'[p] # 0
      /\ DOMAIN pc' = Processes /\ DOMAIN code' = Processes
  BY DEF Quiet, GoOn, Exit, Goto, Inv, Functions, Derived, Pinned, Serving
<1>2. UNCHANGED <<build, cli, owner, shown>> /\ pc[p] \notin {"unborn", "serving"}
  BY DEF Quiet
<1>3. Functions'
  BY <1>1, <1>2 DEF Inv, Functions
<1>4. \A q \in Processes : ProcessRight(q)'
  BY <1>1, <1>2 DEF Inv, ProcessRight, Mismatch
<1>5. \A e \in shown' : ShownRight(e)'
  BY <1>1, <1>2 DEF Inv, ShownRight
<1>6. \A q \in Processes : code'[q] = 0 => \E e \in shown' : e.by = q
  BY <1>1, <1>2 DEF Inv
<1>7. BoundMeansServing'
  BY <1>1, <1>2 DEF Inv, BoundMeansServing
<1>. QED  BY <1>3, <1>4, <1>5, <1>6, <1>7 DEF Inv

LEMMA StartInv ==
  ASSUME Inv, NEW p \in Processes, NEW invocation \in CliType,
         Start(p, invocation)
  PROVE  Inv'
<1>1. /\ \A q \in Processes \ {p} : pc'[q] = pc[q] /\ cli'[q] = cli[q]
      /\ pc[p] = "unborn" /\ pc'[p] = "load" /\ cli'[p] \in CliType
      /\ DOMAIN pc' = Processes /\ DOMAIN cli' = Processes
      /\ UNCHANGED <<build, code, teamKey, owner, shown>>
  BY DEF Start, GoOn, Goto, Inv, Functions
<1>2. Functions'
  BY <1>1 DEF Inv, Functions
<1>3. \A q \in Processes : ProcessRight(q)'
  BY <1>1 DEF Inv, ProcessRight, Mismatch, Derived, Pinned, Serving
<1>4. \A e \in shown' : ShownRight(e)'
  BY <1>1 DEF Inv, ShownRight
<1>5. BoundMeansServing'
  BY <1>1 DEF Inv, BoundMeansServing
<1>. QED  BY <1>1, <1>2, <1>3, <1>4, <1>5 DEF Inv

(* A key is shown by a process that has passed the pin.                    *)
LEMMA ShowRight ==
  ASSUME Inv, NEW p \in Processes, pc[p] \in Pinned
  PROVE  /\ teamKey[p] = cli[p].quorum
         /\ build.pin \in {None, teamKey[p]}
  BY DEF Inv, ProcessRight, Mismatch, Derived

LEMMA PrintInv ==
  ASSUME Inv, NEW p \in Processes, PrintPublicKey(p)
  PROVE  Inv'
<1>1. CASE Show(p) /\ Exit(p, 0)
  <2>1. /\ \A q \in Processes \ {p} : pc'[q] = pc[q] /\ code'[q] = code[q]
        /\ pc[p] = "print" /\ pc'[p] = "exited"
        /\ DOMAIN pc' = Processes /\ DOMAIN code' = Processes
        /\ UNCHANGED <<build, cli, teamKey, owner>>
        /\ shown' = shown \cup {[by |-> p, key |-> teamKey[p]]}
    BY <1>1 DEF PrintPublicKey, Show, Exit, Goto, Inv, Functions
  <2>2. Functions'
    BY <2>1 DEF Inv, Functions
  <2>3. \A q \in Processes : ProcessRight(q)'
    BY <2>1 DEF Inv, ProcessRight, Mismatch, Derived, Pinned, Serving
  <2>4. \A e \in shown' : ShownRight(e)'
    BY <2>1, ShowRight DEF Inv, ShownRight, Pinned
  <2>5. \A q \in Processes : code'[q] = 0 => \E e \in shown' : e.by = q
    <3>1. [by |-> p, key |-> teamKey[p]].by = p
      OBVIOUS
    <3>2. \A q \in Processes \ {p} : code[q] = 0 => \E e \in shown : e.by = q
      BY DEF Inv
    <3>. QED  BY <2>1, <3>1, <3>2
  <2>6. BoundMeansServing'
    BY <2>1 DEF Inv, BoundMeansServing
  <2>. QED  BY <2>2, <2>3, <2>4, <2>5, <2>6 DEF Inv
<1>2. CASE \E n \in {1, 101} : Exit(p, n) /\ UNCHANGED shown
  <2>1. Quiet(p)
    BY <1>2 DEF PrintPublicKey, Quiet
  <2>2. ProcessRight(p)' /\ UNCHANGED teamKey
    BY <1>2 DEF PrintPublicKey, Exit, Goto, Inv, Functions, ProcessRight,
                Derived, Pinned, Serving
  <2>. QED  BY <2>1, <2>2, QuietInv DEF Inv, Functions
<1>. QED  BY <1>1, <1>2 DEF PrintPublicKey

LEMMA BindInv ==
  ASSUME Inv, NEW p \in Processes, Bind(p)
  PROVE  Inv'
<1>1. CASE Exit(p, 1) /\ UNCHANGED owner
  <2>1. Quiet(p) /\ UNCHANGED teamKey
    BY <1>1 DEF Bind, Quiet, GoOn
  <2>2. ProcessRight(p)'
    BY <1>1 DEF Bind, Exit, Goto, Inv, Functions, ProcessRight, Derived,
                Pinned, Serving
  <2>. QED  BY <2>1, <2>2, QuietInv DEF Inv, Functions
<1>2. CASE /\ owner[cli[p].port] = None /\ GoOn(p, "serving")
           /\ owner' = [owner EXCEPT ![cli[p].port] = p]
  <2>1. /\ \A q \in Processes \ {p} : pc'[q] = pc[q]
        /\ pc[p] = "bind" /\ pc'[p] = "serving"
        /\ DOMAIN pc' = Processes
        /\ UNCHANGED <<build, cli, code, teamKey, shown>>
    BY <1>2 DEF Bind, GoOn, Goto, Inv, Functions
  <2>2. cli[p].port \in Ports /\ DOMAIN owner = Ports
    BY <2>1 DEF Inv, Functions, CliType
  <2>3. owner' = [owner EXCEPT ![cli[p].port] = p]
    BY <1>2
  <2>4. Functions'
    BY <2>1, <2>3 DEF Inv, Functions
  <2>5. \A q \in Processes : ProcessRight(q)'
    BY <2>1 DEF Inv, ProcessRight, Mismatch, Derived, Pinned, Serving
  <2>6. \A e \in shown' : ShownRight(e)'
    BY <2>1 DEF Inv, ShownRight
  <2>7. BoundMeansServing'
    <3>1. ProcessRight(p)
      BY DEF Inv
    <3>2. ASSUME NEW q \in Processes, pc[q] = "serving"
          PROVE  cli[q].port # cli[p].port
      BY <1>2, <3>2, StartupAssumption DEF Inv, BoundMeansServing
    <3>. QED
      BY <2>1, <2>2, <2>3, <3>1, <3>2
      DEF Inv, BoundMeansServing, ProcessRight, Serving
  <2>. QED  BY <2>1, <2>4, <2>5, <2>6, <2>7 DEF Inv
<1>. QED  BY <1>1, <1>2 DEF Bind

LEMMA PublicKeyInv ==
  ASSUME Inv, NEW p \in Processes, PublicKey(p)
  PROVE  Inv'
<1>1. /\ pc[p] = "serving"
      /\ UNCHANGED <<build, cli, pc, code, teamKey, owner>>
      /\ shown' = shown \cup {[by |-> p, key |-> teamKey[p]]}
  BY DEF PublicKey, Show
<1>2. Functions'
  BY <1>1 DEF Inv, Functions
<1>3. \A q \in Processes : ProcessRight(q)'
  BY <1>1 DEF Inv, ProcessRight, Mismatch
<1>4. \A e \in shown' : ShownRight(e)'
  BY <1>1, ShowRight DEF Inv, ShownRight, Pinned, Serving
<1>5. BoundMeansServing'
  BY <1>1 DEF Inv, BoundMeansServing
<1>. QED  BY <1>1, <1>2, <1>3, <1>4, <1>5 DEF Inv

LEMMA KillInv ==
  ASSUME Inv, NEW p \in Processes, Kill(p)
  PROVE  Inv'
<1>1. /\ \A q \in Processes \ {p} : pc'[q] = pc[q]
      /\ pc[p] # "unborn" /\ pc'[p] = "killed"
      /\ DOMAIN pc' = Processes
      /\ UNCHANGED <<build, cli, code, teamKey, shown>>
  BY DEF Kill, Alive, GoOn, Goto, Inv, Functions
<1>2. /\ DOMAIN owner' = Ports
      /\ \A at \in Ports :
           owner'[at] = IF owner[at] = p THEN None ELSE owner[at]
  BY DEF Kill
<1>3. Functions'
  BY <1>1, <1>2 DEF Inv, Functions
<1>4. \A q \in Processes : ProcessRight(q)'
  BY <1>1 DEF Inv, ProcessRight, Mismatch, Derived, Pinned, Serving
<1>5. \A e \in shown' : ShownRight(e)'
  BY <1>1 DEF Inv, ShownRight
<1>6. BoundMeansServing'
  <2>1. \A q \in Processes : pc[q] = "serving" => cli[q].port \in Ports
    BY DEF Inv, Functions, CliType
  <2>. QED
    BY <1>1, <1>2, <2>1, StartupAssumption DEF Inv, BoundMeansServing
<1>. QED  BY <1>1, <1>3, <1>4, <1>5, <1>6 DEF Inv

LEMMA StepInv == Inv /\ [Next]_vars => Inv'
<1>. SUFFICES ASSUME Inv, [Next]_vars PROVE Inv'
  OBVIOUS
<1>. USE DEF Derived, Pinned, Serving
<1>1. ASSUME NEW p \in Processes, LoadQuorumKey(p) PROVE Inv'
  <2>1. Quiet(p) /\ UNCHANGED teamKey
    BY <1>1 DEF LoadQuorumKey, Quiet
  <2>2. ProcessRight(p)'
    BY <1>1 DEF LoadQuorumKey, GoOn, Exit, Goto, Inv, Functions, ProcessRight
  <2>. QED  BY <2>1, <2>2, QuietInv DEF Inv, Functions
<1>2. ASSUME NEW p \in Processes, DeriveTeamKey(p) PROVE Inv'
  <2>1. Quiet(p)
    BY <1>2 DEF DeriveTeamKey, Quiet
  <2>2. ProcessRight(p)' /\ DOMAIN teamKey' = Processes
    BY <1>2 DEF DeriveTeamKey, GoOn, Exit, Goto, Inv, Functions, ProcessRight
  <2>3. \A q \in Processes \ {p} : teamKey'[q] = teamKey[q]
    BY <1>2 DEF DeriveTeamKey, Inv, Functions
  <2>. QED  BY <2>1, <2>2, <2>3, QuietInv
<1>3. ASSUME NEW p \in Processes, CheckPin(p) PROVE Inv'
  <2>1. Quiet(p) /\ UNCHANGED teamKey
    BY <1>3 DEF CheckPin, Quiet
  <2>2. ProcessRight(p)'
    BY <1>3 DEF CheckPin, GoOn, Exit, Goto, Mismatch, Inv, Functions, ProcessRight
  <2>. QED  BY <2>1, <2>2, QuietInv DEF Inv, Functions
<1>4. ASSUME NEW p \in Processes, BuildMetrics(p) PROVE Inv'
  <2>1. Quiet(p) /\ UNCHANGED teamKey
    BY <1>4 DEF BuildMetrics, Quiet
  <2>2. ProcessRight(p)'
    BY <1>4 DEF BuildMetrics, GoOn, Exit, Goto, Mismatch, Inv, Functions,
                ProcessRight
  <2>. QED  BY <2>1, <2>2, QuietInv DEF Inv, Functions
<1>5. ASSUME NEW p \in Processes, BuildAllowlist(p) PROVE Inv'
  <2>1. Quiet(p) /\ UNCHANGED teamKey
    BY <1>5 DEF BuildAllowlist, Quiet
  <2>2. ProcessRight(p)'
    BY <1>5 DEF BuildAllowlist, GoOn, Exit, Goto, Mismatch, Inv, Functions,
                ProcessRight
  <2>. QED  BY <2>1, <2>2, QuietInv DEF Inv, Functions
<1>6. CASE UNCHANGED vars
  BY <1>6 DEF vars, Inv, Functions, ProcessRight, Mismatch, ShownRight,
              BoundMeansServing
<1>. QED
  BY <1>1, <1>2, <1>3, <1>4, <1>5, <1>6, StartInv, PrintInv, BindInv,
     PublicKeyInv, KillInv, StartupAssumption
  DEF Next, Step, Main

-----------------------------------------------------------------------------
THEOREM AlwaysInv == Spec => []Inv
<1>. QED  BY InitInv, StepInv, PTL DEF Spec

(* No key gets out, printed or served, but the one of the quorum file, and *)
(* that is the pinned one; and a 0 says that it was printed.               *)
THEOREM OnlyPinnedKeys == Spec => []PinnedKeyOnly
<1>1. Inv => PinnedKeyOnly
  BY DEF Inv, ShownRight, PinnedKeyOnly
<1>. QED  BY <1>1, AlwaysInv, PTL

(* Whoever holds a port serves on it, with somebody on the allowlist.      *)
THEOREM BoundAlwaysMeansServing == Spec => []BoundMeansServing
<1>1. Inv => BoundMeansServing
  BY DEF Inv
<1>. QED  BY <1>1, AlwaysInv, PTL

-----------------------------------------------------------------------------
(* The harness.  A test listens where it says it does.                     *)
Listening == {"found", "probing"}
Unspawned == {"find", "found", "spawn"}
Attended == {"wait", "probe", "probing", "run", "kill"}
Stages == Unspawned \cup Attended \cup {"clean", "ended"}

TestRight(t) ==
  /\ stage[t] # "find" => port[t] \in Ports
  /\ stage[t] \in Listening => owner[port[t]] = Prober(t)
  /\ stage[t] \in Unspawned => pc[t] = "unborn"
  /\ Alive(t) => stage[t] \in Attended
  /\ keyFile[t] <=> stage[t] \in Attended \cup {"spawn", "clean"}
  /\ stage[t] = "run" /\ Alone(t) => owner[port[t]] = t

(* Nobody listens on a port but a process, or a test that says it does.    *)
OwnerKnown(q) ==
  \/ owner[q] \in Processes \cup {None}
  \/ \E t \in Tests :
       owner[q] = Prober(t) /\ stage[t] \in Listening /\ port[t] = q

TestFunctions ==
  /\ stage \in [Tests -> Stages]
  /\ DOMAIN port = Tests
  /\ keyFile \in [Tests -> BOOLEAN]

HarnessInv ==
  /\ Inv
  /\ TestFunctions
  /\ \A t \in Tests : TestRight(t)
  /\ \A q \in Ports : OwnerKnown(q)

LEMMA HarnessInitInv == HarnessInit => HarnessInv
<1>. SUFFICES ASSUME HarnessInit PROVE HarnessInv
  OBVIOUS
<1>1. Inv
  BY InitInv DEF HarnessInit
<1>2. TestFunctions
  BY DEF HarnessInit, TestFunctions, Stages, Unspawned
<1>3. \A t \in Tests : TestRight(t)
  BY HarnessAssumption
  DEF HarnessInit, Init, TestRight, Listening, Unspawned, Attended, Alive
<1>4. \A q \in Ports : OwnerKnown(q)
  BY DEF HarnessInit, Init, OwnerKnown
<1>. QED  BY <1>1, <1>2, <1>3, <1>4 DEF HarnessInv

(* A test that a step leaves alone, with what it or its server holds.      *)
LEMMA Untouched ==
  ASSUME NEW t \in Tests, TestRight(t),
         stage'[t] = stage[t], port'[t] = port[t], keyFile'[t] = keyFile[t],
         pc'[t] = pc[t], Alone(t)' => Alone(t),
         \A q \in Ports : owner[q] \in {t, Prober(t)} => owner'[q] = owner[q]
  PROVE  TestRight(t)'
<1>1. stage[t] # "find" => port[t] \in Ports
  BY DEF TestRight
<1>2. stage[t] \in Listening \cup {"run"} => stage[t] # "find"
  BY DEF Listening
<1>. QED  BY <1>1, <1>2 DEF TestRight, Alive

(* Listening and no longer listening are nothing to the servers.           *)
LEMMA TestListens ==
  ASSUME Inv, NEW t \in Tests, NEW q \in Ports,
         \/ owner[q] = None /\ owner' = [owner EXCEPT ![q] = Prober(t)]
         \/ owner[q] = Prober(t) /\ owner' = [owner EXCEPT ![q] = None],
         UNCHANGED <<process, shown>>
  PROVE  Inv'
<1>1. Prober(t) \notin Processes \cup {None} /\ None \notin Processes
  BY HarnessAssumption, StartupAssumption
<1>2. DOMAIN owner = Ports /\ DOMAIN owner' = Ports
  BY DEF Inv, Functions
<1>3. \A at \in Ports, p \in Processes : owner'[at] = p <=> owner[at] = p
  BY <1>1, <1>2
<1>4. Functions'
  BY <1>2 DEF process, Inv, Functions
<1>5. \A p \in Processes : ProcessRight(p)'
  BY DEF process, Inv, ProcessRight, Mismatch
<1>6. \A e \in shown' : ShownRight(e)'
  BY DEF process, Inv, ShownRight
<1>7. BoundMeansServing'
  <2>1. \A p \in Processes : pc[p] = "serving" => cli[p].port \in Ports
    BY DEF Inv, Functions, CliType
  <2>. QED  BY <1>3, <2>1 DEF process, Inv, BoundMeansServing
<1>. QED  BY <1>4, <1>5, <1>6, <1>7 DEF process, Inv

LEMMA VarsStay ==
  ASSUME Inv, UNCHANGED vars
  PROVE  Inv'
BY StepInv

(* What a step of test t leaves of the others; alone it was before.        *)
LEMMA OtherTests ==
  ASSUME HarnessInv, NEW t \in Tests, NEW s \in Stages \ {"find"}, Enter(t, s),
         \A u \in Tests \ {t} : port'[u] = port[u] /\ keyFile'[u] = keyFile[u],
         \A p \in Processes \ {t} : pc'[p] = pc[p],
         \A q \in Ports : owner[q] \in {None, t, Prober(t)} \/ owner'[q] = owner[q]
  PROVE  /\ \A u \in Tests \ {t} : stage'[u] = stage[u] /\ TestRight(u)'
         /\ stage'[t] = s /\ stage' \in [Tests -> Stages]
         /\ Alone(t)' => Alone(t)
<1>1. /\ \A u \in Tests \ {t} : stage'[u] = stage[u]
      /\ stage'[t] = s /\ stage' \in [Tests -> Stages]
  BY DEF Enter, HarnessInv, TestFunctions
<1>2. Alone(t)' => Alone(t)
  BY <1>1 DEF Alone
<1>3. ASSUME NEW u \in Tests \ {t} PROVE TestRight(u)'
  <2>1. ~Alone(u)'
    BY <1>1 DEF Alone
  <2>2. u \in Processes /\ t \in Processes /\ u # t
    BY HarnessAssumption
  <2>3. Prober(u) # Prober(t)
    BY DEF Prober
  <2>4. \A q \in Ports : owner[q] \in {u, Prober(u)} => owner'[q] = owner[q]
    BY <2>2, <2>3, HarnessAssumption, StartupAssumption
  <2>. QED  BY <1>1, <2>1, <2>2, <2>4, Untouched DEF HarnessInv
<1>. QED  BY <1>1, <1>2, <1>3

(* A step of test t keeps the owners known when what it takes is its own,  *)
(* and what it lets go it held.                                            *)
LEMMA OwnersKnown ==
  ASSUME HarnessInv, NEW t \in Tests,
         \A u \in Tests \ {t} : stage'[u] = stage[u] /\ port'[u] = port[u],
         \A q \in Ports :
           \/ owner'[q] \in Processes \cup {None}
           \/ owner'[q] = owner[q] /\ owner[q] # Prober(t)
           \/ owner'[q] = Prober(t) /\ stage'[t] \in Listening /\ port'[t] = q
  PROVE  \A q \in Ports : OwnerKnown(q)'
<1>1. SUFFICES ASSUME NEW q \in Ports, owner'[q] = owner[q], owner[q] # Prober(t),
                      NEW u \in Tests, owner[q] = Prober(u),
                      stage[u] \in Listening, port[u] = q
               PROVE  OwnerKnown(q)'
  BY DEF HarnessInv, OwnerKnown
<1>2. u # t
  BY <1>1
<1>. QED  BY <1>1, <1>2 DEF OwnerKnown, Prober

-----------------------------------------------------------------------------
(* One lemma for each step of a test.                                      *)
LEMMA FindFreePortInv ==
  ASSUME HarnessInv, NEW t \in Tests, FindFreePort(t)
  PROVE  HarnessInv'
<1>1. PICK p \in Ports : Listen(p, Prober(t)) /\ port' = [port EXCEPT ![t] = p]
  BY DEF FindFreePort
<1>2. /\ stage[t] = "find" /\ Enter(t, "found") /\ "found" \in Stages \ {"find"}
      /\ UNCHANGED <<process, keyFile>> /\ UNCHANGED <<pc, shown>>
  BY DEF FindFreePort, Stages, Unspawned, process, vars
<1>3. /\ DOMAIN port' = Tests /\ port'[t] = p
      /\ \A u \in Tests \ {t} : port'[u] = port[u]
  BY <1>1 DEF HarnessInv, TestFunctions
<1>4. /\ owner[p] = None /\ owner'[p] = Prober(t)
      /\ \A q \in Ports \ {p} : owner'[q] = owner[q]
  BY <1>1 DEF Listen, HarnessInv, Inv, Functions
<1>5. Inv'
  BY <1>1, <1>2, TestListens DEF Listen, HarnessInv
<1>6. /\ \A u \in Tests \ {t} : stage'[u] = stage[u] /\ TestRight(u)'
      /\ stage'[t] = "found" /\ stage' \in [Tests -> Stages]
  BY <1>2, <1>3, <1>4, OtherTests
<1>7. TestRight(t)'
  <2>1. /\ pc[t] = "unborn" /\ ~keyFile[t]
    BY <1>2 DEF HarnessInv, TestRight, Unspawned, Attended
  <2>. QED  BY <1>2, <1>3, <1>4, <1>6, <2>1 DEF TestRight, Unspawned, Attended, Alive
<1>8. \A q \in Ports : owner[q] # Prober(t)
  <2>1. \A u \in Tests : Prober(u) = Prober(t) => u = t
    BY DEF Prober
  <2>. QED
    BY <1>2, <2>1, HarnessAssumption DEF HarnessInv, OwnerKnown, Listening
<1>9. \A q \in Ports : OwnerKnown(q)'
  BY <1>3, <1>4, <1>6, <1>8, OwnersKnown DEF Listening
<1>10. TestFunctions'
  BY <1>2, <1>3, <1>6 DEF HarnessInv, TestFunctions
<1>. QED  BY <1>5, <1>6, <1>7, <1>9, <1>10 DEF HarnessInv

(* Where a test's own listener is.                                         *)
LEMMA OwnListener ==
  ASSUME HarnessInv, NEW t \in Tests
  PROVE  /\ stage[t] \in Listening => port[t] \in Ports /\ owner[port[t]] = Prober(t)
         /\ \A q \in Ports : owner[q] = Prober(t) => stage[t] \in Listening /\ port[t] = q
<1>1. \A u \in Tests : Prober(u) = Prober(t) => u = t
  BY DEF Prober
<1>2. Prober(t) \notin Processes \cup {None}
  BY HarnessAssumption
<1>3. TestRight(t) /\ \A q \in Ports : OwnerKnown(q)
  BY DEF HarnessInv
<1>. QED  BY <1>1, <1>2, <1>3 DEF TestRight, OwnerKnown, Listening

(* The listener is dropped: as the port is found, or as the probe ends.    *)
LEMMA UnlistenInv ==
  ASSUME HarnessInv, NEW t \in Tests, NEW s \in Stages \ (Listening \cup {"find", "run"}),
         stage[t] \in Listening, Unlisten(port[t]), Enter(t, s),
         UNCHANGED <<process, shown, port>>,
         keyFile' \in [Tests -> BOOLEAN],
         \A u \in Tests \ {t} : keyFile'[u] = keyFile[u],
         s \in Unspawned => stage[t] \in Unspawned,
         Alive(t) => s \in Attended,
         keyFile'[t] <=> s \in Attended \cup {"spawn", "clean"}
  PROVE  HarnessInv'
<1>1. /\ port[t] \in Ports /\ owner[port[t]] = Prober(t)
      /\ \A q \in Ports : owner[q] = Prober(t) => port[t] = q
  BY OwnListener
<1>2. /\ owner'[port[t]] = None
      /\ \A q \in Ports \ {port[t]} : owner'[q] = owner[q]
  BY <1>1 DEF Unlisten, HarnessInv, Inv, Functions
<1>3. Inv'
  BY <1>1, TestListens DEF Unlisten, HarnessInv
<1>4. /\ \A u \in Tests \ {t} : stage'[u] = stage[u] /\ TestRight(u)'
      /\ stage'[t] = s /\ stage' \in [Tests -> Stages]
  BY <1>1, <1>2, OtherTests DEF process
<1>5. TestRight(t)'
  BY <1>1, <1>4 DEF HarnessInv, TestRight, process, Alive
<1>6. \A q \in Ports : OwnerKnown(q)'
  BY <1>1, <1>2, <1>4, OwnersKnown
<1>7. TestFunctions'
  BY <1>4 DEF HarnessInv, TestFunctions
<1>. QED  BY <1>3, <1>4, <1>5, <1>6, <1>7 DEF HarnessInv

LEMMA WriteKeyInv ==
  ASSUME HarnessInv, NEW t \in Tests, WriteKey(t)
  PROVE  HarnessInv'
<1>1. /\ stage[t] = "found" /\ Unlisten(port[t]) /\ Enter(t, "spawn")
      /\ UNCHANGED <<process, shown, port>>
      /\ keyFile' = [keyFile EXCEPT ![t] = TRUE]
  BY DEF WriteKey, process
<1>2. pc[t] = "unborn"
  BY <1>1 DEF HarnessInv, TestRight, Unspawned
<1>3. /\ keyFile' \in [Tests -> BOOLEAN] /\ keyFile'[t] = TRUE
      /\ \A u \in Tests \ {t} : keyFile'[u] = keyFile[u]
  BY <1>1 DEF HarnessInv, TestFunctions
<1>. QED
  BY <1>1, <1>2, <1>3, UnlistenInv
  DEF Stages, Unspawned, Attended, Listening, Alive

LEMMA ProbedInv ==
  ASSUME HarnessInv, NEW t \in Tests, Probed(t)
  PROVE  HarnessInv'
<1>1. /\ stage[t] = "probing" /\ Unlisten(port[t]) /\ Enter(t, "wait")
      /\ UNCHANGED <<process, shown, port>> /\ UNCHANGED keyFile
  BY DEF Probed, process
<1>2. keyFile \in [Tests -> BOOLEAN] /\ keyFile[t]
  BY <1>1 DEF HarnessInv, TestFunctions, TestRight, Attended
<1>. QED
  BY <1>1, <1>2, UnlistenInv DEF Stages, Unspawned, Attended, Listening

(* The probe listens itself, or finds somebody who does.                   *)
LEMMA ProbeInv ==
  ASSUME HarnessInv, NEW t \in Tests, Probe(t)
  PROVE  HarnessInv'
<1>1. /\ stage[t] = "probe" /\ UNCHANGED <<process, port, keyFile>>
      /\ UNCHANGED <<pc, shown>>
  BY DEF Probe, process, vars
<1>2. port[t] \in Ports /\ keyFile[t]
  BY <1>1 DEF HarnessInv, TestRight, Attended
<1>3. \A q \in Ports : owner[q] # Prober(t)
  BY <1>1, OwnListener DEF Listening
<1>4. CASE Listen(port[t], Prober(t)) /\ Enter(t, "probing")
  <2>1. /\ owner[port[t]] = None /\ owner'[port[t]] = Prober(t)
        /\ \A q \in Ports \ {port[t]} : owner'[q] = owner[q]
    BY <1>2, <1>4 DEF Listen, HarnessInv, Inv, Functions
  <2>2. Inv'
    BY <1>1, <1>2, <1>4, TestListens DEF Listen, HarnessInv
  <2>3. /\ \A u \in Tests \ {t} : stage'[u] = stage[u] /\ TestRight(u)'
        /\ stage'[t] = "probing" /\ stage' \in [Tests -> Stages]
    <3>1. "probing" \in Stages \ {"find"}
      BY DEF Stages, Attended
    <3>. QED  BY <1>1, <1>4, <2>1, <3>1, OtherTests
  <2>4. TestRight(t)'
    BY <1>1, <1>2, <2>1, <2>3 DEF TestRight, Unspawned, Attended
  <2>5. \A q \in Ports : OwnerKnown(q)'
    BY <1>1, <1>3, <2>1, <2>3, OwnersKnown DEF Listening
  <2>. QED
    BY <1>1, <2>2, <2>3, <2>4, <2>5 DEF HarnessInv, TestFunctions
<1>5. CASE owner[port[t]] # None /\ Enter(t, "run") /\ UNCHANGED owner
  <2>1. Inv'
    BY <1>1, <1>5, VarsStay DEF process, vars, HarnessInv
  <2>2. /\ \A u \in Tests \ {t} : stage'[u] = stage[u] /\ TestRight(u)'
        /\ stage'[t] = "run" /\ stage' \in [Tests -> Stages]
        /\ Alone(t)' => Alone(t)
    <3>1. "run" \in Stages \ {"find"}
      BY DEF Stages, Attended
    <3>. QED  BY <1>1, <1>5, <3>1, OtherTests
  <2>3. ASSUME Alone(t) PROVE owner[port[t]] = t
    <3>1. \A u \in Tests \ {t} : stage[u] \notin Listening /\ pc[u] = "unborn"
      BY <2>3 DEF Alone, HarnessInv, TestRight, Listening, Unspawned
    <3>2. \A u \in Tests : owner[port[t]] = Prober(u) => FALSE
      BY <1>2, <1>3, <3>1, OwnListener
    <3>3. owner[port[t]] \in Processes
      BY <1>2, <1>5, <3>2 DEF HarnessInv, OwnerKnown
    <3>4. pc[owner[port[t]]] = "serving"
      BY <1>2, <3>3 DEF HarnessInv, Inv, BoundMeansServing
    <3>. QED  BY <2>3, <3>1, <3>3, <3>4 DEF Alone
  <2>4. TestRight(t)'
    BY <1>1, <1>2, <1>5, <2>2, <2>3 DEF TestRight, Unspawned, Attended, Listening
  <2>5. \A q \in Ports : OwnerKnown(q)'
    BY <1>1, <1>3, <1>5, <2>2, OwnersKnown
  <2>. QED
    BY <1>1, <2>1, <2>2, <2>4, <2>5 DEF HarnessInv, TestFunctions
<1>. QED  BY <1>4, <1>5 DEF Probe

(* A step of a test that touches neither process nor port.                 *)
LEMMA TestGoesOn ==
  ASSUME HarnessInv, NEW t \in Tests, NEW s \in Stages \ (Unspawned \cup Listening \cup {"run"}),
         stage[t] \notin Listening \cup {"find"}, Enter(t, s), UNCHANGED <<vars, port>>,
         keyFile' \in [Tests -> BOOLEAN],
         \A u \in Tests \ {t} : keyFile'[u] = keyFile[u],
         Alive(t) => s \in Attended,
         keyFile'[t] <=> s \in Attended \cup {"spawn", "clean"}
  PROVE  HarnessInv'
<1>1. UNCHANGED <<pc, owner>> /\ Inv'
  BY VarsStay DEF vars, HarnessInv
<1>2. \A q \in Ports : owner[q] # Prober(t)
  BY OwnListener
<1>3. /\ \A u \in Tests \ {t} : stage'[u] = stage[u] /\ TestRight(u)'
      /\ stage'[t] = s /\ stage' \in [Tests -> Stages]
  BY <1>1, OtherTests DEF Unspawned
<1>4. TestRight(t)'
  BY <1>1, <1>3 DEF HarnessInv, TestRight, Alive
<1>5. \A q \in Ports : OwnerKnown(q)'
  BY <1>1, <1>2, <1>3, OwnersKnown
<1>. QED  BY <1>1, <1>3, <1>4, <1>5 DEF HarnessInv, TestFunctions

(* Spawn, when there is no binary, Sleep, RunTest, RemoveTempDir, and      *)
(* KillServer when the server is gone already.                             *)
LEMMA QuietTestInv ==
  ASSUME HarnessInv, NEW t \in Tests,
         \/ Spawn(t) /\ stage'[t] = "clean"
         \/ Sleep(t) \/ RunTest(t) \/ RemoveTempDir(t)
         \/ KillServer(t) /\ ~Alive(t)
  PROVE  HarnessInv'
<1>. USE DEF Stages, Unspawned, Listening, Attended, Enter
<1>1. TestRight(t) /\ keyFile \in [Tests -> BOOLEAN] /\ stage \in [Tests -> Stages]
  BY DEF HarnessInv, TestFunctions
<1>2. CASE Spawn(t) /\ stage'[t] = "clean"
  <2>1. stage[t] = "spawn" /\ Enter(t, "clean") /\ UNCHANGED <<vars, port, keyFile>>
    BY <1>1, <1>2 DEF Spawn
  <2>. QED  BY <1>1, <2>1, TestGoesOn DEF TestRight, Alive
<1>3. CASE Sleep(t)
  <2>1. PICK s \in {"probe", "kill"} : Enter(t, s)
    BY <1>3 DEF Sleep
  <2>2. stage[t] = "wait" /\ UNCHANGED <<vars, port, keyFile>>
    BY <1>3 DEF Sleep
  <2>. QED  BY <1>1, <2>1, <2>2, TestGoesOn DEF TestRight
<1>4. CASE RunTest(t)
  <2>1. stage[t] = "run" /\ Enter(t, "kill") /\ UNCHANGED <<vars, port, keyFile>>
    BY <1>4 DEF RunTest
  <2>. QED  BY <1>1, <2>1, TestGoesOn DEF TestRight
<1>5. CASE RemoveTempDir(t)
  <2>1. /\ stage[t] = "clean" /\ Enter(t, "ended") /\ UNCHANGED <<vars, port>>
        /\ keyFile' = [keyFile EXCEPT ![t] = FALSE]
    BY <1>5 DEF RemoveTempDir
  <2>. QED  BY <1>1, <2>1, TestGoesOn DEF TestRight
<1>6. CASE KillServer(t) /\ ~Alive(t)
  <2>1. stage[t] = "kill" /\ Enter(t, "clean") /\ UNCHANGED <<vars, port, keyFile>>
    BY <1>6 DEF KillServer, Kill
  <2>. QED  BY <1>1, <1>6, <2>1, TestGoesOn DEF TestRight
<1>. QED  BY <1>2, <1>3, <1>4, <1>5, <1>6

(* The server is started, and it was not there before.                     *)
LEMMA SpawnInv ==
  ASSUME HarnessInv, NEW t \in Tests, Spawn(t)
  PROVE  HarnessInv'
<1>1. CASE Enter(t, "clean") /\ UNCHANGED vars
  BY <1>1, QuietTestInv DEF Enter, HarnessInv, TestFunctions
<1>2. CASE /\ Start(t, [quorum |-> TheKey, port |-> port[t], print |-> FALSE])
           /\ Enter(t, "wait")
  <2> DEFINE invocation == [quorum |-> TheKey, port |-> port[t], print |-> FALSE]
  <2>1. /\ stage[t] = "spawn" /\ UNCHANGED <<port, keyFile>>
        /\ port[t] \in Ports /\ keyFile[t] /\ t \in Processes
    BY HarnessAssumption
    DEF Spawn, HarnessInv, TestRight, Unspawned, Attended
  <2>2. invocation \in CliType
    BY <2>1, HarnessAssumption DEF CliType
  <2>3. Inv' /\ UNCHANGED owner
    BY <1>2, <2>1, <2>2, StartInv DEF Start, HarnessInv
  <2>4. \A p \in Processes \ {t} : pc'[p] = pc[p]
    BY <1>2 DEF Start, GoOn, Goto, HarnessInv, Inv, Functions
  <2>5. /\ \A u \in Tests \ {t} : stage'[u] = stage[u] /\ TestRight(u)'
        /\ stage'[t] = "wait" /\ stage' \in [Tests -> Stages]
    <3>1. "wait" \in Stages \ {"find"}
      BY DEF Stages, Attended
    <3>. QED  BY <1>2, <2>1, <2>3, <2>4, <3>1, OtherTests
  <2>6. TestRight(t)'
    BY <2>1, <2>5 DEF TestRight, Unspawned, Attended, Listening
  <2>7. \A q \in Ports : OwnerKnown(q)'
    BY <2>1, <2>3, <2>5, OwnListener, OwnersKnown DEF Listening
  <2>. QED
    BY <2>1, <2>3, <2>5, <2>6, <2>7 DEF HarnessInv, TestFunctions
<1>. QED  BY <1>1, <1>2 DEF Spawn

(* ChildWrapper::drop takes what its own server held, and nothing else.    *)
LEMMA KillServerInv ==
  ASSUME HarnessInv, NEW t \in Tests, KillServer(t)
  PROVE  HarnessInv'
<1>1. CASE ~Alive(t)
  BY <1>1, QuietTestInv
<1>2. CASE Kill(t)
  <2>1. /\ stage[t] = "kill" /\ Enter(t, "clean") /\ UNCHANGED <<port, keyFile>>
        /\ port[t] \in Ports /\ keyFile[t] /\ t \in Processes
    BY HarnessAssumption DEF KillServer, HarnessInv, TestRight, Attended
  <2>2. /\ Inv'
        /\ \A q \in Ports : owner'[q] = IF owner[q] = t THEN None ELSE owner[q]
    BY <1>2, <2>1, KillInv DEF Kill, HarnessInv
  <2>3. pc'[t] = "killed" /\ \A p \in Processes \ {t} : pc'[p] = pc[p]
    BY <1>2, <2>1 DEF Kill, GoOn, Goto, HarnessInv, Inv, Functions
  <2>4. /\ \A u \in Tests \ {t} : stage'[u] = stage[u] /\ TestRight(u)'
        /\ stage'[t] = "clean" /\ stage' \in [Tests -> Stages]
    <3>1. "clean" \in Stages \ {"find"}
      BY DEF Stages
    <3>. QED  BY <2>1, <2>2, <2>3, <3>1, OtherTests
  <2>5. TestRight(t)'
    BY <2>1, <2>3, <2>4 DEF TestRight, Unspawned, Attended, Listening, Alive
  <2>6. \A q \in Ports : OwnerKnown(q)'
    BY <2>1, <2>2, <2>4, OwnListener, OwnersKnown DEF Listening
  <2>. QED
    BY <2>1, <2>2, <2>4, <2>5, <2>6 DEF HarnessInv, TestFunctions
<1>. QED  BY <1>1, <1>2 DEF KillServer

-----------------------------------------------------------------------------
(* The steps of processes.  A step of one leaves the others where they     *)
(* are, and takes only a free port, which it then has.                     *)
LEMMA StepEffect ==
  ASSUME Inv, NEW p \in Processes, Step(p)
  PROVE  /\ pc'[p] # "unborn" /\ \A r \in Processes \ {p} : pc'[r] = pc[r]
         /\ \A q \in Ports :
              \/ owner'[q] = owner[q]
              \/ owner[q] = None /\ owner'[q] = p
              \/ owner[q] = p /\ owner'[q] = None
<1>. USE DEF GoOn, Exit, Goto, Inv, Functions
<1>1. CASE \E invocation \in Invocations : Start(p, invocation)
  BY <1>1 DEF Start
<1>2. CASE LoadQuorumKey(p) \/ DeriveTeamKey(p) \/ CheckPin(p) \/ PrintPublicKey(p)
  BY <1>2 DEF LoadQuorumKey, DeriveTeamKey, CheckPin, PrintPublicKey
<1>3. CASE BuildMetrics(p) \/ BuildAllowlist(p) \/ Bind(p)
  BY <1>3 DEF BuildMetrics, BuildAllowlist, Bind
<1>4. CASE PublicKey(p) \/ Kill(p)
  BY <1>4 DEF PublicKey, Kill
<1>. QED  BY <1>1, <1>2, <1>3, <1>4 DEF Step, Main

LEMMA MainEffect ==
  ASSUME Inv, NEW p \in Processes, Main(p) \/ PublicKey(p)
  PROVE  Alive(p) /\ \A q \in Ports : owner[q] = p => owner'[q] = p
<1>. USE DEF Alive, Inv, Functions
<1>1. CASE LoadQuorumKey(p) \/ DeriveTeamKey(p) \/ CheckPin(p) \/ PrintPublicKey(p)
  BY <1>1 DEF LoadQuorumKey, DeriveTeamKey, CheckPin, PrintPublicKey
<1>2. CASE BuildMetrics(p) \/ BuildAllowlist(p) \/ Bind(p)
  BY <1>2, StartupAssumption DEF BuildMetrics, BuildAllowlist, Bind
<1>3. CASE PublicKey(p)
  BY <1>3 DEF PublicKey
<1>. QED  BY <1>1, <1>2, <1>3 DEF Main

LEMMA ProcessInv ==
  ASSUME HarnessInv, NEW p \in Processes, Step(p), UNCHANGED test,
         p \in Tests => Main(p) \/ PublicKey(p)
  PROVE  HarnessInv'
<1>1. /\ pc'[p] # "unborn" /\ \A r \in Processes \ {p} : pc'[r] = pc[r]
      /\ \A q \in Ports :
           \/ owner'[q] = owner[q]
           \/ owner[q] = None /\ owner'[q] = p
           \/ owner[q] = p /\ owner'[q] = None
  BY StepEffect DEF HarnessInv
<1>2. UNCHANGED <<stage, port, keyFile>>
  BY DEF test
<1>3. Inv'
  BY StepInv DEF HarnessInv, Next
<1>4. ASSUME NEW t \in Tests PROVE TestRight(t)'
  <2>1. t \in Processes /\ Prober(t) \notin Processes \cup {None} /\ None \notin Processes
    BY HarnessAssumption, StartupAssumption
  <2>2. Alone(t)' => Alone(t)
    BY <1>1, <1>2 DEF Alone
  <2>3. CASE p # t
    BY <1>1, <1>2, <2>1, <2>2, <2>3, Untouched DEF HarnessInv
  <2>4. CASE p = t
    <3>1. Alive(t) /\ \A q \in Ports : owner[q] = t => owner'[q] = t
      BY <2>4, MainEffect DEF HarnessInv
    <3>2. stage[t] \in Attended /\ stage[t] \notin Unspawned /\ TestRight(t)
      BY <3>1 DEF HarnessInv, TestRight, Attended, Unspawned
    <3>3. stage[t] \in Listening => owner'[port[t]] = Prober(t)
      BY <1>1, <2>1, <2>4, <3>2 DEF TestRight, Attended
    <3>4. stage[t] = "run" /\ Alone(t) => owner'[port[t]] = t
      BY <3>1, <3>2 DEF TestRight
    <3>. QED  BY <1>2, <2>2, <3>2, <3>3, <3>4 DEF TestRight
  <2>. QED  BY <2>3, <2>4
<1>5. ASSUME NEW q \in Ports PROVE OwnerKnown(q)'
  BY <1>1, <1>2 DEF HarnessInv, OwnerKnown
<1>. QED  BY <1>2, <1>3, <1>4, <1>5 DEF HarnessInv, TestFunctions

LEMMA HarnessStepInv == HarnessInv /\ [HarnessNext]_allVars => HarnessInv'
<1>. SUFFICES ASSUME HarnessInv, [HarnessNext]_allVars PROVE HarnessInv'
  OBVIOUS
<1>1. ASSUME NEW t \in Tests, Execute(t) PROVE HarnessInv'
  BY <1>1, FindFreePortInv, WriteKeyInv, SpawnInv, ProbeInv, ProbedInv,
     QuietTestInv, KillServerInv
  DEF Execute
<1>2. ASSUME NEW t \in Tests, Server(t) PROVE HarnessInv'
  <2>1. t \in Processes
    BY HarnessAssumption
  <2>. QED  BY <1>2, <2>1, ProcessInv DEF Server, Step
<1>3. ASSUME NEW p \in Processes \ Tests, Other(p) PROVE HarnessInv'
  BY <1>3, ProcessInv DEF Other
<1>4. CASE UNCHANGED allVars
  <2>1. Inv' /\ UNCHANGED <<stage, port, keyFile, owner, pc>>
    BY <1>4, VarsStay DEF allVars, test, vars, HarnessInv
  <2>. QED
    BY <2>1 DEF HarnessInv, TestFunctions, TestRight, Alone, Alive, OwnerKnown
<1>. QED  BY <1>1, <1>2, <1>3, <1>4 DEF HarnessNext

THEOREM HarnessAlwaysInv == HarnessSpec => []HarnessInv
<1>. QED  BY HarnessInitInv, HarnessStepInv, PTL DEF HarnessSpec

(* The harness takes ports that servers may want, and nothing else of      *)
(* theirs: what is true of processes alone is true beside it.              *)
THEOREM OnlyPinnedKeysInTests == HarnessSpec => []PinnedKeyOnly
<1>1. HarnessInv => PinnedKeyOnly
  BY DEF HarnessInv, Inv, ShownRight, PinnedKeyOnly
<1>. QED  BY <1>1, HarnessAlwaysInv, PTL

THEOREM BoundMeansServingInTests == HarnessSpec => []BoundMeansServing
<1>1. HarnessInv => BoundMeansServing
  BY DEF HarnessInv, Inv
<1>. QED  BY <1>1, HarnessAlwaysInv, PTL

(* A test that has the machine for itself runs against its own server,     *)
(* never against its probe, however slow that server is.                   *)
THEOREM TestAlwaysSeesItsServer == HarnessSpec => []TestSeesItsServer
<1>1. HarnessInv => TestSeesItsServer
  BY DEF HarnessInv, TestRight, TestSeesItsServer
<1>. QED  BY <1>1, HarnessAlwaysInv, PTL

(* However many tests run at once and in whatever way each of them ends,   *)
(* its server is gone, with its port; and its directory, but not before.   *)
THEOREM NothingEverLeftBehind == HarnessSpec => []NothingLeftBehind
<1>1. HarnessInv => NothingLeftBehind
  <2>. SUFFICES ASSUME HarnessInv, NEW t \in Tests
               PROVE  /\ stage[t] = "ended" =>
                           ~Alive(t) /\ ~keyFile[t] /\ \A p \in Ports : owner[p] # t
                      /\ Alive(t) => keyFile[t]
    BY DEF NothingLeftBehind
  <2>1. TestRight(t) /\ t \in Processes
    BY HarnessAssumption DEF HarnessInv
  <2>2. ASSUME NEW p \in Ports, owner[p] = t PROVE Alive(t)
    BY <2>1, <2>2 DEF HarnessInv, Inv, BoundMeansServing, Alive
  <2>. QED  BY <2>1, <2>2 DEF TestRight, Attended
<1>. QED  BY <1>1, HarnessAlwaysInv, PTL
=============================================================================
