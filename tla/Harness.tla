------------------------------ MODULE Harness ------------------------------
(***************************************************************************)
(* The integration test harness, crates/e2e/src/lib.rs: tests that run at  *)
(* once, each of which finds a free port, starts a server on it (Startup), *)
(* waits until something listens there, talks to it and takes everything   *)
(* down, whether it passes or panics.                                      *)
(*                                                                         *)
(* A port is free once its listener is dropped, and anybody may have it    *)
(* next: other processes of the binary, started by hand, are about.        *)
(* Servers take their time to start, as long as they like.                 *)
(***************************************************************************)
EXTENDS Startup

CONSTANTS
  Tests,      \* each known by the process of its server
  MaxWait,    \* MAX_PORT_BIND_WAIT_TIME, in milliseconds
  Increment,  \* PORT_BIND_WAIT_TIME_INCREMENT
  TheKey      \* the quorum key of a test

Prober(t) == <<"test", t>>

ASSUME HarnessAssumption ==
  /\ Tests \subseteq Processes
  /\ MaxWait \in Nat /\ Increment \in Nat \ {0}
  /\ TheKey \in QuorumKeys
  /\ \A t \in Tests : Prober(t) \notin Processes \cup {None}

VARIABLES
  stage,    \* where each test is
  port,     \* the port it found
  wait,     \* wait_time
  slept,    \* how long it has waited by now, in all, up to TooLong
  keyFile,  \* whether its temporary directory, with the quorum key, is there
  verdict   \* how the test ended

waiting == <<wait, slept>>
test == <<stage, port, waiting, keyFile, verdict>>
allVars == <<vars, test>>

HarnessInit ==
  /\ Init
  /\ stage = [t \in Tests |-> "find"]
  /\ port = [t \in Tests |-> None]
  /\ wait = [t \in Tests |-> Increment]
  /\ slept = [t \in Tests |-> 0]
  /\ keyFile = [t \in Tests |-> FALSE]
  /\ verdict = [t \in Tests |-> "none"]

Enter(t, s) == stage' = [stage EXCEPT ![t] = s]
Judge(t, v) == verdict' = [verdict EXCEPT ![t] = v]

Listen(p, by) == owner[p] = None /\ owner' = [owner EXCEPT ![p] = by]
Unlisten(p) == owner' = [owner EXCEPT ![p] = None]

process == <<build, cli, pc, code, teamKey, shown>>

(* find_free_port: the system picks a port nobody listens on.              *)
FindFreePort(t) ==
  /\ stage[t] = "find"
  /\ \E p \in Ports : Listen(p, Prober(t)) /\ port' = [port EXCEPT ![t] = p]
  /\ Enter(t, "found")
  /\ UNCHANGED <<process, waiting, keyFile, verdict>>

(* The listener is dropped as find_free_port returns; the quorum key is    *)
(* written.                                                                *)
WriteKey(t) ==
  /\ stage[t] = "found"
  /\ Unlisten(port[t])
  /\ keyFile' = [keyFile EXCEPT ![t] = TRUE]
  /\ Enter(t, "spawn")
  /\ UNCHANGED <<process, port, waiting, verdict>>

(* No server binary, and the test panics.                                  *)
Spawn(t) ==
  /\ stage[t] = "spawn"
  /\ \/ /\ Start(t, [quorum |-> TheKey, port |-> port[t], print |-> FALSE])
        /\ Enter(t, "wait")
        /\ UNCHANGED verdict
     \/ Enter(t, "clean") /\ Judge(t, "panicked") /\ UNCHANGED vars
  /\ UNCHANGED <<port, waiting, keyFile>>

-----------------------------------------------------------------------------
(* wait_until_port_is_bound: sleep for wait_time and probe, or panic.  All *)
(* sleeps are counted, up to the first that is beyond the limit.           *)
TooLong == MaxWait + 1
Waited(n) == IF n > MaxWait THEN TooLong ELSE n

Sleep(t) ==
  /\ stage[t] = "wait"
  /\ \/ /\ wait[t] < MaxWait
        /\ slept' = [slept EXCEPT ![t] = Waited(@ + wait[t])]
        /\ Enter(t, "probe")
        /\ UNCHANGED verdict
     \/ /\ wait[t] >= MaxWait
        /\ Enter(t, "kill") /\ Judge(t, "panicked")
        /\ UNCHANGED slept
  /\ UNCHANGED <<vars, port, wait, keyFile>>

(* port_is_available: to find out the harness listens there itself.        *)
Probe(t) ==
  /\ stage[t] = "probe"
  /\ \/ /\ Listen(port[t], Prober(t))
        /\ Enter(t, "probing")
     \/ /\ owner[port[t]] # None
        /\ Enter(t, "run")
        /\ UNCHANGED owner
  /\ UNCHANGED <<process, port, waiting, keyFile, verdict>>

(* Mutated: the listener lives on.                                         *)
ProbedAndKept(t) ==
  /\ stage[t] = "probing"
  /\ wait' = [wait EXCEPT ![t] = @ + Increment]
  /\ Enter(t, "wait")
  /\ UNCHANGED <<vars, port, slept, keyFile, verdict>>

(* Mutated: every wait is as long as the first.                            *)
ProbedOnly(t) ==
  /\ stage[t] = "probing"
  /\ Unlisten(port[t])
  /\ Enter(t, "wait")
  /\ UNCHANGED <<process, port, waiting, keyFile, verdict>>

Probed(t) ==
  /\ stage[t] = "probing"
  /\ Unlisten(port[t])
  /\ wait' = [wait EXCEPT ![t] = @ + Increment]
  /\ Enter(t, "wait")
  /\ UNCHANGED <<process, port, slept, keyFile, verdict>>

-----------------------------------------------------------------------------
(* The test itself, against whoever listens on the port.                   *)
RunTest(t) ==
  /\ stage[t] = "run"
  /\ \E v \in {"passed", "panicked"} : Judge(t, v)
  /\ Enter(t, "kill")
  /\ UNCHANGED <<vars, port, waiting, keyFile>>

(* Mutated: a Child that is dropped is left running.                       *)
LeaveServer(t) ==
  /\ stage[t] = "kill"
  /\ Enter(t, "clean")
  /\ UNCHANGED <<vars, port, waiting, keyFile, verdict>>

(* ChildWrapper::drop: kill, and wait until it is gone.                    *)
KillServer(t) ==
  /\ stage[t] = "kill"
  /\ \/ Kill(t)
     \/ ~Alive(t) /\ UNCHANGED vars
  /\ Enter(t, "clean")
  /\ UNCHANGED <<port, waiting, keyFile, verdict>>

(* The temporary directory was there before the server and goes after it.  *)
RemoveTempDir(t) ==
  /\ stage[t] = "clean"
  /\ keyFile' = [keyFile EXCEPT ![t] = FALSE]
  /\ Enter(t, "ended")
  /\ UNCHANGED <<vars, port, waiting, verdict>>

Execute(t) ==
  \/ FindFreePort(t) \/ WriteKey(t) \/ Spawn(t)
  \/ Sleep(t) \/ Probe(t) \/ Probed(t)
  \/ RunTest(t) \/ KillServer(t) \/ RemoveTempDir(t)

Server(t) == (Main(t) \/ PublicKey(t)) /\ UNCHANGED test

(* By hand, with any arguments: to serve, or to print the key.             *)
Other(p) == Step(p) /\ UNCHANGED test

HarnessNext ==
  \/ \E t \in Tests : Execute(t) \/ Server(t)
  \/ \E p \in Processes \ Tests : Other(p)

(* A test goes on by itself; nothing is assumed of its server.             *)
HarnessSpec ==
  HarnessInit /\ [][HarnessNext]_allVars /\ \A t \in Tests : WF_allVars(Execute(t))

-----------------------------------------------------------------------------
Alone(t) ==
  /\ \A u \in Tests \ {t} : stage[u] = "find"
  /\ \A p \in Processes \ Tests : pc[p] = "unborn"

(* "Spawns the tvc_gpg binary, waits for it to bind, then runs the         *)
(* provided test function" (e2e/src/lib.rs:100): a test that has the       *)
(* machine for itself runs its test function only when its own server      *)
(* listens on its port, however slow that server is, and never against its *)
(* own probe.                                                              *)
TestSeesItsServer ==
  \A t \in Tests : stage[t] = "run" /\ Alone(t) => owner[port[t]] = t

(* "kills the process on drop" (lib.rs:23): whichever way a test ends, its *)
(* server is gone, and with it whatever it held; and as long as a server   *)
(* runs the directory with its quorum key is there.                        *)
NothingLeftBehind ==
  \A t \in Tests :
    /\ stage[t] = "ended" =>
         ~Alive(t) /\ ~keyFile[t] /\ \A p \in Ports : owner[p] # t
    /\ Alive(t) => keyFile[t]

(* Every test ends, even when its server never comes up.                   *)
TestsEnd == \A t \in Tests : <>(stage[t] = "ended")

(* "Panics if the the port is not bound to within MAX_PORT_BIND_WAIT_TIME" *)
(* (e2e/src/lib.rs:54), and "is still available after 90s" (line 68): a    *)
(* test that still polls for its server has not waited longer than that.   *)
PanicsInTime ==
  \A t \in Tests : stage[t] \in {"probe", "probing"} => slept[t] <= MaxWait
=============================================================================
