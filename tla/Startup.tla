------------------------------ MODULE Startup ------------------------------
(***************************************************************************)
(* main of crates/tvc-gpg/src/main.rs, step by step, for any number of     *)
(* processes on one machine, which share its ports: the quorum key, the    *)
(* team key and its pinned fingerprint, --print-public-key, the metrics,   *)
(* the allowlist, the port.  A process that serves answers with its team   *)
(* key and is ended from outside.                                          *)
(*                                                                         *)
(* A team key, and its fingerprint, are told apart by the quorum key they  *)
(* are derived from (TeamKey).                                             *)
(***************************************************************************)
EXTENDS Naturals, FiniteSets

CONSTANTS
  Processes,
  Ports,
  QuorumKeys,
  Underivable,  \* quorum keys that no team key comes of
  Pins,         \* what EXPECTED_SUBKEY_FINGERPRINT of a build may be
  Allowlists,   \* what its embedded allowlist may come to
  Invocations,  \* what a process may be started with
  None

(* quorum: the key in the quorum file, None when there is none that reads. *)
CliType == [quorum : QuorumKeys \cup {None}, port : Ports, print : BOOLEAN]

ASSUME StartupAssumption ==
  /\ None \notin QuorumKeys /\ None \notin Ports /\ None \notin Processes
  /\ None \notin {0, 1, 101}
  /\ Underivable \subseteq QuorumKeys
  /\ Pins \subseteq QuorumKeys \cup {None}
  /\ Allowlists \subseteq {"good", "empty", "broken"}
  /\ Invocations \subseteq CliType

VARIABLES
  build,   \* of the binary: its pin and its allowlist
  cli,     \* the arguments of each process
  pc,      \* the next step of its main
  code,    \* its exit code
  teamKey, \* what it derived
  owner,   \* who listens on each port
  shown    \* history: the keys printed and served, with who did it

vars == <<build, cli, pc, code, teamKey, owner, shown>>

Init ==
  /\ build \in [pin : Pins, allowlist : Allowlists]
  /\ cli = [p \in Processes |-> None]
  /\ pc = [p \in Processes |-> "unborn"]
  /\ code = [p \in Processes |-> None]
  /\ teamKey = [p \in Processes |-> None]
  /\ owner = [port \in Ports |-> None]
  /\ shown = {}

Goto(p, step) == pc' = [pc EXCEPT ![p] = step]
Exit(p, n) == Goto(p, "exited") /\ code' = [code EXCEPT ![p] = n]
GoOn(p, step) == Goto(p, step) /\ UNCHANGED code

Start(p, invocation) ==
  /\ pc[p] = "unborn"
  /\ cli' = [cli EXCEPT ![p] = invocation]
  /\ GoOn(p, "load")
  /\ UNCHANGED <<build, teamKey, owner, shown>>

-----------------------------------------------------------------------------
(* main.  An error it returns is exit code 1.                              *)

LoadQuorumKey(p) ==
  /\ pc[p] = "load"
  /\ \/ cli[p].quorum # None /\ GoOn(p, "derive")
     \/ cli[p].quorum = None /\ Exit(p, 1)
  /\ UNCHANGED <<build, cli, teamKey, owner, shown>>

DeriveTeamKey(p) ==
  /\ pc[p] = "derive"
  /\ \/ /\ cli[p].quorum \notin Underivable
        /\ teamKey' = [teamKey EXCEPT ![p] = cli[p].quorum]
        /\ GoOn(p, "pin")
     \/ cli[p].quorum \in Underivable /\ Exit(p, 1) /\ UNCHANGED teamKey
  /\ UNCHANGED <<build, cli, owner, shown>>

Mismatch(p) == build.pin # None /\ build.pin # teamKey[p]

(* Mutated: printing the key needs no check.                               *)
CheckPinUnlessPrinting(p) ==
  /\ pc[p] = "pin"
  /\ \/ cli[p].print /\ GoOn(p, "print")
     \/ Mismatch(p) /\ ~cli[p].print /\ Exit(p, 1)
     \/ ~Mismatch(p) /\ ~cli[p].print /\ GoOn(p, "metrics")
  /\ UNCHANGED <<build, cli, teamKey, owner, shown>>

CheckPin(p) ==
  /\ pc[p] = "pin"
  /\ \/ Mismatch(p) /\ Exit(p, 1)
     \/ ~Mismatch(p) /\ GoOn(p, IF cli[p].print THEN "print" ELSE "metrics")
  /\ UNCHANGED <<build, cli, teamKey, owner, shown>>

Show(p) == shown' = shown \cup {[by |-> p, key |-> teamKey[p]]}

(* Encoding may fail; a standard output that is gone is a panic.           *)
PrintPublicKey(p) ==
  /\ pc[p] = "print"
  /\ \/ Show(p) /\ Exit(p, 0)
     \/ \E n \in {1, 101} : Exit(p, n) /\ UNCHANGED shown
  /\ UNCHANGED <<build, cli, teamKey, owner>>

BuildMetrics(p) ==
  /\ pc[p] = "metrics"
  /\ GoOn(p, "allowlist") \/ Exit(p, 1)
  /\ UNCHANGED <<build, cli, teamKey, owner, shown>>

(* Mutated: the port is bound first, and the allowlist built when it is.   *)
BindThenBuildAllowlist(p) ==
  /\ pc[p] = "allowlist"
  /\ \/ /\ owner[cli[p].port] = None
        /\ owner' = [owner EXCEPT ![cli[p].port] = p]
        /\ UNCHANGED <<pc, code>>
     \/ owner[cli[p].port] # p /\ Exit(p, 1) /\ UNCHANGED owner
     \/ /\ owner[cli[p].port] = p
        /\ build.allowlist = "good"
        /\ GoOn(p, "serving")
        /\ UNCHANGED owner
     \/ /\ owner[cli[p].port] = p
        /\ build.allowlist # "good"
        /\ Exit(p, 1)
        /\ owner' = [owner EXCEPT ![cli[p].port] = None]
  /\ UNCHANGED <<build, cli, teamKey, shown>>

BuildAllowlist(p) ==
  /\ pc[p] = "allowlist"
  /\ \/ build.allowlist = "good" /\ GoOn(p, "bind")
     \/ build.allowlist # "good" /\ Exit(p, 1)
  /\ UNCHANGED <<build, cli, teamKey, owner, shown>>

(* A free port may be refused as well: no such host, no permission.        *)
Bind(p) ==
  /\ pc[p] = "bind"
  /\ \/ /\ owner[cli[p].port] = None
        /\ owner' = [owner EXCEPT ![cli[p].port] = p]
        /\ GoOn(p, "serving")
     \/ Exit(p, 1) /\ UNCHANGED owner
  /\ UNCHANGED <<build, cli, teamKey, shown>>

(* GET /public-key.                                                        *)
PublicKey(p) ==
  /\ pc[p] = "serving"
  /\ Show(p)
  /\ UNCHANGED <<build, cli, pc, code, teamKey, owner>>

Main(p) ==
  \/ LoadQuorumKey(p) \/ DeriveTeamKey(p) \/ CheckPin(p) \/ PrintPublicKey(p)
  \/ BuildMetrics(p) \/ BuildAllowlist(p) \/ Bind(p)

Alive(p) == pc[p] \notin {"unborn", "exited", "killed"}

(* A signal; the port is free again.                                       *)
Kill(p) ==
  /\ Alive(p)
  /\ GoOn(p, "killed")
  /\ owner' = [port \in Ports |-> IF owner[port] = p THEN None ELSE owner[port]]
  /\ UNCHANGED <<build, cli, teamKey, shown>>

Step(p) ==
  \/ \E invocation \in Invocations : Start(p, invocation)
  \/ Main(p) \/ PublicKey(p) \/ Kill(p)

Next == \E p \in Processes : Step(p)

Spec == Init /\ [][Next]_vars

-----------------------------------------------------------------------------
(* No key reaches anybody, printed or served, but the one that belongs to  *)
(* the quorum file, and that is pinned when one is: the check is made      *)
(* before either way out.  And "Print the app's public OpenPGP key and     *)
(* exit" (cli.rs:24): an exit code of 0 says that the key was printed.     *)
PinnedKeyOnly ==
  /\ \A e \in shown :
       e.key = cli[e.by].quorum /\ build.pin \in {None, e.key}
  /\ \A p \in Processes : code[p] = 0 => \E e \in shown : e.by = p

(* A port that a process listens on is served, with an allowlist that has  *)
(* somebody on it: whoever finds it bound does not find a process that is  *)
(* about to give up, or one that only prints.  And one that serves holds   *)
(* its port.                                                               *)
BoundMeansServing ==
  /\ \A port \in Ports, p \in Processes : owner[port] = p =>
       /\ pc[p] = "serving" /\ ~cli[p].print
       /\ build.allowlist = "good"
       /\ cli[p].port = port
  /\ \A p \in Processes : pc[p] = "serving" => owner[cli[p].port] = p
=============================================================================
