------------------------------ MODULE GpgSign ------------------------------
(***************************************************************************)
(* gpg::sign of crates/tvc-gpg-client/src/gpg.rs: the client starts gpg    *)
(* with a pipe on its standard input and one on its output, writes the     *)
(* whole payload, then reads the output to its end and waits.              *)
(*                                                                         *)
(* gpg is external: it reads its input to the end, and with whatever the   *)
(* agent and the YubiKey make of it writes a signature or none; it may     *)
(* give up, or die, at any point.  Payload and signature pass the pipes in *)
(* chunks.                                                                 *)
(***************************************************************************)
EXTENDS Naturals

CONSTANTS
  Payload,    \* the chunks of the payload
  Signature,  \* the chunks of a signature
  PipeChunks, \* how many of them a pipe holds
  ExitCodes   \* what gpg may exit with

ASSUME GpgSignAssumption ==
  /\ Payload \in Nat \ {0} /\ Signature \in Nat \ {0}
  /\ PipeChunks \in Nat \ {0}
  /\ ExitCodes \subseteq Nat

VARIABLES
  pc,       \* where the client is
  result,   \* what sign returns
  wrote,    \* how many chunks of the payload it has written
  written,  \* what came of writing: "pending", "ok" or "broken"
  input,    \* chunks in the pipe to gpg
  output,   \* chunks in the pipe from gpg
  got,      \* chunks the client has read
  gpg,      \* "none", "reading", "signing", "exited", "killed"
  code,     \* what gpg exited with
  taken,    \* history: the chunks of the payload gpg has read
  put       \* history: the chunks of the signature it has written

client == <<pc, result, wrote, written, got>>
child == <<gpg, code, taken, put>>
vars == <<client, input, output, child>>

Init ==
  /\ pc = "spawn" /\ result = "none"
  /\ wrote = 0 /\ written = "pending" /\ got = 0
  /\ input = 0 /\ output = 0
  /\ gpg = "none" /\ code = 0 /\ taken = 0 /\ put = 0

Running == gpg \in {"reading", "signing"}
Return(value) == pc' = "returned" /\ result' = value

-----------------------------------------------------------------------------
(* The client.                                                             *)
Spawn ==
  /\ pc = "spawn"
  /\ \/ pc' = "write" /\ gpg' = "reading" /\ UNCHANGED result
     \/ Return("noGpg") /\ UNCHANGED gpg
  /\ UNCHANGED <<wrote, written, got, input, output, code, taken, put>>

(* write_all blocks while the pipe is full, and fails when gpg is gone.    *)
(* The pipe is closed behind it.                                           *)
Write ==
  /\ pc = "write"
  /\ \/ /\ Running /\ wrote < Payload /\ input < PipeChunks
        /\ wrote' = wrote + 1 /\ input' = input + 1
        /\ UNCHANGED <<pc, written>>
     \/ /\ wrote = Payload
        /\ written' = "ok" /\ pc' = "collect"
        /\ UNCHANGED <<wrote, input>>
     \/ /\ ~Running /\ wrote < Payload
        /\ written' = "broken" /\ pc' = "collect"
        /\ UNCHANGED <<wrote, input>>
  /\ UNCHANGED <<result, got, output, child>>

Read == output > 0 /\ got' = got + 1 /\ output' = output - 1

(* Mutated: wait, then read.                                               *)
CollectAfterwards ==
  /\ pc = "collect" /\ ~Running /\ Read
  /\ UNCHANGED <<pc, result, wrote, written, input, child>>

(* wait_with_output reads to the end of the output,                        *)
Collect ==
  /\ pc = "collect" /\ Read
  /\ UNCHANGED <<pc, result, wrote, written, input, child>>

Failed == gpg = "killed" \/ code # 0

(* Mutated: the write error comes first.                                   *)
VerdictOfTheWrite ==
  IF written = "broken" THEN "notTaken" ELSE IF Failed THEN "status" ELSE "ok"

(* Mutated: a gpg that is content needs no look at what it took.           *)
VerdictOfGpg == IF Failed THEN "status" ELSE "ok"

Verdict ==
  IF Failed THEN "status" ELSE IF written = "broken" THEN "notTaken" ELSE "ok"

(* and waits for gpg.  Its status is judged before the write.              *)
Finish ==
  /\ pc = "collect" /\ output = 0 /\ ~Running
  /\ Return(Verdict)
  /\ UNCHANGED <<wrote, written, got, input, output, child>>

-----------------------------------------------------------------------------
(* gpg.                                                                    *)
InputClosed == pc \in {"collect", "returned"}

Take ==
  /\ gpg = "reading"
  /\ \/ /\ input > 0
        /\ input' = input - 1 /\ taken' = taken + 1
        /\ UNCHANGED gpg
     \/ input = 0 /\ InputClosed /\ gpg' = "signing" /\ UNCHANGED <<input, taken>>
  /\ UNCHANGED <<client, output, code, put>>

Put ==
  /\ gpg = "signing" /\ put < Signature /\ output < PipeChunks
  /\ put' = put + 1 /\ output' = output + 1
  /\ UNCHANGED <<client, input, gpg, code, taken>>

(* The tap came, and the signature is written; or it did not, or there is  *)
(* no key for the signer, and gpg may not even have read its input.        *)
ExitDone ==
  /\ gpg = "signing" /\ put = Signature
  /\ gpg' = "exited" /\ code' = 0
  /\ UNCHANGED <<client, input, output, taken, put>>

GiveUp ==
  /\ Running /\ put = 0
  /\ code' \in ExitCodes
  /\ gpg' = "exited"
  /\ UNCHANGED <<client, input, output, taken, put>>

Killed ==
  /\ Running
  /\ gpg' = "killed"
  /\ UNCHANGED <<client, input, output, code, taken, put>>

Client == Spawn \/ Write \/ Collect \/ Finish
Gpg == Take \/ Put \/ ExitDone

Done == pc = "returned" /\ UNCHANGED vars

Next == Client \/ Gpg \/ GiveUp \/ Killed \/ Done

(* The client runs, and so does a gpg that is not blocked: somebody taps,  *)
(* or the agent gives up.                                                  *)
Spec == Init /\ [][Next]_vars /\ WF_vars(Client) /\ WF_vars(Gpg)

-----------------------------------------------------------------------------
(* Every variable stays in its type, and no chunk is lost or made up on    *)
(* its way through a pipe.                                                 *)
TypeOK ==
  /\ pc \in {"spawn", "write", "collect", "returned"}
  /\ result \in {"none", "noGpg", "status", "notTaken", "ok"}
  /\ written \in {"pending", "ok", "broken"}
  /\ gpg \in {"none", "reading", "signing", "exited", "killed"}
  /\ code \in ExitCodes \cup {0}
  /\ wrote \in 0..Payload /\ taken \in 0..Payload /\ wrote = taken + input
  /\ put \in 0..Signature /\ got \in 0..Signature /\ put = got + output
  /\ input \in 0..PipeChunks /\ output \in 0..PipeChunks

(* "Its own exit status says more than the write error does, so always     *)
(* wait and report that first" (gpg.rs:80): sign does not come back before *)
(* gpg is gone, and whenever gpg failed it is its status that is reported, *)
(* whatever came of the write.                                             *)
StatusFirst ==
  pc = "returned" /\ result # "noGpg" =>
    /\ ~Running
    /\ result = "status" <=> Failed

(* Nothing is ever signed but the whole payload; and Ok is said of a gpg   *)
(* that exited with zero, that was handed all of the payload, and all of   *)
(* whose output has come back.                                             *)
OkMeansAllPassed ==
  /\ gpg = "signing" => taken = Payload
  /\ result = "ok" =>
       gpg = "exited" /\ code = 0 /\ wrote = Payload /\ got = put

(* However small the pipes: sign comes back, unless gpg keeps it waiting   *)
(* for a tap that never comes, and leaves no gpg behind.                   *)
SignReturns == <>[](pc = "returned" /\ ~Running)
=============================================================================
