--------------------------- MODULE GpgSignProofs ---------------------------
(***************************************************************************)
(* Proofs about GpgSign, for a payload, a signature and pipes of any size. *)
(***************************************************************************)
EXTENDS GpgSign, TLAPS

(* Whether there is a gpg, and what came of the write, at each step.       *)
Progress ==
  /\ gpg = "none" <=> (pc = "spawn" \/ result = "noGpg")
  /\ result = "none" <=> pc # "returned"
  /\ pc \in {"spawn", "write"} => written = "pending"
  /\ pc = "collect" \/ (pc = "returned" /\ result # "noGpg") =>
       written \in {"ok", "broken"}
  /\ written = "ok" => wrote = Payload
  /\ written = "broken" => ~Running
  /\ pc = "returned" /\ result # "noGpg" =>
       ~Running /\ output = 0 /\ result = Verdict

Inv == TypeOK /\ Progress /\ (gpg = "signing" => taken = Payload)

LEMMA InitInv == Init => Inv
  BY GpgSignAssumption
  DEF Init, Inv, TypeOK, Progress, Running

(* One step per action; written is settled before gpg sees its input end.  *)
LEMMA StepInv == Inv /\ [Next]_vars => Inv'
<1>. SUFFICES ASSUME Inv, [Next]_vars PROVE Inv'
  OBVIOUS
<1>. USE GpgSignAssumption DEF Inv, TypeOK, Progress, Running, Verdict, Failed
<1>1. CASE Spawn
  BY <1>1 DEF Spawn, Return
<1>2. CASE Write
  BY <1>2 DEF Write, child
<1>3. CASE Collect
  BY <1>3 DEF Collect, Read, child
<1>4. CASE Finish
  BY <1>4 DEF Finish, Return, child
<1>5. CASE Take
  BY <1>5 DEF Take, client, InputClosed
<1>6. CASE Put
  BY <1>6 DEF Put, client
<1>7. CASE ExitDone
  BY <1>7 DEF ExitDone, client
<1>8. CASE GiveUp
  BY <1>8 DEF GiveUp, client
<1>9. CASE Killed
  BY <1>9 DEF Killed, client
<1>10. CASE UNCHANGED vars
  BY <1>10 DEF vars, client, child
<1>. QED
  BY <1>1, <1>2, <1>3, <1>4, <1>5, <1>6, <1>7, <1>8, <1>9, <1>10
  DEF Next, Client, Gpg, Done

THEOREM AlwaysInv == Spec => []Inv
<1>. QED  BY InitInv, StepInv, PTL DEF Spec

(* Every variable stays in its type, and the pipes lose and add nothing.   *)
THEOREM TypeCorrect == Spec => []TypeOK
<1>1. Inv => TypeOK
  BY DEF Inv
<1>. QED  BY <1>1, AlwaysInv, PTL

(* The status of gpg comes before the write error, however the two race.   *)
THEOREM StatusAlwaysFirst == Spec => []StatusFirst
<1>1. Inv => StatusFirst
  BY DEF Inv, TypeOK, Progress, StatusFirst, Verdict, Failed
<1>. QED  BY <1>1, AlwaysInv, PTL

(* Only the whole payload is signed, and Ok is said only of that.          *)
THEOREM OkAlwaysMeansAllPassed == Spec => []OkMeansAllPassed
<1>1. Inv => OkMeansAllPassed
  BY DEF Inv, TypeOK, Progress, OkMeansAllPassed, Verdict, Failed, Running
<1>. QED  BY <1>1, AlwaysInv, PTL
=============================================================================
