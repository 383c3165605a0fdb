----------------------------- MODULE MCTeamKey -----------------------------
(***************************************************************************)
(* Team keys for TLC: two paths that share all but their last byte, three  *)
(* counters, and an HKDF that rejects any of the salts; errors at the      *)
(* first salt and in the middle.                                           *)
(***************************************************************************)
EXTENDS TeamKey, FiniteSets

CONSTANTS s1, s2, h1, h2

MCPrimaryPath == <<1, 2>>
MCSubkeyPath == <<1, 3>>

FateOf(rejected, failing) ==
  [bytes \in Salts |->
     IF bytes \in failing THEN "error"
     ELSE IF bytes \in rejected THEN "outOfRange" ELSE "scalar"]

AllGood == FateOf({}, {})

(* The second seed, where there is one, always gives a scalar at once.     *)
MCFates ==
  {[s \in Seeds |-> IF s = s1 THEN FateOf(rejected, failing) ELSE AllGood] :
     rejected \in SUBSET Salts,
     failing \in {{}, {SaltAt(MCPrimaryPath, 1)}, {SaltAt(MCSubkeyPath, 0)}}}
=============================================================================
