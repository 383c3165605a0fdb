----------------------------- MODULE KeyRelease -----------------------------
(***************************************************************************)
(* What the client and the server promise together, run by run: a key is   *)
(* released only after somebody tapped for it, by a server the release is  *)
(* right for, and learned only after it was released; nothing is undone,   *)
(* and each run taps, has a key released and learns it at most once.       *)
(***************************************************************************)
CONSTANT Runs   \* runs of the client

VARIABLES
  entitled,     \* the runs whose request the server may grant
  tapped, released, learned

vars == <<entitled, tapped, released, learned>>

Init ==
  /\ entitled \subseteq Runs
  /\ tapped = {} /\ released = {} /\ learned = {}

Tap(c) ==
  /\ c \notin tapped
  /\ tapped' = tapped \cup {c}
  /\ UNCHANGED <<entitled, released, learned>>

Release(c) ==
  /\ c \in (tapped \cap entitled) \ released
  /\ released' = released \cup {c}
  /\ UNCHANGED <<entitled, tapped, learned>>

Learn(c) ==
  /\ c \in released \ learned
  /\ learned' = learned \cup {c}
  /\ UNCHANGED <<entitled, tapped, released>>

Next == \E c \in Runs : Tap(c) \/ Release(c) \/ Learn(c)

Spec == Init /\ [][Next]_vars
=============================================================================
