---------------------------- MODULE TeamPromise ----------------------------
(***************************************************************************)
(* What a receiving host of agent-teams promises about each message ID,    *)
(* whatever the routes, retries, crashes and prunings: the ID is decided   *)
(* once, for or against, and only a message that was taken is shown to the *)
(* coordinator, once.  The one exception is named: two processes that      *)
(* recover the same dead claim at the same time may double it.             *)
(***************************************************************************)
EXTENDS Naturals

CONSTANT Msgs

VARIABLES
  fate,      \* message -> "open", "taken" or "barred"
  shown,     \* message -> how often the coordinator has seen it
  doubled    \* messages two recoveries worked on at once

promiseVars == <<fate, shown, doubled>>

Init ==
  /\ fate = [m \in Msgs |-> "open"]
  /\ shown = [m \in Msgs |-> 0]
  /\ doubled = {}

\* The ID is decided, for good.
Decide(m, v) ==
  /\ fate[m] = "open"
  /\ fate' = [fate EXCEPT ![m] = v]
  /\ UNCHANGED <<shown, doubled>>

Show(m) ==
  /\ fate[m] = "taken"
  /\ \/ shown[m] = 0
     \/ shown[m] = 1 /\ m \in doubled
  /\ shown' = [shown EXCEPT ![m] = @ + 1]
  /\ UNCHANGED <<fate, doubled>>

Double(m) ==
  /\ fate[m] = "taken"
  /\ doubled' = doubled \cup {m}
  /\ UNCHANGED <<fate, shown>>

Next == \E m \in Msgs : Decide(m, "taken") \/ Decide(m, "barred") \/ Show(m) \/ Double(m)

Spec == Init /\ [][Next]_promiseVars
=============================================================================
