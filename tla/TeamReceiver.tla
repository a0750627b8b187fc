--------------------------- MODULE TeamReceiver ---------------------------
(***************************************************************************)
(* The receiving host by itself: the processes of TeamLedger, with copies  *)
(* of every message arriving at any time from any route, sender or relay,  *)
(* and crashes.                                                            *)
(***************************************************************************)
EXTENDS TeamLedger

CONSTANTS
  Scenes,       \* the situations to consider: the message each serve process
                \* is started for, and the hooks and retractors that run
  MaxCrashes    \* bound: processes that die

ASSUME ReceiverAssumption == 
  /\ Scenes \subseteq [brings : [Serves -> Msgs], runs : SUBSET (Hooks \cup Retractors)]
  /\ MaxCrashes \in Nat

VARIABLES scene, crashes

vars == <<ledgerVars, scene, crashes>>

Crash ==
  /\ crashes < MaxCrashes
  /\ crashes' = crashes + 1
  /\ \E p \in Procs : LedgerCrash(p)
  /\ UNCHANGED scene

Init == LedgerInit /\ scene \in Scenes /\ crashes = 0

Next ==
  \/ /\ \/ Receiver({scene.brings[s] : s \in Serves}, scene.runs)
        \/ \E s \in Serves : Exit(s) \/ Arrive(s, scene.brings[s])
     /\ UNCHANGED <<scene, crashes>>
  \/ Crash

Spec == Init /\ [][Next]_vars

-----------------------------------------------------------------------------
(***************************************************************************)
(* Properties.                                                             *)
(***************************************************************************)

\* Every variable of the receiving host has its type.
TypeOK ==
  /\ kind \in Kinds /\ late \subseteq Msgs /\ tomb \subseteq Msgs
  /\ ledger \in [Msgs -> States] /\ claimer \in [Msgs -> Serves \cup {Nobody}]
  /\ place \in [Msgs -> SUBSET Places] /\ typed \in [Msgs -> 0 .. 2]
  /\ lock \in Retractors \cup {Nobody}
  /\ job \in [Procs -> Msgs \cup {Nobody}] /\ todo \in [Procs -> SUBSET Msgs]
  /\ UNION {raced, dropped, withdrawn, claimed} \subseteq Msgs
  /\ scene \in Scenes /\ crashes \in 0 .. MaxCrashes

\* The fate of an ID: decided when it is claimed, or when it gets another entry
\* or its time passes without a claim.
Fate ==
  [m \in Msgs |-> IF m \in claimed THEN "taken"
                  ELSE IF ledger[m] = "none" /\ m \notin late THEN "open" ELSE "barred"]

Promise == INSTANCE TeamPromise WITH fate <- Fate, shown <- typed, doubled <- raced

\* The ledger implements the promise: an ID that was refused, fenced or expired
\* unclaimed is never typed, also after its entry has been pruned, and a claimed
\* one is typed once, unless two recoveries of its dead claim overlapped.
KeepsPromise == Promise!Spec

\* Message m has left the inbox to be printed or typed.
Picked(m) ==
  \/ "inflight" \in place[m]
  \/ \E h \in Hooks : pc[h] \in {"present", "print"} /\ job[h] = m

\* A tombstone written before the hook or the drain has picked the message up
\* keeps it from the coordinator for good.
BuriedStaysBuried ==
  [][\A m \in Msgs : m \in tomb /\ typed[m] = 0 /\ ~Picked(m) =>
       typed'[m] = 0 /\ ~Picked(m)']_vars

\* A refused or fenced message has not been typed, until its entry may have been
\* pruned and made again, except when two recoveries overlapped.
RefusedUntyped ==
  \A m \in Msgs \ (raced \cup late) : ledger[m] \in {"refused", "fenced"} => typed[m] = 0

\* A message recorded as delivered was printed or typed, or a hook is about to
\* print it, except one whose hook died after it had recorded `presented` and
\* before it printed.
DeliveredWasTyped ==
  \A m \in Msgs : ledger[m] = "delivered" => typed[m] > 0 \/ Picked(m) \/ m \in dropped

\* An accepted message is not forgotten: while it is in time and not withdrawn,
\* the deliverer has it, or it was typed, or the queue gave it up for a human,
\* except after a hook that died holding it and after overlapping recoveries.
AcceptedIsHeld ==
  \A m \in Msgs \ (late \cup withdrawn \cup dropped \cup raced) :
    ledger[m] = "accepted" =>
      typed[m] > 0 \/ Picked(m) \/ place[m] \cap {"waiting", "failed"} # {}

\* "At most one enqueue and one paste per ID per team": the user guide's promise
\* without the exception for overlapping recoveries.
AtMostOnePaste == \A m \in Msgs : typed[m] <= 1
=============================================================================
