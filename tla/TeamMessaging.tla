--------------------------- MODULE TeamMessaging ---------------------------
(***************************************************************************)
(* agent-teams end to end: the sender's walks, the receiving host's        *)
(* processes, copies that arrive over the chat relay, and crashes.         *)
(***************************************************************************)
EXTENDS TeamSender

CONSTANTS
  Mirrors,      \* whether the team has a mirror route
  MaxCrashes    \* bound: processes that die

ASSUME MessagingAssumption == Mirrors \in BOOLEAN /\ MaxCrashes \in Nat

VARIABLE crashes

vars == <<ledgerVars, senderVars, crashes>>

\* The mirror's copy in the relay channel is offered to the ledger, on every
\* rescan of the channel; nobody waits for this answer.
MirrorArrives(s, m) ==
  /\ Mirrors /\ m \in mirrored
  /\ Arrive(s, m)
  /\ UNCHANGED senderVars

\* A serve process exits when the walk has its answer or has given up.
ServeExit(s) ==
  /\ \A w \in Walkers : walk[w].serve # s
  /\ Exit(s)
  /\ UNCHANGED senderVars

\* A process of the receiving host dies; a walk that waits for it loses the
\* connection.
HostCrash(p) ==
  /\ LedgerCrash(p)
  /\ walk' = [w \in Walkers |-> IF walk[w].serve = p
                                THEN [walk[w] EXCEPT !.serve = Nobody] ELSE walk[w]]
  /\ UNCHANGED <<outbox, mirrored, muddled>>

Crash ==
  /\ crashes < MaxCrashes
  /\ crashes' = crashes + 1
  /\ \/ \E p \in Procs : HostCrash(p)
     \/ \E w \in Walkers : WalkCrash(w)

Init == LedgerInit /\ SenderInit /\ crashes = 0

Next ==
  \/ Receiver(Msgs, Procs) /\ UNCHANGED <<senderVars, crashes>>
  \/ /\ \/ \E m \in Sent : WalkSend(m) \/ WalkPump(m)
        \/ \E w \in Walkers : Walk(w)
        \/ \E s \in Serves : ServeExit(s) \/ \E m \in Sent : MirrorArrives(s, m)
     /\ UNCHANGED crashes
  \/ Crash

Spec == Init /\ [][Next]_vars

-----------------------------------------------------------------------------
(***************************************************************************)
(* Properties.                                                             *)
(***************************************************************************)

\* The outbox and the walks have their types; the receiver's state is typed in
\* TeamReceiver.
TypeOK ==
  /\ outbox \in [Sent -> [state : OutStates, amb : BOOLEAN]]
  /\ \A w \in Walkers :
       /\ walk[w].pc \in {"idle", "next", "sent", "ask", "resend", "resent"}
       /\ walk[w].msg \in Sent \cup {Nobody} /\ walk[w].serve \in Serves \cup {Nobody}
       /\ walk[w].route \in 0 .. Routes /\ walk[w].state \in OutStates
  /\ mirrored \subseteq Sent /\ muddled \subseteq Sent

\* A message reaches the coordinator at most once over all routes, walks,
\* resends, mirrors and crashes of both hosts, except when two recoveries of
\* one dead claim both found it absent before either handed it over.
TypedOnce == \A m \in Msgs : typed[m] > 1 => m \in raced

\* When the sender itself concludes `expired`, which it reports as undelivered,
\* the coordinator has not seen the message, unless its records are muddled.
ExpiredIsUntyped ==
  \A m \in Sent \ muddled : outbox[m].state = "expired" => typed[m] = 0

=============================================================================
