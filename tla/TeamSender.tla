----------------------------- MODULE TeamSender -----------------------------
(***************************************************************************)
(* The sending side of agent-teams (rs/agent-teams/src/sender.rs, route.rs *)
(* and cmd_send, cmd_pump of cli.rs): the outbox, and the walk over the    *)
(* routes to the receiving host by `send` and by `pump`.                   *)
(*                                                                         *)
(* A walk keeps its own copy of the outbox entry and writes all of it back *)
(* before each attempt and at its end.  An attempt starts a serve process  *)
(* at the receiver; the answer may be lost while that process goes on.     *)
(***************************************************************************)
EXTENDS TeamLedger

CONSTANTS
  Sent,       \* the messages `send` sends over the routes
  Send,       \* the process of `send`; it takes no lock
  Pump,       \* the process of `pump`, one at a time by pump.lock
  Routes      \* how many routes lead to the receiving host

ASSUME SenderAssumption ==
  /\ Sent \subseteq Msgs
  /\ Send # Pump /\ Nobody \notin {Send, Pump}
  /\ Routes \in Nat \ {0}

VARIABLES
  outbox,     \* message -> its state at the sender, and whether one of the
              \* recorded attempts was ambiguous
  walk,       \* process -> its walk: the copy, and where it is
  mirrored,   \* messages whose copy was posted in the relay channel
  muddled     \* history: messages the sender's records cannot be right about:
              \* a sender died with the envelope out, an answer was an error,
              \* two walks overlapped, the receiver itself said expired, or it
              \* said undeliverable of a message it had taken and forgotten

senderVars == <<outbox, walk, mirrored, muddled>>

Walkers == {Send, Pump}

OutStates == (States \ {"none", "fenced"}) \cup
             {"unsent", "deferred", "ambiguous", "ambiguous-expired"}

Resting == [pc |-> "idle", msg |-> Nobody, route |-> 0, serve |-> Nobody,
            amb |-> FALSE, state |-> "unsent"]

\* The entry as the walk's copy has it, written durably.
WriteCopy(w) ==
  outbox' = [outbox EXCEPT ![walk[w].msg] = [state |-> walk[w].state, amb |-> walk[w].amb]]

\* Mutant of MapState: the receiver's state is taken over as it is.
MapStateRaw(v) == v

\* map_receiver_state
MapState(v) == IF v = "fenced" THEN "refused" ELSE v

\* Mutant of FinalState: an ambiguous message expires like any other.
FinalStateExpires(m, found, any) ==
  IF found \in {"deferred", "ambiguous"} /\ m \in late THEN "expired" ELSE found

\* What a walk that found this records, given its any_ambiguous.
FinalState(m, found, any) ==
  IF found \in {"deferred", "ambiguous"} /\ m \in late
    THEN IF any THEN "ambiguous-expired" ELSE "expired"
    ELSE found

\* States in which a direct route has won, and the owner's mirror is posted.
Won == {"delivered", "accepted", "claimed", "presented"}

\* The walk ends: its result and its copy are written, and it forgets.
Conclude(w, found, any) ==
  LET m == walk[w].msg  final == FinalState(m, found, any) IN
  /\ outbox' = [outbox EXCEPT ![m] = [state |-> final, amb |-> walk[w].amb]]
  /\ walk' = [walk EXCEPT ![w] = Resting]

\* The routes, or the question about them, gave no answer.
GiveUp(w, found) ==
  /\ Conclude(w, found, walk[w].amb)
  /\ UNCHANGED <<mirrored, muddled>>

\* A definite answer of the contact settles the walk.
SettleAs(w, v) ==
  LET m == walk[w].msg IN
  /\ Conclude(w, v, walk[w].amb)
  /\ mirrored' = IF v \in Won THEN mirrored \cup {m} ELSE mirrored
  /\ muddled' = IF v = "expired" \/ (v = "deferred" /\ walk[w].state \in Won)
                  THEN muddled \cup {m} ELSE muddled

\* A walk of m begins, perhaps while the other process walks it too.
Begin(w, m, state, amb) ==
  /\ walk' = [walk EXCEPT ![w] = [Resting EXCEPT !.pc = "next", !.msg = m, !.route = 1,
                                                 !.state = state, !.amb = amb]]
  /\ muddled' = IF \E v \in Walkers : walk[v].msg = m THEN muddled \cup {m} ELSE muddled
  /\ UNCHANGED mirrored

\* `send` records the message and walks it.
WalkSend(m) ==
  /\ walk[Send].pc = "idle" /\ outbox[m].state = "unsent"
  /\ outbox' = [outbox EXCEPT ![m] = [state |-> "deferred", amb |-> FALSE]]
  /\ Begin(Send, m, "deferred", FALSE)
  /\ UNCHANGED ledgerVars

\* `pump` walks every entry that is not settled, also one `send` is walking.
WalkPump(m) ==
  /\ walk[Pump].pc = "idle"
  /\ outbox[m].state \in {"deferred", "ambiguous", "accepted", "claimed"}
  /\ Begin(Pump, m, outbox[m].state, outbox[m].amb)
  /\ UNCHANGED <<ledgerVars, outbox>>

\* This route did not deliver, definitely: the next one.  After the last the
\* message keeps its state, unless an attempt was ambiguous.
NextRoute(w) ==
  IF walk[w].route < Routes
    THEN /\ walk' = [walk EXCEPT ![w].route = @ + 1, ![w].pc = "next", ![w].serve = Nobody]
         /\ UNCHANGED <<mirrored, muddled>>
    ELSE GiveUp(w, IF walk[w].amb THEN "ambiguous" ELSE walk[w].state)

\* A route is skipped, or the attempt is recorded durably and its serve process
\* shows no banner: the envelope was not sent.
NotDelivered(w) ==
  /\ walk[w].pc = "next"
  /\ NextRoute(w)
  /\ walk[w].route < Routes => WriteCopy(w) \/ UNCHANGED outbox
  /\ UNCHANGED ledgerVars

\* The attempt is recorded durably, and the envelope reaches a serve process.
Attempt(w, s) ==
  /\ walk[w].pc = "next"
  /\ WriteCopy(w)
  /\ Arrive(s, walk[w].msg)
  /\ walk' = [walk EXCEPT ![w].pc = "sent", ![w].serve = s]
  /\ UNCHANGED <<mirrored, muddled>>

\* The frame breaks off after the banner: nothing happens at the receiver.
FrameBreaks(w) ==
  /\ walk[w].pc = "next"
  /\ WriteCopy(w)
  /\ walk' = [walk EXCEPT ![w].pc = "ask", ![w].amb = TRUE]
  /\ UNCHANGED <<ledgerVars, mirrored, muddled>>

\* The answer arrives and the serve process exits.  An error settles nothing
\* and is remembered only in this walk: the attempt is recorded as answered.
Answered(w) ==
  LET s == walk[w].serve  a == seen[s] IN
  /\ walk[w].pc = "sent" /\ s # Nobody
  /\ CASE a = "route-refused" -> /\ NextRoute(w)
                                 /\ walk[w].route < Routes => UNCHANGED outbox
       [] a = "error" -> /\ Conclude(w, "ambiguous", TRUE)
                         /\ muddled' = muddled \cup {walk[w].msg}
                         /\ UNCHANGED mirrored
       [] OTHER -> SettleAs(w, MapState(a))
  /\ Exit(s)

\* No answer after the envelope was sent: ambiguous, ask before resending.
NoAnswer(w) ==
  /\ walk[w].pc = "sent"
  /\ walk' = [walk EXCEPT ![w].pc = "ask", ![w].amb = TRUE, ![w].serve = Nobody]
  /\ UNCHANGED <<ledgerVars, outbox, mirrored, muddled>>

\* The receipt verb reconciles the queue and reads the entry.
AskReceipt(w) ==
  LET m == walk[w].msg IN
  /\ walk[w].pc = "ask" /\ lock = Nobody
  /\ ledger' = [ledger EXCEPT ![m] = Reconciled(m)]
  /\ IF ledger[m] = "none"
       THEN walk' = [walk EXCEPT ![w].pc = "resend"] /\ UNCHANGED <<outbox, mirrored, muddled>>
       ELSE SettleAs(w, MapState(Reconciled(m)))
  /\ UNCHANGED <<kind, late, claimer, place, tomb, typed, lock, pc, job, seen, todo, hist>>

\* An answer that is an error or a refusal does not say `known` either.
AskFails(w) ==
  /\ walk[w].pc = "ask"
  /\ walk' = [walk EXCEPT ![w].pc = "resend"]
  /\ UNCHANGED <<ledgerVars, outbox, mirrored, muddled>>

\* No route answers the question, or the one resend: never resent blind.
StaysAmbiguous(w) ==
  /\ walk[w].pc \in {"ask", "resend", "resent"}
  /\ GiveUp(w, "ambiguous")
  /\ UNCHANGED ledgerVars

\* Not known at the receiver: resend once with the same ID.
Resend(w, s) ==
  /\ walk[w].pc = "resend"
  /\ Arrive(s, walk[w].msg)
  /\ walk' = [walk EXCEPT ![w].pc = "resent", ![w].serve = s]
  /\ UNCHANGED <<outbox, mirrored, muddled>>

\* Its answer's state settles the message, `accepted` when it has none.
ResendAnswered(w) ==
  LET s == walk[w].serve  a == seen[s] IN
  /\ walk[w].pc = "resent" /\ s # Nobody
  /\ SettleAs(w, IF a \in {"route-refused", "error"} THEN "accepted" ELSE MapState(a))
  /\ Exit(s)

\* The sending process dies; what it has not written is lost.
WalkCrash(w) ==
  /\ walk[w].pc # "idle"
  /\ walk' = [walk EXCEPT ![w] = Resting]
  /\ muddled' = IF walk[w].pc = "next" THEN muddled ELSE muddled \cup {walk[w].msg}
  /\ UNCHANGED <<ledgerVars, outbox, mirrored>>

SenderInit ==
  /\ outbox = [m \in Sent |-> [state |-> "unsent", amb |-> FALSE]]
  /\ walk = [w \in Walkers |-> Resting]
  /\ mirrored = {} /\ muddled = {}

Walk(w) ==
  \/ NotDelivered(w) \/ FrameBreaks(w) \/ Answered(w) \/ NoAnswer(w)
  \/ AskReceipt(w) \/ AskFails(w) \/ StaysAmbiguous(w) \/ ResendAnswered(w)
  \/ \E s \in Serves : Attempt(w, s) \/ Resend(w, s)
=============================================================================
