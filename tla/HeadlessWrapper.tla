-------------------------- MODULE HeadlessWrapper --------------------------
(***************************************************************************)
(* The headless wrapper of one agent (rs/agentctl/src/headless/wrapper.rs) *)
(* and the processes that write the agent's Claude Code session.           *)
(*                                                                         *)
(* A wrapper takes headless.lock, settles what an earlier one left in      *)
(* inflight/, starts a harness and feeds it one queued input at a time:    *)
(* move, barrier, stamp, write.  The harness reads inputs, starts them     *)
(* (which records them in the transcript) and reports each step; a report  *)
(* settles the input in two writes, the document and then the move.  An    *)
(* input is <<item, attempt>>: every attempt has an ID of its own.  Which  *)
(* of several pending items goes first is left open.                       *)
(***************************************************************************)
EXTENDS Integers, Sequences, FiniteSets

CONSTANTS
  Items,        \* the queued messages
  Urgent,       \* those that may be written during a turn
  Cancellable,  \* those that a client withdraws or cancels
  Answers,      \* those that carry an answer to a permission prompt
  Wrappers,     \* wrapper processes
  Slots,        \* places for processes that write the session
  Nobody, None,
  MaxTries,     \* bound: attempts of one item
  MaxOut        \* bound: reports on their way to the wrapper

ASSUME HeadlessAssumption ==
  /\ Urgent \subseteq Items /\ Answers \subseteq Items /\ Cancellable \subseteq Items
  /\ Nobody \notin Wrappers /\ None \notin Items \cup Slots
  /\ "no" \notin Items /\ "self" \notin Items
  /\ MaxTries \in Nat \ {0} /\ MaxOut \in Nat \ {0}

VARIABLES
  phase,    \* item -> the queue directory it is in
  stamp,    \* item -> the recovery stamps of its document: "none", "barrier"
            \* (paste_tracking) or "written" (and paste_started_at)
  tries,    \* item -> attempts so far
  tomb,     \* items named by a cancel tombstone
  seen,     \* the transcript: the inputs the model has received
  lock,     \* the holder of headless.lock
  wpc,      \* wrapper -> where it is
  mem,      \* what the wrapper that holds the lock remembers
  proc      \* slot -> a process on the session, its input and its reports

itemVars == <<phase, stamp, tries, tomb, seen>>
wrapperVars == <<itemVars, lock, wpc, mem, proc>>

Phases == {"new", "pending", "inflight", "processed", "consumed", "failed",
           "cancelled", "withdrawn"}
Inputs == Items \X (1 .. MaxTries)
Input(i) == <<i, tries[i]>>

\* What a wrapper remembers when it starts: no harness, no current input.
Fresh == [cur |-> None, acked |-> FALSE, busy |-> FALSE, held |-> FALSE,
          stop |-> FALSE, consume |-> {}, harness |-> None, job |-> None, to |-> "failed"]

\* A slot with no process, and a process that has just been started.
Empty == [kind |-> "none", gone |-> FALSE, heard |-> FALSE, pipe |-> <<>>,
          queue |-> {}, turn |-> "no", out |-> <<>>]
Started(kind) == [Empty EXCEPT !.kind = kind, !.heard = (kind = "headless")]

\* wrapper::session_processes: the processes that run Claude Code on the session.
Live == {s \in Slots : proc[s].kind # "none"}

\* The wrapper that holds the lock is at the top of its loop.
Looping(w) == lock = w /\ w \in Wrappers /\ wpc[w] = "loop"

Goto(w, where) == wpc' = [wpc EXCEPT ![w] = where]

-----------------------------------------------------------------------------
(***************************************************************************)
(* The queue's other clients.                                              *)
(***************************************************************************)

\* enqueue_into; the wrapper's restart notices are items of this kind too.
Enqueue(i) ==
  /\ phase[i] = "new"
  /\ phase' = [phase EXCEPT ![i] = "pending"]
  /\ UNCHANGED <<stamp, tries, tomb, seen, lock, wpc, mem, proc>>

\* withdraw, under the delivery lock
Withdraw(i) ==
  /\ i \in Cancellable /\ phase[i] = "pending"
  /\ phase' = [phase EXCEPT ![i] = "withdrawn"]
  /\ UNCHANGED <<stamp, tries, tomb, seen, lock, wpc, mem, proc>>

\* The tombstone of a cancel, written without the delivery lock.
Tombstone(i) ==
  /\ i \in Cancellable \ tomb /\ phase[i] \in {"pending", "inflight"}
  /\ tomb' = tomb \cup {i}
  /\ UNCHANGED <<phase, stamp, tries, seen, lock, wpc, mem, proc>>

-----------------------------------------------------------------------------
(***************************************************************************)
(* Starting a wrapper.                                                     *)
(***************************************************************************)

\* Mutant of Serve: the lock alone is taken to exclude other writers.
ServeUnchecked(w) ==
  /\ wpc[w] = "start"
  /\ IF lock = Nobody
       THEN lock' = w /\ mem' = Fresh /\ Goto(w, "recover")
       ELSE Goto(w, "off") /\ UNCHANGED <<lock, mem>>
  /\ UNCHANGED <<itemVars, proc>>

\* run: the lock, then the look for other writers of the session.
Serve(w) ==
  /\ wpc[w] = "start"
  /\ IF lock = Nobody /\ Live = {}
       THEN lock' = w /\ mem' = Fresh /\ Goto(w, "recover")
       ELSE Goto(w, "off") /\ UNCHANGED <<lock, mem>>
  /\ UNCHANGED <<itemVars, proc>>

\* Mutant of SettleTo: the stamps stay.
SettleToStamped(w, i, to) ==
  /\ UNCHANGED stamp
  /\ Goto(w, IF wpc[w] = "recover" THEN "resettle" ELSE "settle")
  /\ mem' = [mem EXCEPT !.cur = None, !.job = i, !.to = to]

\* The first of the two writes that settle inflight item i: its document, without
\* its stamps.  The second, in Settle, moves it.
SettleTo(w, i, to) ==
  /\ stamp' = [stamp EXCEPT ![i] = "none"]
  /\ Goto(w, IF wpc[w] = "recover" THEN "resettle" ELSE "settle")
  /\ mem' = [mem EXCEPT !.cur = None, !.job = i, !.to = to]

\* Mutant of Recover: a written input is taken to have been received.
RecoverTrusting(w, i) ==
  /\ lock = w /\ wpc[w] = "recover" /\ phase[i] = "inflight"
  /\ SettleTo(w, i, IF stamp[i] = "barrier" THEN "pending" ELSE "processed")
  /\ UNCHANGED <<phase, tries, tomb, seen, lock, proc>>

\* recover and recover_inflight, one item: proven by the transcript, returned when
\* never written, else failed without touching its document first.
Recover(w, i) ==
  /\ lock = w /\ wpc[w] = "recover" /\ phase[i] = "inflight"
  /\ \/ /\ stamp[i] = "written" /\ Input(i) \in seen
        /\ SettleTo(w, i, "processed") /\ UNCHANGED phase
     \/ /\ stamp[i] = "barrier"
        /\ SettleTo(w, i, "pending") /\ UNCHANGED phase
     \/ /\ stamp[i] = "none" \/ (stamp[i] = "written" /\ Input(i) \notin seen)
        /\ phase' = [phase EXCEPT ![i] = "failed"]
        /\ UNCHANGED <<stamp, wpc, mem>>
  /\ UNCHANGED <<tries, tomb, seen, lock, proc>>

\* The transition of SettleTo.
Settle(w) ==
  /\ lock = w /\ wpc[w] \in {"settle", "resettle"}
  /\ phase' = [phase EXCEPT ![mem.job] = mem.to]
  /\ mem' = [mem EXCEPT !.job = None, !.to = "failed"]
  /\ Goto(w, IF wpc[w] = "resettle" THEN "recover" ELSE "loop")
  /\ UNCHANGED <<stamp, tries, tomb, seen, lock, proc>>

\* spawn_harness, once recovery has left nothing in inflight/.
Spawn(w) ==
  /\ lock = w /\ wpc[w] = "recover" /\ \A i \in Items : phase[i] # "inflight"
  /\ \E s \in Slots \ Live :
       /\ proc' = [proc EXCEPT ![s] = Started("headless")]
       /\ mem' = [mem EXCEPT !.harness = s]
  /\ Goto(w, "loop")
  /\ UNCHANGED <<itemVars, lock>>

-----------------------------------------------------------------------------
(***************************************************************************)
(* Delivering.                                                             *)
(***************************************************************************)

\* Mutant of MayDeliver: a hold is not heeded.
MayDeliverHeld == mem.cur = None /\ ~mem.stop /\ mem.harness # None

\* maybe_deliver: no current input, no stop, no hold, and an open harness.
MayDeliver == mem.cur = None /\ ~mem.stop /\ ~mem.held /\ mem.harness # None

\* Mutant of Move: deliver does not look for an accepted answer itself.
MoveUnlooked(w, i) ==
  /\ Looping(w) /\ MayDeliver
  /\ phase[i] = "pending" /\ (mem.busy => i \in Urgent)
  /\ tries[i] < MaxTries
  /\ phase' = [phase EXCEPT ![i] = "inflight"]
  /\ mem' = [mem EXCEPT !.job = i]
  /\ Goto(w, "moved")
  /\ UNCHANGED <<stamp, tries, tomb, seen, lock, proc>>

\* deliver: i is moved to inflight/.
Move(w, i) ==
  /\ Looping(w) /\ MayDeliver
  /\ phase[i] = "pending" /\ i \notin mem.consume /\ (mem.busy => i \in Urgent)
  /\ tries[i] < MaxTries
  /\ phase' = [phase EXCEPT ![i] = "inflight"]
  /\ mem' = [mem EXCEPT !.job = i]
  /\ Goto(w, "moved")
  /\ UNCHANGED <<stamp, tries, tomb, seen, lock, proc>>

\* Set it aside when a tombstone names it, else write the at-most-once barrier
\* with the ID of a new attempt.
Bar(w) ==
  /\ lock = w /\ wpc[w] = "moved"
  /\ \/ /\ mem.job \in tomb
        /\ phase' = [phase EXCEPT ![mem.job] = "cancelled"]
        /\ tomb' = tomb \ {mem.job} /\ mem' = [mem EXCEPT !.job = None]
        /\ Goto(w, "loop") /\ UNCHANGED <<stamp, tries>>
     \/ /\ mem.job \notin tomb
        /\ stamp' = [stamp EXCEPT ![mem.job] = "barrier"]
        /\ tries' = [tries EXCEPT ![mem.job] = @ + 1]
        /\ Goto(w, "barred") /\ UNCHANGED <<phase, tomb, mem>>
  /\ UNCHANGED <<seen, lock, proc>>

\* Mutant of Write: the line is sent without paste_started_at.
WriteUnstamped(w) ==
  /\ lock = w /\ wpc[w] = "barred"
  /\ proc' = IF mem.harness \in Live
               THEN [proc EXCEPT ![mem.harness].pipe = Append(@, Input(mem.job))] ELSE proc
  /\ mem' = [mem EXCEPT !.cur = mem.job, !.acked = FALSE, !.job = None]
  /\ Goto(w, "loop")
  /\ UNCHANGED <<phase, stamp, tries, tomb, seen, lock>>

\* Add paste_started_at, drop the delivery lock and send the line to the writer
\* thread.  A wrapper that dies may take the line with it.
Write(w) ==
  /\ lock = w /\ wpc[w] = "barred"
  /\ stamp' = [stamp EXCEPT ![mem.job] = "written"]
  /\ proc' = IF mem.harness \in Live
               THEN [proc EXCEPT ![mem.harness].pipe = Append(@, Input(mem.job))] ELSE proc
  /\ mem' = [mem EXCEPT !.cur = mem.job, !.acked = FALSE, !.job = None]
  /\ Goto(w, "loop")
  /\ UNCHANGED <<phase, tries, tomb, seen, lock>>

\* consume_item, from consume_answers or deliver: the item carried an answer that
\* was accepted, so it is never written.
Consume(w, i) ==
  /\ Looping(w) /\ i \in mem.consume /\ phase[i] = "pending"
  /\ phase' = [phase EXCEPT ![i] = "consumed"]
  /\ mem' = [mem EXCEPT !.consume = @ \ {i}]
  /\ UNCHANGED <<stamp, tries, tomb, seen, lock, wpc, proc>>

\* approval_answer: the bridge offers the answer before it queues the message.
Answer(w, i) ==
  /\ Looping(w) /\ mem.busy /\ i \in Answers \ mem.consume /\ phase[i] = "new"
  /\ mem' = [mem EXCEPT !.consume = @ \cup {i}]
  /\ UNCHANGED <<itemVars, lock, wpc, proc>>

\* consume_answers forgets an answer whose message has not come within
\* CONSUME_WINDOW.
Forget(w, i) ==
  /\ Looping(w) /\ i \in mem.consume
  /\ mem' = [mem EXCEPT !.consume = @ \ {i}]
  /\ UNCHANGED <<itemVars, lock, wpc, proc>>

-----------------------------------------------------------------------------
(***************************************************************************)
(* The harness's reports.                                                  *)
(***************************************************************************)

IsCurrent(x) == mem.cur # None /\ x = Input(mem.cur)

\* harness_line and input_signal: the report at the head of the harness's output.
Hear(w) ==
  /\ Looping(w) /\ mem.harness # None /\ proc[mem.harness].out # <<>>
  /\ LET said == Head(proc[mem.harness].out) IN
     /\ said.what # "eof"
     /\ \/ /\ said.what = "queued"
           /\ mem' = [mem EXCEPT !.acked = @ \/ IsCurrent(said.input)]
           /\ UNCHANGED <<stamp, wpc>>
        \/ /\ said.what = "started" /\ IsCurrent(said.input)
           /\ stamp' = [stamp EXCEPT ![mem.cur] = "none"]
           /\ mem' = [mem EXCEPT !.cur = None, !.job = mem.cur, !.to = "processed",
                                 !.busy = TRUE]
           /\ Goto(w, "settle")
        \/ /\ said.what = "cancelled" /\ IsCurrent(said.input)
           /\ SettleTo(w, mem.cur, "pending")
        \/ /\ said.what \in {"started", "cancelled"} /\ ~IsCurrent(said.input)
           /\ mem' = [mem EXCEPT !.busy = @ \/ said.what = "started"]
           /\ UNCHANGED <<stamp, wpc>>
        \/ /\ said.what \in {"init", "result"}
           /\ mem' = [mem EXCEPT !.busy = (said.what = "init")]
           /\ UNCHANGED <<stamp, wpc>>
  /\ proc' = [proc EXCEPT ![mem.harness].out = Tail(@)]
  /\ UNCHANGED <<phase, tries, tomb, seen, lock>>

\* Mutant of AckDeadline: the input is offered again.
AckDeadlineRetries(w) ==
  /\ Looping(w) /\ mem.cur # None /\ (mem.acked => ~mem.busy)
  /\ SettleTo(w, mem.cur, "pending")
  /\ UNCHANGED <<phase, tries, tomb, seen, lock, proc>>

\* Mutant of AckDeadline: the input is only forgotten.
AckDeadlineForgets(w) ==
  /\ Looping(w) /\ mem.cur # None /\ (mem.acked => ~mem.busy)
  /\ mem' = [mem EXCEPT !.cur = None]
  /\ UNCHANGED <<itemVars, lock, wpc, proc>>

\* check_ack_deadline: the harness has not queued the input in time, or has queued
\* it and sits idle; the input is given up and never replayed.
AckDeadline(w) ==
  /\ Looping(w) /\ mem.cur # None /\ (mem.acked => ~mem.busy)
  /\ SettleTo(w, mem.cur, "failed")
  /\ UNCHANGED <<phase, tries, tomb, seen, lock, proc>>

\* The harness's output has ended, or its first process is gone.
Ended(p) == p.gone \/ (p.out # <<>> /\ Head(p.out).what = "eof")

\* The wrapper returns: the lock is free.
Return(w) == lock' = Nobody /\ mem' = Fresh /\ Goto(w, "off")

\* Mutant of HarnessExited: what the launcher left behind is not ended.
HarnessExitedOnly(w) ==
  /\ Looping(w) /\ mem.harness # None /\ Ended(proc[mem.harness])
  /\ \/ Return(w)
     \/ /\ ~mem.stop
        /\ mem' = [mem EXCEPT !.harness = None, !.cur = None, !.acked = FALSE, !.busy = FALSE]
        /\ UNCHANGED <<lock, wpc>>
  /\ proc' = [proc EXCEPT ![mem.harness].kind = IF proc[mem.harness].gone THEN @ ELSE "none",
                          ![mem.harness].heard = FALSE, ![mem.harness].out = <<>>]
  /\ UNCHANGED itemVars

\* harness_exited: end what is left of the harness, forget its input (recovery
\* settles it), then return, when asked to stop or after too many restarts, or
\* wait to start another.
HarnessExited(w) ==
  /\ Looping(w) /\ mem.harness # None /\ Ended(proc[mem.harness])
  /\ proc' = [proc EXCEPT ![mem.harness] = Empty]
  /\ \/ Return(w)
     \/ /\ ~mem.stop
        /\ mem' = [mem EXCEPT !.harness = None, !.cur = None, !.acked = FALSE, !.busy = FALSE]
        /\ UNCHANGED <<lock, wpc>>
  /\ UNCHANGED itemVars

\* Mutant of Restart: the next harness starts before recovery.
RestartAtOnce(w) ==
  /\ Looping(w) /\ mem.harness = None
  /\ \/ mem.stop /\ Return(w) /\ UNCHANGED proc
     \/ /\ ~mem.stop
        /\ \E s \in Slots \ Live :
             /\ proc' = [proc EXCEPT ![s] = Started("headless")]
             /\ mem' = [mem EXCEPT !.harness = s]
        /\ UNCHANGED <<lock, wpc>>
  /\ UNCHANGED itemVars

\* run, without a harness: return when asked to stop, else recover and start one.
Restart(w) ==
  /\ Looping(w) /\ mem.harness = None
  /\ \/ mem.stop /\ Return(w)
     \/ ~mem.stop /\ Goto(w, "recover") /\ UNCHANGED <<lock, mem>>
  /\ UNCHANGED <<itemVars, proc>>

\* SIGTERM to the wrapper, or the stop request: begin_stop_if_requested closes the
\* harness's input once what was sent has been written.
AskStop == mem' = [mem EXCEPT !.stop = TRUE]

\* A process whose wrapper is gone: the first n of the inputs on their way arrive,
\* and nobody reads its output.
Orphan(p, n) ==
  IF p.kind = "none" THEN Empty
  ELSE [p EXCEPT !.heard = FALSE, !.out = <<>>, !.gone = FALSE, !.pipe = SubSeq(p.pipe, 1, n)]

\* The wrapper is killed: the harness stays, with part of what was sent.
WrapperDies(w) ==
  /\ lock = w
  /\ IF mem.harness = None THEN UNCHANGED proc
     ELSE \E n \in 0 .. Len(proc[mem.harness].pipe) :
            proc' = [proc EXCEPT ![mem.harness] = Orphan(@, n)]
  /\ Return(w)
  /\ UNCHANGED itemVars

-----------------------------------------------------------------------------
(***************************************************************************)
(* The harness (Claude Code, external): what the wrapper relies on.        *)
(***************************************************************************)

\* Report to the wrapper, while one listens.
Say(s, p, what, x) ==
  /\ p.heard => Len(p.out) < MaxOut
  /\ proc' = [proc EXCEPT ![s] =
       IF p.heard THEN [p EXCEPT !.out = Append(@, [what |-> what, input |-> x])] ELSE p]

\* Read one input and queue it.
HRead(s) ==
  LET p == proc[s] IN
  /\ p.kind = "headless" /\ p.pipe # <<>>
  /\ Say(s, [p EXCEPT !.pipe = Tail(@), !.queue = @ \cup {Head(p.pipe)}], "queued", Head(p.pipe))
  /\ UNCHANGED <<itemVars, lock, wpc, mem>>

\* Start a queued input, as a turn of its own or within the running one.
HStart(s) ==
  LET p == proc[s] IN
  /\ p.kind = "headless"
  /\ \E x \in p.queue :
       /\ seen' = seen \cup {x}
       /\ Say(s, [p EXCEPT !.queue = @ \ {x}, !.turn = IF @ = "no" THEN x[1] ELSE @],
              "started", x)
  /\ UNCHANGED <<phase, stamp, tries, tomb, lock, wpc, mem>>

\* Cancel a queued input after an interrupt.
HCancel(s) ==
  LET p == proc[s] IN
  /\ p.kind = "headless"
  /\ \E x \in p.queue : Say(s, [p EXCEPT !.queue = @ \ {x}], "cancelled", x)
  /\ UNCHANGED <<itemVars, lock, wpc, mem>>

\* Begin a turn by itself, or end the running turn.
HTurn(s) ==
  LET p == proc[s] IN
  /\ p.kind = "headless"
  /\ \/ p.turn = "no" /\ Say(s, [p EXCEPT !.turn = "self"], "init", None)
     \/ p.turn # "no" /\ Say(s, [p EXCEPT !.turn = "no"], "result", None)
  /\ UNCHANGED <<itemVars, lock, wpc, mem>>

\* A process on the session exits, which ends its output; or only the launcher
\* exits, and what it started stays.
Dead(p) == [Empty EXCEPT !.heard = p.heard,
              !.out = IF p.heard THEN Append(p.out, [what |-> "eof", input |-> None]) ELSE <<>>]

HExit(s) ==
  /\ proc[s].kind # "none"
  /\ proc' = [proc EXCEPT ![s] = Dead(@)]
  /\ UNCHANGED <<itemVars, lock, wpc, mem>>

LauncherExits(s) ==
  /\ proc[s].kind # "none" /\ ~proc[s].gone
  /\ proc' = [proc EXCEPT ![s].gone = TRUE]
  /\ UNCHANGED <<itemVars, lock, wpc, mem>>
=============================================================================
