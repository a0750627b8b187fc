------------------------------ MODULE Takeover ------------------------------
(***************************************************************************)
(* A headless agent with `agentctl takeover` and `agentctl handback`       *)
(* (rs/agentctl/src/subagents/headless/takeover.rs): the session moves     *)
(* from the wrapper to an interactive Claude Code in a tab and back.       *)
(*                                                                         *)
(* The takeover marks the record, holds the wrapper, waits until it is     *)
(* idle, stops it and opens a tab whose command, the holder, takes         *)
(* headless.lock and runs the interactive session.  A handback ends that   *)
(* session, takes the lock and removes the mark.  A control request can    *)
(* be applied although its answer is lost.  Any process may be killed.     *)
(***************************************************************************)
EXTENDS HeadlessWrapper

CONSTANTS
  Tokens,       \* takeovers: the token each writes into its mark
  Handback,     \* the process that runs `agentctl handback`
  Scenes,       \* the situations to consider: the messages that are queued and
                \* the takeovers that are run
  MaxFaults     \* bound: processes killed, and SIGTERMs to a wrapper

ASSUME TakeoverAssumption ==
  /\ Tokens \cap Wrappers = {} /\ {Nobody, Handback} \cap (Tokens \cup Wrappers) = {}
  /\ Nobody # Handback /\ MaxFaults \in Nat
  /\ Scenes \subseteq [items : SUBSET Items, tokens : SUBSET Tokens]

VARIABLES
  mark,     \* headless.takeover in the record: state and token
  taker,    \* the takeover process: where it is, its token, whether a hold
            \* was answered
  holder,   \* token -> where its takeover-hold is
  tui,      \* the slot of the interactive session the lock holder started
  back,     \* the handback process: where it is and the token it read
  scene,
  faults

takeoverVars == <<mark, taker, holder, tui, back>>
vars == <<wrapperVars, takeoverVars, scene, faults>>

NoMark == [state |-> "none", token |-> Nobody]
Unmarked == mark.state = "none"

\* change_marker: only the takeover that owns the mark may change it.
Change(t, state) ==
  mark' = IF mark.token = t THEN [mark EXCEPT !.state = state] ELSE mark
Clear(t) == mark' = IF mark.token = t THEN NoMark ELSE mark

\* run_headless: a wrapper does not start on an agent it sees marked.
StartWrapper(w) ==
  /\ wpc[w] = "off" /\ Unmarked
  /\ wpc' = [wpc EXCEPT ![w] = "start"]
  /\ UNCHANGED <<itemVars, lock, mem, proc, takeoverVars>>

\* Some wrapper serves the control socket; it answers from the top of its loop.
Serving == lock \in Wrappers
Answering == Serving /\ wpc[lock] = "loop"

-----------------------------------------------------------------------------
(***************************************************************************)
(* takeover_headless and stop_wrapper_for_takeover                         *)
(***************************************************************************)

\* The taker's next step, leaving the queue and the processes alone.
TakerTo(where) == taker' = [taker EXCEPT !.pc = where]
TakerRests == UNCHANGED <<itemVars, lock, wpc, proc, holder, tui, back>>

\* The takeover ends and removes its mark, since the wrapper was not stopped.
Undo == TakerTo("idle") /\ Clear(taker.token)

\* The takeover ends and leaves a mark that only a handback removes.
Fail == TakerTo("idle") /\ Change(taker.token, "failed")

\* Release the hold that was answered; the request may be lost.
Release ==
  \/ taker.held /\ Answering /\ mem' = [mem EXCEPT !.held = FALSE]
  \/ ~(taker.held /\ Answering) /\ UNCHANGED mem

TakeMark(t) ==
  /\ taker.pc = "idle" /\ Unmarked /\ holder[t] = "unused"
  /\ mark' = [state |-> "stopping", token |-> t]
  /\ taker' = [pc |-> "status", token |-> t, held |-> FALSE]
  /\ holder' = [holder EXCEPT ![t] = "unasked"]
  /\ UNCHANGED <<wrapperVars, tui, back>>

\* The first status request: no wrapper and a free lock skip to the tab.
TakeStatus ==
  /\ taker.pc = "status"
  /\ \/ Answering /\ TakerTo("hold") /\ UNCHANGED mark
     \/ ~Serving /\ lock = Nobody /\ TakerTo("writers") /\ UNCHANGED mark
     \/ ~Serving /\ lock # Nobody /\ Undo
     \/ Serving /\ Undo
  /\ UNCHANGED mem /\ TakerRests

TakeHold ==
  /\ taker.pc = "hold"
  /\ \/ /\ Answering /\ mem' = [mem EXCEPT !.held = TRUE]
        /\ \E answered \in BOOLEAN : taker' = [taker EXCEPT !.pc = "poll", !.held = answered]
     \/ TakerTo("poll") /\ UNCHANGED mem
  /\ UNCHANGED mark /\ TakerRests

\* Mutant of TakePoll: a current input does not count as busy.
TakePollTurnOnly ==
  /\ taker.pc = "poll"
  /\ \/ /\ Answering /\ ~mem.busy
        /\ TakerTo("stop") /\ UNCHANGED <<mark, mem>>
     \/ Undo /\ Release
  /\ TakerRests

\* Poll until the wrapper is idle and has no input; give up at the deadline.
TakePoll ==
  /\ taker.pc = "poll"
  /\ \/ /\ Answering /\ ~mem.busy /\ mem.cur = None
        /\ TakerTo("stop") /\ UNCHANGED <<mark, mem>>
     \/ Undo /\ Release
  /\ TakerRests

\* The stop request; without an answer the wrapper is taken to serve on.
TakeStop ==
  /\ taker.pc = "stop"
  /\ \/ Answering /\ AskStop /\ TakerTo("wait") /\ UNCHANGED mark
     \/ Answering /\ Undo
        /\ mem' = [mem EXCEPT !.stop = TRUE, !.held = @ /\ ~taker.held]
     \/ Undo /\ Release
  /\ TakerRests

\* Wait for the lock, which is only probed.
TakeWait ==
  /\ taker.pc = "wait"
  /\ \/ lock = Nobody /\ TakerTo("writers") /\ UNCHANGED mark
     \/ Fail
  /\ UNCHANGED mem /\ TakerRests

TakeWriters ==
  /\ taker.pc = "writers"
  /\ \/ Live = {} /\ TakerTo("tab") /\ UNCHANGED mark
     \/ Live # {} /\ Fail
  /\ UNCHANGED mem /\ TakerRests

\* Create the tab and start its command; from here the takeover only looks.
TakeTab ==
  /\ taker.pc = "tab"
  /\ \/ /\ TakerTo("idle") /\ Change(taker.token, "starting")
        /\ holder' = [holder EXCEPT ![taker.token] = "asked"]
     \/ Fail /\ UNCHANGED holder
  /\ UNCHANGED <<wrapperVars, tui, back>>

-----------------------------------------------------------------------------
(***************************************************************************)
(* run_takeover_hold                                                       *)
(***************************************************************************)

HolderTo(t, where) == holder' = [holder EXCEPT ![t] = where]

HoldCheck(t) ==
  /\ holder[t] = "asked"
  /\ HolderTo(t, IF mark.token = t THEN "checked" ELSE "done")
  /\ UNCHANGED <<wrapperVars, mark, taker, tui, back>>

\* try_lock, then the look for other writers of the session.
HoldLock(t) ==
  /\ holder[t] = "checked"
  /\ IF lock = Nobody /\ Live = {}
       THEN lock' = t /\ HolderTo(t, "locked") /\ UNCHANGED mark
       ELSE HolderTo(t, "done") /\ Change(t, "failed") /\ UNCHANGED lock
  /\ UNCHANGED <<itemVars, wpc, mem, proc, taker, tui, back>>

\* Start the interactive session and record it if the mark is still this one's.
HoldSpawn(t) ==
  /\ holder[t] = "locked"
  /\ \/ /\ \E s \in Slots \ Live :
             proc' = [proc EXCEPT ![s] = Started("tui")] /\ tui' = s
        /\ HolderTo(t, "running") /\ Change(t, "interactive") /\ UNCHANGED lock
     \/ /\ HolderTo(t, "done") /\ Change(t, "failed") /\ lock' = Nobody
        /\ UNCHANGED <<proc, tui>>
  /\ UNCHANGED <<itemVars, wpc, mem, taker, back>>

\* Its first process is gone: end every writer of the session, record the end and
\* release the lock.
HoldEnd(t) ==
  /\ holder[t] = "running" /\ (proc[tui].gone \/ proc[tui].kind = "none")
  /\ proc' = [s \in Slots |-> Empty]
  /\ lock' = Nobody /\ HolderTo(t, "done") /\ Change(t, "ended") /\ tui' = None
  /\ UNCHANGED <<itemVars, wpc, mem, taker, back>>

-----------------------------------------------------------------------------
(***************************************************************************)
(* handback_headless                                                       *)
(***************************************************************************)

BackTo(where, t) == back' = [pc |-> where, token |-> t]

\* Refused while a takeover stops the wrapper; a wrapper that does not answer in
\* time is taken to be gone.
BackCheck ==
  /\ back.pc = "idle" /\ mark.state \notin {"none", "stopping"}
  /\ BackTo("end", mark.token)
  /\ UNCHANGED <<wrapperVars, mark, taker, holder, tui>>

\* Signal the writers of the session.
BackKill ==
  /\ back.pc = "end" /\ Live # {}
  /\ proc' = [s \in Slots |-> IF s \in Live THEN Dead(proc[s]) ELSE proc[s]]
  /\ UNCHANGED <<itemVars, lock, wpc, mem, takeoverVars>>

\* Mutant of BackLock: the lock alone is taken to mean that the session ended.
BackLockOnly ==
  /\ back.pc = "end"
  /\ \/ lock = Nobody /\ lock' = Handback /\ BackTo("locked", back.token)
     \/ BackTo("idle", Nobody) /\ UNCHANGED lock
  /\ UNCHANGED <<itemVars, wpc, mem, proc, mark, taker, holder, tui>>

\* No writer is left and the lock is free; or the wait is over.
BackLock ==
  /\ back.pc = "end"
  /\ \/ Live = {} /\ lock = Nobody /\ lock' = Handback /\ BackTo("locked", back.token)
     \/ BackTo("idle", Nobody) /\ UNCHANGED lock
  /\ UNCHANGED <<itemVars, wpc, mem, proc, mark, taker, holder, tui>>

\* Remove the mark and release the lock; the wrapper is then started.
BackClear ==
  /\ back.pc = "locked"
  /\ Clear(back.token) /\ lock' = Nobody /\ BackTo("idle", Nobody)
  /\ UNCHANGED <<itemVars, wpc, mem, proc, taker, holder, tui>>

-----------------------------------------------------------------------------
\* A process is killed, or the wrapper gets SIGTERM.
Fault ==
  /\ faults < MaxFaults
  /\ faults' = faults + 1 /\ UNCHANGED scene
  /\ \/ (\E w \in Wrappers : WrapperDies(w)) /\ UNCHANGED takeoverVars
     \/ Serving /\ AskStop /\ UNCHANGED <<itemVars, lock, wpc, proc, takeoverVars>>
     \/ taker.pc # "idle" /\ TakerTo("idle") /\ UNCHANGED <<wrapperVars, mark, holder, tui, back>>
     \/ /\ lock \in Tokens /\ lock' = Nobody /\ HolderTo(lock, "done") /\ tui' = None
        /\ UNCHANGED <<itemVars, wpc, mem, proc, mark, taker, back>>
     \/ /\ back.pc # "idle" /\ BackTo("idle", Nobody)
        /\ lock' = IF lock = Handback THEN Nobody ELSE lock
        /\ UNCHANGED <<itemVars, wpc, mem, proc, mark, taker, holder, tui>>

Init ==
  /\ phase = [i \in Items |-> "new"] /\ stamp = [i \in Items |-> "none"]
  /\ tries = [i \in Items |-> 0] /\ tomb = {} /\ seen = {}
  /\ lock = Nobody /\ wpc = [w \in Wrappers |-> "off"]
  /\ mem = Fresh /\ proc = [s \in Slots |-> Empty]
  /\ mark = NoMark /\ taker = [pc |-> "idle", token |-> Nobody, held |-> FALSE]
  /\ holder = [t \in Tokens |-> "unused"] /\ tui = None
  /\ back = [pc |-> "idle", token |-> Nobody] /\ faults = 0
  /\ scene \in Scenes

Queue == \E i \in scene.items : Enqueue(i) \/ Withdraw(i) \/ Tombstone(i)

WrapperStep(w) ==
  \/ Serve(w) \/ Settle(w) \/ Spawn(w) \/ Bar(w) \/ Write(w) \/ Hear(w)
  \/ AckDeadline(w) \/ HarnessExited(w) \/ Restart(w)
  \/ \E i \in Items : Recover(w, i) \/ Move(w, i) \/ Consume(w, i)

Approvals(w) == \E i \in Answers \cap scene.items : Answer(w, i) \/ Forget(w, i)

Harness == \E s \in Slots : HRead(s) \/ HStart(s) \/ HCancel(s) \/ HTurn(s)
                            \/ HExit(s) \/ LauncherExits(s)

TakerStep == TakeStatus \/ TakeHold \/ TakePoll \/ TakeStop \/ TakeWait
             \/ TakeWriters \/ TakeTab

HolderStep(t) == HoldCheck(t) \/ HoldLock(t) \/ HoldSpawn(t) \/ HoldEnd(t)

BackStep == BackKill \/ BackLock \/ BackClear

Next ==
  \/ /\ Queue \/ Harness \/ \E w \in Wrappers : WrapperStep(w) \/ Approvals(w)
     /\ UNCHANGED <<takeoverVars, scene, faults>>
  \/ /\ \/ \E w \in Wrappers : StartWrapper(w)
        \/ \E t \in scene.tokens : TakeMark(t) \/ HolderStep(t)
        \/ TakerStep \/ BackCheck \/ BackStep
     /\ UNCHANGED <<scene, faults>>
  \/ Fault

Spec == Init /\ [][Next]_vars

-----------------------------------------------------------------------------
(***************************************************************************)
(* Properties.                                                             *)
(***************************************************************************)

\* Every variable of the headless agent has its type; the recovery stamps are on
\* items in inflight/ and on those that recovery moved on to failed/.
TypeOK ==
  /\ phase \in [Items -> Phases]
  /\ \A i \in Items :
       stamp[i] \in {"none"} \cup
         IF phase[i] \in {"inflight", "failed"} THEN {"barrier", "written"} ELSE {}
  /\ tries \in [Items -> 0 .. MaxTries] /\ tomb \subseteq Items /\ seen \subseteq Inputs
  /\ lock \in Wrappers \cup Tokens \cup {Nobody, Handback}
  /\ mem.cur \in Items \cup {None} /\ mem.job \in Items \cup {None}
  /\ mem.harness \in Slots \cup {None} /\ mem.consume \subseteq Answers
  /\ \A s \in Slots : proc[s].queue \subseteq Inputs /\ Len(proc[s].out) <= MaxOut + 1
  /\ tui \in Slots \cup {None} /\ faults \in 0 .. MaxFaults

\* "One session must never have two writers": a wrapper's harness, a harness an
\* earlier wrapper left behind, what a launcher left behind and an interactive
\* session never run at the same time.
OneWriter == Cardinality(Live) <= 1

\* The model never receives two attempts of one queued message, whatever crashes,
\* cancellations, deadlines and restarts come between.
AtMostOnce == \A i \in Items : Cardinality({x \in seen : x[1] = i}) <= 1

\* The inputs a live process still holds unstarted.
HeldInputs(s) ==
  {proc[s].pipe[n] : n \in DOMAIN proc[s].pipe} \cup proc[s].queue

\* A message that waits, was withdrawn or was set aside has not been received and
\* no process of the session still holds a copy it could start.
WaitingIsUnseen ==
  \A i \in Items : phase[i] \in {"pending", "withdrawn", "cancelled"} =>
    \A x \in seen \cup UNION {HeldInputs(s) : s \in Live} : x[1] # i

\* A message recorded as processed was received by the model.
ProcessedWasReceived ==
  \A i \in Items : phase[i] = "processed" => \E x \in seen : x[1] = i

\* Whenever the wrapper has a harness and is at the top of its loop, a message in
\* inflight/ is its current input: nothing is stranded there.
InflightIsOwned ==
  \A w \in Wrappers : Looping(w) /\ mem.harness # None =>
    \A i \in Items : phase[i] = "inflight" => i = mem.cur

\* A message whose answer was accepted is never written to the harness while the
\* wrapper remembers the answer.
AnswerNotTyped ==
  \A i \in mem.consume : phase[i] # "inflight" /\ \A x \in seen : x[1] # i

\* Between the takeover's idle check and its stop request, no queued message is
\* in the harness's hands, except those given up at the acknowledgement deadline.
StopsAtBoundary ==
  taker.pc = "stop" /\ Serving /\ mem.held /\ mem.harness # None =>
    \A x \in HeldInputs(mem.harness) \cup
             ({proc[mem.harness].turn} \cap Items) \X {0} : phase[x[1]] = "failed"

\* A handback removes the mark only when no writer of the session is left.
HandbackEndsSession ==
  [][mark.state \notin {"none", "stopping"} /\ mark'.state = "none" => Live' = {}]_vars
=============================================================================
