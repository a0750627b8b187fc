--------------------------- MODULE TakeoverProofs ---------------------------
(***************************************************************************)
(* The headless agent with takeover and handback, for any number of        *)
(* wrappers, takeovers, items, processes and faults: the session never     *)
(* has two writers, and a handback leaves none.                            *)
(***************************************************************************)
EXTENDS Takeover, TLAPS, FiniteSetTheorems, SequenceTheorems

-----------------------------------------------------------------------------
(***************************************************************************)
(* The inductive invariant.                                                *)
(***************************************************************************)

\* Where each of the processes can be.
WrapperPlaces == {"off", "start", "recover", "resettle", "loop", "moved", "barred", "settle"}
TakerPlaces == {"idle", "status", "hold", "poll", "stop", "wait", "writers", "tab"}
HolderPlaces == {"unused", "unasked", "asked", "checked", "locked", "running", "done"}
MarkStates == {"none", "stopping", "starting", "interactive", "ended", "failed"}

Reports == [what : {"queued", "started", "cancelled", "init", "result", "eof"},
            input : Inputs \cup {None}]
Processes == [kind : {"none", "headless", "tui"}, gone : BOOLEAN, heard : BOOLEAN,
              pipe : Seq(Inputs), queue : SUBSET Inputs,
              turn : Items \cup {"no", "self"}, out : Seq(Reports)]
Memories == [cur : Items \cup {None}, acked : BOOLEAN, busy : BOOLEAN, held : BOOLEAN,
             stop : BOOLEAN, consume : SUBSET Answers, harness : Slots \cup {None},
             job : Items \cup {None}, to : {"pending", "processed", "failed"}]

QueueTypes ==
  /\ phase \in [Items -> Phases] /\ stamp \in [Items -> {"none", "barrier", "written"}]
  /\ tries \in [Items -> 0 .. MaxTries] /\ tomb \subseteq Items /\ seen \subseteq Inputs
SessionTypes ==
  /\ lock \in Wrappers \cup Tokens \cup {Nobody, Handback}
  /\ wpc \in [Wrappers -> WrapperPlaces] /\ mem \in Memories /\ proc \in [Slots -> Processes]
TakeoverTypes ==
  /\ mark \in [state : MarkStates, token : Tokens \cup {Nobody}]
  /\ taker \in [pc : TakerPlaces, token : Tokens \cup {Nobody}, held : BOOLEAN]
  /\ holder \in [Tokens -> HolderPlaces] /\ tui \in Slots \cup {None}
  /\ back \in [pc : {"idle", "end", "locked"}, token : Tokens \cup {Nobody}]
  /\ scene \in Scenes /\ faults \in 0 .. MaxFaults

\* headless.lock is held by the process that believes it holds it.
LockFits ==
  /\ \A w \in Wrappers : wpc[w] \notin {"off", "start"} <=> lock = w
  /\ \A t \in Tokens : holder[t] \in {"locked", "running"} <=> lock = t
  /\ back.pc = "locked" <=> lock = Handback

\* The process the lock holder itself started, if any.
Own == IF lock \in Wrappers THEN {mem.harness} \cap Slots
       ELSE IF lock \in Tokens /\ holder[lock] = "running" THEN {tui} ELSE {}

\* At most one process writes the session, and while the lock is held it is the
\* one its holder started; a wrapper that recovers has started none yet.
Alone ==
  /\ \A s, t \in Live : s = t
  /\ lock # Nobody => Live \subseteq Own
  /\ \A w \in Wrappers : wpc[w] \in {"recover", "resettle"} => mem.harness = None
  /\ \A t \in Tokens : holder[t] = "running" => tui \in Slots

\* A takeover that is under way has not asked for its tab, and its mark, while it
\* is still there, says "stopping", which no handback accepts.
Underway ==
  taker.pc # "idle" =>
    /\ taker.token \in Tokens /\ holder[taker.token] = "unasked"
    /\ mark.token = taker.token => mark.state = "stopping"

\* The bound on the reports of a process leaves room for the end of its output.
ReportsBounded ==
  \A s \in Slots : /\ Len(proc[s].out) <= MaxOut + 1
                   /\ proc[s].kind # "none" => Len(proc[s].out) <= MaxOut

\* The item the wrapper is about to write has an attempt left, or has begun one.
AttemptFits ==
  lock \in Wrappers =>
    /\ wpc[lock] = "moved" => mem.job \in Items /\ tries[mem.job] < MaxTries
    /\ wpc[lock] = "barred" => mem.job \in Items /\ tries[mem.job] > 0

SessionInv ==
  /\ QueueTypes /\ SessionTypes /\ TakeoverTypes
  /\ LockFits /\ Alone /\ Underway /\ ReportsBounded /\ AttemptFits


-----------------------------------------------------------------------------
(***************************************************************************)
(* What the operators on processes keep.                                   *)
(***************************************************************************)

\* The constants that stand for no process are none of the processes.
LEMMA Distinct ==
  /\ \A w \in Wrappers : w \notin Tokens /\ w # Nobody /\ w # Handback
  /\ \A t \in Tokens : t \notin Wrappers /\ t # Nobody /\ t # Handback
  /\ Nobody # Handback /\ None \notin Slots /\ None \notin Items
BY HeadlessAssumption, TakeoverAssumption DEF HeadlessAssumption, TakeoverAssumption

\* A slot without a process, and a process that has just been started, hold
\* nothing and have reported nothing.
LEMMA EmptyType ==
  /\ Empty \in Processes /\ Empty.kind = "none" /\ Empty.out = <<>>
  /\ Empty.pipe = <<>> /\ Empty.queue = {} /\ Empty.turn = "no"
<1>1. /\ <<>> \in Seq(Inputs) /\ <<>> \in Seq(Reports)
  BY EmptySeq
<1> QED BY <1>1 DEF Empty, Processes

\* A process that has just been started.
LEMMA StartedType ==
  ASSUME NEW k \in {"headless", "tui"}
  PROVE  /\ Started(k) \in Processes /\ Started(k).kind = k /\ Started(k).out = <<>>
         /\ Started(k).heard = (k = "headless")
         /\ Started(k).pipe = <<>> /\ Started(k).queue = {} /\ Started(k).turn = "no"
<1>1. /\ <<>> \in Seq(Inputs) /\ <<>> \in Seq(Reports)
  BY EmptySeq
<1> QED BY <1>1 DEF Started, Empty, Processes

\* What is left of a process that exits: its reports and the end of its output.
LEMMA DeadType ==
  ASSUME NEW p \in Processes, Len(p.out) <= MaxOut
  PROVE  /\ Dead(p) \in Processes /\ Dead(p).kind = "none"
         /\ Dead(p).pipe = <<>> /\ Dead(p).queue = {} /\ Dead(p).turn = "no"
         /\ Len(Dead(p).out) <= MaxOut + 1
<1> DEFINE e == [what |-> "eof", input |-> None]
<1>1. e \in Reports
  BY DEF Reports
<1>2. p.out \in Seq(Reports) /\ p.heard \in BOOLEAN
  BY DEF Processes
<1>3. /\ Append(p.out, e) \in Seq(Reports)
      /\ Len(Append(p.out, e)) = Len(p.out) + 1
  BY <1>1, <1>2, AppendProperties
<1>4. /\ <<>> \in Seq(Inputs) /\ <<>> \in Seq(Reports) /\ Len(<<>>) = 0
  BY EmptySeq
<1>5. MaxOut \in Nat /\ Len(p.out) \in Nat
  BY <1>2, LenProperties, HeadlessAssumption DEF HeadlessAssumption
<1>6. /\ Dead(p).kind = "none" /\ Dead(p).pipe = <<>> /\ Dead(p).queue = {}
      /\ Dead(p).turn = "no" /\ Dead(p).out = IF p.heard THEN Append(p.out, e) ELSE <<>>
  BY DEF Dead, Empty
<1> HIDE DEF e
<1>7. Len(Dead(p).out) <= MaxOut + 1
  BY <1>3, <1>4, <1>5, <1>6
<1>8. (IF p.heard THEN Append(p.out, e) ELSE <<>>) \in Seq(Reports)
  BY <1>3, <1>4
<1>9. Dead(p) \in Processes
  BY <1>2, <1>4, <1>8 DEF Dead, Empty, Processes, e
<1> QED BY <1>6, <1>7, <1>9

\* A report keeps the types and the bound.
LEMMA SayType ==
  ASSUME NEW s \in Slots, NEW p \in Processes, proc \in [Slots -> Processes],
         NEW what \in {"queued", "started", "cancelled", "init", "result"},
         NEW x \in Inputs \cup {None}, Say(s, p, what, x), Len(p.out) <= MaxOut
  PROVE  /\ proc' \in [Slots -> Processes] /\ Len(proc'[s].out) <= MaxOut
         /\ proc'[s].kind = p.kind /\ \A z \in Slots : z # s => proc'[z] = proc[z]
<1> DEFINE e == [what |-> what, input |-> x]
           q == [p EXCEPT !.out = Append(@, e)]
<1>1. e \in Reports
  BY DEF Reports
<1>2. p.out \in Seq(Reports) /\ p.heard \in BOOLEAN
  BY DEF Processes
<1>3. /\ Append(p.out, e) \in Seq(Reports)
      /\ Len(Append(p.out, e)) = Len(p.out) + 1
  BY <1>1, <1>2, AppendProperties
<1>4. MaxOut \in Nat /\ Len(p.out) \in Nat
  BY <1>2, LenProperties, HeadlessAssumption DEF HeadlessAssumption
<1>5. /\ p.heard => Len(p.out) < MaxOut
      /\ proc' = [proc EXCEPT ![s] = IF p.heard THEN q ELSE p]
  BY DEF Say
<1> HIDE DEF e
<1>6. q \in Processes /\ q.kind = p.kind /\ q.out = Append(p.out, e)
  BY <1>3 DEF Processes
<1> HIDE DEF q
<1> QED BY <1>3, <1>4, <1>5, <1>6

-----------------------------------------------------------------------------
(***************************************************************************)
(* Steps that leave most of the state alone.                               *)
(***************************************************************************)

\* The invariant holds at first.
LEMMA SessionInit ==
  ASSUME Init
  PROVE  SessionInv
<1> USE DEF Init
<1>1. QueueTypes
  BY HeadlessAssumption DEF QueueTypes, Phases, HeadlessAssumption
<1>2. SessionTypes
  BY EmptyType DEF SessionTypes, Memories, Fresh, WrapperPlaces
<1>3. TakeoverTypes
  BY TakeoverAssumption
  DEF TakeoverTypes, MarkStates, TakerPlaces, HolderPlaces, NoMark, TakeoverAssumption
<1>4. Live = {}
  BY EmptyType DEF Live
<1>5. LockFits
  BY Distinct DEF LockFits
<1>6. Alone
  BY <1>4 DEF Alone
<1>7. Underway
  BY DEF Underway
<1>8. ReportsBounded
  BY EmptyType, EmptySeq, HeadlessAssumption DEF ReportsBounded, HeadlessAssumption
<1>9. AttemptFits
  BY Distinct DEF AttemptFits
<1> QED BY <1>1, <1>2, <1>3, <1>5, <1>6, <1>7, <1>8, <1>9 DEF SessionInv

\* A step that changes items only.
LEMMA QueueStep ==
  ASSUME SessionInv, QueueTypes',
         UNCHANGED <<tries, lock, wpc, mem, proc, takeoverVars, scene, faults>>
  PROVE  SessionInv'
BY DEF SessionInv, SessionTypes, TakeoverTypes, LockFits, Alone, Own, Live, Underway,
       ReportsBounded, AttemptFits, takeoverVars

\* A step of the processes on the session that starts none.
LEMMA ProcessStep ==
  ASSUME SessionInv, UNCHANGED <<itemVars, lock, wpc, mem, takeoverVars, scene, faults>>,
         proc' \in [Slots -> Processes], Live' \subseteq Live, ReportsBounded'
  PROVE  SessionInv'
<1>1. QueueTypes' /\ SessionTypes' /\ TakeoverTypes'
  BY DEF SessionInv, QueueTypes, SessionTypes, TakeoverTypes, itemVars, takeoverVars
<1>2. LockFits' /\ Underway'
  BY DEF SessionInv, LockFits, Underway, takeoverVars
<1>3. Own' = Own
  BY DEF Own, takeoverVars
<1>4. Alone'
  BY <1>3 DEF SessionInv, Alone, takeoverVars
<1>5. AttemptFits'
  BY DEF SessionInv, AttemptFits, itemVars
<1> QED BY <1>1, <1>2, <1>4, <1>5 DEF SessionInv

\* A step of the wrapper that holds the lock and keeps it.
LEMMA WrapperGoesOn ==
  ASSUME SessionInv, UNCHANGED <<lock, takeoverVars, scene, faults>>,
         NEW w \in Wrappers, lock = w,
         NEW q \in WrapperPlaces \ {"off", "start"}, wpc' = [wpc EXCEPT ![w] = q],
         QueueTypes', mem' \in Memories, proc' \in [Slots -> Processes], ReportsBounded',
         AttemptFits',
         Live' \subseteq {mem'.harness}, q \in {"recover", "resettle"} => mem'.harness = None
  PROVE  SessionInv'
<1>1. SessionTypes' /\ TakeoverTypes'
  BY DEF SessionInv, SessionTypes, TakeoverTypes, takeoverVars
<1>2. LockFits'
  BY DEF SessionInv, LockFits, SessionTypes, takeoverVars
<1>3. Underway'
  BY DEF SessionInv, Underway, takeoverVars
<1>4. Live' \subseteq Own'
  BY DEF Own, Live
<1>5. \A v \in Wrappers : wpc'[v] \in {"recover", "resettle"} => mem'.harness = None
  BY DEF SessionInv, LockFits, SessionTypes
<1>6. \A t \in Tokens : holder'[t] = "running" => tui' \in Slots
  BY DEF SessionInv, Alone, takeoverVars
<1>7. \A s, t \in Live' : s = t
  OBVIOUS
<1>8. Alone'
  BY <1>4, <1>5, <1>6, <1>7 DEF Alone
<1> QED BY <1>1, <1>2, <1>3, <1>8 DEF SessionInv

\* The wrapper returns or is killed.
LEMMA WrapperEnds ==
  ASSUME SessionInv, UNCHANGED <<itemVars, takeoverVars, scene>>, faults' \in 0 .. MaxFaults,
         NEW w \in Wrappers, lock = w, Return(w),
         proc' \in [Slots -> Processes], ReportsBounded', Live' \subseteq Live
  PROVE  SessionInv'
<1>1. Fresh \in Memories /\ Fresh.harness = None
  BY DEF Fresh, Memories
<1>2. lock' = Nobody /\ mem' = Fresh /\ wpc' = [wpc EXCEPT ![w] = "off"]
  BY DEF Return, Goto
<1>3. QueueTypes' /\ SessionTypes' /\ TakeoverTypes'
  BY <1>1, <1>2 DEF SessionInv, QueueTypes, SessionTypes, TakeoverTypes, itemVars, takeoverVars,
                    WrapperPlaces
<1>4. LockFits'
  BY <1>2, Distinct DEF SessionInv, LockFits, SessionTypes, takeoverVars
<1>5. Underway'
  BY DEF SessionInv, Underway, takeoverVars
<1>6. \A v \in Wrappers : wpc'[v] \in {"recover", "resettle"} => mem'.harness = None
  BY <1>1, <1>2
<1>7. \A t \in Tokens : holder'[t] = "running" => tui' \in Slots
  BY DEF SessionInv, Alone, takeoverVars
<1>8. \A s, t \in Live' : s = t
  BY DEF SessionInv, Alone
<1>9. Alone'
  BY <1>2, <1>6, <1>7, <1>8 DEF Alone
<1>10. AttemptFits'
  BY <1>2, Distinct DEF AttemptFits
<1> QED BY <1>3, <1>4, <1>5, <1>9, <1>10 DEF SessionInv

\* A step of the takeover, or of a holder that has no lock: it touches no process
\* and no lock.
LEMMA TakerMoves ==
  ASSUME SessionInv, UNCHANGED <<itemVars, lock, wpc, proc, tui, scene>>,
         mem' \in Memories, mem'.harness = mem.harness, mem'.job = mem.job,
         TakeoverTypes', Underway',
         back'.pc = "locked" <=> back.pc = "locked",
         \A t \in Tokens : /\ holder'[t] \in {"locked", "running"} <=> holder[t] \in {"locked", "running"}
                           /\ holder'[t] = "running" <=> holder[t] = "running"
  PROVE  SessionInv'
<1>1. QueueTypes' /\ SessionTypes'
  BY DEF SessionInv, QueueTypes, SessionTypes, itemVars
<1>2. LockFits'
  BY DEF SessionInv, LockFits
<1>3. Live' = Live
  BY DEF Live
<1>4. Own' = Own
  BY DEF Own
<1>5. Alone'
  BY <1>3, <1>4 DEF SessionInv, Alone
<1>6. ReportsBounded'
  BY DEF SessionInv, ReportsBounded
<1>7. AttemptFits'
  BY DEF SessionInv, AttemptFits, itemVars
<1> QED BY <1>1, <1>2, <1>5, <1>6, <1>7 DEF SessionInv

-----------------------------------------------------------------------------
(***************************************************************************)
(* The queue's clients and the processes on the session.                   *)
(***************************************************************************)

\* Clients of the queue change items only.
LEMMA QueueKeeps ==
  ASSUME SessionInv, Queue, UNCHANGED <<takeoverVars, scene, faults>>
  PROVE  SessionInv'
<1>1. scene.items \subseteq Items
  BY TakeoverAssumption DEF SessionInv, TakeoverTypes, TakeoverAssumption
<1>2. PICK i \in Items : Enqueue(i) \/ Withdraw(i) \/ Tombstone(i)
  BY <1>1 DEF Queue
<1>3. QueueTypes' /\ UNCHANGED <<tries, lock, wpc, mem, proc>>
  BY <1>2 DEF SessionInv, QueueTypes, Enqueue, Withdraw, Tombstone, Phases
<1> QED BY <1>3, QueueStep

\* Steps of a process on the session.
LEMMA HarnessKeeps ==
  ASSUME SessionInv, NEW s \in Slots,
         \/ HRead(s) \/ HStart(s) \/ HCancel(s) \/ HTurn(s) \/ HExit(s) \/ LauncherExits(s),
         UNCHANGED <<takeoverVars, scene, faults>>
  PROVE  SessionInv'
<1> DEFINE p == proc[s]
<1>1. /\ proc \in [Slots -> Processes] /\ p \in Processes /\ seen \subseteq Inputs
      /\ p.kind # "none" => Len(p.out) <= MaxOut
      /\ p.pipe \in Seq(Inputs) /\ p.queue \subseteq Inputs
  BY DEF SessionInv, SessionTypes, QueueTypes, ReportsBounded, Processes
<1>2. ASSUME NEW q \in Processes, q.kind = p.kind, p.kind # "none", q.out = p.out,
             NEW what \in {"queued", "started", "cancelled", "init", "result"},
             NEW x \in Inputs \cup {None}, Say(s, q, what, x),
             UNCHANGED <<phase, stamp, tries, tomb, lock, wpc, mem>>,
             seen' \subseteq Inputs
      PROVE  SessionInv'
  <2>1. /\ proc' \in [Slots -> Processes] /\ Len(proc'[s].out) <= MaxOut
        /\ proc'[s].kind = p.kind /\ \A z \in Slots : z # s => proc'[z] = proc[z]
    BY <1>1, <1>2, SayType
  <2>2. Live' \subseteq Live
    BY <1>1, <1>2, <2>1 DEF Live
  <2>3. Len(proc'[s].out) \in Nat /\ MaxOut \in Nat
    BY <2>1, LenProperties, HeadlessAssumption DEF Processes, HeadlessAssumption
  <2>4. ReportsBounded'
    BY <2>1, <2>3 DEF SessionInv, ReportsBounded
  <2>5. QueueTypes' /\ SessionTypes' /\ TakeoverTypes'
    BY <1>2, <2>1 DEF SessionInv, QueueTypes, SessionTypes, TakeoverTypes, takeoverVars
  <2>6. LockFits' /\ Underway'
    BY <1>2 DEF SessionInv, LockFits, Underway, takeoverVars
  <2>7. Own' = Own
    BY <1>2 DEF Own, takeoverVars
  <2>8. Alone'
    BY <1>2, <2>2, <2>7 DEF SessionInv, Alone, takeoverVars
  <2>9. AttemptFits'
    BY <1>2 DEF SessionInv, AttemptFits
  <2> QED BY <2>4, <2>5, <2>6, <2>8, <2>9 DEF SessionInv
<1>3. CASE HRead(s)
  <2>1. p.pipe # <<>> /\ p.kind = "headless"
    BY <1>3 DEF HRead
  <2>2. Tail(p.pipe) \in Seq(Inputs) /\ Head(p.pipe) \in Inputs
    BY <1>1, <2>1, HeadTailProperties
  <2> DEFINE q == [p EXCEPT !.pipe = Tail(@), !.queue = @ \cup {Head(p.pipe)}]
  <2>3. q \in Processes /\ q.kind = p.kind /\ q.out = p.out
    BY <1>1, <2>2 DEF Processes
  <2>4. Say(s, q, "queued", Head(p.pipe)) /\ UNCHANGED <<itemVars, lock, wpc, mem>>
    BY <1>3 DEF HRead
  <2> HIDE DEF q
  <2> QED BY <1>1, <1>2, <2>1, <2>2, <2>3, <2>4 DEF itemVars
<1>4. CASE HStart(s)
  <2>1. p.kind = "headless" /\ UNCHANGED <<phase, stamp, tries, tomb, lock, wpc, mem>>
    BY <1>4 DEF HStart
  <2>2. PICK x \in p.queue :
          /\ seen' = seen \cup {x}
          /\ Say(s, [p EXCEPT !.queue = @ \ {x}, !.turn = IF @ = "no" THEN x[1] ELSE @],
                 "started", x)
    BY <1>4 DEF HStart
  <2> DEFINE q == [p EXCEPT !.queue = @ \ {x}, !.turn = IF @ = "no" THEN x[1] ELSE @]
  <2>3. x \in Inputs /\ x[1] \in Items
    BY <1>1 DEF Inputs
  <2>4. q \in Processes /\ q.kind = p.kind /\ q.out = p.out
    BY <1>1, <2>3 DEF Processes
  <2>5. Say(s, q, "started", x) /\ seen' \subseteq Inputs
    BY <1>1, <2>2, <2>3
  <2> HIDE DEF q
  <2> QED BY <1>2, <2>1, <2>3, <2>4, <2>5
<1>5. CASE HCancel(s)
  <2>1. p.kind = "headless" /\ UNCHANGED <<itemVars, lock, wpc, mem>>
    BY <1>5 DEF HCancel
  <2>2. PICK x \in p.queue : Say(s, [p EXCEPT !.queue = @ \ {x}], "cancelled", x)
    BY <1>5 DEF HCancel
  <2> DEFINE q == [p EXCEPT !.queue = @ \ {x}]
  <2>3. x \in Inputs
    BY <1>1
  <2>4. q \in Processes /\ q.kind = p.kind /\ q.out = p.out
    BY <1>1, <2>3 DEF Processes
  <2>5. Say(s, q, "cancelled", x)
    BY <2>2
  <2> HIDE DEF q
  <2> QED BY <1>1, <1>2, <2>1, <2>3, <2>4, <2>5 DEF itemVars
<1>6. CASE HTurn(s)
  <2>1. p.kind = "headless" /\ UNCHANGED <<itemVars, lock, wpc, mem>>
    BY <1>6 DEF HTurn
  <2>2. PICK what \in {"init", "result"}, turn \in {"self", "no"} :
          Say(s, [p EXCEPT !.turn = turn], what, None)
    BY <1>6 DEF HTurn
  <2> DEFINE q == [p EXCEPT !.turn = turn]
  <2>3. q \in Processes /\ q.kind = p.kind /\ q.out = p.out
    BY <1>1 DEF Processes
  <2>4. Say(s, q, what, None)
    BY <2>2
  <2> HIDE DEF q
  <2> QED BY <1>1, <1>2, <2>1, <2>3, <2>4 DEF itemVars
<1>7. CASE HExit(s)
  <2>1. p.kind # "none" /\ proc' = [proc EXCEPT ![s] = Dead(p)]
        /\ UNCHANGED <<itemVars, lock, wpc, mem>>
    BY <1>7 DEF HExit
  <2>2. Dead(p) \in Processes /\ Dead(p).kind = "none" /\ Len(Dead(p).out) <= MaxOut + 1
    BY <1>1, <2>1, DeadType
  <2>3. proc' \in [Slots -> Processes] /\ Live' \subseteq Live
    BY <1>1, <2>1, <2>2 DEF Live
  <2>4. ReportsBounded'
    BY <1>1, <2>1, <2>2 DEF SessionInv, ReportsBounded
  <2> QED BY <2>1, <2>3, <2>4, ProcessStep
<1>8. CASE LauncherExits(s)
  <2>1. proc' = [proc EXCEPT ![s].gone = TRUE] /\ UNCHANGED <<itemVars, lock, wpc, mem>>
    BY <1>8 DEF LauncherExits
  <2>2. proc' \in [Slots -> Processes]
    BY <1>1, <2>1 DEF Processes
  <2>3. \A z \in Slots : proc'[z].kind = proc[z].kind /\ proc'[z].out = proc[z].out
    BY <1>1, <2>1 DEF Processes
  <2>4. Live' \subseteq Live /\ ReportsBounded'
    BY <2>3 DEF Live, SessionInv, ReportsBounded
  <2> QED BY <2>1, <2>2, <2>4, ProcessStep
<1> QED BY <1>3, <1>4, <1>5, <1>6, <1>7, <1>8

-----------------------------------------------------------------------------
(***************************************************************************)
(* The wrapper.                                                            *)
(***************************************************************************)

\* Steps of the wrapper that holds the lock on its items and its memory alone.
LEMMA WrapperThinks ==
  ASSUME SessionInv, UNCHANGED <<lock, proc, takeoverVars, scene, faults>>,
         NEW w \in Wrappers, lock = w,
         NEW q \in WrapperPlaces \ {"off", "start"}, wpc' = [wpc EXCEPT ![w] = q],
         QueueTypes', mem' \in Memories, mem'.harness = mem.harness, AttemptFits',
         q \in {"recover", "resettle"} => mem.harness = None
  PROVE  SessionInv'
<1>1. Live' \subseteq {mem'.harness}
  BY Distinct DEF SessionInv, Alone, Own, Live
<1>2. ReportsBounded' /\ proc' \in [Slots -> Processes]
  BY DEF SessionInv, ReportsBounded, SessionTypes
<1> QED BY <1>1, <1>2, WrapperGoesOn

\* Settling an item of inflight/: the wrapper writes the document, and then moves it.
LEMMA SettleToKeeps ==
  ASSUME SessionInv, NEW w \in Wrappers, lock = w, wpc[w] \in {"recover", "loop"},
         NEW i \in Items, NEW to \in {"pending", "processed", "failed"}, SettleTo(w, i, to),
         UNCHANGED <<phase, tries, tomb, seen, lock, proc, takeoverVars, scene, faults>>
  PROVE  SessionInv'
<1> DEFINE q == IF wpc[w] = "recover" THEN "resettle" ELSE "settle"
<1>1. /\ wpc' = [wpc EXCEPT ![w] = q] /\ q \in {"resettle", "settle"}
      /\ q \in WrapperPlaces \ {"off", "start"}
  BY DEF SettleTo, Goto, WrapperPlaces
<1>2. QueueTypes'
  BY DEF SessionInv, QueueTypes, SettleTo
<1>3. mem' \in Memories /\ mem'.harness = mem.harness
  BY DEF SessionInv, SessionTypes, SettleTo, Memories
<1>4. wpc'[w] = q
  BY <1>1 DEF SessionInv, SessionTypes
<1>5. AttemptFits'
  BY <1>1, <1>4 DEF AttemptFits
<1>6. q \in {"recover", "resettle"} => mem.harness = None
  BY DEF SessionInv, Alone
<1> HIDE DEF q
<1> QED BY <1>1, <1>2, <1>3, <1>5, <1>6, WrapperThinks

\* Recovery of one item.
LEMMA RecoverKeeps ==
  ASSUME SessionInv, NEW w \in Wrappers, NEW i \in Items, Recover(w, i),
         UNCHANGED <<takeoverVars, scene, faults>>
  PROVE  SessionInv'
<1>1. lock = w /\ wpc[w] = "recover" /\ UNCHANGED <<tries, tomb, seen, lock, proc>>
  BY DEF Recover
<1>2. ASSUME SettleTo(w, i, "processed") \/ SettleTo(w, i, "pending"), UNCHANGED phase
      PROVE  SessionInv'
  BY <1>1, <1>2, SettleToKeeps
<1>3. ASSUME phase' = [phase EXCEPT ![i] = "failed"], UNCHANGED <<stamp, wpc, mem>>
      PROVE  SessionInv'
  <2>1. QueueTypes'
    BY <1>1, <1>3 DEF SessionInv, QueueTypes, Phases
  <2> QED BY <1>1, <1>3, <2>1, QueueStep
<1> QED BY <1>2, <1>3 DEF Recover

\* The wrapper changes what it remembers, and perhaps items.
LEMMA MemoryStep ==
  ASSUME SessionInv, NEW w \in Wrappers, lock = w, mem' \in Memories,
         mem'.harness = mem.harness, mem'.job = mem.job, QueueTypes',
         UNCHANGED <<tries, lock, wpc, proc, takeoverVars, scene, faults>>
  PROVE  SessionInv'
<1>1. /\ wpc[w] \in WrapperPlaces \ {"off", "start"} /\ wpc' = [wpc EXCEPT ![w] = wpc[w]]
      /\ wpc[w] \in {"recover", "resettle"} => mem.harness = None
  BY DEF SessionInv, SessionTypes, LockFits, Alone
<1>2. AttemptFits'
  BY DEF SessionInv, AttemptFits
<1> QED BY <1>1, <1>2, WrapperThinks

\* Starting: the lock and no other writer.
LEMMA ServeKeeps ==
  ASSUME SessionInv, NEW w \in Wrappers, Serve(w), UNCHANGED <<takeoverVars, scene, faults>>
  PROVE  SessionInv'
<1>1. wpc[w] = "start" /\ UNCHANGED <<itemVars, proc>> /\ lock # w
  BY DEF SessionInv, LockFits, Serve
<1>2. Fresh \in Memories /\ Fresh.harness = None
  BY DEF Fresh, Memories
<1>3. QueueTypes' /\ TakeoverTypes' /\ Underway' /\ ReportsBounded' /\ Live' = Live
  BY <1>1 DEF SessionInv, QueueTypes, TakeoverTypes, Underway, ReportsBounded, Live, itemVars,
              takeoverVars
<1>4. \A t \in Tokens : holder'[t] = "running" => tui' \in Slots
  BY DEF SessionInv, Alone, takeoverVars
<1>5. CASE lock = Nobody /\ Live = {}
  <2>1. lock' = w /\ mem' = Fresh /\ wpc' = [wpc EXCEPT ![w] = "recover"]
    BY <1>5 DEF Serve, Goto
  <2>2. SessionTypes' /\ wpc'[w] = "recover"
    BY <1>1, <1>2, <2>1 DEF SessionInv, SessionTypes, WrapperPlaces
  <2>3. LockFits'
    BY <1>5, <2>1, Distinct DEF SessionInv, LockFits, SessionTypes, takeoverVars
  <2>4. Alone'
    BY <1>2, <1>3, <1>4, <1>5, <2>1 DEF Alone
  <2>5. AttemptFits'
    BY <2>1, <2>2 DEF AttemptFits
  <2> QED BY <1>3, <2>2, <2>3, <2>4, <2>5 DEF SessionInv
<1>6. CASE ~(lock = Nobody /\ Live = {})
  <2>1. UNCHANGED <<lock, mem>> /\ wpc' = [wpc EXCEPT ![w] = "off"]
    BY <1>6 DEF Serve, Goto
  <2>2. SessionTypes' /\ wpc'[w] = "off" /\ \A v \in Wrappers : v # w => wpc'[v] = wpc[v]
    BY <1>1, <2>1 DEF SessionInv, SessionTypes, WrapperPlaces
  <2>3. LockFits'
    BY <1>1, <2>1, <2>2 DEF SessionInv, LockFits, takeoverVars
  <2>4. Own' = Own
    BY <2>1 DEF Own, takeoverVars
  <2>5. Alone'
    BY <1>3, <1>4, <2>1, <2>2, <2>4 DEF SessionInv, Alone
  <2>6. AttemptFits'
    BY <1>1, <2>1, <2>2 DEF SessionInv, AttemptFits, itemVars
  <2> QED BY <1>3, <2>2, <2>3, <2>5, <2>6 DEF SessionInv
<1> QED BY <1>5, <1>6

\* StartWrapper: a wrapper that has not looked for the lock yet.
LEMMA StartWrapperKeeps ==
  ASSUME SessionInv, NEW w \in Wrappers, StartWrapper(w), UNCHANGED <<scene, faults>>
  PROVE  SessionInv'
<1>1. /\ wpc[w] = "off" /\ wpc' = [wpc EXCEPT ![w] = "start"]
      /\ UNCHANGED <<itemVars, lock, mem, proc, takeoverVars>> /\ lock # w
  BY DEF SessionInv, LockFits, StartWrapper
<1>2. SessionTypes' /\ wpc'[w] = "start" /\ \A v \in Wrappers : v # w => wpc'[v] = wpc[v]
  BY <1>1 DEF SessionInv, SessionTypes, WrapperPlaces
<1>3. QueueTypes' /\ TakeoverTypes' /\ Underway' /\ ReportsBounded' /\ Live' = Live
  BY <1>1 DEF SessionInv, QueueTypes, TakeoverTypes, Underway, ReportsBounded, Live, itemVars,
              takeoverVars
<1>4. LockFits'
  BY <1>1, <1>2 DEF SessionInv, LockFits, takeoverVars
<1>5. Own' = Own
  BY <1>1 DEF Own, takeoverVars
<1>6. Alone'
  BY <1>1, <1>2, <1>3, <1>5 DEF SessionInv, Alone, takeoverVars
<1>7. AttemptFits'
  BY <1>1, <1>2 DEF SessionInv, AttemptFits, itemVars
<1> QED BY <1>2, <1>3, <1>4, <1>6, <1>7 DEF SessionInv

\* Delivering: move, barrier, write.
LEMMA DeliverKeeps ==
  ASSUME SessionInv, NEW w \in Wrappers,
         \/ Settle(w) \/ Bar(w) \/ Write(w) \/ \E i \in Items : Move(w, i) \/ Consume(w, i),
         UNCHANGED <<takeoverVars, scene, faults>>
  PROVE  SessionInv'
<1>1. /\ phase \in [Items -> Phases] /\ stamp \in [Items -> {"none", "barrier", "written"}]
      /\ tries \in [Items -> 0 .. MaxTries] /\ tomb \subseteq Items /\ seen \subseteq Inputs
      /\ wpc \in [Wrappers -> WrapperPlaces] /\ mem \in Memories /\ proc \in [Slots -> Processes]
      /\ MaxTries \in Nat
  BY HeadlessAssumption DEF SessionInv, QueueTypes, SessionTypes, HeadlessAssumption
<1>2. /\ mem.harness \in Slots \cup {None} /\ mem.job \in Items \cup {None}
      /\ mem.to \in {"pending", "processed", "failed"}
  BY <1>1 DEF Memories
<1>3. {"recover", "resettle", "loop", "moved", "barred", "settle"} \subseteq WrapperPlaces
  BY DEF WrapperPlaces
<1>4. CASE Settle(w)
  <2> DEFINE q == IF wpc[w] = "resettle" THEN "recover" ELSE "loop"
  <2>1. /\ lock = w /\ wpc[w] \in {"settle", "resettle"} /\ wpc' = [wpc EXCEPT ![w] = q]
        /\ q \in WrapperPlaces \ {"off", "start"} /\ wpc'[w] = q /\ q \in {"recover", "loop"}
        /\ UNCHANGED <<stamp, tries, tomb, seen, lock, proc>>
    BY <1>1, <1>3, <1>4 DEF Settle, Goto
  <2>2. QueueTypes'
    BY <1>1, <1>2, <1>4 DEF Settle, QueueTypes, Phases
  <2>3. mem' \in Memories /\ mem'.harness = mem.harness
    BY <1>1, <1>4 DEF Settle, Memories
  <2>4. AttemptFits'
    BY <2>1 DEF AttemptFits
  <2>5. q \in {"recover", "resettle"} => mem.harness = None
    BY DEF SessionInv, Alone
  <2> HIDE DEF q
  <2> QED BY <2>1, <2>2, <2>3, <2>4, <2>5, WrapperThinks
<1>5. CASE Bar(w)
  <2>1. lock = w /\ wpc[w] = "moved" /\ UNCHANGED <<seen, lock, proc>>
    BY <1>5 DEF Bar
  <2>2. mem.job \in Items /\ tries[mem.job] < MaxTries
    BY <2>1 DEF SessionInv, AttemptFits
  <2>3. ASSUME phase' = [phase EXCEPT ![mem.job] = "cancelled"], tomb' = tomb \ {mem.job},
               mem' = [mem EXCEPT !.job = None], Goto(w, "loop"), UNCHANGED <<stamp, tries>>
        PROVE  SessionInv'
    <3>1. QueueTypes' /\ mem' \in Memories /\ mem'.harness = mem.harness
      BY <1>1, <2>1, <2>2, <2>3 DEF QueueTypes, Phases, Memories
    <3>2. wpc' = [wpc EXCEPT ![w] = "loop"] /\ wpc'[w] = "loop"
      BY <1>1, <2>3 DEF Goto
    <3>3. AttemptFits'
      BY <2>1, <3>2 DEF AttemptFits
    <3> QED BY <1>3, <2>1, <3>1, <3>2, <3>3, WrapperThinks
  <2>4. ASSUME stamp' = [stamp EXCEPT ![mem.job] = "barrier"],
               tries' = [tries EXCEPT ![mem.job] = @ + 1],
               Goto(w, "barred"), UNCHANGED <<phase, tomb, mem>>
        PROVE  SessionInv'
    <3>1. QueueTypes'
      BY <1>1, <2>1, <2>2, <2>4 DEF QueueTypes
    <3>2. wpc' = [wpc EXCEPT ![w] = "barred"] /\ wpc'[w] = "barred"
      BY <1>1, <2>4 DEF Goto
    <3>3. tries'[mem.job] > 0
      BY <1>1, <2>2, <2>4
    <3>4. AttemptFits'
      BY <2>1, <2>2, <2>4, <3>2, <3>3 DEF AttemptFits
    <3> QED BY <1>1, <1>3, <2>1, <2>4, <3>1, <3>2, <3>4, WrapperThinks
  <2> QED BY <1>5, <2>3, <2>4 DEF Bar
<1>6. CASE Write(w)
  <2>1. /\ lock = w /\ wpc[w] = "barred" /\ wpc' = [wpc EXCEPT ![w] = "loop"] /\ wpc'[w] = "loop"
        /\ UNCHANGED <<phase, tries, tomb, seen, lock>>
    BY <1>1, <1>6 DEF Write, Goto
  <2>2. mem.job \in Items /\ Input(mem.job) \in Inputs
    BY <1>1, <2>1 DEF SessionInv, AttemptFits, Input, Inputs
  <2>3. QueueTypes'
    BY <1>1, <1>6, <2>1 DEF Write, QueueTypes
  <2>4. mem' \in Memories /\ mem'.harness = mem.harness
    BY <1>1, <1>6, <2>2 DEF Write, Memories
  <2>5. AttemptFits'
    BY <2>1 DEF AttemptFits
  <2>6. /\ proc' \in [Slots -> Processes]
        /\ \A z \in Slots : proc'[z].kind = proc[z].kind /\ proc'[z].out = proc[z].out
    <3>1. CASE mem.harness \in Live
      <4>1. mem.harness \in Slots /\ proc[mem.harness] \in Processes
        BY <1>1, <3>1 DEF Live
      <4>2. Append(proc[mem.harness].pipe, Input(mem.job)) \in Seq(Inputs)
        BY <2>2, <4>1, AppendProperties DEF Processes
      <4>3. proc' = [proc EXCEPT ![mem.harness].pipe = Append(@, Input(mem.job))]
        BY <1>6, <3>1 DEF Write
      <4> QED BY <1>1, <4>1, <4>2, <4>3 DEF Processes
    <3>2. CASE mem.harness \notin Live
      BY <1>1, <1>6, <3>2 DEF Write
    <3> QED BY <3>1, <3>2
  <2>7. Live' = Live
    BY <2>6 DEF Live
  <2>8. ReportsBounded'
    BY <2>6 DEF SessionInv, ReportsBounded
  <2>9. Live' \subseteq {mem'.harness}
    BY <2>1, <2>4, <2>7, Distinct DEF SessionInv, Alone, Own
  <2> QED BY <1>3, <2>1, <2>3, <2>4, <2>5, <2>6, <2>8, <2>9, WrapperGoesOn
<1>7. ASSUME NEW i \in Items, Move(w, i)
      PROVE  SessionInv'
  <2>1. /\ lock = w /\ wpc[w] = "loop" /\ wpc' = [wpc EXCEPT ![w] = "moved"] /\ wpc'[w] = "moved"
        /\ UNCHANGED <<stamp, tries, tomb, seen, lock, proc>> /\ tries[i] < MaxTries
    BY <1>1, <1>7 DEF Move, Looping, Goto
  <2>2. QueueTypes' /\ mem' \in Memories /\ mem'.harness = mem.harness /\ mem'.job = i
    BY <1>1, <1>7 DEF Move, QueueTypes, Phases, Memories
  <2>3. AttemptFits'
    BY <2>1, <2>2 DEF AttemptFits
  <2> QED BY <1>3, <2>1, <2>2, <2>3, WrapperThinks
<1>8. ASSUME NEW i \in Items, Consume(w, i)
      PROVE  SessionInv'
  <2>1. lock = w /\ UNCHANGED <<stamp, tries, tomb, seen, lock, wpc, proc>>
    BY <1>8 DEF Consume, Looping
  <2>2. /\ QueueTypes' /\ mem' \in Memories
        /\ mem'.harness = mem.harness /\ mem'.job = mem.job
    BY <1>1, <1>8 DEF Consume, QueueTypes, Phases, Memories
  <2> QED BY <2>1, <2>2, MemoryStep
<1> QED BY <1>4, <1>5, <1>6, <1>7, <1>8

\* Answers that are accepted and forgotten.
LEMMA ApprovalsKeep ==
  ASSUME SessionInv, NEW w \in Wrappers, NEW i \in Answers, Answer(w, i) \/ Forget(w, i),
         UNCHANGED <<takeoverVars, scene, faults>>
  PROVE  SessionInv'
<1>1. lock = w /\ UNCHANGED <<itemVars, lock, wpc, proc>>
  BY DEF Answer, Forget, Looping
<1>2. mem' \in Memories /\ mem'.harness = mem.harness /\ mem'.job = mem.job
  BY DEF SessionInv, SessionTypes, Answer, Forget, Memories
<1>3. QueueTypes'
  BY <1>1 DEF SessionInv, QueueTypes, itemVars
<1> QED BY <1>1, <1>2, <1>3, MemoryStep DEF itemVars

\* The acknowledgement deadline.
LEMMA AckDeadlineKeeps ==
  ASSUME SessionInv, NEW w \in Wrappers, AckDeadline(w), UNCHANGED <<takeoverVars, scene, faults>>
  PROVE  SessionInv'
<1>1. /\ lock = w /\ wpc[w] = "loop" /\ mem.cur \in Items /\ SettleTo(w, mem.cur, "failed")
      /\ UNCHANGED <<phase, tries, tomb, seen, lock, proc>>
  BY DEF AckDeadline, Looping, SessionInv, SessionTypes, Memories
<1> QED BY <1>1, SettleToKeeps

\* A report is read: the settling it leads to is that of SettleTo.
LEMMA HearKeeps ==
  ASSUME SessionInv, NEW w \in Wrappers, Hear(w), UNCHANGED <<takeoverVars, scene, faults>>
  PROVE  SessionInv'
<1> DEFINE h == mem.harness
<1>1. /\ lock = w /\ wpc[w] = "loop" /\ h # None /\ proc[h].out # <<>>
      /\ proc' = [proc EXCEPT ![h].out = Tail(@)]
      /\ UNCHANGED <<phase, tries, tomb, seen, lock>>
  BY DEF Hear, Looping
<1>2. /\ h \in Slots /\ proc[h] \in Processes /\ proc \in [Slots -> Processes]
      /\ mem \in Memories /\ mem.cur \in Items \cup {None} /\ wpc \in [Wrappers -> WrapperPlaces]
  BY <1>1 DEF SessionInv, SessionTypes, Memories
<1>3. /\ Tail(proc[h].out) \in Seq(Reports) /\ Len(Tail(proc[h].out)) = Len(proc[h].out) - 1
      /\ Len(proc[h].out) \in Nat
  BY <1>1, <1>2, HeadTailProperties, LenProperties DEF Processes
<1>4. /\ proc' \in [Slots -> Processes]
      /\ \A z \in Slots : proc'[z].kind = proc[z].kind
      /\ proc'[h].out = Tail(proc[h].out) /\ \A z \in Slots : z # h => proc'[z] = proc[z]
  BY <1>1, <1>2, <1>3 DEF Processes
<1>5. Live' = Live
  BY <1>4 DEF Live
<1>6. ReportsBounded'
  <2>1. MaxOut \in Nat /\ Len(proc'[h].out) = Len(proc[h].out) - 1
    BY <1>3, <1>4, HeadlessAssumption DEF HeadlessAssumption
  <2>2. ASSUME NEW z \in Slots
        PROVE  /\ Len(proc'[z].out) <= MaxOut + 1
               /\ proc'[z].kind # "none" => Len(proc'[z].out) <= MaxOut
    <3>1. /\ Len(proc[z].out) <= MaxOut + 1
          /\ proc[z].kind # "none" => Len(proc[z].out) <= MaxOut
      BY DEF SessionInv, ReportsBounded
    <3>2. CASE z = h
      <4>1. /\ Len(proc'[z].out) = Len(proc[z].out) - 1 /\ Len(proc[z].out) \in Nat
            /\ proc'[z].kind = proc[z].kind /\ MaxOut \in Nat
        BY <1>3, <1>4, <2>1, <3>2
      <4> QED BY <3>1, <4>1
    <3>3. CASE z # h
      BY <1>4, <3>1, <3>3
    <3> QED BY <3>2, <3>3
  <2> QED BY <2>2 DEF ReportsBounded
<1>7. {"settle", "loop"} \subseteq WrapperPlaces
  BY DEF WrapperPlaces
<1>8. PICK q \in {"settle", "loop"} : wpc' = [wpc EXCEPT ![w] = q]
  BY <1>1, <1>2 DEF Hear, Goto, SettleTo
<1>9. QueueTypes'
  BY <1>1 DEF Hear, SettleTo, SessionInv, QueueTypes
<1>10. mem' \in Memories /\ mem'.harness = h
  BY <1>2 DEF Hear, SettleTo, Memories, IsCurrent
<1>11. wpc'[w] = q
  BY <1>2, <1>8
<1>12. AttemptFits'
  BY <1>1, <1>8, <1>11 DEF AttemptFits
<1>13. Live' \subseteq {mem'.harness}
  BY <1>1, <1>5, <1>10, Distinct DEF SessionInv, Alone, Own
<1> QED BY <1>1, <1>4, <1>6, <1>7, <1>8, <1>9, <1>10, <1>12, <1>13, WrapperGoesOn

\* Starting a harness, where recovery has found no other process.
LEMMA SpawnKeeps ==
  ASSUME SessionInv, NEW w \in Wrappers, Spawn(w), UNCHANGED <<takeoverVars, scene, faults>>
  PROVE  SessionInv'
<1>1. /\ lock = w /\ wpc[w] = "recover" /\ wpc' = [wpc EXCEPT ![w] = "loop"]
      /\ UNCHANGED <<itemVars, lock>>
  BY DEF Spawn, Goto
<1>2. PICK s \in Slots \ Live : /\ proc' = [proc EXCEPT ![s] = Started("headless")]
                                /\ mem' = [mem EXCEPT !.harness = s]
  BY DEF Spawn
<1>3. /\ mem \in Memories /\ proc \in [Slots -> Processes] /\ wpc \in [Wrappers -> WrapperPlaces]
      /\ mem.harness = None
  BY <1>1 DEF SessionInv, SessionTypes, Alone
<1>4. Live = {}
  BY <1>1, <1>3, Distinct DEF SessionInv, Alone, Own
<1>5. Started("headless") \in Processes /\ Started("headless").out = <<>>
  BY StartedType
<1>6. /\ mem' \in Memories /\ mem'.harness = s /\ proc' \in [Slots -> Processes]
      /\ proc'[s] = Started("headless") /\ \A z \in Slots : z # s => proc'[z] = proc[z]
  BY <1>2, <1>3, <1>5 DEF Memories
<1>7. Live' \subseteq {mem'.harness}
  BY <1>4, <1>6 DEF Live
<1>8. ReportsBounded'
  BY <1>5, <1>6, EmptySeq, HeadlessAssumption DEF SessionInv, ReportsBounded, HeadlessAssumption
<1>9. QueueTypes'
  BY <1>1 DEF SessionInv, QueueTypes, itemVars
<1>10. wpc'[w] = "loop" /\ "loop" \in WrapperPlaces \ {"off", "start"}
  BY <1>1, <1>3 DEF WrapperPlaces
<1>11. AttemptFits'
  BY <1>1, <1>10 DEF AttemptFits
<1> QED BY <1>1, <1>6, <1>7, <1>8, <1>9, <1>10, <1>11, WrapperGoesOn

\* The end of a harness, which takes what it left behind with it.
LEMMA HarnessExitedKeeps ==
  ASSUME SessionInv, NEW w \in Wrappers, HarnessExited(w),
         UNCHANGED <<takeoverVars, scene, faults>>
  PROVE  SessionInv'
<1> DEFINE h == mem.harness
<1>1. /\ lock = w /\ wpc[w] = "loop" /\ h # None
      /\ proc' = [proc EXCEPT ![h] = Empty] /\ UNCHANGED itemVars
  BY DEF HarnessExited, Looping
<1>2. /\ h \in Slots /\ mem \in Memories /\ proc \in [Slots -> Processes]
      /\ wpc \in [Wrappers -> WrapperPlaces] /\ faults \in 0 .. MaxFaults
  BY <1>1 DEF SessionInv, SessionTypes, TakeoverTypes, Memories
<1>3. /\ proc' \in [Slots -> Processes] /\ proc'[h] = Empty
      /\ \A z \in Slots : z # h => proc'[z] = proc[z]
  BY <1>1, <1>2, EmptyType
<1>4. Live' = {}
  BY <1>1, <1>3, EmptyType, Distinct DEF SessionInv, Alone, Own, Live
<1>5. ReportsBounded'
  BY <1>3, EmptyType, EmptySeq, HeadlessAssumption
  DEF SessionInv, ReportsBounded, HeadlessAssumption
<1>6. CASE Return(w)
  BY <1>1, <1>2, <1>3, <1>4, <1>5, <1>6, WrapperEnds
<1>7. ASSUME mem' = [mem EXCEPT !.harness = None, !.cur = None, !.acked = FALSE, !.busy = FALSE],
             UNCHANGED <<lock, wpc>>
      PROVE  SessionInv'
  <2>1. mem' \in Memories
    BY <1>2, <1>7 DEF Memories
  <2>2. QueueTypes'
    BY <1>1 DEF SessionInv, QueueTypes, itemVars
  <2>3. wpc' = [wpc EXCEPT ![w] = "loop"] /\ "loop" \in WrapperPlaces \ {"off", "start"}
    BY <1>1, <1>2, <1>7 DEF WrapperPlaces
  <2>4. AttemptFits'
    BY <1>1, <1>7 DEF AttemptFits
  <2> QED BY <1>1, <1>3, <1>4, <1>5, <1>7, <2>1, <2>2, <2>3, <2>4, WrapperGoesOn
<1> QED BY <1>6, <1>7 DEF HarnessExited

\* The wrapper returns, or goes back to recovery.
LEMMA RestartKeeps ==
  ASSUME SessionInv, NEW w \in Wrappers, Restart(w), UNCHANGED <<takeoverVars, scene, faults>>
  PROVE  SessionInv'
<1>1. lock = w /\ wpc[w] = "loop" /\ mem.harness = None /\ UNCHANGED <<itemVars, proc>>
  BY DEF Restart, Looping
<1>2. /\ mem \in Memories /\ proc \in [Slots -> Processes] /\ wpc \in [Wrappers -> WrapperPlaces]
      /\ faults \in 0 .. MaxFaults /\ ReportsBounded' /\ Live' = Live /\ QueueTypes'
  BY <1>1 DEF SessionInv, SessionTypes, TakeoverTypes, ReportsBounded, Live, QueueTypes, itemVars
<1>3. CASE Return(w)
  BY <1>1, <1>2, <1>3, WrapperEnds
<1>4. ASSUME Goto(w, "recover"), UNCHANGED <<lock, mem>>
      PROVE  SessionInv'
  <2>1. wpc' = [wpc EXCEPT ![w] = "recover"] /\ "recover" \in WrapperPlaces \ {"off", "start"}
    BY <1>4 DEF Goto, WrapperPlaces
  <2>2. AttemptFits'
    BY <1>1, <1>2, <1>4, <2>1 DEF AttemptFits
  <2> QED BY <1>1, <1>2, <1>4, <2>1, <2>2, WrapperThinks
<1> QED BY <1>3, <1>4 DEF Restart

\* The wrapper is killed and its lock is free: what it leaves is still alone.
LEMMA WrapperDiesKeeps ==
  ASSUME SessionInv, NEW w \in Wrappers, WrapperDies(w), UNCHANGED <<takeoverVars, scene>>,
         faults' \in 0 .. MaxFaults
  PROVE  SessionInv' /\ proc' \in [Slots -> Processes] /\ Live' \subseteq Live
<1> DEFINE h == mem.harness
<1>1. lock = w /\ Return(w) /\ UNCHANGED itemVars
  BY DEF WrapperDies
<1>2. /\ mem \in Memories /\ proc \in [Slots -> Processes] /\ h \in Slots \cup {None}
  BY DEF SessionInv, SessionTypes, Memories
<1>3. /\ proc' \in [Slots -> Processes] /\ Live' \subseteq Live /\ ReportsBounded'
  <2>1. CASE h = None
    BY <1>2, <2>1 DEF WrapperDies, Live, ReportsBounded, SessionInv
  <2>2. CASE h # None
    <3> DEFINE p == proc[h]
    <3>1. h \in Slots /\ p \in Processes /\ p.pipe \in Seq(Inputs)
      BY <1>2, <2>2 DEF Processes
    <3>2. PICK n \in 0 .. Len(p.pipe) :
            proc' = [proc EXCEPT ![h] = Orphan(p, n)]
      BY <2>2 DEF WrapperDies
    <3>3. SubSeq(p.pipe, 1, n) \in Seq(Inputs)
      <4>1. Len(p.pipe) \in Nat /\ \A m \in 1 .. n : p.pipe[m] \in Inputs
        BY <3>1, LenProperties
      <4> QED BY <4>1, SubSeqProperties
    <3> DEFINE q == [p EXCEPT !.heard = FALSE, !.out = <<>>, !.gone = FALSE,
                              !.pipe = SubSeq(p.pipe, 1, n)]
    <3>4. q \in Processes /\ q.kind = p.kind /\ q.out = <<>>
      BY <3>1, <3>3, EmptySeq DEF Processes
    <3>5. proc' = [proc EXCEPT ![h] = IF p.kind = "none" THEN Empty ELSE q]
      BY <3>2 DEF Orphan
    <3> HIDE DEF q
    <3>6. /\ proc' \in [Slots -> Processes] /\ proc'[h].kind = p.kind /\ proc'[h].out = <<>>
          /\ \A z \in Slots : z # h => proc'[z] = proc[z]
      BY <1>2, <3>1, <3>4, <3>5, EmptyType
    <3>7. Live' \subseteq Live
      BY <3>6 DEF Live
    <3>8. ReportsBounded'
      BY <3>6, EmptySeq, HeadlessAssumption DEF SessionInv, ReportsBounded, HeadlessAssumption
    <3> QED BY <3>6, <3>7, <3>8
  <2> QED BY <2>1, <2>2
<1> QED BY <1>1, <1>3, WrapperEnds

\* Every step of the wrapper that no takeover takes part in.
LEMMA WrapperKeeps ==
  ASSUME SessionInv, NEW w \in Wrappers, WrapperStep(w) \/ Approvals(w),
         UNCHANGED <<takeoverVars, scene, faults>>
  PROVE  SessionInv'
BY ServeKeeps, SpawnKeeps, DeliverKeeps, HearKeeps, AckDeadlineKeeps, HarnessExitedKeeps,
   RestartKeeps, RecoverKeeps, ApprovalsKeep DEF WrapperStep, Approvals

-----------------------------------------------------------------------------
(***************************************************************************)
(* Takeover, hold and handback.                                            *)
(***************************************************************************)

\* The types of the mark are kept by its two changes.
LEMMA MarkTypes ==
  ASSUME TakeoverTypes, NEW t, NEW state \in MarkStates, Change(t, state) \/ Clear(t)
  PROVE  mark' \in [state : MarkStates, token : Tokens \cup {Nobody}]
BY DEF TakeoverTypes, Change, Clear, NoMark, MarkStates

\* A takeover that goes on keeps its mark, or ends.
LEMMA TakerKeeps ==
  ASSUME SessionInv, TakerStep, UNCHANGED <<scene, faults>>
  PROVE  SessionInv'
<1>1. /\ mem \in Memories /\ taker.token \in Tokens \cup {Nobody}
      /\ taker \in [pc : TakerPlaces, token : Tokens \cup {Nobody}, held : BOOLEAN]
      /\ mark \in [state : MarkStates, token : Tokens \cup {Nobody}]
      /\ holder \in [Tokens -> HolderPlaces]
  BY DEF SessionInv, SessionTypes, TakeoverTypes
<1>2. taker.pc # "idle"
  BY DEF TakerStep, TakeStatus, TakeHold, TakePoll, TakeStop, TakeWait, TakeWriters, TakeTab
<1>3. /\ taker.token \in Tokens /\ holder[taker.token] = "unasked"
      /\ mark.token = taker.token => mark.state = "stopping"
  BY <1>2 DEF SessionInv, Underway
<1>4. /\ mem' \in Memories /\ mem'.harness = mem.harness /\ mem'.job = mem.job
      /\ UNCHANGED <<itemVars, lock, wpc, proc, tui, back>>
  BY <1>1 DEF TakerStep, TakeStatus, TakeHold, TakePoll, TakeStop, TakeWait, TakeWriters, TakeTab,
              TakerRests, Release, AskStop, Memories, wrapperVars
<1>5. /\ taker' \in [pc : TakerPlaces, token : Tokens \cup {Nobody}, held : BOOLEAN]
      /\ taker'.token = taker.token
  BY <1>1 DEF TakerStep, TakeStatus, TakeHold, TakePoll, TakeStop, TakeWait, TakeWriters, TakeTab,
              TakerTo, Undo, Fail, TakerPlaces
<1>6. mark' \in [state : MarkStates, token : Tokens \cup {Nobody}]
  <2>1. \/ UNCHANGED mark \/ Clear(taker.token)
        \/ Change(taker.token, "failed") \/ Change(taker.token, "starting")
    BY DEF TakerStep, TakeStatus, TakeHold, TakePoll, TakeStop, TakeWait, TakeWriters, TakeTab,
           Undo, Fail
  <2>2. "failed" \in MarkStates /\ "starting" \in MarkStates
    BY DEF MarkStates
  <2> QED BY <1>1, <2>1, <2>2, MarkTypes DEF SessionInv
<1>7. taker'.pc # "idle" => UNCHANGED <<mark, holder>>
  BY <1>1 DEF TakerStep, TakeStatus, TakeHold, TakePoll, TakeStop, TakeWait, TakeWriters, TakeTab,
              TakerTo, TakerRests, Undo, Fail
<1>8. UNCHANGED holder \/ holder' = [holder EXCEPT ![taker.token] = "asked"]
  BY DEF TakerStep, TakeStatus, TakeHold, TakePoll, TakeStop, TakeWait, TakeWriters, TakeTab,
         TakerRests
<1>9. /\ holder' \in [Tokens -> HolderPlaces]
      /\ \A t \in Tokens : /\ holder'[t] \in {"locked", "running"} <=> holder[t] \in {"locked", "running"}
                           /\ holder'[t] = "running" <=> holder[t] = "running"
  BY <1>1, <1>3, <1>8 DEF HolderPlaces
<1>10. Underway'
  BY <1>3, <1>5, <1>7 DEF Underway
<1>11. TakeoverTypes'
  BY <1>4, <1>5, <1>6, <1>9 DEF SessionInv, TakeoverTypes
<1> QED BY <1>4, <1>9, <1>10, <1>11, TakerMoves

\* A takeover marks the record.
LEMMA TakeMarkKeeps ==
  ASSUME SessionInv, NEW t \in Tokens, TakeMark(t), UNCHANGED <<scene, faults>>
  PROVE  SessionInv'
<1>1. /\ taker' = [pc |-> "status", token |-> t, held |-> FALSE]
      /\ mark' = [state |-> "stopping", token |-> t]
      /\ holder[t] = "unused" /\ holder' = [holder EXCEPT ![t] = "unasked"]
      /\ UNCHANGED <<itemVars, lock, wpc, mem, proc, tui, back>>
  BY DEF TakeMark, wrapperVars
<1>2. holder \in [Tokens -> HolderPlaces] /\ mem \in Memories
  BY DEF SessionInv, TakeoverTypes, SessionTypes
<1>3. TakeoverTypes'
  BY <1>1, <1>2 DEF SessionInv, TakeoverTypes, TakerPlaces, MarkStates, HolderPlaces
<1>4. Underway'
  BY <1>1, <1>2 DEF Underway
<1>5. \A u \in Tokens : /\ holder'[u] \in {"locked", "running"} <=> holder[u] \in {"locked", "running"}
                        /\ holder'[u] = "running" <=> holder[u] = "running"
  BY <1>1, <1>2
<1> QED BY <1>1, <1>2, <1>3, <1>4, <1>5, TakerMoves

\* What a holder does to the marks: nothing to one whose takeover is under way.
LEMMA HolderUnderway ==
  ASSUME SessionInv, NEW t \in Tokens, holder[t] # "unasked", NEW state, NEW where,
         Change(t, state) \/ UNCHANGED mark, holder' = [holder EXCEPT ![t] = where],
         UNCHANGED taker
  PROVE  Underway'
BY DEF SessionInv, TakeoverTypes, Underway, Change

\* The holder looks for other writers once it has the lock, as a wrapper does.
LEMMA HolderKeeps ==
  ASSUME SessionInv, NEW t \in Tokens, HolderStep(t), UNCHANGED <<scene, faults>>
  PROVE  SessionInv'
<1>1. /\ mem \in Memories /\ proc \in [Slots -> Processes] /\ wpc \in [Wrappers -> WrapperPlaces]
      /\ mark \in [state : MarkStates, token : Tokens \cup {Nobody}] /\ TakeoverTypes
      /\ holder \in [Tokens -> HolderPlaces] /\ tui \in Slots \cup {None}
  BY DEF SessionInv, SessionTypes, TakeoverTypes
<1>2. {"checked", "done", "locked", "running"} \subseteq HolderPlaces
      /\ {"failed", "interactive", "ended"} \subseteq MarkStates
  BY DEF HolderPlaces, MarkStates
<1>3. CASE HoldCheck(t)
  <2>1. PICK where \in {"checked", "done"} : holder' = [holder EXCEPT ![t] = where]
    BY <1>3 DEF HoldCheck, HolderTo
  <2>2. holder[t] = "asked" /\ UNCHANGED <<itemVars, lock, wpc, mem, proc, mark, taker, tui, back>>
    BY <1>3 DEF HoldCheck, wrapperVars
  <2>3. TakeoverTypes'
    BY <1>1, <1>2, <2>1, <2>2 DEF TakeoverTypes
  <2>4. Underway'
    BY <2>1, <2>2, HolderUnderway
  <2>5. \A u \in Tokens : /\ holder'[u] \in {"locked", "running"} <=> holder[u] \in {"locked", "running"}
                          /\ holder'[u] = "running" <=> holder[u] = "running"
    BY <1>1, <2>1, <2>2
  <2> QED BY <1>1, <2>2, <2>3, <2>4, <2>5, TakerMoves
<1>4. CASE HoldLock(t)
  <2>1. holder[t] = "checked" /\ UNCHANGED <<itemVars, wpc, mem, proc, taker, tui, back>>
    BY <1>4 DEF HoldLock
  <2>2. CASE lock = Nobody /\ Live = {}
    <3>1. lock' = t /\ holder' = [holder EXCEPT ![t] = "locked"] /\ UNCHANGED mark
      BY <1>4, <2>2 DEF HoldLock, HolderTo
    <3>2. Underway'
      BY <2>1, <3>1, HolderUnderway
    <3>3. QueueTypes' /\ SessionTypes' /\ TakeoverTypes' /\ ReportsBounded' /\ Live' = {}
      BY <1>2, <2>1, <2>2, <3>1 DEF SessionInv, QueueTypes, SessionTypes, TakeoverTypes,
         ReportsBounded, Live, itemVars
    <3>4. LockFits'
      BY <1>1, <2>1, <2>2, <3>1, Distinct DEF SessionInv, LockFits
    <3>5. Alone'
      BY <1>1, <2>1, <3>1, <3>3 DEF SessionInv, Alone
    <3>6. AttemptFits'
      BY <3>1, Distinct DEF AttemptFits
    <3> QED BY <3>2, <3>3, <3>4, <3>5, <3>6 DEF SessionInv
  <2>3. CASE ~(lock = Nobody /\ Live = {})
    <3>1. holder' = [holder EXCEPT ![t] = "done"] /\ Change(t, "failed") /\ UNCHANGED lock
      BY <1>4, <2>3 DEF HoldLock, HolderTo
    <3>2. Underway'
      BY <2>1, <3>1, HolderUnderway
    <3>3. TakeoverTypes'
      BY <1>1, <1>2, <2>1, <3>1, MarkTypes DEF TakeoverTypes
    <3>4. \A u \in Tokens : /\ holder'[u] \in {"locked", "running"} <=> holder[u] \in {"locked", "running"}
                            /\ holder'[u] = "running" <=> holder[u] = "running"
      BY <1>1, <2>1, <3>1
    <3> QED BY <1>1, <2>1, <3>1, <3>2, <3>3, <3>4, TakerMoves
  <2> QED BY <2>2, <2>3
<1>5. ASSUME lock = t, lock' = Nobody, holder' = [holder EXCEPT ![t] = "done"],
             NEW state \in {"failed", "ended"}, Change(t, state), Live' \subseteq Live,
             holder[t] \in {"locked", "running"}, tui' \in Slots \cup {None},
             proc' \in [Slots -> Processes], ReportsBounded',
             UNCHANGED <<itemVars, wpc, mem, taker, back>>
      PROVE  SessionInv'
  <2>1. Underway'
    BY <1>5, HolderUnderway
  <2>2. TakeoverTypes'
    BY <1>1, <1>2, <1>5, MarkTypes DEF TakeoverTypes
  <2>3. QueueTypes' /\ SessionTypes'
    BY <1>5 DEF SessionInv, QueueTypes, SessionTypes, itemVars
  <2>4. LockFits'
    BY <1>1, <1>5, Distinct DEF SessionInv, LockFits
  <2>5. \A u \in Tokens : holder'[u] # "running"
    BY <1>1, <1>5 DEF SessionInv, LockFits
  <2>6. Alone'
    BY <1>5, <2>5 DEF SessionInv, Alone
  <2>7. AttemptFits'
    BY <1>5, Distinct DEF AttemptFits
  <2> QED BY <1>5, <2>1, <2>2, <2>3, <2>4, <2>6, <2>7 DEF SessionInv
<1>6. CASE HoldSpawn(t)
  <2>1. /\ holder[t] = "locked" /\ lock = t /\ UNCHANGED <<itemVars, wpc, mem, taker, back>>
    BY <1>6 DEF HoldSpawn, SessionInv, LockFits
  <2>2. Live = {}
    BY <2>1, Distinct DEF SessionInv, Alone, Own
  <2>3. ASSUME NEW s \in Slots \ Live, proc' = [proc EXCEPT ![s] = Started("tui")], tui' = s,
               HolderTo(t, "running"), Change(t, "interactive"), UNCHANGED lock
        PROVE  SessionInv'
    <3>1. Started("tui") \in Processes /\ Started("tui").out = <<>>
      BY StartedType
    <3>2. /\ proc' \in [Slots -> Processes] /\ proc'[s] = Started("tui")
          /\ \A z \in Slots : z # s => proc'[z] = proc[z]
      BY <1>1, <2>3, <3>1
    <3>3. Live' \subseteq {s}
      BY <2>2, <3>2 DEF Live
    <3>4. holder' = [holder EXCEPT ![t] = "running"] /\ holder'[t] = "running"
      BY <1>1, <2>3 DEF HolderTo
    <3>5. Underway'
      BY <2>1, <2>3, <3>4, HolderUnderway
    <3>6. TakeoverTypes'
      BY <1>1, <1>2, <2>1, <2>3, <3>4, MarkTypes DEF TakeoverTypes
    <3>7. QueueTypes' /\ SessionTypes'
      BY <2>1, <2>3, <3>2 DEF SessionInv, QueueTypes, SessionTypes, itemVars
    <3>8. ReportsBounded'
      BY <3>1, <3>2, EmptySeq, HeadlessAssumption
      DEF SessionInv, ReportsBounded, HeadlessAssumption
    <3>9. LockFits'
      BY <1>1, <2>1, <2>3, <3>4 DEF SessionInv, LockFits
    <3>10. Own' = {s}
      BY <2>1, <2>3, <3>4, Distinct DEF Own
    <3>11. Alone'
      BY <2>1, <2>3, <3>3, <3>10 DEF SessionInv, Alone
    <3>12. AttemptFits'
      BY <2>1, <2>3, Distinct DEF AttemptFits
    <3> QED BY <3>5, <3>6, <3>7, <3>8, <3>9, <3>11, <3>12 DEF SessionInv
  <2>4. ASSUME HolderTo(t, "done"), Change(t, "failed"), lock' = Nobody, UNCHANGED <<proc, tui>>
        PROVE  SessionInv'
    <3>1. Live' = Live /\ ReportsBounded' /\ holder' = [holder EXCEPT ![t] = "done"]
      BY <2>4 DEF SessionInv, ReportsBounded, Live, HolderTo
    <3> QED BY <1>1, <1>5, <2>1, <2>4, <3>1
  <2> QED BY <1>6, <2>3, <2>4 DEF HoldSpawn
<1>7. CASE HoldEnd(t)
  <2>1. /\ holder[t] = "running" /\ lock = t /\ lock' = Nobody /\ Change(t, "ended") /\ tui' = None
        /\ holder' = [holder EXCEPT ![t] = "done"] /\ UNCHANGED <<itemVars, wpc, mem, taker, back>>
        /\ proc' = [s \in Slots |-> Empty]
    BY <1>7 DEF HoldEnd, HolderTo, SessionInv, LockFits
  <2>2. proc' \in [Slots -> Processes] /\ Live' = {} /\ ReportsBounded'
    BY <2>1, EmptyType, EmptySeq, HeadlessAssumption DEF Live, ReportsBounded, HeadlessAssumption
  <2> QED BY <1>5, <2>1, <2>2
<1> QED BY <1>3, <1>4, <1>6, <1>7 DEF HolderStep

\* The handback takes the lock only when no writer is left.
LEMMA BackKeeps ==
  ASSUME SessionInv, BackCheck \/ BackStep, UNCHANGED <<scene, faults>>
  PROVE  SessionInv'
<1>1. /\ mem \in Memories /\ proc \in [Slots -> Processes] /\ TakeoverTypes
      /\ back \in [pc : {"idle", "end", "locked"}, token : Tokens \cup {Nobody}]
      /\ mark.token \in Tokens \cup {Nobody}
  BY DEF SessionInv, SessionTypes, TakeoverTypes
<1>2. CASE BackCheck
  <2>1. /\ back.pc = "idle" /\ back' = [pc |-> "end", token |-> mark.token]
        /\ UNCHANGED <<itemVars, lock, wpc, mem, proc, mark, taker, holder, tui>>
    BY <1>2 DEF BackCheck, BackTo, wrapperVars
  <2>2. TakeoverTypes' /\ Underway'
    BY <1>1, <2>1 DEF SessionInv, TakeoverTypes, Underway
  <2> QED BY <1>1, <2>1, <2>2, TakerMoves
<1>3. CASE BackKill
  <2>1. /\ proc' = [s \in Slots |-> IF s \in Live THEN Dead(proc[s]) ELSE proc[s]]
        /\ UNCHANGED <<itemVars, lock, wpc, mem, takeoverVars>>
    BY <1>3 DEF BackKill
  <2>2. \A s \in Live : Dead(proc[s]) \in Processes /\ Dead(proc[s]).kind = "none"
                        /\ Len(Dead(proc[s]).out) <= MaxOut + 1
    BY <1>1, DeadType DEF SessionInv, ReportsBounded, Live
  <2>3. proc' \in [Slots -> Processes]
    BY <1>1, <2>1, <2>2
  <2>4. Live' \subseteq Live
    BY <2>1 DEF Live
  <2>5. ReportsBounded'
    BY <2>1, <2>2 DEF SessionInv, ReportsBounded
  <2> QED BY <2>1, <2>3, <2>4, <2>5, ProcessStep
<1>4. CASE BackLock
  <2>1. /\ back.pc = "end" /\ UNCHANGED <<itemVars, wpc, mem, proc, mark, taker, holder, tui>>
        /\ lock # Handback
    BY <1>4 DEF BackLock, SessionInv, LockFits
  <2>2. ASSUME Live = {}, lock = Nobody, lock' = Handback,
               back' = [pc |-> "locked", token |-> back.token]
        PROVE  SessionInv'
    <3>1. /\ QueueTypes' /\ SessionTypes' /\ TakeoverTypes' /\ Underway' /\ ReportsBounded'
          /\ Live' = {}
      BY <1>1, <2>1, <2>2 DEF SessionInv, QueueTypes, SessionTypes, TakeoverTypes, Underway,
         ReportsBounded, Live, itemVars
    <3>2. LockFits'
      BY <2>1, <2>2, Distinct DEF SessionInv, LockFits
    <3>3. Alone'
      BY <2>1, <3>1 DEF SessionInv, Alone
    <3>4. AttemptFits'
      BY <2>2, Distinct DEF AttemptFits
    <3> QED BY <3>1, <3>2, <3>3, <3>4 DEF SessionInv
  <2>3. ASSUME back' = [pc |-> "idle", token |-> Nobody], UNCHANGED lock
        PROVE  SessionInv'
    <3>1. TakeoverTypes' /\ Underway'
      BY <1>1, <2>1, <2>3 DEF SessionInv, TakeoverTypes, Underway
    <3> QED BY <1>1, <2>1, <2>3, <3>1, TakerMoves
  <2> QED BY <1>4, <2>2, <2>3 DEF BackLock, BackTo
<1>5. CASE BackClear
  <2>1. /\ back.pc = "locked" /\ Clear(back.token) /\ lock' = Nobody /\ lock = Handback
        /\ back' = [pc |-> "idle", token |-> Nobody]
        /\ UNCHANGED <<itemVars, wpc, mem, proc, taker, holder, tui>>
    BY <1>5 DEF BackClear, BackTo, SessionInv, LockFits
  <2>2. TakeoverTypes'
    BY <1>1, <2>1 DEF TakeoverTypes, Clear, NoMark, MarkStates
  <2>3. Underway'
    BY <2>1, Distinct DEF SessionInv, Underway, Clear, NoMark
  <2>4. QueueTypes' /\ SessionTypes' /\ ReportsBounded' /\ Live' = Live
    BY <2>1 DEF SessionInv, QueueTypes, SessionTypes, ReportsBounded, Live, itemVars
  <2>5. LockFits'
    BY <2>1, Distinct DEF SessionInv, LockFits
  <2>6. Alone'
    BY <2>1, <2>4 DEF SessionInv, Alone
  <2>7. AttemptFits'
    BY <2>1, Distinct DEF AttemptFits
  <2> QED BY <2>2, <2>3, <2>4, <2>5, <2>6, <2>7 DEF SessionInv
<1> QED BY <1>2, <1>3, <1>4, <1>5 DEF BackStep

\* A process is killed, or the wrapper is asked to stop.
LEMMA FaultKeeps ==
  ASSUME SessionInv, Fault
  PROVE  SessionInv'
<1>1. faults' \in 0 .. MaxFaults /\ UNCHANGED scene
  BY TakeoverAssumption DEF SessionInv, TakeoverTypes, Fault, TakeoverAssumption
<1>2. /\ mem \in Memories /\ proc \in [Slots -> Processes] /\ TakeoverTypes
      /\ holder \in [Tokens -> HolderPlaces]
      /\ taker \in [pc : TakerPlaces, token : Tokens \cup {Nobody}, held : BOOLEAN]
  BY DEF SessionInv, SessionTypes, TakeoverTypes
<1>3. ASSUME NEW w \in Wrappers, WrapperDies(w), UNCHANGED takeoverVars
      PROVE  SessionInv'
  BY <1>1, <1>3, WrapperDiesKeeps
<1>4. ASSUME AskStop, UNCHANGED <<itemVars, lock, wpc, proc, takeoverVars>>
      PROVE  SessionInv'
  <2>1. mem' \in Memories /\ mem'.harness = mem.harness /\ mem'.job = mem.job
    BY <1>2, <1>4 DEF AskStop, Memories
  <2>2. TakeoverTypes' /\ Underway'
    BY <1>1, <1>4 DEF SessionInv, TakeoverTypes, Underway, takeoverVars
  <2> QED BY <1>1, <1>4, <2>1, <2>2, TakerMoves DEF takeoverVars
<1>5. ASSUME TakerTo("idle"), UNCHANGED <<wrapperVars, mark, holder, tui, back>>
      PROVE  SessionInv'
  <2>1. taker' \in [pc : TakerPlaces, token : Tokens \cup {Nobody}, held : BOOLEAN]
        /\ taker'.pc = "idle"
    BY <1>2, <1>5 DEF TakerTo, TakerPlaces
  <2>2. TakeoverTypes' /\ Underway'
    BY <1>1, <1>5, <2>1 DEF SessionInv, TakeoverTypes, Underway
  <2> QED BY <1>1, <1>2, <1>5, <2>2, TakerMoves DEF wrapperVars
<1>6. ASSUME lock \in Tokens, lock' = Nobody, HolderTo(lock, "done"), tui' = None,
             UNCHANGED <<itemVars, wpc, mem, proc, mark, taker, back>>
      PROVE  SessionInv'
  <2>1. holder' = [holder EXCEPT ![lock] = "done"] /\ holder[lock] \in {"locked", "running"}
    BY <1>6 DEF HolderTo, SessionInv, LockFits
  <2>2. TakeoverTypes'
    BY <1>1, <1>2, <1>6, <2>1 DEF TakeoverTypes, HolderPlaces
  <2>3. Underway'
    BY <1>2, <1>6, <2>1 DEF SessionInv, Underway
  <2>4. QueueTypes' /\ SessionTypes' /\ ReportsBounded' /\ Live' = Live
    BY <1>6 DEF SessionInv, QueueTypes, SessionTypes, ReportsBounded, Live, itemVars
  <2>5. LockFits'
    BY <1>2, <1>6, <2>1, Distinct DEF SessionInv, LockFits
  <2>6. \A u \in Tokens : holder'[u] # "running"
    BY <1>2, <2>1 DEF SessionInv, LockFits
  <2>7. Alone'
    BY <1>6, <2>4, <2>6 DEF SessionInv, Alone
  <2>8. AttemptFits'
    BY <1>6, Distinct DEF AttemptFits
  <2> QED BY <2>2, <2>3, <2>4, <2>5, <2>7, <2>8 DEF SessionInv
<1>7. ASSUME back.pc # "idle", BackTo("idle", Nobody),
             lock' = IF lock = Handback THEN Nobody ELSE lock,
             UNCHANGED <<itemVars, wpc, mem, proc, mark, taker, holder, tui>>
      PROVE  SessionInv'
  <2>1. TakeoverTypes' /\ Underway'
    BY <1>1, <1>2, <1>7 DEF SessionInv, TakeoverTypes, Underway, BackTo
  <2>2. QueueTypes' /\ SessionTypes' /\ ReportsBounded' /\ Live' = Live
    BY <1>7 DEF SessionInv, QueueTypes, SessionTypes, ReportsBounded, Live, itemVars
  <2>3. LockFits'
    BY <1>7, Distinct DEF SessionInv, LockFits, BackTo
  <2>4. lock' # Nobody => lock' = lock /\ Own' = Own
    BY <1>7 DEF Own
  <2>5. Alone'
    BY <1>7, <2>2, <2>4 DEF SessionInv, Alone
  <2>6. AttemptFits'
    BY <1>7, Distinct DEF SessionInv, AttemptFits, itemVars
  <2> QED BY <2>1, <2>2, <2>3, <2>5, <2>6 DEF SessionInv
<1> QED BY <1>3, <1>4, <1>5, <1>6, <1>7 DEF Fault

-----------------------------------------------------------------------------
(***************************************************************************)
(* The theorems.                                                           *)
(***************************************************************************)

\* The invariant is kept by every step.
LEMMA SessionNext ==
  ASSUME SessionInv, [Next]_vars
  PROVE  SessionInv'
<1>1. CASE UNCHANGED vars
  BY <1>1 DEF vars, wrapperVars, itemVars, takeoverVars, SessionInv, QueueTypes, SessionTypes,
              TakeoverTypes, LockFits, Alone, Own, Live, Underway, ReportsBounded, AttemptFits
<1>2. scene.tokens \subseteq Tokens
  BY TakeoverAssumption DEF SessionInv, TakeoverTypes, TakeoverAssumption
<1>3. ASSUME Queue \/ Harness \/ \E w \in Wrappers : WrapperStep(w) \/ Approvals(w),
             UNCHANGED <<takeoverVars, scene, faults>>
      PROVE  SessionInv'
  BY <1>3, QueueKeeps, HarnessKeeps, WrapperKeeps DEF Harness
<1>4. ASSUME \/ \E w \in Wrappers : StartWrapper(w)
             \/ \E t \in scene.tokens : TakeMark(t) \/ HolderStep(t)
             \/ TakerStep \/ BackCheck \/ BackStep,
             UNCHANGED <<scene, faults>>
      PROVE  SessionInv'
  BY <1>2, <1>4, StartWrapperKeeps, TakeMarkKeeps, HolderKeeps, TakerKeeps, BackKeeps
<1> QED BY <1>1, <1>3, <1>4, FaultKeeps DEF Next

\* The lock, the processes and the marks of a headless agent fit together in every
\* reachable state.
THEOREM SessionInvariant == Spec => []SessionInv
<1>1. Init => SessionInv
  BY SessionInit
<1>2. SessionInv /\ [Next]_vars => SessionInv'
  BY SessionNext
<1> QED BY <1>1, <1>2, PTL DEF Spec

\* One session never has two writers, whatever wrappers, takeovers, interactive
\* sessions and handbacks are started or killed (wrapper.rs, takeover.rs).
THEOREM OneWriterHolds == Spec => []OneWriter
<1>1. SessionInv => OneWriter
  <2> SUFFICES ASSUME SessionInv PROVE Cardinality(Live) <= 1
    BY DEF OneWriter
  <2>1. CASE Live = {}
    BY <2>1, FS_EmptySet
  <2>2. CASE Live # {}
    <3>1. PICK s \in Live : Live = {s}
      BY <2>2 DEF SessionInv, Alone
    <3>2. Cardinality({s}) = 1
      BY FS_Singleton
    <3> QED BY <3>1, <3>2
  <2> QED BY <2>1, <2>2
<1> QED BY <1>1, SessionInvariant, PTL

\* A mark that is past "stopping" is only removed when no writer of the session is
\* left: by a handback, which holds the lock (takeover.rs, handback_headless).
THEOREM HandbackEndsSessionHolds == Spec => HandbackEndsSession
<1> DEFINE Over == mark.state \notin {"none", "stopping"} /\ mark'.state = "none"
<1>1. ASSUME SessionInv, Next, Over
      PROVE  Live' = {}
  <2>1. /\ mark \in [state : MarkStates, token : Tokens \cup {Nobody}]
        /\ scene.tokens \subseteq Tokens
    BY <1>1, TakeoverAssumption DEF SessionInv, TakeoverTypes, TakeoverAssumption
  <2>2. mark' # mark
    BY <1>1
  <2>3. ASSUME NEW t, NEW state, state # "none"
        PROVE  ~Change(t, state)
    BY <1>1, <2>1, <2>3 DEF Change
  <2>4. ~TakerStep
    <3>1. ASSUME TakerStep
          PROVE  FALSE
      <4>1. /\ taker.pc # "idle"
            /\ \/ UNCHANGED mark \/ Clear(taker.token)
               \/ Change(taker.token, "failed") \/ Change(taker.token, "starting")
        BY <3>1 DEF TakerStep, TakeStatus, TakeHold, TakePoll, TakeStop, TakeWait, TakeWriters,
                    TakeTab, Undo, Fail
      <4>2. mark.token # taker.token
        BY <1>1, <4>1 DEF SessionInv, Underway
      <4>3. Clear(taker.token) => UNCHANGED mark
        BY <4>2 DEF Clear
      <4> QED BY <2>2, <2>3, <4>1, <4>3
    <3> QED BY <3>1
  <2>5. \A t \in scene.tokens : ~TakeMark(t)
    BY <1>1 DEF TakeMark, Unmarked
  <2>6. \A t \in scene.tokens : ~HolderStep(t)
    BY <2>2, <2>3 DEF HolderStep, HoldCheck, HoldLock, HoldSpawn, HoldEnd
  <2>7. ~BackCheck /\ ~BackKill /\ ~BackLock
    BY <2>2 DEF BackCheck, BackKill, BackLock, takeoverVars
  <2>8. ~Fault /\ \A w \in Wrappers : ~StartWrapper(w)
    BY <2>2 DEF Fault, StartWrapper, takeoverVars
  <2>9. BackClear
    BY <1>1, <2>2, <2>4, <2>5, <2>6, <2>7, <2>8 DEF Next, BackStep, takeoverVars
  <2>10. lock = Handback /\ UNCHANGED proc
    BY <1>1, <2>9 DEF BackClear, SessionInv, LockFits
  <2>11. Live = {}
    BY <1>1, <2>10, Distinct DEF SessionInv, Alone, Own
  <2> QED BY <2>10, <2>11 DEF Live
<1>2. SessionInv /\ [Next]_vars => [Over => Live' = {}]_vars
  BY <1>1
<1> QED BY <1>2, SessionInvariant, PTL DEF Spec, HandbackEndsSession

=============================================================================
