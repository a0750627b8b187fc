------------------------ MODULE TeamMessagingProofs ------------------------
(***************************************************************************)
(* agent-teams end to end, for any number of messages, routes, processes   *)
(* and crashes: a message is typed once over all routes, and what the      *)
(* sender itself reports as expired was not typed.                         *)
(***************************************************************************)
EXTENDS TeamMessaging, TeamLedgerProofs

-----------------------------------------------------------------------------
(***************************************************************************)
(* The inductive invariant.                                                *)
(***************************************************************************)

WalkPC == {"idle", "next", "sent", "ask", "resend", "resent"}

\* The states `pump` takes up again.
Retried == {"deferred", "ambiguous", "accepted", "claimed"}

Walking(w) == walk[w].pc # "idle"

\* Process w walks message m.
Walks(w, m) == Walking(w) /\ walk[w].msg = m

\* What a verb of `accept` may answer.
Replies == (States \ {"none"}) \cup {"route-refused", "error", "deferred"}

\* An answer that says the message was not taken.
NotTaken == {"route-refused", "deferred"}

SenderTypes ==
  /\ outbox \in [Sent -> [state : OutStates, amb : BOOLEAN]]
  /\ walk \in [Walkers -> [pc : WalkPC, msg : Sent \cup {Nobody}, route : 0 .. Routes,
                           serve : Serves \cup {Nobody}, amb : BOOLEAN, state : OutStates]]
  /\ mirrored \subseteq Sent /\ muddled \subseteq Sent /\ crashes \in 0 .. MaxCrashes
  /\ \A w \in Walkers : Walking(w) => /\ walk[w].msg \in Sent
                                      /\ walk[w].route \in 1 .. Routes
                                      /\ walk[w].state \in Retried

\* An answer that waits is one the sender knows.
Answering == \A s \in Serves : pc[s] = "done" => seen[s] \in Replies

\* A walk that waits for an answer has a serve process of its own on its message.
OwnServe ==
  /\ \A w \in Walkers : walk[w].serve # Nobody =>
       /\ walk[w].pc \in {"sent", "resent"}
       /\ pc[walk[w].serve] # "idle" /\ job[walk[w].serve] = walk[w].msg
  /\ \A w, v \in Walkers : walk[w].serve = walk[v].serve /\ walk[w].serve # Nobody => w = v
  /\ \A w \in Walkers : walk[w].pc \in {"ask", "resend", "resent"} => walk[w].amb

\* Serve process s is at work on message m.
Has(s, m) == pc[s] # "idle" /\ job[s] = m

\* Message m has not reached the receiver and is on no way to it.
Fresh(m) == m \notin claimed /\ m \notin mirrored /\ \A s \in Serves : ~Has(s, m)

\* The sender has no sign that m was taken.
Unsent(e) == e.state \in {"unsent", "expired"} \/ (e.state = "deferred" /\ ~e.amb)

\* The walk of w has no sign that its message was taken before.
Hopeful(w) == walk[w].state = "deferred" /\ ~walk[w].amb

\* The receiver has not taken m, or its serve process s will say so.
Honest(s, m) ==
  m \in claimed /\ s # Nobody => /\ pc[s] # "arrived"
                                  /\ ~(pc[s] = "done" /\ seen[s] \in NotTaken)

\* The one walk of a message agrees with the outbox.
Agrees(m) ==
  /\ \A w, v \in Walkers : Walks(w, m) /\ Walks(v, m) => w = v
  /\ \A w \in Walkers : Walks(w, m) =>
       /\ outbox[m].state = walk[w].state
       /\ walk[w].pc \in {"next", "sent"} => outbox[m].amb = walk[w].amb
       /\ walk[w].state = "ambiguous" => walk[w].amb
  /\ outbox[m].state = "ambiguous" => outbox[m].amb

\* Between walks, what the sender has no sign of has not reached the receiver ...
Rests(m) == Unsent(outbox[m]) /\ (\A w \in Walkers : ~Walks(w, m)) => Fresh(m)

\* ... and during one, only over the attempt that waits for its answer.
Waits(m) ==
  \A w \in Walkers : Walks(w, m) /\ Hopeful(w) =>
    /\ m \notin mirrored
    /\ \A s \in Serves : Has(s, m) => s = walk[w].serve
    /\ walk[w].pc = "next" => m \notin claimed
    /\ Honest(walk[w].serve, m)

SenderSound == \A m \in Sent \ muddled : Agrees(m) /\ Rests(m) /\ Waits(m)

MessagingInv ==
  LedgerInv /\ SenderTypes /\ Answering /\ OwnServe /\ SenderSound


-----------------------------------------------------------------------------
(***************************************************************************)
(* Facts about the operators.                                              *)
(***************************************************************************)

\* What the assumptions on the constants say of the sender.
LEMMA SenderConstants ==
  /\ Sent \subseteq Msgs /\ Send \in Walkers /\ Pump \in Walkers
  /\ Routes \in Nat /\ Routes > 0 /\ MaxCrashes \in Nat
BY SenderAssumption, MessagingAssumption DEF SenderAssumption, MessagingAssumption, Walkers

\* The record of a walker that does not walk.
LEMMA RestingTyped ==
  /\ Resting \in [pc : WalkPC, msg : Sent \cup {Nobody}, route : 0 .. Routes,
                  serve : Serves \cup {Nobody}, amb : BOOLEAN, state : OutStates]
  /\ Resting.pc = "idle" /\ Resting.serve = Nobody
BY SenderConstants DEF Resting, WalkPC, OutStates

\* When the end of a walk records `expired` though the walk found something else,
\* no attempt was ambiguous.
LEMMA FinalStateFacts ==
  ASSUME NEW m, NEW found \in OutStates, NEW any \in BOOLEAN
  PROVE  /\ FinalState(m, found, any) \in OutStates
         /\ FinalState(m, found, any) = "expired" =>
              found = "expired" \/ (found \in {"deferred", "ambiguous"} /\ ~any)
         /\ \A v \in {"deferred", "ambiguous", "unsent"} :
              FinalState(m, found, any) = v => found = v
<1>1. CASE found \in {"deferred", "ambiguous"} /\ m \in late /\ any
  BY <1>1 DEF FinalState, OutStates
<1>2. CASE found \in {"deferred", "ambiguous"} /\ m \in late /\ ~any
  BY <1>2 DEF FinalState, OutStates, States
<1>3. CASE ~(found \in {"deferred", "ambiguous"} /\ m \in late)
  <2>1. FinalState(m, found, any) = found
    BY <1>3 DEF FinalState
  <2> QED
    BY <2>1
<1> QED
  BY <1>1, <1>2, <1>3

\* What the receiver answers is a state of the outbox.
LEMMA MapStateFacts ==
  ASSUME NEW v \in Replies \ {"route-refused", "error"}
  PROVE  /\ MapState(v) \in OutStates /\ MapState(v) \notin {"unsent", "ambiguous"}
         /\ MapState(v) = "deferred" <=> v = "deferred"
BY DEF MapState, Replies, OutStates, States

\* Every step is a step of the receiving host, or leaves it alone.
LEMMA NextIsHost ==
  ASSUME LedgerInv, SenderTypes, [Next]_vars
  PROVE  HostStep \/ UNCHANGED ledgerVars
<1>0. Sent \subseteq Msgs /\ DataTypes
  BY SenderConstants DEF LedgerInv
<1>1. CASE Receiver(Msgs, Procs)
  BY <1>1 DEF Receiver, HostStep, ServeStep, MsgStep
<1>2. CASE \E m \in Sent : WalkSend(m) \/ WalkPump(m)
  BY <1>2 DEF WalkSend, WalkPump
<1>3. ASSUME NEW w \in Walkers, Walk(w) PROVE HostStep \/ UNCHANGED ledgerVars
  <2>1. CASE AskReceipt(w)
    <3>1. walk[w].msg \in Msgs
      BY <1>0, <2>1 DEF AskReceipt, SenderTypes, Walking
    <3>2. CASE Reconciled(walk[w].msg) = ledger[walk[w].msg]
      <4>1. ledger' = ledger
        BY <1>0, <2>1, <3>1, <3>2 DEF AskReceipt, DataTypes
      <4> QED
        BY <2>1, <4>1 DEF AskReceipt, ledgerVars, hist
    <3>3. CASE Reconciled(walk[w].msg) # ledger[walk[w].msg]
      <4>1. Reconcile(walk[w].msg)
        BY <2>1, <3>3 DEF AskReceipt, Reconcile, SetState
      <4> QED
        BY <3>1, <4>1 DEF HostStep, MsgStep
    <3> QED
      BY <3>2, <3>3
  <2>2. CASE Answered(w) \/ ResendAnswered(w)
    <3>1. walk[w].serve \in Serves /\ Exit(walk[w].serve)
      BY <2>2 DEF Answered, ResendAnswered, SenderTypes
    <3> QED
      BY <3>1 DEF HostStep, ServeStep
  <2>3. ASSUME NEW s \in Serves, Attempt(w, s) \/ Resend(w, s) PROVE HostStep
    <3>1. walk[w].msg \in Msgs /\ Arrive(s, walk[w].msg)
      BY <1>0, <2>3 DEF Attempt, Resend, SenderTypes, Walking
    <3> QED
      BY <3>1 DEF HostStep, ServeStep
  <2>4. CASE \/ NotDelivered(w) \/ FrameBreaks(w) \/ NoAnswer(w) \/ AskFails(w)
             \/ StaysAmbiguous(w)
    BY <2>4 DEF NotDelivered, FrameBreaks, NoAnswer, AskFails, StaysAmbiguous
  <2> QED
    BY <1>3, <2>1, <2>2, <2>3, <2>4 DEF Walk
<1>4. CASE \E s \in Serves : ServeExit(s) \/ \E m \in Sent : MirrorArrives(s, m)
  BY <1>0, <1>4 DEF ServeExit, MirrorArrives, HostStep, ServeStep
<1>5. CASE Crash
  BY <1>5 DEF Crash, HostCrash, WalkCrash, HostStep
<1>6. CASE UNCHANGED vars
  BY <1>6 DEF vars
<1> QED
  BY <1>1, <1>2, <1>3, <1>4, <1>5, <1>6 DEF Next

-----------------------------------------------------------------------------
(***************************************************************************)
(* The host's own steps.                                                   *)
(***************************************************************************)

\* A step of the host, as the sender's part of the invariant sees it: no serve
\* process starts or ends, and the one that claims its message goes on to hand it
\* over; a verb that says the message was not taken has not claimed it.
SenderView ==
  /\ \A s \in Serves : /\ job'[s] = job[s]
                       /\ pc'[s] = "idle" <=> pc[s] = "idle"
                       /\ pc'[s] = "arrived" => pc[s] = "arrived"
                       /\ pc'[s] = "done" /\ seen'[s] \in NotTaken =>
                            \/ pc[s] = "done" /\ seen[s] \in NotTaken
                            \/ pc[s] = "arrived"
  /\ \/ claimed' = claimed
     \/ \E s \in Serves : /\ pc[s] = "arrived" /\ pc'[s] \notin {"arrived", "done"}
                          /\ claimed' = claimed \cup {job[s]}

\* Serve process s takes a step that claims nothing.
LEMMA ServeView ==
  ASSUME LedgerInv, Answering, NEW s \in Serves, Serve(s) \/ AcceptFails(s)
  PROVE  SenderView /\ Answering'
<1> USE DEF hist
<1>0. ProcTypes /\ DataTypes /\ ServeStep(s) /\ s \in Procs
  BY Constants DEF LedgerInv, ServeStep
<1>1. /\ pc[s] = "idle" \/ job[s] \in Msgs
      /\ pc[s] \in ServePC
      /\ pc[s] = "finish" => ledger[job[s]] # "none" /\ seen[s] \in Results
      /\ pc[s] = "recovered" => seen[s] \in Results
  BY DEF LedgerInv, ProcTypes, ClaimedFirst, Working
<1>2. \A t \in Serves \ {s} : pc'[t] = pc[t] /\ job'[t] = job[t] /\ seen'[t] = seen[t]
  BY <1>0, ServeTypes, Constants DEF ProcFrame
<1>3. \/ claimed' = claimed
      \/ /\ pc[s] = "arrived" /\ pc'[s] \in {"handover", "supersede"}
         /\ claimed' = claimed \cup {job[s]}
  BY <1>0 DEF Serve, RefuseRoute, AcceptKnown, AcceptUndeliverable, AcceptRefused, Claim,
     SupersedeRead, SupersedeWrite, HandOverHook, HandOverQueue, Enqueue, HandOverCommand,
     Finish, Recover, RecoverWrite, ExpireClaim, AcceptFails, ProcTypes, Goto
<1>4. job'[s] = job[s]
  BY DEF Serve, RefuseRoute, AcceptKnown, AcceptUndeliverable, AcceptRefused, Claim,
     SupersedeRead, SupersedeWrite, HandOverHook, HandOverQueue, Enqueue, HandOverCommand,
     Finish, Recover, RecoverWrite, ExpireClaim, AcceptFails
<1>5. /\ pc[s] # "idle" /\ pc'[s] \notin {"idle", "arrived"}
      /\ pc'[s] = "done" => \/ pc[s] = "arrived" /\ seen'[s] \in Replies
                            \/ seen'[s] \in Replies \ NotTaken
  <2>1. CASE RefuseRoute(s)
    BY <1>0, <1>1, <2>1 DEF RefuseRoute, Answer, Goto, ProcTypes, Replies, NotTaken
  <2>2. CASE AcceptKnown(s)
    BY <1>0, <1>1, <2>2
    DEF AcceptKnown, Answer, Goto, States, DataTypes, ProcTypes, Replies, NotTaken
  <2>3. CASE AcceptUndeliverable(s)
    BY <1>0, <1>1, <2>3 DEF AcceptUndeliverable, Answer, Goto, ProcTypes, Replies, NotTaken
  <2>4. CASE AcceptRefused(s)
    BY <1>0, <1>1, <2>4 DEF AcceptRefused, Answer, Goto, States, ProcTypes, Replies, NotTaken
  <2>5. CASE Claim(s)
    BY <1>0, <1>1, <2>5 DEF Claim, Goto, ProcTypes, Replies, NotTaken
  <2>6. CASE Finish(s)
    BY <1>0, <1>1, <2>6 DEF Finish, Answer, Goto, Results, States, ProcTypes, Replies, NotTaken
  <2>7. CASE RecoverWrite(s)
    BY <1>0, <1>1, <2>7
    DEF RecoverWrite, Answer, Goto, Results, States, ProcTypes, Replies, NotTaken
  <2>8. CASE ExpireClaim(s)
    BY <1>0, <1>1, <2>8 DEF ExpireClaim, Answer, Goto, States, ProcTypes, Replies, NotTaken
  <2>9. CASE AcceptFails(s)
    BY <1>0, <1>1, <2>9
    DEF AcceptFails, Answer, Goto, ServePC, Working, Handing, ProcTypes, Replies, NotTaken
  <2>10. CASE \/ SupersedeRead(s) \/ SupersedeWrite(s) \/ HandOverHook(s) \/ HandOverQueue(s)
            \/ Enqueue(s) \/ HandOverCommand(s) \/ Recover(s)
    BY <1>0, <1>1, <2>10 DEF SupersedeRead, SupersedeWrite, HandOverHook, HandOverQueue,
       Enqueue, HandOverCommand, Recover, Goto, ProcTypes
  <2> QED
    BY <2>1, <2>2, <2>3, <2>4, <2>5, <2>6, <2>7, <2>8, <2>9, <2>10 DEF Serve
<1>6. Answering'
  BY <1>2, <1>5 DEF Answering
<1> QED
  BY <1>2, <1>3, <1>4, <1>5, <1>6 DEF SenderView

\* The other processes of the host leave the serve processes alone.
LEMMA OtherView ==
  ASSUME LedgerInv, Answering,
         \/ \E h \in Hooks : Hook(h)
         \/ \E r \in Retractors : Retract(r)
         \/ \E m \in Msgs : MsgStep(m)
  PROVE  SenderView /\ Answering'
<1> USE DEF hist
<1>0. ProcTypes /\ DataTypes
  BY DEF LedgerInv
<1>1. claimed' = claimed
  BY DEF Hook, HookList, HookUpgrade, HookClaim, HookPresent, HookPrint, HookEnd, Retract,
     RetractRead, RetractWrite, RetractBury, MsgStep, Fence, Reconcile, Prune, QueueDrain,
     DrainPick, DrainSettle, Expires
<1>2. \A s \in Serves : pc'[s] = pc[s] /\ job'[s] = job[s] /\ seen'[s] = seen[s]
  <2>1. ASSUME NEW h \in Hooks, Hook(h)
        PROVE  \A s \in Serves : pc'[s] = pc[s] /\ job'[s] = job[s] /\ seen'[s] = seen[s]
    BY <1>0, <2>1, HookTypes, Constants DEF ProcFrame
  <2>2. ASSUME NEW r \in Retractors, Retract(r)
        PROVE  \A s \in Serves : pc'[s] = pc[s] /\ job'[s] = job[s] /\ seen'[s] = seen[s]
    BY <1>0, <2>2, RetractTypes, Constants DEF ProcFrame
  <2>3. ASSUME NEW m \in Msgs, MsgStep(m)
        PROVE  \A s \in Serves : pc'[s] = pc[s] /\ job'[s] = job[s] /\ seen'[s] = seen[s]
    BY <2>3 DEF MsgStep, Fence, Reconcile, Prune, QueueDrain, DrainPick, DrainSettle, Expires
  <2> QED
    BY <2>1, <2>2, <2>3
<1> QED
  BY <1>1, <1>2 DEF SenderView, Answering

\* What the sender believes stays true while the host works.
LEMMA HostKeepsSender ==
  ASSUME SenderTypes, OwnServe, SenderSound, SenderView, UNCHANGED <<senderVars, crashes>>
  PROVE  SenderTypes' /\ OwnServe' /\ SenderSound'
<1> USE DEF senderVars
<1>1. SenderTypes'
  BY DEF SenderTypes, Walking
<1>2. OwnServe'
  BY DEF OwnServe, SenderView, SenderTypes
<1>3. ASSUME NEW m \in Sent \ muddled PROVE Agrees(m)' /\ Rests(m)' /\ Waits(m)'
  <2>1. Agrees(m) /\ Rests(m) /\ Waits(m)
    BY <1>3 DEF SenderSound
  <2>2. Agrees(m)'
    BY <2>1 DEF Agrees, Walks, Walking
  <2>3. \A s \in Serves : Has(s, m)' <=> Has(s, m)
    BY DEF Has, SenderView
  <2>4. Rests(m)'
    BY <2>1, <2>3 DEF Rests, Fresh, Walks, Walking, SenderView, Has
  <2>5. ASSUME NEW w \in Walkers, Walks(w, m), Hopeful(w)
        PROVE  /\ m \notin mirrored'
               /\ \A s \in Serves : Has(s, m)' => s = walk'[w].serve
               /\ walk'[w].pc = "next" => m \notin claimed'
               /\ Honest(walk[w].serve, m)'
    <3>1. /\ m \notin mirrored
          /\ \A s \in Serves : Has(s, m) => s = walk[w].serve
          /\ walk[w].pc = "next" => m \notin claimed
          /\ Honest(walk[w].serve, m)
      BY <2>1, <2>5 DEF Waits
    <3>2. walk[w].serve \in Serves \cup {Nobody}
      BY DEF SenderTypes
    <3>3. walk[w].pc = "next" => walk[w].serve = Nobody
      BY DEF OwnServe
    <3>4. \A s \in Serves : pc[s] = "arrived" /\ job[s] = m => s = walk[w].serve
      BY <3>1 DEF Has
    <3>5. walk[w].pc = "next" => m \notin claimed'
      BY <3>1, <3>3, <3>4, Constants DEF SenderView
    <3>6. Honest(walk[w].serve, m)'
      BY <3>1, <3>2, <3>4 DEF SenderView, Honest
    <3> QED
      BY <2>3, <3>1, <3>5, <3>6
  <2>6. Waits(m)'
    BY <2>5 DEF Waits, Walks, Walking, Hopeful
  <2> QED
    BY <2>2, <2>4, <2>6
<1> QED
  BY <1>1, <1>2, <1>3 DEF SenderSound

-----------------------------------------------------------------------------
(***************************************************************************)
(* The sender's steps.                                                     *)
(***************************************************************************)

WalkRecord == [pc : WalkPC, msg : Sent \cup {Nobody}, route : 0 .. Routes,
               serve : Serves \cup {Nobody}, amb : BOOLEAN, state : OutStates]

Entry == [state : OutStates, amb : BOOLEAN]

\* A step of process w on message m says nothing about the other messages.
LEMMA OthersSound ==
  ASSUME SenderTypes, OwnServe, SenderSound, NEW w \in Walkers, NEW m,
         claimed' = claimed, muddled \subseteq muddled',
         \A n \in Sent \ {m} : outbox'[n] = outbox[n] /\ (n \in mirrored' <=> n \in mirrored),
         \A v \in Walkers \ {w} : walk'[v] = walk[v],
         Walking(w) => walk[w].msg = m, Walking(w)' => walk'[w].msg = m,
         \A s \in Serves, n \in Sent \ {m} :
           /\ Has(s, n)' <=> Has(s, n)
           /\ Has(s, n) => pc'[s] = pc[s] /\ seen'[s] = seen[s]
  PROVE  \A n \in Sent \ {m} : n \notin muddled' => Agrees(n)' /\ Rests(n)' /\ Waits(n)'
<1> SUFFICES ASSUME NEW n \in Sent \ {m}, n \notin muddled'
             PROVE  Agrees(n)' /\ Rests(n)' /\ Waits(n)'
  OBVIOUS
<1>1. Agrees(n) /\ Rests(n) /\ Waits(n)
  BY DEF SenderSound
<1>2. ~Walks(w, n) /\ ~Walks(w, n)'
  BY DEF Walks, Walking
<1>3. \A v \in Walkers : Walks(v, n)' <=> Walks(v, n)
  BY <1>2 DEF Walks, Walking
<1>4. Agrees(n)'
  BY <1>1, <1>2, <1>3 DEF Agrees
<1>5. Rests(n)'
  BY <1>1, <1>3 DEF Rests, Fresh
<1>6. ASSUME NEW v \in Walkers, Walks(v, n)', Hopeful(v)'
      PROVE  /\ n \notin mirrored'
             /\ \A s \in Serves : Has(s, n)' => s = walk'[v].serve
             /\ walk'[v].pc = "next" => n \notin claimed'
             /\ Honest(walk[v].serve, n)'
  <2>1. v # w /\ Walks(v, n) /\ walk'[v] = walk[v]
    BY <1>2, <1>3, <1>6
  <2>2. Hopeful(v)
    BY <1>6, <2>1 DEF Hopeful
  <2>3. /\ n \notin mirrored
        /\ \A s \in Serves : Has(s, n) => s = walk[v].serve
        /\ walk[v].pc = "next" => n \notin claimed
        /\ Honest(walk[v].serve, n)
    BY <1>1, <2>1, <2>2 DEF Waits
  <2>4. walk[v].serve = Nobody \/ (walk[v].serve \in Serves /\ Has(walk[v].serve, n))
    BY <2>1 DEF SenderTypes, OwnServe, Has, Walks
  <2>5. Honest(walk[v].serve, n)'
    BY <2>1, <2>3, <2>4 DEF Honest
  <2> QED
    BY <2>1, <2>3, <2>5
<1>7. Waits(n)'
  <2>1. \A v \in Walkers \ {w} : walk'[v].serve = walk[v].serve
    OBVIOUS
  <2>2. \A v \in Walkers : Walks(v, n)' => v # w
    BY <1>2
  <2> QED
    BY <1>6, <2>1, <2>2 DEF Waits, Honest
<1> QED
  BY <1>4, <1>5, <1>7

\* A serve process that another walk waits for is not touched by a step that
\* only ends the one w waits for, or starts an idle one.
LEMMA OthersOwnServe ==
  ASSUME SenderTypes, OwnServe, NEW w \in Walkers,
         \A v \in Walkers \ {w} : walk'[v] = walk[v],
         walk'[w].pc \in {"ask", "resend", "resent"} => walk'[w].amb,
         \/ walk'[w].serve = Nobody
         \/ /\ walk'[w].serve \in Serves /\ walk'[w].pc \in {"sent", "resent"}
            /\ pc[walk'[w].serve] = "idle" /\ pc'[walk'[w].serve] # "idle"
            /\ job'[walk'[w].serve] = walk'[w].msg,
         \A s \in Serves : \/ pc'[s] = pc[s] /\ job'[s] = job[s]
                           \/ s = walk[w].serve \/ s = walk'[w].serve
  PROVE  OwnServe'
<1>1. ASSUME NEW v \in Walkers, walk'[v].serve # Nobody
      PROVE  /\ walk'[v].pc \in {"sent", "resent"}
             /\ pc'[walk'[v].serve] # "idle" /\ job'[walk'[v].serve] = walk'[v].msg
  <2>1. CASE v = w
    BY <1>1, <2>1
  <2>2. CASE v # w
    <3>1. walk'[v] = walk[v] /\ walk[v].serve \in Serves
      BY <1>1, <2>2 DEF SenderTypes
    <3>2. walk[v].serve # walk[w].serve /\ walk[v].serve # walk'[w].serve
      BY <1>1, <2>2, <3>1 DEF OwnServe
    <3> QED
      BY <1>1, <2>2, <3>1, <3>2 DEF OwnServe
  <2> QED
    BY <2>1, <2>2
<1>2. ASSUME NEW u \in Walkers, NEW v \in Walkers, walk'[u].serve = walk'[v].serve,
             walk'[u].serve # Nobody
      PROVE  u = v
  BY <1>2 DEF OwnServe
<1>3. \A v \in Walkers : walk'[v].pc \in {"ask", "resend", "resent"} => walk'[v].amb
  BY DEF OwnServe
<1> QED
  BY <1>1, <1>2, <1>3 DEF OwnServe

\* What the end of a walk writes.
LEMMA Concluded ==
  ASSUME SenderTypes, NEW w \in Walkers, Walking(w), NEW found \in OutStates,
         NEW any \in BOOLEAN, Conclude(w, found, any)
  PROVE  /\ outbox' \in [Sent -> Entry] /\ walk' \in [Walkers -> WalkRecord]
         /\ outbox'[walk[w].msg].state = FinalState(walk[w].msg, found, any)
         /\ outbox'[walk[w].msg].amb = walk[w].amb
         /\ \A n \in Sent \ {walk[w].msg} : outbox'[n] = outbox[n]
         /\ walk'[w] = Resting /\ \A v \in Walkers \ {w} : walk'[v] = walk[v]
<1>1. walk[w].msg \in Sent /\ walk[w].amb \in BOOLEAN
  BY DEF SenderTypes
<1>2. FinalState(walk[w].msg, found, any) \in OutStates
  BY FinalStateFacts
<1>3. outbox \in [Sent -> Entry] /\ walk \in [Walkers -> WalkRecord]
  BY DEF SenderTypes, Entry, WalkRecord
<1>4. [state |-> FinalState(walk[w].msg, found, any), amb |-> walk[w].amb] \in Entry
  BY <1>1, <1>2 DEF Entry
<1>5. Resting \in WalkRecord
  BY RestingTyped DEF WalkRecord
<1> QED
  BY <1>1, <1>3, <1>4, <1>5 DEF Conclude

\* A walk may end with what it found, if it found no state that its attempts do
\* not support; otherwise the message counts as muddled.
LEMMA ConcludeInv ==
  ASSUME SenderTypes, OwnServe, SenderSound, NEW m \in Sent,
         NEW w \in Walkers, Walking(w), walk[w].msg = m,
         NEW found \in OutStates \ {"unsent"}, NEW any \in BOOLEAN, Conclude(w, found, any),
         claimed' = claimed, crashes' = crashes,
         muddled \subseteq muddled', muddled' \subseteq muddled \cup {m},
         mirrored \subseteq mirrored', mirrored' \subseteq mirrored \cup {m},
         \A s \in Serves : \/ pc'[s] = pc[s] /\ job'[s] = job[s] /\ seen'[s] = seen[s]
                           \/ s = walk[w].serve /\ pc'[s] = "idle",
         \/ m \in muddled'
         \/ /\ any = walk[w].amb /\ found # "expired"
            /\ found = "ambiguous" => any
            /\ found = "deferred" /\ ~any => Fresh(m)'
  PROVE  SenderTypes' /\ OwnServe' /\ SenderSound'
<1>1. /\ outbox' \in [Sent -> Entry] /\ walk' \in [Walkers -> WalkRecord]
      /\ outbox'[m].state = FinalState(m, found, any) /\ outbox'[m].amb = walk[w].amb
      /\ \A n \in Sent \ {m} : outbox'[n] = outbox[n]
      /\ walk'[w] = Resting /\ \A v \in Walkers \ {w} : walk'[v] = walk[v]
  BY Concluded
<1>2. ~Walking(w)' /\ walk'[w].serve = Nobody /\ walk'[w].pc = "idle"
  BY <1>1, RestingTyped DEF Walking
<1>3. SenderTypes'
  BY <1>1, <1>2 DEF SenderTypes, Entry, WalkRecord, Walking
<1>4. OwnServe'
  BY <1>1, <1>2, OthersOwnServe
<1>5. \A n \in Sent \ {m} : n \notin muddled' => Agrees(n)' /\ Rests(n)' /\ Waits(n)'
  <2>1. \A s \in Serves, n \in Sent \ {m} :
          /\ Has(s, n)' <=> Has(s, n)
          /\ Has(s, n) => pc'[s] = pc[s] /\ seen'[s] = seen[s]
    BY Constants DEF Has, OwnServe
  <2> QED
    BY <1>1, <1>2, <2>1, OthersSound
<1>6. ASSUME m \notin muddled' PROVE Agrees(m)' /\ Rests(m)' /\ Waits(m)'
  <2>1. /\ any = walk[w].amb /\ found # "expired" /\ Agrees(m)
        /\ found = "ambiguous" => any
        /\ found = "deferred" /\ ~any => Fresh(m)'
    BY <1>6 DEF SenderSound
  <2>2. \A v \in Walkers : ~Walks(v, m)'
    BY <1>1, <1>2, <2>1 DEF Agrees, Walks, Walking
  <2>3. outbox'[m].state = "ambiguous" => outbox'[m].amb
    BY <1>1, <2>1, FinalStateFacts
  <2>4. outbox'[m].state # "unsent"
    BY <1>1, FinalStateFacts
  <2>5. outbox'[m].state \in {"deferred", "expired"} /\ ~walk[w].amb =>
          found = "deferred" /\ ~any
    BY <1>1, <2>1, FinalStateFacts
  <2>6. outbox'[m].state = "expired" => ~walk[w].amb
    BY <1>1, <2>1, FinalStateFacts
  <2>7. Unsent(outbox[m])' => Fresh(m)'
    BY <1>1, <2>1, <2>4, <2>5, <2>6 DEF Unsent
  <2> QED
    BY <2>2, <2>3, <2>7 DEF Agrees, Rests, Waits
<1> QED
  BY <1>3, <1>4, <1>5, <1>6 DEF SenderSound


\* A walk may go on, if it stays with its message and its state, and remembers an
\* ambiguous attempt; over its next attempt the message can only be taken by the
\* serve process it waits for.
LEMMA ContinueInv ==
  ASSUME SenderTypes, OwnServe, SenderSound, NEW m \in Sent,
         NEW w \in Walkers, Walking(w), walk[w].msg = m,
         NEW x \in WalkRecord, walk' = [walk EXCEPT ![w] = x],
         x.msg = m, x.pc # "idle", x.route \in 1 .. Routes, x.state = walk[w].state,
         outbox' = outbox \/ WriteCopy(w),
         UNCHANGED <<mirrored, muddled, crashes, claimed>>,
         walk[w].amb => x.amb,
         x.pc \in {"next", "sent"} => walk[w].pc \in {"next", "sent"} /\ x.amb = walk[w].amb,
         x.pc \in {"ask", "resend", "resent"} => x.amb,
         \/ x.serve = Nobody
         \/ /\ x.serve \in Serves /\ x.pc \in {"sent", "resent"}
            /\ pc[x.serve] = "idle" /\ pc'[x.serve] = "arrived" /\ job'[x.serve] = m,
         \A s \in Serves : \/ pc'[s] = pc[s] /\ job'[s] = job[s] /\ seen'[s] = seen[s]
                           \/ s = walk[w].serve /\ pc'[s] = "idle"
                           \/ s = x.serve,
         m \notin muddled /\ x.pc \in {"next", "sent"} /\ Hopeful(w) =>
           m \notin claimed /\ \A s \in Serves : Has(s, m)' => s = x.serve
  PROVE  SenderTypes' /\ OwnServe' /\ SenderSound'
<1>0. outbox \in [Sent -> Entry] /\ walk \in [Walkers -> WalkRecord]
  BY DEF SenderTypes, Entry, WalkRecord
<1>1. /\ walk' \in [Walkers -> WalkRecord] /\ walk'[w] = x
      /\ \A v \in Walkers \ {w} : walk'[v] = walk[v]
  BY <1>0
<1>2. /\ outbox' \in [Sent -> Entry] /\ \A n \in Sent \ {m} : outbox'[n] = outbox[n]
      /\ outbox' = outbox \/ outbox'[m] = [state |-> walk[w].state, amb |-> walk[w].amb]
  <2>1. [state |-> walk[w].state, amb |-> walk[w].amb] \in Entry
    BY <1>0 DEF Entry, WalkRecord
  <2> QED
    BY <1>0, <2>1 DEF WriteCopy
<1>3. SenderTypes'
  <2>1. walk[w].state \in Retried
    BY DEF SenderTypes
  <2>2. \A v \in Walkers : Walking(v)' => /\ walk'[v].msg \in Sent
                                          /\ walk'[v].route \in 1 .. Routes
                                          /\ walk'[v].state \in Retried
    BY <1>1, <2>1 DEF SenderTypes, Walking
  <2> QED
    BY <1>1, <1>2, <2>2 DEF SenderTypes, Entry, WalkRecord
<1>4. OwnServe'
  BY <1>1, OthersOwnServe
<1>5. \A n \in Sent \ {m} : n \notin muddled' => Agrees(n)' /\ Rests(n)' /\ Waits(n)'
  <2>1. walk[w].serve # Nobody => Has(walk[w].serve, m)
    BY DEF OwnServe, Has
  <2>2. \A s \in Serves, n \in Sent \ {m} :
          /\ Has(s, n)' <=> Has(s, n)
          /\ Has(s, n) => pc'[s] = pc[s] /\ seen'[s] = seen[s]
    BY <2>1, Constants DEF Has
  <2> QED
    BY <1>1, <1>2, <2>2, OthersSound
<1>6. ASSUME m \notin muddled' PROVE Agrees(m)' /\ Rests(m)' /\ Waits(m)'
  <2>1. Agrees(m) /\ Waits(m) /\ Walks(w, m)
    BY <1>6 DEF SenderSound, Walks
  <2>2. \A v \in Walkers : Walks(v, m)' <=> v = w
    BY <1>1, <2>1 DEF Agrees, Walks, Walking
  <2>3. outbox[m].state = walk[w].state /\ (walk[w].state = "ambiguous" => walk[w].amb)
    BY <2>1 DEF Agrees
  <2>4. outbox'[m].state = walk[w].state
    BY <1>2, <2>3
  <2>5. x.pc \in {"next", "sent"} => outbox'[m].amb = x.amb
    BY <1>2, <2>1 DEF Agrees
  <2>6. outbox'[m].state = "ambiguous" => outbox'[m].amb
    BY <1>2, <2>1, <2>3 DEF Agrees
  <2>7. Agrees(m)'
    BY <1>1, <2>2, <2>3, <2>4, <2>5, <2>6 DEF Agrees
  <2>8. Hopeful(w)' => Hopeful(w) /\ x.pc \in {"next", "sent"}
    BY <1>1 DEF Hopeful, WalkRecord, WalkPC
  <2>9. Hopeful(w) => m \notin mirrored
    BY <2>1 DEF Waits
  <2>10. Waits(m)'
    BY <1>1, <1>6, <2>2, <2>8, <2>9 DEF Waits, Honest
  <2> QED
    BY <2>2, <2>7, <2>10 DEF Rests
<1> QED
  BY <1>3, <1>4, <1>5, <1>6 DEF SenderSound

\* A walk of m may begin with what the outbox says, or on a message not sent yet.
LEMMA BeginInv ==
  ASSUME SenderTypes, OwnServe, SenderSound, NEW m \in Sent, NEW w \in Walkers, ~Walking(w),
         NEW state \in Retried, NEW amb \in BOOLEAN, Begin(w, m, state, amb),
         UNCHANGED <<ledgerVars, crashes>>,
         outbox' = [outbox EXCEPT ![m] = [state |-> state, amb |-> amb]],
         Unsent(outbox[m]) \/ (outbox[m].state = state /\ outbox[m].amb = amb),
         Unsent(outbox[m]) => state = "deferred"
  PROVE  SenderTypes' /\ OwnServe' /\ SenderSound'
<1> USE DEF ledgerVars, hist
<1>0. outbox \in [Sent -> Entry] /\ walk \in [Walkers -> WalkRecord]
  BY DEF SenderTypes, Entry, WalkRecord
<1>1. /\ walk'[w].pc = "next" /\ walk'[w].msg = m /\ walk'[w].route = 1
      /\ walk'[w].serve = Nobody /\ walk'[w].amb = amb /\ walk'[w].state = state
      /\ walk' \in [Walkers -> WalkRecord]
      /\ \A v \in Walkers \ {w} : walk'[v] = walk[v]
  <2>1. state \in OutStates /\ 1 \in 0 .. Routes
    BY SenderConstants DEF Retried, OutStates, States
  <2> QED
    BY <1>0, <2>1 DEF Begin, Resting, WalkRecord, WalkPC
<1>2. /\ outbox' \in [Sent -> Entry] /\ \A n \in Sent \ {m} : outbox'[n] = outbox[n]
      /\ outbox'[m].state = state /\ outbox'[m].amb = amb
  <2>1. [state |-> state, amb |-> amb] \in Entry
    BY DEF Entry, Retried, OutStates, States
  <2> QED
    BY <1>0, <2>1
<1>3. SenderTypes'
  <2>1. \A v \in Walkers : Walking(v)' => /\ walk'[v].msg \in Sent
                                          /\ walk'[v].route \in 1 .. Routes
                                          /\ walk'[v].state \in Retried
    BY <1>1, SenderConstants DEF SenderTypes, Walking
  <2>2. mirrored' \subseteq Sent /\ muddled' \subseteq Sent
    BY DEF Begin, SenderTypes
  <2> QED
    BY <1>1, <1>2, <2>1, <2>2 DEF SenderTypes, Entry, WalkRecord
<1>4. OwnServe'
  BY <1>1, OthersOwnServe
<1>5. \A n \in Sent \ {m} : n \notin muddled' => Agrees(n)' /\ Rests(n)' /\ Waits(n)'
  <2>1. muddled \subseteq muddled' /\ mirrored' = mirrored
    BY DEF Begin
  <2>2. \A s \in Serves, n \in Sent \ {m} :
          /\ Has(s, n)' <=> Has(s, n)
          /\ Has(s, n) => pc'[s] = pc[s] /\ seen'[s] = seen[s]
    BY DEF Has
  <2> QED
    BY <1>1, <1>2, <2>1, <2>2, OthersSound
<1>6. ASSUME m \notin muddled' PROVE Agrees(m)' /\ Rests(m)' /\ Waits(m)'
  <2>1. m \notin muddled /\ mirrored' = mirrored /\ \A v \in Walkers : walk[v].msg # m
    BY <1>6 DEF Begin
  <2>2. Agrees(m) /\ Rests(m)
    BY <2>1 DEF SenderSound
  <2>3. \A v \in Walkers : ~Walks(v, m)
    BY <2>1 DEF Walks
  <2>4. \A v \in Walkers : Walks(v, m)' <=> v = w
    BY <1>1, <2>1 DEF Walks, Walking
  <2>5. state = "ambiguous" => amb
    BY <2>2 DEF Agrees, Unsent
  <2>6. Agrees(m)'
    BY <1>1, <1>2, <2>4, <2>5 DEF Agrees
  <2>7. Hopeful(w)' => Fresh(m)
    BY <1>1, <2>2, <2>3 DEF Hopeful, Rests, Unsent
  <2>8. Waits(m)'
    BY <1>1, <2>1, <2>4, <2>7 DEF Waits, Fresh, Has, Honest
  <2> QED
    BY <2>4, <2>6, <2>8 DEF Rests
<1> QED
  BY <1>3, <1>4, <1>5, <1>6 DEF SenderSound


\* `send` and `pump` begin a walk.
LEMMA WalkBegins ==
  ASSUME SenderTypes, OwnServe, SenderSound, NEW m \in Sent, WalkSend(m) \/ WalkPump(m),
         crashes' = crashes
  PROVE  SenderTypes' /\ OwnServe' /\ SenderSound'
<1>0. Send \in Walkers /\ Pump \in Walkers /\ outbox[m] \in Entry
  BY SenderConstants DEF SenderTypes, Entry
<1>1. CASE WalkSend(m)
  <2>1. /\ ~Walking(Send) /\ Begin(Send, m, "deferred", FALSE) /\ UNCHANGED ledgerVars
        /\ outbox' = [outbox EXCEPT ![m] = [state |-> "deferred", amb |-> FALSE]]
        /\ Unsent(outbox[m]) /\ "deferred" \in Retried
    BY <1>1 DEF WalkSend, Walking, Unsent, Retried
  <2> QED
    BY <1>0, <2>1, BeginInv
<1>2. CASE WalkPump(m)
  <2>1. /\ ~Walking(Pump) /\ Begin(Pump, m, outbox[m].state, outbox[m].amb)
        /\ UNCHANGED ledgerVars /\ outbox' = outbox /\ outbox[m].state \in Retried
    BY <1>2 DEF WalkPump, Walking, Retried
  <2>2. outbox[m].amb \in BOOLEAN /\ [state |-> outbox[m].state, amb |-> outbox[m].amb] = outbox[m]
    BY <1>0 DEF Entry
  <2>3. outbox' = [outbox EXCEPT ![m] = [state |-> outbox[m].state, amb |-> outbox[m].amb]]
    BY <2>1, <2>2 DEF SenderTypes
  <2>4. Unsent(outbox[m]) => outbox[m].state = "deferred"
    BY <2>1 DEF Unsent, Retried
  <2> QED
    BY <1>0, <2>1, <2>2, <2>3, <2>4, BeginInv
<1> QED
  BY <1>1, <1>2

\* What a walk w on message m knows: its record, and who else could bring m.
LEMMA WalkFacts ==
  ASSUME SenderTypes, OwnServe, SenderSound, NEW w \in Walkers, Walking(w)
  PROVE  /\ walk[w] \in WalkRecord /\ walk \in [Walkers -> WalkRecord]
         /\ walk[w].msg \in Sent /\ walk[w].route \in 1 .. Routes
         /\ walk[w].state \in Retried /\ Retried \subseteq OutStates \ {"unsent"}
         /\ walk[w].pc \in {"ask", "resend", "resent"} => walk[w].amb
         /\ walk[w].pc \notin {"sent", "resent"} => walk[w].serve = Nobody
         /\ walk[w].msg \notin muddled /\ walk[w].state = "ambiguous" => walk[w].amb
         /\ walk[w].msg \notin muddled /\ walk[w].pc = "next" /\ Hopeful(w) => Fresh(walk[w].msg)
<1>1. /\ walk[w] \in WalkRecord /\ walk \in [Walkers -> WalkRecord]
      /\ walk[w].msg \in Sent /\ walk[w].route \in 1 .. Routes /\ walk[w].state \in Retried
  BY DEF SenderTypes, WalkRecord
<1>2. Retried \subseteq OutStates \ {"unsent"}
  BY DEF Retried, OutStates, States
<1>3. /\ walk[w].pc \in {"ask", "resend", "resent"} => walk[w].amb
      /\ walk[w].pc \notin {"sent", "resent"} => walk[w].serve = Nobody
  BY DEF OwnServe
<1>4. ASSUME walk[w].msg \notin muddled
      PROVE  /\ walk[w].state = "ambiguous" => walk[w].amb
             /\ walk[w].pc = "next" /\ Hopeful(w) => Fresh(walk[w].msg)
  <2>1. Agrees(walk[w].msg) /\ Waits(walk[w].msg) /\ Walks(w, walk[w].msg)
    BY <1>1, <1>4 DEF SenderSound, Walks
  <2> QED
    BY <1>3, <2>1, Constants DEF Agrees, Waits, Fresh
<1> QED
  BY <1>1, <1>2, <1>3, <1>4

\* The routes are used up, or the message goes to the next one, after a definite
\* answer that it was not taken.
LEMMA NextRouteInv ==
  ASSUME SenderTypes, OwnServe, SenderSound, NEW w \in Walkers, walk[w].pc \in {"next", "sent"},
         NEW m \in Sent, walk[w].msg = m,
         NextRoute(w), walk[w].route < Routes => outbox' = outbox \/ WriteCopy(w),
         UNCHANGED <<claimed, crashes>>,
         \A s \in Serves : \/ pc'[s] = pc[s] /\ job'[s] = job[s] /\ seen'[s] = seen[s]
                           \/ s = walk[w].serve /\ pc'[s] = "idle",
         m \notin muddled /\ Hopeful(w) => m \notin claimed /\ \A s \in Serves : ~Has(s, m)'
  PROVE  SenderTypes' /\ OwnServe' /\ SenderSound'
<1>0. /\ Walking(w) /\ walk[w] \in WalkRecord /\ walk \in [Walkers -> WalkRecord]
      /\ walk[w].route \in 1 .. Routes
      /\ walk[w].state \in OutStates \ {"unsent"} /\ walk[w].state \in Retried
      /\ m \notin muddled /\ walk[w].state = "ambiguous" => walk[w].amb
  BY WalkFacts DEF Walking
<1>1. CASE walk[w].route < Routes
  <2> DEFINE x == [walk[w] EXCEPT !.route = @ + 1, !.pc = "next", !.serve = Nobody]
  <2>1. walk' = [walk EXCEPT ![w] = x] /\ UNCHANGED <<mirrored, muddled>>
    BY <1>0, <1>1 DEF NextRoute
  <2>2. walk[w].route + 1 \in 0 .. Routes /\ walk[w].route + 1 \in 1 .. Routes
    BY <1>0, <1>1, SenderConstants
  <2>3. /\ x.msg = m /\ x.pc = "next" /\ x.route = walk[w].route + 1
        /\ x.state = walk[w].state /\ x.amb = walk[w].amb /\ x.serve = Nobody
    BY <1>0 DEF WalkRecord
  <2>4. x \in WalkRecord
    BY <1>0, <2>2 DEF WalkRecord, WalkPC
  <2> HIDE DEF x
  <2> QED
    BY <1>0, <1>1, <2>1, <2>2, <2>3, <2>4, ContinueInv
<1>2. CASE ~(walk[w].route < Routes)
  <2> DEFINE found == IF walk[w].amb THEN "ambiguous" ELSE walk[w].state
  <2>1. Conclude(w, found, walk[w].amb) /\ UNCHANGED <<mirrored, muddled>>
    BY <1>2 DEF NextRoute, GiveUp
  <2>2. /\ found \in OutStates \ {"unsent"} /\ walk[w].amb \in BOOLEAN /\ found # "expired"
        /\ m \in muddled \/ (found = "ambiguous" => walk[w].amb)
        /\ found = "deferred" /\ ~walk[w].amb => Hopeful(w)
    BY <1>0 DEF WalkRecord, OutStates, Retried, Hopeful
  <2>3. m \notin muddled /\ Hopeful(w) => m \notin mirrored
    BY <1>0 DEF SenderSound, Waits, Walks
  <2>4. m \notin muddled /\ found = "deferred" /\ ~walk[w].amb => Fresh(m)'
    BY <2>1, <2>2, <2>3 DEF Fresh
  <2> HIDE DEF found
  <2> QED
    BY <1>0, <2>1, <2>2, <2>4, ConcludeInv
<1> QED
  BY <1>1, <1>2

\* A definite answer settles the walk: it is no state that only the sender has,
\* and if it says the message was not taken, then it was not, or the outbox had
\* it as taken and the message is muddled from now on.
LEMMA SettleInv ==
  ASSUME SenderTypes, OwnServe, SenderSound, NEW w \in Walkers, Walking(w),
         NEW m \in Sent, walk[w].msg = m,
         NEW v \in OutStates \ {"unsent", "ambiguous"}, SettleAs(w, v),
         UNCHANGED <<claimed, crashes>>,
         \A s \in Serves : \/ pc'[s] = pc[s] /\ job'[s] = job[s] /\ seen'[s] = seen[s]
                           \/ s = walk[w].serve /\ pc'[s] = "idle",
         m \notin muddled /\ v = "deferred" /\ Hopeful(w) =>
           m \notin claimed /\ \A s \in Serves : ~Has(s, m)'
  PROVE  SenderTypes' /\ OwnServe' /\ SenderSound'
<1>0. /\ walk[w] \in WalkRecord /\ walk[w].state \in Retried
      /\ m \notin muddled /\ walk[w].state = "ambiguous" => walk[w].amb
  BY WalkFacts
<1>1. Conclude(w, v, walk[w].amb) /\ walk[w].amb \in BOOLEAN
  BY <1>0 DEF SettleAs, WalkRecord
<1>2. /\ muddled \subseteq muddled' /\ muddled' \subseteq muddled \cup {m}
      /\ mirrored \subseteq mirrored' /\ mirrored' \subseteq mirrored \cup {m}
  BY DEF SettleAs
<1>3. m \notin muddled' => m \notin muddled /\ v # "expired"
  BY DEF SettleAs
<1>4. m \notin muddled' /\ v = "deferred" /\ ~walk[w].amb => Hopeful(w)
  BY <1>0, <1>3 DEF SettleAs, Won, Retried, Hopeful
<1>5. m \notin muddled /\ Hopeful(w) => m \notin mirrored
  BY DEF SenderSound, Waits, Walks
<1>6. v = "deferred" => mirrored' = mirrored
  BY DEF SettleAs, Won
<1>7. m \notin muddled' /\ v = "deferred" /\ ~walk[w].amb => Fresh(m)'
  BY <1>3, <1>4, <1>5, <1>6 DEF Fresh
<1> QED
  BY <1>1, <1>2, <1>3, <1>7, ConcludeInv


\* What the arrival of a verb and the end of a serve process change.
LEMMA ArriveFacts ==
  ASSUME ProcTypes, NEW s \in Serves, NEW m, Arrive(s, m)
  PROVE  /\ pc[s] = "idle" /\ pc'[s] = "arrived" /\ job'[s] = m /\ claimed' = claimed
         /\ \A t \in Serves \ {s} : pc'[t] = pc[t] /\ job'[t] = job[t]
         /\ seen' = seen
BY Constants DEF Arrive, Goto, ProcTypes, hist

\* What a process that ends leaves behind.
LEMMA ExitFacts ==
  ASSUME ProcTypes, NEW s \in Serves, Exit(s)
  PROVE  /\ pc[s] = "done" /\ pc'[s] = "idle" /\ claimed' = claimed
         /\ \A t \in Serves \ {s} : pc'[t] = pc[t] /\ job'[t] = job[t] /\ seen'[t] = seen[t]
BY Constants DEF Exit, Goto, Forget, ProcTypes, hist

\* The walk goes on without an answer: the route did not deliver, the frame broke
\* off, no answer came, the question failed or was not answered.
LEMMA WalkAlone ==
  ASSUME SenderTypes, OwnServe, SenderSound, NEW w \in Walkers, crashes' = crashes,
         \/ NotDelivered(w) \/ FrameBreaks(w) \/ NoAnswer(w) \/ AskFails(w) \/ StaysAmbiguous(w)
  PROVE  SenderTypes' /\ OwnServe' /\ SenderSound'
<1>0. Walking(w)
  BY DEF NotDelivered, FrameBreaks, NoAnswer, AskFails, StaysAmbiguous, Walking
<1>1. /\ walk[w] \in WalkRecord /\ walk \in [Walkers -> WalkRecord]
      /\ walk[w].msg \in Sent /\ walk[w].route \in 1 .. Routes
      /\ walk[w].pc \in {"ask", "resend", "resent"} => walk[w].amb
      /\ walk[w].pc \notin {"sent", "resent"} => walk[w].serve = Nobody
      /\ walk[w].msg \notin muddled /\ walk[w].pc = "next" /\ Hopeful(w) => Fresh(walk[w].msg)
  BY <1>0, WalkFacts
<1>2. UNCHANGED <<pc, job, seen, claimed>>
  BY DEF NotDelivered, FrameBreaks, NoAnswer, AskFails, StaysAmbiguous, ledgerVars, hist
<1> PICK m \in Sent : walk[w].msg = m
  BY <1>1
<1>3. CASE NotDelivered(w)
  <2>1. /\ walk[w].pc \in {"next", "sent"} /\ NextRoute(w)
        /\ walk[w].route < Routes => outbox' = outbox \/ WriteCopy(w)
    BY <1>3 DEF NotDelivered
  <2>2. m \notin muddled /\ Hopeful(w) => m \notin claimed /\ \A s \in Serves : ~Has(s, m)'
    BY <1>1, <1>2, <1>3 DEF NotDelivered, Fresh, Has
  <2> QED
    BY <1>2, <2>1, <2>2, NextRouteInv
<1>4. CASE FrameBreaks(w) \/ NoAnswer(w) \/ AskFails(w)
  <2> DEFINE x == [walk[w] EXCEPT !.pc = IF AskFails(w) THEN "resend" ELSE "ask", !.amb = TRUE,
                                  !.serve = Nobody]
  <2>1. walk[w] = [walk[w] EXCEPT !.serve = Nobody] \/ NoAnswer(w)
    BY <1>1, <1>4 DEF FrameBreaks, AskFails, WalkRecord
  <2>2. walk' = [walk EXCEPT ![w] = x]
    <3>1. CASE FrameBreaks(w)
      BY <1>1, <3>1 DEF FrameBreaks, AskFails, WalkRecord
    <3>2. CASE NoAnswer(w)
      BY <1>1, <3>2 DEF NoAnswer, AskFails, WalkRecord
    <3>3. CASE AskFails(w)
      BY <1>1, <3>3 DEF AskFails, WalkRecord
    <3> QED
      BY <1>4, <3>1, <3>2, <3>3
  <2>3. /\ x \in WalkRecord /\ x.msg = m /\ x.pc \in {"ask", "resend"} /\ x.amb
        /\ x.route = walk[w].route /\ x.state = walk[w].state /\ x.serve = Nobody
    BY <1>1 DEF WalkRecord, WalkPC
  <2>4. UNCHANGED <<mirrored, muddled>> /\ (outbox' = outbox \/ WriteCopy(w))
    BY <1>4 DEF FrameBreaks, NoAnswer, AskFails
  <2> HIDE DEF x
  <2> QED
    BY <1>0, <1>1, <1>2, <2>2, <2>3, <2>4, ContinueInv
<1>5. CASE StaysAmbiguous(w)
  <2>1. /\ Conclude(w, "ambiguous", walk[w].amb) /\ UNCHANGED <<mirrored, muddled>>
        /\ walk[w].amb /\ walk[w].amb \in BOOLEAN
    BY <1>1, <1>5 DEF StaysAmbiguous, GiveUp, WalkRecord
  <2>2. "ambiguous" \in OutStates \ {"unsent"}
    BY DEF OutStates
  <2> QED
    BY <1>0, <1>2, <2>1, <2>2, ConcludeInv
<1> QED
  BY <1>3, <1>4, <1>5

\* The walk sends the envelope, for the first time or once more.
LEMMA WalkSends ==
  ASSUME ProcTypes, SenderTypes, OwnServe, SenderSound, NEW w \in Walkers, NEW s \in Serves,
         Attempt(w, s) \/ Resend(w, s), crashes' = crashes
  PROVE  SenderTypes' /\ OwnServe' /\ SenderSound'
<1>0. Walking(w)
  BY DEF Attempt, Resend, Walking
<1>1. /\ walk[w] \in WalkRecord /\ walk \in [Walkers -> WalkRecord]
      /\ walk[w].msg \in Sent /\ walk[w].route \in 1 .. Routes
      /\ walk[w].pc \in {"ask", "resend", "resent"} => walk[w].amb
      /\ walk[w].msg \notin muddled /\ walk[w].pc = "next" /\ Hopeful(w) => Fresh(walk[w].msg)
  BY <1>0, WalkFacts
<1> PICK m \in Sent : walk[w].msg = m
  BY <1>1
<1>2. /\ pc[s] = "idle" /\ pc'[s] = "arrived" /\ job'[s] = m /\ claimed' = claimed
      /\ \A t \in Serves \ {s} : pc'[t] = pc[t] /\ job'[t] = job[t]
      /\ seen' = seen
  BY ArriveFacts DEF Attempt, Resend
<1> DEFINE x == [walk[w] EXCEPT !.pc = IF walk[w].pc = "next" THEN "sent" ELSE "resent",
                                !.serve = s]
<1>3. walk' = [walk EXCEPT ![w] = x]
  BY <1>1 DEF Attempt, Resend, WalkRecord
<1>4. /\ x \in WalkRecord /\ x.msg = m /\ x.serve = s /\ x.amb = walk[w].amb
      /\ x.pc = IF walk[w].pc = "next" THEN "sent" ELSE "resent"
      /\ x.route = walk[w].route /\ x.state = walk[w].state
  BY <1>1 DEF WalkRecord, WalkPC
<1>5. UNCHANGED <<mirrored, muddled>> /\ (outbox' = outbox \/ WriteCopy(w))
  BY DEF Attempt, Resend
<1>6. x.pc = "resent" => walk[w].pc = "resend"
  BY <1>4 DEF Attempt, Resend
<1>7. m \notin muddled /\ x.pc \in {"next", "sent"} /\ Hopeful(w) =>
        m \notin claimed /\ \A t \in Serves : Has(t, m)' => t = s
  BY <1>1, <1>2, <1>4 DEF Fresh, Has
<1>8. /\ x.pc # "idle" /\ x.pc \in {"sent", "resent"} /\ x.route \in 1 .. Routes
      /\ walk[w].amb => x.amb
      /\ x.pc \in {"next", "sent"} => walk[w].pc \in {"next", "sent"} /\ x.amb = walk[w].amb
      /\ x.pc \in {"ask", "resend", "resent"} => x.amb
  BY <1>1, <1>4, <1>6
<1>9. \A t \in Serves : \/ pc'[t] = pc[t] /\ job'[t] = job[t] /\ seen'[t] = seen[t]
                        \/ t = walk[w].serve /\ pc'[t] = "idle"
                        \/ t = x.serve
  BY <1>2, <1>4
<1> HIDE DEF x
<1> QED
  BY <1>0, <1>2, <1>3, <1>4, <1>5, <1>7, <1>8, <1>9, ContinueInv

\* The answer of the attempt or of the resend arrives.
LEMMA WalkIsAnswered ==
  ASSUME ProcTypes, Answering, SenderTypes, OwnServe, SenderSound, NEW w \in Walkers,
         Answered(w) \/ ResendAnswered(w), crashes' = crashes
  PROVE  SenderTypes' /\ OwnServe' /\ SenderSound'
<1>0. Walking(w)
  BY DEF Answered, ResendAnswered, Walking
<1>1. /\ walk[w] \in WalkRecord /\ walk[w].msg \in Sent
      /\ walk[w].pc \in {"ask", "resend", "resent"} => walk[w].amb
  BY <1>0, WalkFacts
<1> PICK m \in Sent : walk[w].msg = m
  BY <1>1
<1> PICK s \in Serves : walk[w].serve = s
  BY DEF Answered, ResendAnswered, SenderTypes
<1>2. /\ pc[s] = "done" /\ pc'[s] = "idle" /\ claimed' = claimed /\ Exit(s)
      /\ \A t \in Serves \ {s} : pc'[t] = pc[t] /\ job'[t] = job[t] /\ seen'[t] = seen[t]
  BY ExitFacts DEF Answered, ResendAnswered
<1>3. seen[s] \in Replies
  BY <1>2 DEF Answering
<1>4. ASSUME m \notin muddled, Hopeful(w), seen[s] \in NotTaken
      PROVE  m \notin claimed /\ \A t \in Serves : ~Has(t, m)'
  <2>1. Waits(m) /\ Walks(w, m) /\ s # Nobody
    BY <1>0, <1>4, Constants DEF SenderSound, Walks
  <2>2. Honest(s, m) /\ \A t \in Serves : Has(t, m) => t = s
    BY <1>4, <2>1 DEF Waits
  <2> QED
    BY <1>2, <1>4, <2>1, <2>2 DEF Honest, Has
<1>5. CASE Answered(w) /\ seen[s] = "route-refused"
  <2>1. /\ walk[w].pc \in {"next", "sent"} /\ NextRoute(w)
        /\ walk[w].route < Routes => outbox' = outbox \/ WriteCopy(w)
    BY <1>5 DEF Answered
  <2> QED
    BY <1>2, <1>4, <1>5, <2>1, NextRouteInv DEF NotTaken
<1>6. CASE Answered(w) /\ seen[s] = "error"
  <2>1. Conclude(w, "ambiguous", TRUE) /\ muddled' = muddled \cup {m} /\ mirrored' = mirrored
    BY <1>6 DEF Answered
  <2>2. "ambiguous" \in OutStates \ {"unsent"} /\ TRUE \in BOOLEAN
    BY DEF OutStates
  <2>3. /\ muddled \subseteq muddled' /\ muddled' \subseteq muddled \cup {m} /\ m \in muddled'
        /\ mirrored \subseteq mirrored' /\ mirrored' \subseteq mirrored \cup {m}
    BY <2>1
  <2>4. \A t \in Serves : \/ pc'[t] = pc[t] /\ job'[t] = job[t] /\ seen'[t] = seen[t]
                          \/ t = walk[w].serve /\ pc'[t] = "idle"
    BY <1>2
  <2> QED
    BY <1>0, <1>2, <2>1, <2>2, <2>3, <2>4, ConcludeInv
<1>7. CASE Answered(w) /\ seen[s] \notin {"route-refused", "error"}
  <2>1. SettleAs(w, MapState(seen[s]))
    BY <1>7 DEF Answered
  <2>2. /\ MapState(seen[s]) \in OutStates \ {"unsent", "ambiguous"}
        /\ MapState(seen[s]) = "deferred" => seen[s] \in NotTaken
    BY <1>3, <1>7, MapStateFacts DEF NotTaken
  <2> QED
    BY <1>0, <1>2, <1>4, <2>1, <2>2, SettleInv
<1>8. CASE ResendAnswered(w)
  <2> DEFINE v == IF seen[s] \in {"route-refused", "error"} THEN "accepted" ELSE MapState(seen[s])
  <2>1. SettleAs(w, v) /\ walk[w].amb
    BY <1>1, <1>8 DEF ResendAnswered
  <2>2. v \in OutStates \ {"unsent", "ambiguous"}
    BY <1>3, MapStateFacts DEF OutStates, States
  <2>3. ~Hopeful(w)
    BY <2>1 DEF Hopeful
  <2> HIDE DEF v
  <2> QED
    BY <1>0, <1>2, <2>1, <2>2, <2>3, SettleInv
<1> QED
  BY <1>5, <1>6, <1>7, <1>8

\* The receiver is asked what it knows of the message.
LEMMA WalkAsks ==
  ASSUME DataTypes, SenderTypes, OwnServe, SenderSound, NEW w \in Walkers, AskReceipt(w),
         crashes' = crashes
  PROVE  SenderTypes' /\ OwnServe' /\ SenderSound'
<1>0. Walking(w) /\ walk[w].pc = "ask"
  BY DEF AskReceipt, Walking
<1>1. /\ walk[w] \in WalkRecord /\ walk \in [Walkers -> WalkRecord]
      /\ walk[w].msg \in Sent /\ walk[w].route \in 1 .. Routes
      /\ walk[w].amb /\ walk[w].serve = Nobody
  BY <1>0, WalkFacts
<1>2. UNCHANGED <<pc, job, seen, claimed>>
  BY DEF AskReceipt, hist
<1> PICK m \in Sent : walk[w].msg = m
  BY <1>1
<1>3. CASE ledger[m] = "none"
  <2> DEFINE x == [walk[w] EXCEPT !.pc = "resend"]
  <2>1. walk' = [walk EXCEPT ![w] = x] /\ UNCHANGED <<outbox, mirrored, muddled>>
    BY <1>1, <1>3 DEF AskReceipt
  <2>2. /\ x \in WalkRecord /\ x.msg = m /\ x.pc = "resend" /\ x.amb
        /\ x.route = walk[w].route /\ x.state = walk[w].state /\ x.serve = Nobody
    BY <1>1 DEF WalkRecord, WalkPC
  <2> HIDE DEF x
  <2> QED
    BY <1>0, <1>1, <1>2, <2>1, <2>2, ContinueInv
<1>4. CASE ledger[m] # "none"
  <2>1. SettleAs(w, MapState(Reconciled(m)))
    BY <1>4 DEF AskReceipt
  <2>2. Reconciled(m) \in States \ {"none"}
    BY <1>4, ReconciledFacts, SenderConstants
  <2>3. MapState(Reconciled(m)) \in OutStates \ {"unsent", "ambiguous"}
    BY <2>2, MapStateFacts DEF Replies, States
  <2>4. ~Hopeful(w)
    BY <1>1 DEF Hopeful
  <2> QED
    BY <1>0, <1>2, <2>1, <2>3, <2>4, SettleInv
<1> QED
  BY <1>3, <1>4


\* The sending process dies.
LEMMA WalkDies ==
  ASSUME SenderTypes, OwnServe, SenderSound, NEW w \in Walkers, WalkCrash(w),
         crashes' \in 0 .. MaxCrashes
  PROVE  SenderTypes' /\ OwnServe' /\ SenderSound'
<1> USE DEF ledgerVars, hist
<1>0. Walking(w)
  BY DEF WalkCrash, Walking
<1>1. /\ walk \in [Walkers -> WalkRecord] /\ walk[w].msg \in Sent
      /\ walk[w].msg \notin muddled /\ walk[w].pc = "next" /\ Hopeful(w) => Fresh(walk[w].msg)
  BY <1>0, WalkFacts
<1> PICK m \in Sent : walk[w].msg = m
  BY <1>1
<1>2. /\ walk'[w] = Resting /\ \A v \in Walkers \ {w} : walk'[v] = walk[v]
      /\ walk' \in [Walkers -> WalkRecord]
  BY <1>1, RestingTyped DEF WalkCrash, WalkRecord
<1>3. ~Walking(w)' /\ walk'[w].serve = Nobody /\ walk'[w].pc = "idle"
  BY <1>2, RestingTyped DEF Walking
<1>4. SenderTypes'
  <2>1. \A v \in Walkers : Walking(v)' => /\ walk'[v].msg \in Sent
                                          /\ walk'[v].route \in 1 .. Routes
                                          /\ walk'[v].state \in Retried
    BY <1>2, <1>3 DEF SenderTypes, Walking
  <2> QED
    BY <1>1, <1>2, <2>1 DEF SenderTypes, WalkRecord, WalkCrash
<1>5. OwnServe'
  BY <1>2, <1>3, OthersOwnServe DEF WalkCrash
<1>6. \A n \in Sent \ {m} : n \notin muddled' => Agrees(n)' /\ Rests(n)' /\ Waits(n)'
  <2>1. \A s \in Serves, n \in Sent \ {m} :
          /\ Has(s, n)' <=> Has(s, n)
          /\ Has(s, n) => pc'[s] = pc[s] /\ seen'[s] = seen[s]
    BY DEF Has, WalkCrash
  <2>2. UNCHANGED <<claimed, outbox, mirrored>> /\ muddled \subseteq muddled'
    BY DEF WalkCrash
  <2> QED
    BY <1>2, <1>3, <2>1, <2>2, OthersSound
<1>7. ASSUME m \notin muddled' PROVE Agrees(m)' /\ Rests(m)' /\ Waits(m)'
  <2>1. m \notin muddled /\ walk[w].pc = "next" /\ UNCHANGED <<claimed, outbox, mirrored, pc, job>>
    BY <1>7 DEF WalkCrash
  <2>2. Agrees(m) /\ Walks(w, m)
    BY <1>0, <2>1 DEF SenderSound, Walks
  <2>3. \A v \in Walkers : ~Walks(v, m)'
    BY <1>2, <1>3, <2>2 DEF Agrees, Walks, Walking
  <2>4. outbox[m].state = walk[w].state /\ outbox[m].amb = walk[w].amb
    BY <2>1, <2>2 DEF Agrees
  <2>5. walk[w].state \in Retried
    BY <1>0 DEF SenderTypes
  <2>6. Unsent(outbox[m]) => Fresh(m)
    BY <1>1, <2>1, <2>4, <2>5 DEF Unsent, Hopeful, Retried
  <2>7. Rests(m)'
    BY <2>1, <2>6 DEF Rests, Fresh, Has, Unsent
  <2> QED
    BY <2>1, <2>2, <2>3, <2>7 DEF Agrees, Waits
<1> QED
  BY <1>4, <1>5, <1>6, <1>7 DEF SenderSound

\* A step that only ends serve processes no walk waits for, or starts one on a
\* message that is mirrored, or lets a walk lose the process that died.
LEMMA ServesChange ==
  ASSUME SenderTypes, OwnServe, SenderSound, UNCHANGED <<outbox, mirrored, muddled, claimed>>,
         crashes' \in 0 .. MaxCrashes, walk' \in [Walkers -> WalkRecord],
         \A w \in Walkers :
           /\ walk'[w].pc = walk[w].pc /\ walk'[w].msg = walk[w].msg
           /\ walk'[w].amb = walk[w].amb /\ walk'[w].state = walk[w].state
           /\ walk'[w].route = walk[w].route
           /\ walk'[w].serve \in {walk[w].serve, Nobody}
           /\ \A s \in Serves : walk[w].serve = s /\ pc'[s] # "idle" => walk'[w].serve = s
           /\ walk'[w].serve # Nobody => pc'[walk'[w].serve] # "idle",
         \A s \in Serves :
           \/ pc'[s] = pc[s] /\ job'[s] = job[s] /\ seen'[s] = seen[s]
           \/ pc'[s] = "idle"
           \/ pc[s] = "idle" /\ job'[s] \in mirrored
  PROVE  SenderTypes' /\ OwnServe' /\ SenderSound'
<1>1. SenderTypes'
  BY DEF SenderTypes, Walking, WalkRecord
<1>2. OwnServe'
  <2>1. ASSUME NEW w \in Walkers, walk'[w].serve # Nobody
        PROVE  /\ walk'[w].pc \in {"sent", "resent"} /\ walk'[w].serve = walk[w].serve
               /\ pc'[walk'[w].serve] # "idle" /\ job'[walk'[w].serve] = walk'[w].msg
    <3>1. walk'[w].serve = walk[w].serve /\ walk[w].serve \in Serves
      BY <2>1 DEF SenderTypes
    <3> QED
      BY <2>1, <3>1 DEF OwnServe
  <2> QED
    BY <2>1 DEF OwnServe
<1>3. ASSUME NEW m \in Sent \ muddled PROVE Agrees(m)' /\ Rests(m)' /\ Waits(m)'
  <2>1. Agrees(m) /\ Rests(m) /\ Waits(m)
    BY <1>3 DEF SenderSound
  <2>2. \A w \in Walkers : (Walks(w, m)' <=> Walks(w, m)) /\ (Hopeful(w)' <=> Hopeful(w))
    BY DEF Walks, Walking, Hopeful
  <2>3. Agrees(m)'
    BY <2>1, <2>2 DEF Agrees
  <2>4. m \notin mirrored => \A s \in Serves : Has(s, m)' => Has(s, m)
    BY DEF Has
  <2>5. Rests(m)'
    BY <2>1, <2>2, <2>4 DEF Rests, Fresh, Unsent
  <2>6. ASSUME NEW w \in Walkers, Walks(w, m), Hopeful(w)
        PROVE  /\ m \notin mirrored'
               /\ \A s \in Serves : Has(s, m)' => s = walk'[w].serve
               /\ walk'[w].pc = "next" => m \notin claimed'
               /\ Honest(walk[w].serve, m)'
    <3>1. /\ m \notin mirrored
          /\ \A s \in Serves : Has(s, m) => s = walk[w].serve
          /\ walk[w].pc = "next" => m \notin claimed
          /\ Honest(walk[w].serve, m)
      BY <2>1, <2>6 DEF Waits
    <3>2. \A s \in Serves : Has(s, m)' => s = walk'[w].serve
      BY <2>4, <3>1 DEF Has
    <3>3. ASSUME m \in claimed, walk'[w].serve # Nobody
          PROVE  /\ pc'[walk'[w].serve] # "arrived"
                 /\ ~(pc'[walk'[w].serve] = "done" /\ seen'[walk'[w].serve] \in NotTaken)
      <4>1. walk'[w].serve = walk[w].serve /\ walk[w].serve \in Serves
        BY <3>3 DEF SenderTypes
      <4>2. pc[walk[w].serve] # "idle" /\ pc'[walk[w].serve] # "idle"
        BY <3>3, <4>1 DEF OwnServe
      <4> QED
        BY <3>1, <3>3, <4>1, <4>2 DEF Honest
    <3>4. Honest(walk[w].serve, m)'
      BY <3>3 DEF Honest
    <3> QED
      BY <3>1, <3>2, <3>4
  <2>7. Waits(m)'
    BY <2>2, <2>6 DEF Waits
  <2> QED
    BY <2>3, <2>5, <2>7
<1> QED
  BY <1>1, <1>2, <1>3 DEF SenderSound

\* The mirror's copy arrives, a serve process exits, or a process of the host
\* dies.
LEMMA HostEvents ==
  ASSUME ProcTypes, SenderTypes, OwnServe, SenderSound,
         \/ /\ \E s \in Serves : ServeExit(s) \/ \E m \in Sent : MirrorArrives(s, m)
            /\ crashes' = crashes
         \/ /\ \E p \in Procs : HostCrash(p)
            /\ crashes' \in 0 .. MaxCrashes
  PROVE  SenderTypes' /\ OwnServe' /\ SenderSound'
<1> USE DEF senderVars
<1>0. walk \in [Walkers -> WalkRecord] /\ crashes' \in 0 .. MaxCrashes
  BY DEF SenderTypes, WalkRecord
<1>1. ASSUME NEW s \in Serves, ServeExit(s) PROVE SenderTypes' /\ OwnServe' /\ SenderSound'
  <2>1. /\ pc'[s] = "idle" /\ claimed' = claimed
        /\ \A t \in Serves \ {s} : pc'[t] = pc[t] /\ job'[t] = job[t] /\ seen'[t] = seen[t]
    BY <1>1, ExitFacts DEF ServeExit
  <2>2. UNCHANGED <<outbox, mirrored, muddled, walk>> /\ \A w \in Walkers : walk[w].serve # s
    BY <1>1 DEF ServeExit
  <2>3. \A w \in Walkers : walk[w].serve # Nobody => pc'[walk[w].serve] # "idle"
    BY <2>1, <2>2 DEF OwnServe, SenderTypes
  <2> QED
    BY <1>0, <2>1, <2>2, <2>3, ServesChange
<1>2. ASSUME NEW s \in Serves, NEW m \in Sent, MirrorArrives(s, m)
      PROVE  SenderTypes' /\ OwnServe' /\ SenderSound'
  <2>1. /\ pc[s] = "idle" /\ pc'[s] = "arrived" /\ job'[s] = m /\ claimed' = claimed
        /\ \A t \in Serves \ {s} : pc'[t] = pc[t] /\ job'[t] = job[t] /\ seen'[t] = seen[t]
    BY <1>2, ArriveFacts DEF MirrorArrives
  <2>2. UNCHANGED <<outbox, mirrored, muddled, walk>> /\ m \in mirrored
    BY <1>2 DEF MirrorArrives
  <2>3. \A w \in Walkers : walk[w].serve # Nobody => pc'[walk[w].serve] # "idle"
    BY <2>1, <2>2 DEF OwnServe, SenderTypes
  <2> QED
    BY <1>0, <2>1, <2>2, <2>3, ServesChange
<1>3. ASSUME NEW p \in Procs, HostCrash(p) PROVE SenderTypes' /\ OwnServe' /\ SenderSound'
  <2>1. /\ pc'[p] = "idle" /\ claimed' = claimed
        /\ \A t \in Procs \ {p} : pc'[t] = pc[t] /\ job'[t] = job[t] /\ seen'[t] = seen[t]
    BY <1>3 DEF HostCrash, LedgerCrash, Goto, Forget, ProcTypes
  <2>2. /\ UNCHANGED <<outbox, mirrored, muddled>>
        /\ walk' = [w \in Walkers |-> IF walk[w].serve = p
                      THEN [walk[w] EXCEPT !.serve = Nobody] ELSE walk[w]]
    BY <1>3 DEF HostCrash
  <2>3. walk' \in [Walkers -> WalkRecord]
    BY <1>0, <2>2 DEF WalkRecord
  <2>4. \A w \in Walkers :
          /\ walk'[w].pc = walk[w].pc /\ walk'[w].msg = walk[w].msg
          /\ walk'[w].amb = walk[w].amb /\ walk'[w].state = walk[w].state
          /\ walk'[w].route = walk[w].route
          /\ walk'[w].serve = IF walk[w].serve = p THEN Nobody ELSE walk[w].serve
    BY <1>0, <2>2 DEF WalkRecord
  <2>5. \A w \in Walkers : walk'[w].serve # Nobody => pc'[walk'[w].serve] # "idle"
    BY <2>1, <2>4, Constants DEF OwnServe, SenderTypes
  <2>6. \A s \in Serves : \/ pc'[s] = pc[s] /\ job'[s] = job[s] /\ seen'[s] = seen[s]
                          \/ pc'[s] = "idle"
    BY <2>1, Constants
  <2>7. \A w \in Walkers :
          /\ walk'[w].serve \in {walk[w].serve, Nobody}
          /\ \A s \in Serves : walk[w].serve = s /\ pc'[s] # "idle" => walk'[w].serve = s
    BY <2>1, <2>4
  <2> QED
    BY <1>0, <2>1, <2>2, <2>3, <2>4, <2>5, <2>6, <2>7, ServesChange
<1> QED
  BY <1>1, <1>2, <1>3

-----------------------------------------------------------------------------
(***************************************************************************)
(* The theorems.                                                           *)
(***************************************************************************)

\* No step but the host's own makes an answer.
LEMMA NoNewAnswer ==
  ASSUME ProcTypes, SenderTypes, Answering,
         \/ \E m \in Sent : WalkSend(m) \/ WalkPump(m)
         \/ \E w \in Walkers : Walk(w)
         \/ \E s \in Serves : ServeExit(s) \/ \E m \in Sent : MirrorArrives(s, m)
         \/ Crash
         \/ UNCHANGED vars
  PROVE  Answering'
<1>1. \/ UNCHANGED <<pc, seen>>
      \/ \E s \in Serves : Exit(s) \/ \E m \in Sent : Arrive(s, m)
      \/ \E p \in Procs : LedgerCrash(p)
  <2>1. CASE \E m \in Sent : WalkSend(m) \/ WalkPump(m)
    BY <2>1 DEF WalkSend, WalkPump, ledgerVars
  <2>2. ASSUME NEW w \in Walkers, Answered(w) \/ ResendAnswered(w)
        PROVE  \E s \in Serves : Exit(s)
    BY <2>2 DEF Answered, ResendAnswered, SenderTypes
  <2>3. ASSUME NEW w \in Walkers, NEW s \in Serves, Attempt(w, s) \/ Resend(w, s)
        PROVE  \E m \in Sent : Arrive(s, m)
    BY <2>3 DEF Attempt, Resend, SenderTypes, Walking
  <2>4. ASSUME NEW w \in Walkers,
               \/ NotDelivered(w) \/ FrameBreaks(w) \/ NoAnswer(w) \/ AskReceipt(w)
               \/ AskFails(w) \/ StaysAmbiguous(w)
        PROVE  UNCHANGED <<pc, seen>>
    BY <2>4 DEF NotDelivered, FrameBreaks, NoAnswer, AskReceipt, AskFails, StaysAmbiguous,
       ledgerVars
  <2>5. CASE \E s \in Serves : ServeExit(s) \/ \E m \in Sent : MirrorArrives(s, m)
    BY <2>5 DEF ServeExit, MirrorArrives
  <2>6. CASE Crash
    BY <2>6 DEF Crash, HostCrash, WalkCrash, ledgerVars
  <2>7. CASE UNCHANGED vars
    BY <2>7 DEF vars, ledgerVars
  <2> QED
    BY <2>1, <2>2, <2>3, <2>4, <2>5, <2>6, <2>7 DEF Walk
<1>2. \A s \in Serves : pc'[s] = "done" => pc[s] = "done" /\ seen'[s] = seen[s]
  <2>1. CASE UNCHANGED <<pc, seen>>
    BY <2>1
  <2>2. ASSUME NEW s \in Serves, Exit(s) \/ \E m \in Sent : Arrive(s, m)
        PROVE  \A t \in Serves : pc'[t] = "done" => pc[t] = "done" /\ seen'[t] = seen[t]
    BY <2>2, ExitFacts, ArriveFacts
  <2>3. ASSUME NEW p \in Procs, LedgerCrash(p)
        PROVE  \A t \in Serves : pc'[t] = "done" => pc[t] = "done" /\ seen'[t] = seen[t]
    BY <2>3, Constants DEF LedgerCrash, Goto, Forget, ProcTypes
  <2> QED
    BY <1>1, <2>1, <2>2, <2>3
<1> QED
  BY <1>2 DEF Answering

\* The invariant is kept by every step.
LEMMA StepInv ==
  ASSUME MessagingInv, [Next]_vars
  PROVE  MessagingInv'
<1>0. ProcTypes /\ DataTypes /\ LedgerInv /\ SenderTypes /\ Answering /\ OwnServe /\ SenderSound
  BY DEF MessagingInv, LedgerInv
<1>1. LedgerInv'
  BY <1>0, NextIsHost, HostInv, StutterInv
<1>2. CASE Receiver(Msgs, Procs) /\ UNCHANGED <<senderVars, crashes>>
  <2>1. SenderView /\ Answering'
    BY <1>0, <1>2, ServeView, OtherView DEF Receiver, MsgStep
  <2> QED
    BY <1>0, <1>1, <1>2, <2>1, HostKeepsSender DEF MessagingInv
<1>3. CASE (\E m \in Sent : WalkSend(m) \/ WalkPump(m)) /\ crashes' = crashes
  BY <1>0, <1>1, <1>3, WalkBegins, NoNewAnswer DEF MessagingInv
<1>4. CASE (\E w \in Walkers : Walk(w)) /\ crashes' = crashes
  <2>1. SenderTypes' /\ OwnServe' /\ SenderSound'
    BY <1>0, <1>4, WalkAlone, WalkSends, WalkIsAnswered, WalkAsks DEF Walk
  <2> QED
    BY <1>0, <1>1, <1>4, <2>1, NoNewAnswer DEF MessagingInv
<1>5. CASE /\ \E s \in Serves : ServeExit(s) \/ \E m \in Sent : MirrorArrives(s, m)
           /\ crashes' = crashes
  BY <1>0, <1>1, <1>5, HostEvents, NoNewAnswer DEF MessagingInv
<1>6. CASE Crash
  <2>1. crashes' \in 0 .. MaxCrashes
    BY <1>0, <1>6, SenderConstants DEF Crash, SenderTypes
  <2>2. SenderTypes' /\ OwnServe' /\ SenderSound'
    BY <1>0, <1>6, <2>1, HostEvents, WalkDies DEF Crash
  <2> QED
    BY <1>0, <1>1, <1>6, <2>2, NoNewAnswer DEF MessagingInv
<1>7. CASE UNCHANGED vars
  <2>1. SenderView /\ UNCHANGED <<senderVars, crashes>>
    BY <1>7 DEF vars, SenderView, ledgerVars, hist
  <2> QED
    BY <1>0, <1>1, <1>7, <2>1, HostKeepsSender, NoNewAnswer DEF MessagingInv
<1> QED
  BY <1>2, <1>3, <1>4, <1>5, <1>6, <1>7 DEF Next

\* The invariant holds at first.
LEMMA InitInv == Init => MessagingInv
<1> SUFFICES ASSUME Init PROVE MessagingInv
  OBVIOUS
<1> USE DEF Init, SenderInit
<1>1. LedgerInv
  BY LedgerInitInv
<1>2. \A w \in Walkers : walk[w] = Resting /\ walk[w].pc = "idle" /\ walk[w].serve = Nobody
  BY RestingTyped
<1>3. SenderTypes
  <2>1. outbox \in [Sent -> [state : OutStates, amb : BOOLEAN]]
    BY DEF OutStates
  <2>2. \A w \in Walkers : ~Walking(w)
    BY <1>2 DEF Walking
  <2> QED
    BY <1>2, <2>1, <2>2, RestingTyped, SenderConstants DEF SenderTypes
<1>4. Answering
  BY Constants DEF LedgerInit, Answering
<1>5. OwnServe
  BY <1>2 DEF OwnServe
<1>6. SenderSound
  <2> SUFFICES ASSUME NEW m \in Sent PROVE Agrees(m) /\ Rests(m) /\ Waits(m)
    BY DEF SenderSound
  <2>1. \A w \in Walkers : ~Walks(w, m)
    BY <1>2 DEF Walks, Walking
  <2>2. Fresh(m)
    BY Constants DEF LedgerInit, Fresh, Has
  <2> QED
    BY <2>1, <2>2 DEF Agrees, Rests, Waits
<1> QED
  BY <1>1, <1>3, <1>4, <1>5, <1>6 DEF MessagingInv

\* MessagingInv is an inductive invariant of the whole system.
THEOREM MessagingInvariant == Spec => []MessagingInv
BY InitInv, StepInv, PTL DEF Spec

\* The outbox, the walks and the receiver's answers keep their types.
THEOREM TypeCorrect == Spec => []TypeOK
<1>1. MessagingInv => TypeOK
  BY DEF MessagingInv, SenderTypes, TypeOK, WalkPC
<1> QED
  BY <1>1, MessagingInvariant, PTL

\* A message reaches the coordinator at most once over all routes, walks, resends,
\* mirrors and crashes of both hosts, unless two recoveries of its dead claim
\* overlapped.
THEOREM TypedOnceHolds == Spec => []TypedOnce
<1>1. MessagingInv => TypedOnce
  BY DEF MessagingInv, LedgerInv, DataTypes, OneCopyEach, OneCopy, TypedOnce
<1> QED
  BY <1>1, MessagingInvariant, PTL

\* What the sender itself concludes to be expired, and reports as undelivered, was
\* not typed, unless its records are muddled.
THEOREM ExpiredIsUntypedHolds == Spec => []ExpiredIsUntyped
<1>1. MessagingInv => ExpiredIsUntyped
  <2> SUFFICES ASSUME MessagingInv, NEW m \in Sent \ muddled, outbox[m].state = "expired"
               PROVE  typed[m] = 0
    BY DEF ExpiredIsUntyped
  <2>1. Agrees(m) /\ Rests(m) /\ SenderTypes
    BY DEF MessagingInv, SenderSound
  <2>2. \A w \in Walkers : ~Walks(w, m)
    BY <2>1 DEF Agrees, Walks, SenderTypes, Retried
  <2>3. m \notin claimed
    BY <2>1, <2>2 DEF Rests, Unsent, Fresh
  <2> QED
    BY <2>3, SenderConstants DEF MessagingInv, LedgerInv, ClaimedFirst
<1> QED
  BY <1>1, MessagingInvariant, PTL
=============================================================================
