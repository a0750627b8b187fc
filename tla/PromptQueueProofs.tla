-------------------------- MODULE PromptQueueProofs --------------------------
(***************************************************************************)
(* The theorems of the prompt queue, for every set of items, clients and   *)
(* drainers.  First QueueInv is an invariant: the client steps, the pane,  *)
(* the clock and crashes (the drain's steps are in DrainProofs).  Then,    *)
(* from what each step does to the one document it touches, the parts of   *)
(* PromptQueueInv that the other properties rest on: the pane and the      *)
(* document in hand, the evidence on disk, replays, confirmation, settled  *)
(* items, the batch's order and cancellation.                              *)
(***************************************************************************)
EXTENDS DrainProofs

\* A step of client c touches no drainer and no other client, and takes or frees only its own lock.
ClientFrame(c) ==
  /\ UNCHANGED <<dpc, dpath, dat, todo, recovered>>
  /\ \A e \in Clients \ {c} : cpc'[e] = cpc[e] /\ citem'[e] = citem[e]
  /\ \/ lock' = lock
     \/ lock = Nobody /\ lock' = c
     \/ lock = c /\ lock' = Nobody
  /\ ClientLocked(c)' => lock' = c

\* Nothing disappears.
FilesStay == \A q \in Path : Exists(q) => Exists(q)'

\* What the other processes rely on survives a client step that removes nothing, or that its
\* client takes with the lock.
LEMMA ClientKeeps ==
  ASSUME QueueInv, NEW c \in Clients, ClientFrame(c), TypeOK', OnePhase', EnqueueInv',
         FilesStay \/ ClientLocked(c),
         cpc'[c] \in {"aside", "aside_move"} => WaitingIn(citem[c])' # "none"
  PROVE  QueueInv'
<1>1. \A e \in Clients : ClientLocked(e) => lock = e
  BY DEF QueueInv, LockInv
<1>2. c # Nobody /\ c \notin Drainers /\ Nobody \notin Drainers
  BY ClientAssumption, QueueAssumption, SystemAssumption, DrainAssumption DEF ClientAssumption,
     QueueAssumption, SystemAssumption, DrainAssumption
<1>3. \A e \in Clients \ {c} : ClientLocked(e)' <=> ClientLocked(e)
  BY DEF ClientFrame, ClientLocked
<1>4. LockInv'
  <2>1. ASSUME NEW d \in Drainers, dpc'[d] # "idle" PROVE lock' = d
    BY <2>1, <1>2 DEF ClientFrame, QueueInv, LockInv
  <2>2. ASSUME NEW e \in Clients, ClientLocked(e)' PROVE lock' = e
    <3>1. CASE e = c
      BY <3>1, <2>2 DEF ClientFrame
    <3>2. CASE e # c
      <4>1. lock = e /\ e # Nobody
        BY <1>1, <1>3, <2>2, <3>2, ClientAssumption, QueueAssumption DEF ClientAssumption,
           QueueAssumption
      <4> QED
        BY <3>2, <4>1 DEF ClientFrame
    <3> QED
      BY <3>1, <3>2
  <2> QED
    BY <2>1, <2>2 DEF LockInv
<1>5. ASSUME NEW d \in Drainers PROVE DrainHand(d)'
  <2>1. DrainHand(d)
    BY DEF QueueInv, DrainHandInv
  <2>2. CASE ClientLocked(c)
    <3>1. dpc[d] = "idle"
      BY <1>1, <1>2, <2>2 DEF QueueInv, LockInv
    <3> QED
      BY <2>1, <3>1 DEF ClientFrame, DrainHand, InHandAtPath, InHandInflight, InHandAside,
         Recovering
  <2>3. CASE FilesStay
    <3>1. \A i \in recovered[d] : <<"failed", i>> \in Path
      BY DrainTypes DEF Path, Phases
    <3>2. <<"failed", Item(d)>> \in Path
      BY DrainTypes DEF Path, Phases
    <3>3. UNCHANGED <<dpc, dpath, dat, todo, recovered>>
      BY DEF ClientFrame
    <3> QED
      BY <2>1, <2>3, <3>1, <3>2, <3>3, DrainTypes DEF FilesStay, DrainHand, Item, Inflight
  <2> QED
    BY <2>2, <2>3
<1>6. ASSUME NEW e \in Clients, cpc'[e] \in {"aside", "aside_move"}
      PROVE  WaitingIn(citem[e])' # "none"
  <2>1. CASE e = c
    BY <1>6, <2>1
  <2>2. CASE e # c
    <3>1. cpc[e] \in {"aside", "aside_move"} /\ citem'[e] = citem[e]
      BY <1>6, <2>2 DEF ClientFrame
    <3>2. FilesStay
      BY <1>1, <2>2, <3>1 DEF ClientLocked
    <3>3. WaitingIn(citem[e]) # "none" /\ citem[e] \in Items
      BY <3>1 DEF QueueInv, ClientHandInv, TypeOK, ClientTypeOK
    <3>4. <<"inbox", citem[e]>> \in Path /\ <<"inbox.v2", citem[e]>> \in Path
      BY <3>3 DEF Path, Phases, Lanes
    <3> QED
      BY <3>1, <3>2, <3>3, <3>4 DEF FilesStay, WaitingIn
  <2> QED
    BY <2>1, <2>2
<1> QED
  BY <1>4, <1>5, <1>6 DEF QueueInv, DrainHandInv, ClientHandInv

\* A client step that touches no file: what the enqueue of c relies on is all that can change.
LEMMA ClientStill ==
  ASSUME QueueInv, NEW c \in Clients, ClientFrame(c), TypeOK', UNCHANGED <<file, live>>,
         used \subseteq used',
         cpc'[c] = "create" => ~Present(citem'[c]),
         Enqueuing(c)' /\ citem'[c] \in Generated =>
           /\ citem'[c] \in used'
           /\ ~Present(citem'[c])
           /\ \A e \in Clients \ {c} : Enqueuing(e) => citem[e] # citem'[c],
         cpc'[c] \in {"aside", "aside_move"} => WaitingIn(citem'[c]) # "none"
  PROVE  QueueInv'
<1>1. \A i \in Items : Present(i)' <=> Present(i)
  BY DEF Present, Exists
<1>2. \A q \in Path : Exists(q)' <=> Exists(q)
  BY DEF Exists
<1>3. OnePhase'
  BY DEF QueueInv, OnePhase, Present, Exists
<1>4. \A e \in Clients : citem'[e] \in Items
  BY DEF TypeOK, ClientTypeOK
<1>5. \A e \in Clients \ {c} : Enqueuing(e)' <=> Enqueuing(e)
  BY DEF ClientFrame, Enqueuing
<1>6. EnqueueInv'
  <2>1. ASSUME NEW e \in Clients
        PROVE  /\ cpc'[e] = "create" => ~Present(citem[e])'
               /\ Enqueuing(e)' /\ citem'[e] \in Generated =>
                    citem'[e] \in used' /\ ~Present(citem[e])'
    BY <1>1, <1>4, <1>5 DEF ClientFrame, QueueInv, EnqueueInv
  <2>2. ASSUME NEW e \in Clients, NEW f \in Clients, Enqueuing(e)', Enqueuing(f)',
               citem'[e] = citem'[f], citem'[e] \in Generated
        PROVE  e = f
    BY <2>2, <1>5 DEF ClientFrame, QueueInv, EnqueueInv
  <2>3. \A i \in Generated \ used' : ~Present(i)'
    BY <1>1, ClientAssumption DEF ClientAssumption, QueueInv, EnqueueInv
  <2> QED
    BY <2>1, <2>2, <2>3 DEF EnqueueInv
<1>7. cpc'[c] \in {"aside", "aside_move"} => WaitingIn(citem[c])' # "none"
  BY DEF WaitingIn, Exists
<1> QED
  BY <1>2, <1>3, <1>6, <1>7, ClientKeeps DEF FilesStay

\* The types of a client: what it works on, and the lane an item waits in.
LEMMA ClientTypes ==
  ASSUME QueueInv, NEW c \in Clients
  PROVE  /\ citem[c] \in Items
         /\ LaneOf(citem[c]) \in Lanes
         /\ WaitingIn(citem[c]) # "none" =>
              WaitingIn(citem[c]) \in Lanes /\ Exists(<<WaitingIn(citem[c]), citem[c]>>)
  BY DEF QueueInv, TypeOK, ClientTypeOK, LaneOf, Lanes, WaitingIn

\* The delivery lock is free or belongs to a process that exists; c is not Nobody.
LEMMA ClientLockTypes ==
  ASSUME QueueInv, NEW c \in Clients
  PROVE  /\ lock \in Drainers \cup Clients \cup {Nobody}
         /\ ClientLocked(c) => lock = c
         /\ c # Nobody
  BY ClientAssumption, QueueAssumption DEF QueueInv, TypeOK, LockInv, ClientAssumption,
     QueueAssumption

\* enqueue links its document into place: no other document appears or goes.
LEMMA CreateKeeps ==
  ASSUME QueueInv, NEW c \in Clients, EnqueueCreate(c), ~Exists(<<LaneOf(citem[c]), citem[c]>>),
         UNCHANGED <<drainVars, crashes>>
  PROVE  QueueInv'
<1>1. PICK i \in Items, lane \in Lanes : i = citem[c] /\ lane = LaneOf(i)
  BY ClientTypes
<1>2. /\ Write(<<lane, i>>, NewDoc) /\ PaneForgets(i) /\ live' = live \cup {i}
      /\ Return(c, "queued") /\ Release(c)
      /\ UNCHANGED <<tomb, sidecar, expired, used>>
  BY <1>1 DEF EnqueueCreate, Exists
<1>3. cpc[c] = "create" /\ ~Present(i)
  BY <1>1 DEF EnqueueCreate, QueueInv, EnqueueInv
<1>4. <<lane, i>> \in Path /\ lane \in Phases
  BY DEF Path, Phases
<1>5. /\ FileType'
      /\ \A q \in Path : Exists(q)' <=> (q = <<lane, i>> \/ Exists(q))
  BY <1>2, <1>4, NewDocType, SystemAssumption DEF FileType, Write, Exists, QueueInv, TypeOK,
     SystemAssumption
<1>6. \A j \in Items : \A p \in Phases :
        Exists(<<p, j>>)' <=> ((p = lane /\ j = i) \/ Exists(<<p, j>>))
  BY <1>5 DEF Path
<1>7. \A p \in Phases : Exists(<<p, i>>)' <=> p = lane
  BY <1>3, <1>6 DEF Present
<1>8. \A j \in Items \ {i} : \A p \in Phases : Exists(<<p, j>>)' <=> Exists(<<p, j>>)
  BY <1>6
<1>9. Present(i)' /\ \A j \in Items \ {i} : Present(j)' <=> Present(j)
  BY <1>4, <1>7, <1>8 DEF Present
<1>10. OnePhase'
  BY <1>2, <1>7, <1>8, <1>9 DEF QueueInv, OnePhase
<1>11. TypeOK'
  BY <1>2, <1>5, ClientLockTypes DEF FileType, QueueInv, TypeOK, PaneTypeOK, PaneForgets,
     ClientTypeOK, ClientPc, ClientResult, Return, Release, DrainTypeOK, drainVars
<1>12. cpc'[c] = "idle" /\ \A e \in Clients \ {c} : cpc'[e] = cpc[e]
  BY <1>2 DEF Return, QueueInv, TypeOK, ClientTypeOK
<1>13. ClientFrame(c)
  BY <1>2, <1>12 DEF ClientFrame, ClientLocked, Return, Release, drainVars
<1>14. EnqueueInv'
  <2>1. UNCHANGED <<citem, used>>
    BY <1>2 DEF Return
  <2>2. ASSUME NEW e \in Clients, Enqueuing(e)'
        PROVE  Enqueuing(e) /\ e # c /\ cpc'[e] = cpc[e] /\ citem[e] \in Items
    BY <2>2, <1>12 DEF Enqueuing, QueueInv, TypeOK, ClientTypeOK
  <2>3. ASSUME NEW e \in Clients, Enqueuing(e)', cpc'[e] = "create" \/ citem[e] \in Generated
        PROVE  citem[e] # i
    <3>1. CASE i \in Generated
      BY <3>1, <2>2, <2>3, <1>1, <1>3 DEF Enqueuing, QueueInv, EnqueueInv
    <3>2. CASE i \notin Generated
      <4>1. lock = c
        BY <3>2, <1>1, <1>3, ClientLockTypes DEF ClientLocked
      <4> QED
        BY <3>2, <4>1, <2>2, <2>3, ClientLockTypes DEF ClientLocked, Enqueuing
    <3> QED
      BY <3>1, <3>2
  <2>4. \A j \in Generated \ used : j # i
    BY <1>1, <1>3 DEF QueueInv, EnqueueInv, Enqueuing
  <2>5. ASSUME NEW e \in Clients
        PROVE  /\ cpc'[e] = "create" => ~Present(citem[e])'
               /\ Enqueuing(e)' /\ citem'[e] \in Generated =>
                    citem'[e] \in used' /\ ~Present(citem[e])'
    BY <1>9, <2>1, <2>2, <2>3 DEF QueueInv, EnqueueInv, Enqueuing
  <2>6. \A j \in Generated \ used' : ~Present(j)'
    BY <1>9, <2>1, <2>4, ClientAssumption DEF ClientAssumption, QueueInv, EnqueueInv
  <2> QED
    BY <2>1, <2>2, <2>5, <2>6 DEF QueueInv, EnqueueInv
<1> QED
  BY <1>5, <1>10, <1>11, <1>12, <1>13, <1>14, ClientKeeps DEF FilesStay

\* withdraw deletes the only document of its item, which then is in no phase.
LEMMA RemoveKeeps ==
  ASSUME QueueInv, NEW c \in Clients, WithdrawRemove(c), NEW lane \in Lanes,
         lane = WaitingIn(citem[c]), Remove(<<lane, citem[c]>>), live' = live \ {citem[c]},
         Return(c, "withdrawn"), UNCHANGED <<drainVars, crashes>>
  PROVE  QueueInv'
<1>1. PICK i \in Items : i = citem[c]
  BY ClientTypes
<1>2. Exists(<<lane, i>>) /\ <<lane, i>> \in Path /\ lane \in Phases
  BY <1>1, ClientTypes DEF Lanes, Path, Phases
<1>3. /\ FileType'
      /\ \A q \in Path : Exists(q)' <=> (Exists(q) /\ q # <<lane, i>>)
  BY <1>1, <1>2 DEF FileType, Remove, Exists, QueueInv, TypeOK
<1>4. \A p \in Phases : ~Exists(<<p, i>>)'
  BY <1>2, <1>3 DEF QueueInv, OnePhase, Path
<1>5. \A j \in Items \ {i} : \A p \in Phases : Exists(<<p, j>>)' <=> Exists(<<p, j>>)
  BY <1>3 DEF Path
<1>6. ~Present(i)' /\ \A j \in Items \ {i} : Present(j)' <=> Present(j)
  BY <1>4, <1>5 DEF Present
<1>7. OnePhase'
  BY <1>1, <1>4, <1>5, <1>6 DEF QueueInv, OnePhase
<1>8. TypeOK'
  BY <1>3, ClientLockTypes DEF WithdrawRemove, FileType, QueueInv, TypeOK, PaneTypeOK, paneVars,
     ClientTypeOK, ClientPc, ClientResult, Return, Release, DrainTypeOK, drainVars
<1>9. cpc'[c] = "idle" /\ UNCHANGED <<citem, used>> /\ \A e \in Clients \ {c} : cpc'[e] = cpc[e]
  BY DEF WithdrawRemove, Return, QueueInv, TypeOK, ClientTypeOK
<1>10. ClientFrame(c) /\ ClientLocked(c)
  BY <1>9 DEF WithdrawRemove, ClientFrame, ClientLocked, Return, Release, drainVars
<1>11. \A e \in Clients : citem[e] \in Items /\ (Enqueuing(e)' => Enqueuing(e) /\ cpc'[e] = cpc[e])
  BY <1>9 DEF Enqueuing, QueueInv, TypeOK, ClientTypeOK
<1>12. EnqueueInv'
  <2>1. ASSUME NEW e \in Clients
        PROVE  /\ cpc'[e] = "create" => ~Present(citem[e])'
               /\ Enqueuing(e)' /\ citem'[e] \in Generated =>
                    citem'[e] \in used' /\ ~Present(citem[e])'
    BY <1>6, <1>9, <1>11 DEF QueueInv, EnqueueInv, Enqueuing
  <2>2. \A j \in Generated \ used' : ~Present(j)'
    BY <1>6, <1>9, ClientAssumption DEF ClientAssumption, QueueInv, EnqueueInv
  <2> QED
    BY <1>9, <1>11, <2>1, <2>2 DEF QueueInv, EnqueueInv
<1> QED
  BY <1>7, <1>8, <1>9, <1>10, <1>12, ClientKeeps

\* Setting a waiting item aside rewrites or moves its one document, with the lock.
LEMMA AsideKeeps ==
  ASSUME QueueInv, NEW c \in Clients, ClientFrame(c), ClientLocked(c), ~Enqueuing(c)',
         FileEffect, TypeOK', UNCHANGED <<live, used>>,
         cpc'[c] \in {"aside", "aside_move"} => WaitingIn(citem[c])' # "none"
  PROVE  QueueInv'
<1>1. OnePhase' /\ \A i \in Items : Present(i)' <=> Present(i)
  BY SameOnePhase, MovedOnePhase DEF FileEffect, QueueInv
<1>2. \A e \in Clients : citem[e] \in Items
  BY DEF QueueInv, TypeOK, ClientTypeOK
<1>3. \A e \in Clients : Enqueuing(e)' =>
        e # c /\ Enqueuing(e) /\ cpc'[e] = cpc[e] /\ citem'[e] = citem[e]
  BY DEF Enqueuing, ClientFrame
<1>4. EnqueueInv'
  <2>1. ASSUME NEW e \in Clients
        PROVE  /\ cpc'[e] = "create" => ~Present(citem[e])'
               /\ Enqueuing(e)' /\ citem'[e] \in Generated =>
                    citem'[e] \in used' /\ ~Present(citem[e])'
    BY <1>1, <1>2, <1>3 DEF QueueInv, EnqueueInv, Enqueuing
  <2>2. \A j \in Generated \ used' : ~Present(j)'
    BY <1>1, ClientAssumption DEF ClientAssumption, QueueInv, EnqueueInv
  <2> QED
    BY <1>3, <2>1, <2>2 DEF QueueInv, EnqueueInv
<1> QED
  BY <1>1, <1>4, ClientKeeps

\* Every step of a client keeps QueueInv.
LEMMA ClientStepKeeps ==
  ASSUME QueueInv, NEW c \in Clients, ClientStep(c), UNCHANGED <<drainVars, crashes>>
  PROVE  QueueInv'
<1>1. ASSUME NEW i \in Items, EnqueueSerialized(c, i) PROVE QueueInv'
  <2>1. TypeOK'
    BY <1>1, ClientLockTypes, ClientAssumption DEF ClientAssumption, EnqueueSerialized, Start,
       Take, QueueInv, TypeOK, PaneTypeOK, ClientTypeOK, ClientPc, ClientResult, CancelOutcome,
       DrainTypeOK, queueVars, paneVars, drainVars
  <2>2. ClientFrame(c)
    BY <1>1, ClientLockTypes DEF EnqueueSerialized, Start, Take, ClientFrame, ClientLocked,
       drainVars, QueueInv, TypeOK, ClientTypeOK, queueVars
  <2> QED
    BY <1>1, <2>1, <2>2, ClientStill DEF EnqueueSerialized, Start, Take, Enqueuing, QueueInv,
       TypeOK, ClientTypeOK, EnqueueInv, ClientHandInv, queueVars
<1>2. ASSUME NEW i \in Items, EnqueueGenerated(c, i) PROVE QueueInv'
  <2>1. TypeOK'
    BY <1>2, ClientLockTypes, ClientAssumption DEF ClientAssumption, EnqueueGenerated, Start,
       QueueInv, TypeOK, PaneTypeOK, ClientTypeOK, ClientPc, ClientResult, CancelOutcome,
       DrainTypeOK, queueVars, paneVars, drainVars
  <2>2. ClientFrame(c)
    BY <1>2, ClientLockTypes DEF EnqueueGenerated, Start, ClientFrame, ClientLocked, drainVars,
       QueueInv, TypeOK, ClientTypeOK, queueVars
  <2> QED
    BY <1>2, <2>1, <2>2, ClientStill DEF EnqueueGenerated, Start, Enqueuing, QueueInv, TypeOK,
       ClientTypeOK, EnqueueInv, ClientHandInv, queueVars
<1>3. ASSUME NEW i \in Items, WithdrawLock(c, i) PROVE QueueInv'
  <2>1. TypeOK'
    BY <1>3, ClientLockTypes, ClientAssumption DEF ClientAssumption, WithdrawLock, Start, Take,
       QueueInv, TypeOK, PaneTypeOK, ClientTypeOK, ClientPc, ClientResult, CancelOutcome,
       DrainTypeOK, queueVars, paneVars, drainVars
  <2>2. ClientFrame(c)
    BY <1>3, ClientLockTypes DEF WithdrawLock, Start, Take, ClientFrame, ClientLocked, drainVars,
       QueueInv, TypeOK, ClientTypeOK, queueVars
  <2> QED
    BY <1>3, <2>1, <2>2, ClientStill DEF WithdrawLock, Start, Take, Enqueuing, QueueInv, TypeOK,
       ClientTypeOK, EnqueueInv, ClientHandInv, queueVars
<1>4. ASSUME NEW i \in Items, CancelStart(c, i) PROVE QueueInv'
  <2>1. TypeOK'
    BY <1>4, ClientLockTypes, ClientAssumption DEF ClientAssumption, CancelStart, Start, QueueInv,
       TypeOK, PaneTypeOK, ClientTypeOK, ClientPc, ClientResult, CancelOutcome, DrainTypeOK,
       queueVars, paneVars, drainVars
  <2>2. ClientFrame(c)
    BY <1>4, ClientLockTypes DEF CancelStart, Start, ClientFrame, ClientLocked, drainVars,
       QueueInv, TypeOK, ClientTypeOK, queueVars
  <2> QED
    BY <1>4, <2>1, <2>2, ClientStill DEF CancelStart, Start, Enqueuing, QueueInv, TypeOK,
       ClientTypeOK, EnqueueInv, ClientHandInv, queueVars
<1>5. CASE EnqueueCheck(c)
  <2>1. TypeOK'
    BY <1>5, ClientLockTypes, ClientAssumption DEF ClientAssumption, EnqueueCheck, Return, Goto,
       Release, QueueInv, TypeOK, PaneTypeOK, ClientTypeOK, ClientPc, ClientResult, CancelOutcome,
       DrainTypeOK, queueVars, paneVars, drainVars
  <2>2. ClientFrame(c)
    BY <1>5, ClientLockTypes DEF EnqueueCheck, Return, Goto, Release, ClientFrame, ClientLocked,
       drainVars, QueueInv, TypeOK, ClientTypeOK, queueVars
  <2> QED
    BY <1>5, <2>1, <2>2, ClientStill DEF EnqueueCheck, Return, Goto, Release, Enqueuing, QueueInv,
       TypeOK, ClientTypeOK, EnqueueInv, ClientHandInv, queueVars
<1>6. CASE EnqueueCreate(c)
  <2>1. CASE Exists(<<LaneOf(citem[c]), citem[c]>>)
    <3>1. /\ Return(c, "duplicate") /\ UNCHANGED <<file, paneVars, live>>
          /\ Release(c) /\ UNCHANGED <<tomb, sidecar, expired, used>>
      BY <1>6, <2>1 DEF EnqueueCreate
    <3>2. TypeOK'
      BY <3>1, ClientLockTypes DEF Return, Release, QueueInv, TypeOK, PaneTypeOK, ClientTypeOK,
         ClientPc, ClientResult, CancelOutcome, DrainTypeOK, queueVars, paneVars, drainVars
    <3>3. ClientFrame(c)
      BY <3>1, ClientLockTypes DEF Return, Release, ClientFrame, ClientLocked, drainVars,
         QueueInv, TypeOK, ClientTypeOK
    <3> QED
      BY <3>1, <3>2, <3>3, ClientStill DEF Return, Enqueuing, QueueInv, TypeOK, ClientTypeOK
  <2>2. CASE ~Exists(<<LaneOf(citem[c]), citem[c]>>)
    BY <1>6, <2>2, CreateKeeps
  <2> QED
    BY <2>1, <2>2
<1>7. CASE WithdrawRemove(c)
  <2>1. CASE UNCHANGED <<file, live>> /\ \E r \in ClientResult : Return(c, r)
    <3>1. TypeOK'
      BY <1>7, <2>1, ClientLockTypes DEF WithdrawRemove, Return, Release, QueueInv, TypeOK,
         PaneTypeOK, ClientTypeOK, ClientPc, ClientResult, CancelOutcome, DrainTypeOK, queueVars,
         paneVars, drainVars
    <3>2. ClientFrame(c)
      BY <1>7, <2>1, ClientLockTypes DEF WithdrawRemove, Return, Release, ClientFrame,
         ClientLocked, drainVars, QueueInv, TypeOK, ClientTypeOK
    <3> QED
      BY <1>7, <2>1, <3>1, <3>2, ClientStill DEF WithdrawRemove, Return, Enqueuing, QueueInv,
         TypeOK, ClientTypeOK
  <2>2. CASE WaitingIn(citem[c]) # "none" /\ Remove(<<WaitingIn(citem[c]), citem[c]>>)
             /\ live' = live \ {citem[c]} /\ Return(c, "withdrawn")
    BY <1>7, <2>2, ClientTypes, RemoveKeeps
  <2> QED
    BY <1>7, <2>1, <2>2 DEF WithdrawRemove, ClientResult
<1>8. CASE LookMisses(c)
  <2>1. States[clook[c]] \in Phases /\ clook[c] + 1 \in 1..7
    BY <1>8 DEF LookMisses, Looking, States, Phases, Lanes, QueueInv, TypeOK, ClientTypeOK
  <2>2. TypeOK'
    BY <1>8, <2>1 DEF LookMisses, QueueInv, TypeOK, PaneTypeOK, ClientTypeOK, ClientPc,
       ClientResult, CancelOutcome, DrainTypeOK, queueVars, paneVars, drainVars
  <2>3. ClientFrame(c)
    BY <1>8, ClientLockTypes DEF LookMisses, ClientFrame, ClientLocked, drainVars, QueueInv,
       TypeOK, ClientTypeOK, queueVars
  <2> QED
    BY <1>8, <2>2, <2>3, ClientStill DEF LookMisses, Looking, Enqueuing, queueVars
<1>9. CASE LookFinds(c)
  <2>1. States[clook[c]] \in Phases /\ clook[c] + 1 \in 1..7
    BY <1>9 DEF LookFinds, Looking, States, Phases, Lanes, QueueInv, TypeOK, ClientTypeOK
  <2>2. TypeOK'
    BY <1>9, <2>1 DEF LookFinds, QueueInv, TypeOK, PaneTypeOK, ClientTypeOK, ClientPc,
       ClientResult, CancelOutcome, DrainTypeOK, queueVars, paneVars, drainVars
  <2>3. ClientFrame(c)
    BY <1>9, ClientLockTypes DEF LookFinds, ClientFrame, ClientLocked, drainVars, QueueInv,
       TypeOK, ClientTypeOK, queueVars
  <2> QED
    BY <1>9, <2>2, <2>3, ClientStill DEF LookFinds, Looking, Enqueuing, queueVars
<1>10. CASE LookTorn(c)
  <2>1. /\ ctries' \in [Clients -> 0..MaxScanRetries]
        /\ clook' \in [Clients -> 1..7]
        /\ cseen' \in [Clients -> SUBSET Phases]
    <3>1. \/ /\ ctries[c] < MaxScanRetries
             /\ ctries' = [ctries EXCEPT ![c] = @ + 1]
             /\ clook' = [clook EXCEPT ![c] = 1] /\ cseen' = [cseen EXCEPT ![c] = {}]
          \/ UNCHANGED <<clook, cseen, ctries>>
      BY <1>10 DEF LookTorn, Return
    <3>2. /\ ctries \in [Clients -> 0..MaxScanRetries] /\ clook \in [Clients -> 1..7]
          /\ cseen \in [Clients -> SUBSET Phases] /\ MaxScanRetries \in Nat
      BY ClientAssumption DEF ClientAssumption, QueueInv, TypeOK, ClientTypeOK
    <3> QED
      BY <3>1, <3>2
  <2>2. /\ cpc' \in [Clients -> ClientPc]
        /\ cresult' \in [Clients -> ClientResult]
        /\ UNCHANGED <<citem, used, live>>
    BY <1>10 DEF LookTorn, Looking, Return, QueueInv, TypeOK, ClientTypeOK, ClientPc, ClientResult
  <2>3. TypeOK'
    BY <1>10, <2>1, <2>2, ClientLockTypes DEF LookTorn, QueueInv, TypeOK, PaneTypeOK,
       ClientTypeOK, DrainTypeOK, queueVars, paneVars, drainVars
  <2>4. ClientFrame(c)
    BY <1>10, ClientLockTypes DEF LookTorn, Looking, Return, ClientFrame, ClientLocked, drainVars,
       QueueInv, TypeOK, ClientTypeOK, queueVars
  <2> QED
    BY <1>10, <2>3, <2>4, ClientStill DEF LookTorn, Looking, Return, Enqueuing, QueueInv, TypeOK,
       ClientTypeOK, WaitingIn, queueVars
<1>11. CASE CancelDecide(c)
  <2>1. TypeOK'
    BY <1>11, ClientLockTypes, ClientAssumption DEF ClientAssumption, CancelDecide, Looked,
       Return, Goto, QueueInv, TypeOK, PaneTypeOK, ClientTypeOK, ClientPc, ClientResult,
       CancelOutcome, DrainTypeOK, queueVars, paneVars, drainVars
  <2>2. ClientFrame(c)
    BY <1>11, ClientLockTypes DEF CancelDecide, Looked, Return, Goto, ClientFrame, ClientLocked,
       drainVars, QueueInv, TypeOK, ClientTypeOK, queueVars
  <2> QED
    BY <1>11, <2>1, <2>2, ClientStill DEF CancelDecide, Looked, Return, Goto, Enqueuing, QueueInv,
       TypeOK, ClientTypeOK, EnqueueInv, ClientHandInv, queueVars
<1>12. CASE CancelTombstone(c)
  <2>1. TypeOK'
    BY <1>12, ClientLockTypes, ClientAssumption DEF ClientAssumption, CancelTombstone, Goto,
       QueueInv, TypeOK, PaneTypeOK, ClientTypeOK, ClientPc, ClientResult, CancelOutcome,
       DrainTypeOK, queueVars, paneVars, drainVars
  <2>2. ClientFrame(c)
    BY <1>12, ClientLockTypes DEF CancelTombstone, Goto, ClientFrame, ClientLocked, drainVars,
       QueueInv, TypeOK, ClientTypeOK, queueVars
  <2> QED
    BY <1>12, <2>1, <2>2, ClientStill DEF CancelTombstone, Goto, Enqueuing, QueueInv, TypeOK,
       ClientTypeOK, EnqueueInv, ClientHandInv, queueVars
<1>13. CASE CancelTryLock(c)
  <2>1. /\ ctries' \in [Clients -> 0..MaxScanRetries]
        /\ clook' \in [Clients -> 1..7]
        /\ cseen' \in [Clients -> SUBSET Phases]
    BY <1>13, ClientAssumption DEF ClientAssumption, CancelTryLock, LookAgain, Return, Goto,
       QueueInv, TypeOK, ClientTypeOK
  <2>2. /\ cpc' \in [Clients -> ClientPc]
        /\ cresult' \in [Clients -> ClientResult]
        /\ UNCHANGED <<citem, used, live>>
    BY <1>13 DEF CancelTryLock, LookAgain, Return, Goto, QueueInv, TypeOK, ClientTypeOK, ClientPc,
       ClientResult
  <2>3. TypeOK'
    BY <1>13, <2>1, <2>2, ClientLockTypes DEF CancelTryLock, QueueInv, TypeOK, PaneTypeOK,
       ClientTypeOK, DrainTypeOK, queueVars, paneVars, drainVars
  <2>4. ClientFrame(c)
    BY <1>13, ClientLockTypes DEF CancelTryLock, LookAgain, Return, Goto, ClientFrame,
       ClientLocked, drainVars, QueueInv, TypeOK, ClientTypeOK, queueVars
  <2> QED
    BY <1>13, <2>3, <2>4, ClientStill DEF CancelTryLock, LookAgain, Return, Goto, Enqueuing,
       QueueInv, TypeOK, ClientTypeOK, WaitingIn, queueVars
<1>14. CASE CancelAsideWrite(c)
  <2>1. PICK i \in Items, lane \in Lanes :
          i = citem[c] /\ lane = WaitingIn(i) /\ Exists(<<lane, i>>)
    BY <1>14, ClientTypes DEF CancelAsideWrite, QueueInv, ClientHandInv
  <2>2. <<lane, i>> \in Path
    BY DEF Path, Phases
  <2>3. Stripped(file[<<lane, i>>]) \in Doc
    BY <2>1, <2>2, StrippedType DEF QueueInv, TypeOK, Exists
  <2>4. FileEffect /\ SameFiles
    BY <1>14, <2>1, <2>2, <2>3, WriteEffect DEF CancelAsideWrite
  <2>5. TypeOK'
    BY <1>14, <2>4 DEF CancelAsideWrite, Goto, FileEffect, FileType, QueueInv, TypeOK, PaneTypeOK,
       ClientTypeOK, ClientPc, ClientResult, CancelOutcome, DrainTypeOK, queueVars, paneVars,
       drainVars
  <2>6. ClientFrame(c) /\ ClientLocked(c) /\ ~Enqueuing(c)' /\ citem' = citem
    BY <1>14, ClientLockTypes DEF CancelAsideWrite, Goto, Enqueuing, ClientFrame, ClientLocked,
       drainVars, QueueInv, TypeOK, ClientTypeOK
  <2>7. Exists(<<lane, i>>)'
    BY <2>1, <2>2, <2>4 DEF SameFiles
  <2>8. WaitingIn(citem[c])' # "none"
    BY <2>1, <2>6, <2>7 DEF WaitingIn, Lanes
  <2> QED
    BY <1>14, <2>4, <2>5, <2>6, <2>8, AsideKeeps DEF CancelAsideWrite
<1>15. CASE CancelAsideMove(c)
  <2>1. PICK i \in Items, lane \in Lanes : i = citem[c] /\ lane = WaitingIn(i)
    BY <1>15, ClientTypes DEF CancelAsideMove, QueueInv, ClientHandInv
  <2>2. FileEffect
    BY <1>15, <2>1, MoveEffect DEF CancelAsideMove, Phases
  <2>3. TypeOK'
    BY <1>15, <2>2 DEF CancelAsideMove, Goto, FileEffect, FileType, QueueInv, TypeOK, PaneTypeOK,
       ClientTypeOK, ClientPc, ClientResult, CancelOutcome, DrainTypeOK, queueVars, paneVars,
       drainVars
  <2>4. ClientFrame(c) /\ ClientLocked(c) /\ ~Enqueuing(c)' /\ cpc'[c] = "aside_forget"
    BY <1>15, ClientLockTypes DEF CancelAsideMove, Goto, Enqueuing, ClientFrame, ClientLocked,
       drainVars, QueueInv, TypeOK, ClientTypeOK
  <2> QED
    BY <1>15, <2>2, <2>3, <2>4, AsideKeeps DEF CancelAsideMove
<1>16. CASE CancelAsideForget(c)
  <2>1. TypeOK'
    BY <1>16, ClientLockTypes, ClientAssumption DEF ClientAssumption, CancelAsideForget,
       ConsumeTombstone, Return, Release, QueueInv, TypeOK, PaneTypeOK, ClientTypeOK, ClientPc,
       ClientResult, CancelOutcome, DrainTypeOK, queueVars, paneVars, drainVars
  <2>2. ClientFrame(c)
    BY <1>16, ClientLockTypes DEF CancelAsideForget, ConsumeTombstone, Return, Release,
       ClientFrame, ClientLocked, drainVars, QueueInv, TypeOK, ClientTypeOK, queueVars
  <2> QED
    BY <1>16, <2>1, <2>2, ClientStill DEF CancelAsideForget, ConsumeTombstone, Return, Release,
       Enqueuing, QueueInv, TypeOK, ClientTypeOK, EnqueueInv, ClientHandInv, queueVars
<1>17. CASE CancelReport(c)
  <2>1. TypeOK'
    BY <1>17, ClientLockTypes, ClientAssumption DEF ClientAssumption, CancelReport, Looked,
       Return, Reported, QueueInv, TypeOK, PaneTypeOK, ClientTypeOK, ClientPc, ClientResult,
       CancelOutcome, DrainTypeOK, queueVars, paneVars, drainVars
  <2>2. ClientFrame(c)
    BY <1>17, ClientLockTypes DEF CancelReport, Looked, Return, Reported, ClientFrame,
       ClientLocked, drainVars, QueueInv, TypeOK, ClientTypeOK, queueVars
  <2> QED
    BY <1>17, <2>1, <2>2, ClientStill DEF CancelReport, Looked, Return, Reported, Enqueuing,
       QueueInv, TypeOK, ClientTypeOK, EnqueueInv, ClientHandInv, queueVars
<1> QED
  BY <1>1, <1>2, <1>3, <1>4, <1>5, <1>6, <1>7, <1>8, <1>9, <1>10, <1>11, <1>12, <1>13, <1>14,
     <1>15, <1>16, <1>17, ClientAssumption DEF ClientStep, ClientAssumption

-----------------------------------------------------------------------------
\* The drain takes the lock and relies on no document yet.
LEMMA DrainLockKeeps ==
  ASSUME QueueInv, NEW d \in Drainers, DrainLock(d), UNCHANGED <<clientVars, crashes>>
  PROVE  QueueInv'
<1>1. /\ dpc[d] = "idle" /\ lock = Nobody /\ lock' = d
      /\ dpc' = [dpc EXCEPT ![d] = "repend"]
      /\ UNCHANGED <<file, dpath, dat, todo, recovered, cpc, citem, live, used>>
  BY DEF DrainLock, Step, clientVars
<1>2. TypeOK'
  BY DEF DrainLock, Step, QueueInv, TypeOK, PaneTypeOK, ClientTypeOK, DrainTypeOK, DrainPc,
     paneVars, clientVars
<1>3. \A e \in Drainers : dpc[e] = "idle"
  BY <1>1, QueueAssumption, DrainAssumption DEF QueueAssumption, DrainAssumption, QueueInv,
     LockInv
<1>4. \A c \in Clients : ~ClientLocked(c)
  BY <1>1, QueueAssumption, ClientAssumption DEF QueueAssumption, ClientAssumption, QueueInv,
     LockInv
<1>5. LockInv'
  BY <1>1, <1>3, <1>4 DEF LockInv, ClientLocked, QueueInv, TypeOK, DrainTypeOK
<1>6. OnePhase' /\ EnqueueInv' /\ ClientHandInv'
  BY <1>1 DEF QueueInv, OnePhase, EnqueueInv, Enqueuing, ClientHandInv, WaitingIn, Present, Exists
<1>7. ASSUME NEW e \in Drainers PROVE DrainHand(e)'
  <2>1. todo[e] = {} /\ recovered[e] = {}
    BY <1>3 DEF QueueInv, DrainHandInv, DrainHand
  <2>2. dpc'[e] \in {"idle", "repend"}
    BY <1>1, <1>3 DEF QueueInv, TypeOK, DrainTypeOK
  <2> QED
    BY <1>1, <2>1, <2>2 DEF DrainHand, InHandAtPath, InHandInflight, InHandAside, Recovering
<1> QED
  BY <1>2, <1>5, <1>6, <1>7 DEF QueueInv, DrainHandInv

\* A client that dies frees the lock it held and leaves its files as they are.
LEMMA ClientCrashKeeps ==
  ASSUME QueueInv, NEW c \in Clients, ClientCrash(c), UNCHANGED drainVars,
         crashes' \in 0..MaxCrashes
  PROVE  QueueInv'
<1>1. TypeOK'
  BY ClientLockTypes DEF ClientCrash, Return, Release, QueueInv, TypeOK, PaneTypeOK, ClientTypeOK,
     ClientPc, ClientResult, DrainTypeOK, paneVars, drainVars
<1>2. ClientFrame(c)
  BY ClientLockTypes DEF ClientCrash, Return, Release, ClientFrame, ClientLocked, drainVars,
     QueueInv, TypeOK, ClientTypeOK
<1> QED
  BY <1>1, <1>2, ClientStill DEF ClientCrash, Return, Enqueuing, QueueInv, TypeOK, ClientTypeOK

\* The pane and the clock touch nothing the queue relies on.
LEMMA WorldKeeps ==
  ASSUME QueueInv, TypeOK', UNCHANGED <<file, lock, clientVars, drainVars>>
  PROVE  QueueInv'
<1>1. UNCHANGED <<file, lock, cpc, citem, used, live, dpc, dpath, dat, todo, recovered>>
  BY DEF clientVars, drainVars
<1>2. OnePhase' /\ EnqueueInv' /\ ClientHandInv'
  BY <1>1 DEF QueueInv, OnePhase, EnqueueInv, Enqueuing, ClientHandInv, WaitingIn, Present, Exists
<1>3. LockInv'
  BY <1>1 DEF QueueInv, LockInv, ClientLocked
<1>4. DrainHandInv'
  BY <1>1 DEF QueueInv, DrainHandInv, DrainHand, Item, Inflight, Exists
<1> QED
  BY <1>2, <1>3, <1>4 DEF QueueInv

\* What the pane does keeps its types.
LEMMA PaneKeepsType ==
  ASSUME PaneTypeOK, PaneNext PROVE PaneTypeOK'
<1>1. ASSUME NEW i \in Items, PaneDraws(i) \/ PaneDrops(i) \/ PaneTakes(i) \/ PaneTakesUndrawn(i)
      PROVE  PaneTypeOK'
  BY <1>1 DEF PaneDraws, PaneDrops, PaneTakes, PaneTakesUndrawn, PaneTypeOK
<1>2. CASE PersonTypes \/ PersonClears
  BY <1>2 DEF PersonTypes, PersonClears, PaneTypeOK
<1> QED
  BY <1>1, <1>2 DEF PaneNext

\* A queue that starts with items pending, each in its lane, satisfies QueueInv.
LEMMA InitInv == Init => QueueInv
<1> SUFFICES ASSUME Init PROVE QueueInv
  OBVIOUS
<1>1. \A i \in Items : StartsAt(i) \in Lanes /\ StartDoc(i) \in Doc
  <2>1. MaxAttempts \in Nat
    BY DrainAssumption DEF DrainAssumption
  <2> QED
    BY <2>1, NewDocType DEF StartsAt, LaneOf, Lanes, StartDoc, Doc
<1>2. file = [p \in Path |-> IF p[2] \in Waiting /\ p[1] = StartsAt(p[2])
                             THEN StartDoc(p[2]) ELSE NoFile]
  BY DEF Init
<1>3. \A p \in Path : p[2] \in Items
  BY DEF Path
<1>4. file \in [Path -> Doc \cup {NoFile}]
  BY <1>1, <1>2, <1>3
<1>5. \A i \in Items : \A p \in Phases : Exists(<<p, i>>) <=> (i \in Waiting /\ p = StartsAt(i))
  BY <1>1, <1>2, SystemAssumption DEF Exists, Path, SystemAssumption
<1>6. \A i \in Items : Present(i) <=> i \in Waiting
  BY <1>1, <1>5 DEF Present, Phases
<1>7. OnePhase
  BY <1>5, <1>6 DEF OnePhase, Init
<1>8. (CHOOSE i \in Items : TRUE) \in Items
  BY QueueAssumption DEF QueueAssumption
<1>9. ClientTypeOK
  <2>1. citem \in [Clients -> Items]
    BY <1>8 DEF Init, ClientInit
  <2>2. live \subseteq Items /\ used \subseteq Generated
    BY SystemAssumption DEF SystemAssumption, Init, ClientInit
  <2>3. ctries \in [Clients -> 0..MaxScanRetries] /\ clook \in [Clients -> 1..7]
    BY ClientAssumption DEF ClientAssumption, Init, ClientInit
  <2>4. /\ cpc \in [Clients -> ClientPc] /\ cseen \in [Clients -> SUBSET Phases]
        /\ cresult \in [Clients -> ClientResult]
    BY DEF Init, ClientInit, ClientPc, ClientResult
  <2> QED
    BY <2>1, <2>2, <2>3, <2>4 DEF ClientTypeOK
<1>10. DrainTypeOK
  BY NewDocType, NoPathType, DrainAssumption DEF DrainAssumption, Init, DrainInit, DrainTypeOK,
     DrainPc, Outcome, Path, Phases
<1>11. TypeOK
  BY <1>4, <1>9, <1>10, SystemAssumption DEF SystemAssumption, Init, TypeOK, PaneInit, PaneTypeOK
<1>12. \A i \in Generated : ~Present(i)
  BY <1>6, ClientAssumption, SystemAssumption DEF ClientAssumption, SystemAssumption
<1>13. LockInv /\ EnqueueInv /\ ClientHandInv
  BY <1>12 DEF Init, DrainInit, ClientInit, LockInv, ClientLocked, EnqueueInv, Enqueuing,
     ClientHandInv
<1>14. DrainHandInv
  BY DEF Init, DrainInit, DrainHandInv, DrainHand, InHandAtPath, InHandInflight, InHandAside,
     Recovering
<1> QED
  BY <1>7, <1>11, <1>13, <1>14 DEF QueueInv

\* Every step of the system keeps QueueInv.
LEMMA NextInv == QueueInv /\ [Next]_vars => QueueInv'
<1> SUFFICES ASSUME QueueInv, [Next]_vars PROVE QueueInv'
  OBVIOUS
<1>1. ASSUME NEW c \in Clients, ClientActs(c) PROVE QueueInv'
  BY <1>1, ClientStepKeeps DEF ClientActs
<1>2. ASSUME NEW d \in Drainers, DrainStarts(d) PROVE QueueInv'
  BY <1>2, DrainLockKeeps DEF DrainStarts
<1>3. ASSUME NEW d \in Drainers, DrainActs(d) PROVE QueueInv'
  BY <1>3, DrainStepKeeps DEF DrainActs
<1>4. CASE PaneActs
  <2>1. TypeOK'
    BY <1>4, PaneKeepsType DEF PaneActs, QueueInv, TypeOK, ClientTypeOK, DrainTypeOK, queueVars,
       clientVars, drainVars
  <2> QED
    BY <1>4, <2>1, WorldKeeps DEF PaneActs, queueVars
<1>5. CASE TimePasses
  <2>1. TypeOK'
    BY <1>5 DEF TimePasses, Expire, QueueInv, TypeOK, PaneTypeOK, ClientTypeOK, DrainTypeOK,
       paneVars, clientVars, drainVars
  <2> QED
    BY <1>5, <2>1, WorldKeeps DEF TimePasses, Expire
<1>6. CASE Crash
  <2>1. crashes' \in 0..MaxCrashes
    BY <1>6, SystemAssumption DEF SystemAssumption, Crash, QueueInv, TypeOK
  <2>2. ASSUME NEW d \in Drainers, DrainCrash(d), UNCHANGED clientVars PROVE QueueInv'
    BY <2>1, <2>2, SameFileEffect, DrainEndsKeeps DEF DrainCrash
  <2>3. ASSUME NEW c \in Clients, ClientCrash(c), UNCHANGED drainVars PROVE QueueInv'
    BY <2>1, <2>3, ClientCrashKeeps
  <2> QED
    BY <1>6, <2>2, <2>3 DEF Crash
<1>7. CASE UNCHANGED vars
  <2>1. TypeOK'
    BY <1>7 DEF vars, QueueInv, TypeOK, PaneTypeOK, ClientTypeOK, DrainTypeOK, queueVars,
       paneVars, clientVars, drainVars
  <2> QED
    BY <1>7, <2>1, WorldKeeps DEF vars, queueVars
<1> QED
  BY <1>1, <1>2, <1>3, <1>4, <1>5, <1>6, <1>7 DEF Next

\* QueueInv holds in every state the queue reaches, whatever clients, drainers, the pane and crashes
\* do, for every set of items and processes and every bound.
THEOREM QueueInvariant == Spec => []QueueInv
  BY InitInv, NextInv, PTL DEF Spec

\* Every variable keeps its type: no step writes a malformed document or outgrows a bound.
THEOREM TypeCorrect == Spec => []TypeOK
<1>1. QueueInv => TypeOK
  BY DEF QueueInv
<1> QED
  BY <1>1, QueueInvariant, PTL

\* One identifier, one phase: the phase directories of agent-queue never hold an identifier twice,
\* and never lose one that was queued and not withdrawn.
THEOREM OnePhaseHolds == Spec => []OnePhase
<1>1. QueueInv => OnePhase
  BY DEF QueueInv
<1> QED
  BY <1>1, QueueInvariant, PTL

\* A document in one phase is in no other.
LEMMA ElsewhereAbsent ==
  ASSUME OnePhase, NEW i \in Items, NEW p \in Phases, NEW r \in Phases, p # r, Exists(<<p, i>>)
  PROVE  ~Exists(<<r, i>>)
  BY DEF OnePhase

\* No rename of a lock holder is refused by transition: recovery, the barrier, set_aside and the
\* settling of an outcome always find their document, and nothing in the way.
THEOREM MovesAlwaysSucceed == Spec => []MovesSucceed
<1>1. ASSUME QueueInv PROVE MovesSucceed
  <2>1. ASSUME NEW d \in Drainers
        PROVE  /\ dpc[d] = "barrier" => Exists(dpath[d]) /\ ~Exists(Inflight(Item(d)))
               /\ dpc[d] \in {"repend_move", "recover_move"} =>
                    Exists(Inflight(Item(d))) /\ ~Exists(dpath[d])
               /\ dpc[d] = "aside_move" => Exists(dat[d]) /\ ~Exists(<<"cancelled", Item(d)>>)
               /\ dpc[d] = "move" =>
                    /\ Exists(Inflight(Item(d)))
                    /\ \A p \in {dpath[d][1], "processed", "failed"} : ~Exists(<<p, Item(d)>>)
    <3>1. PICK i \in Items, lane \in Lanes : i = Item(d) /\ dpath[d] = <<lane, i>>
      BY <1>1, DrainTypes
    <3>2. OnePhase /\ DrainHand(d)
      BY <1>1 DEF QueueInv, DrainHandInv
    <3>3. Lanes \subseteq Phases /\ {"inflight", "processed", "failed", "cancelled"} \subseteq Phases
      BY DEF Phases
    <3>4. \A p \in {"inflight", "processed", "failed", "cancelled"} : p # lane
      BY <3>1 DEF Lanes
    <3>5. \A p, r \in Phases : p # r /\ Exists(<<p, i>>) => ~Exists(<<r, i>>)
      BY <3>2, ElsewhereAbsent
    <3>6. CASE dpc[d] = "barrier"
      BY <3>1, <3>2, <3>3, <3>4, <3>5, <3>6 DEF DrainHand, InHandAtPath, Inflight
    <3>7. CASE dpc[d] \in {"repend_move", "recover_move"}
      BY <3>1, <3>2, <3>3, <3>4, <3>5, <3>7 DEF DrainHand, InHandInflight, Inflight
    <3>8. CASE dpc[d] = "aside_move"
      BY <3>1, <3>2, <3>3, <3>4, <3>5, <3>8 DEF DrainHand, InHandAside, Inflight
    <3>9. CASE dpc[d] = "move"
      BY <3>1, <3>2, <3>3, <3>4, <3>5, <3>9 DEF DrainHand, InHandInflight, Inflight
    <3> QED
      BY <3>6, <3>7, <3>8, <3>9
  <2>2. ASSUME NEW c \in Clients, cpc[c] = "aside_move"
        PROVE  WaitingIn(citem[c]) # "none" /\ ~Exists(<<"cancelled", citem[c]>>)
    <3>1. WaitingIn(citem[c]) # "none"
      BY <1>1, <2>2 DEF QueueInv, ClientHandInv
    <3>2. PICK i \in Items, lane \in Lanes : i = citem[c] /\ Exists(<<lane, i>>)
      BY <1>1, <3>1, ClientTypes
    <3>3. lane \in Phases /\ "cancelled" \in Phases /\ lane # "cancelled"
      BY <3>2 DEF Lanes, Phases
    <3> QED
      BY <1>1, <3>1, <3>2, <3>3, ElsewhereAbsent DEF QueueInv
  <2> QED
    BY <2>1, <2>2 DEF MovesSucceed
<1> QED
  BY <1>1, QueueInvariant, PTL

\* Everything a drainer keeps.
DrainerSame(e) ==
  /\ dpc'[e] = dpc[e] /\ dpath'[e] = dpath[e] /\ dat'[e] = dat[e] /\ ddoc'[e] = ddoc[e]
  /\ dout'[e] = dout[e] /\ todo'[e] = todo[e] /\ snapshot'[e] = snapshot[e]
  /\ dtries'[e] = dtries[e] /\ recovered'[e] = recovered[e]

\* Only d moves.
Alone(d) == dpc[d] # "idle" /\ \A e \in Drainers \ {d} : DrainerSame(e)

\* A drain step is the step of the one drainer that holds the delivery lock: every other drainer
\* rests.
LEMMA DrainAlone ==
  ASSUME QueueInv, NEW d \in Drainers, DrainStep(d)
  PROVE  /\ dpc[d] # "idle" /\ lock = d
         /\ \A e \in Drainers \ {d} : dpc[e] = "idle" /\ DrainerSame(e)
<1> USE DEF DrainerSame, Alone
<1>0. DrainTypeOK
  BY DEF QueueInv, TypeOK
<1>1. Alone(d)
  <2>1. ASSUME NEW i \in Items,
          \/ RependStranded(d, i) \/ RecoverNeverTyped(d, i) \/ RecoverQuarantine(d, i)
          \/ DigestAside(d, i) \/ SubmitRecoverDraft(d, i)
        PROVE  Alone(d)
    BY <1>0, <2>1 DEF DrainTypeOK, RependStranded, RecoverNeverTyped, RecoverQuarantine,
       DigestAside, SubmitRecoverDraft, Step, drainVars
  <2>2. CASE RependMove(d) \/ RependDone(d) \/ RecoverMove(d) \/ RecoverSidecar(d)
  \/ RecoverDone(d) \/ DigestSidecar(d) \/ DrainSnapshot(d)
    BY <1>0, <2>2 DEF DrainTypeOK, RependMove, RependDone, RecoverMove, RecoverSidecar,
       RecoverDone, DigestSidecar, DrainSnapshot, Step
  <2>3. CASE DrainPick(d) \/ DrainFinish(d) \/ DrainStops(d) \/ DrainInvalid(d)
  \/ DrainAside(d) \/ DrainBlocked(d) \/ DrainReady(d) \/ DrainBarrier(d)
  \/ DrainRecheck(d) \/ DrainStamp(d)
    BY <1>0, <2>3 DEF DrainTypeOK, DrainPick, DrainFinish, DrainStops, DrainInvalid, DrainAside,
       DrainBlocked, DrainReady, DrainBarrier, DrainRecheck, DrainStamp, Step, DrainEnds
  <2>4. CASE AsideWrite(d) \/ AsideMove(d) \/ AsideForget(d)
  \/ SubmitRefuse(d) \/ SubmitFlush(d) \/ FlushEnds(d) \/ SubmitLook(d)
  \/ SubmitType(d) \/ SubmitPaste(d) \/ SubmitMisses(d) \/ SubmitEnds(d)
    BY <1>0, <2>4 DEF DrainTypeOK, AsideWrite, AsideMove, AsideForget, SubmitRefuse, SubmitFlush,
       FlushEnds, SubmitLook, SubmitType, SubmitPaste, SubmitMisses, SubmitEnds, Step, Concludes,
       PutDown
  <2>5. CASE Settle(d) \/ MoveProcessed(d) \/ MoveFailed(d) \/ MoveBackAndGoOn(d)
  \/ MoveBackAndRetry(d) \/ MoveBackAndStop(d) \/ DrainSidecar(d)
    BY <1>0, <2>5 DEF DrainTypeOK, Settle, MoveProcessed, MoveFailed, MoveBackAndGoOn,
       MoveBackAndRetry, MoveBackAndStop, MoveBack, DrainSidecar, Step, DrainEnds, PutDown
  <2> QED
    BY <2>1, <2>2, <2>3, <2>4, <2>5 DEF DrainStep
<1>2. lock = d
  BY <1>1 DEF QueueInv, LockInv
<1>3. \A e \in Drainers \ {d} : dpc[e] = "idle"
  BY <1>2 DEF QueueInv, LockInv
<1> QED
  BY <1>1, <1>2, <1>3

-----------------------------------------------------------------------------
(***************************************************************************)
(* What each step of a drain does to the one document it touches: old at   *)
(* phase p before, new at phase r after, and nothing else anywhere.        *)
(***************************************************************************)
Touches(i, p, old, r, new) ==
  /\ old \in Doc /\ new \in Doc
  /\ \A q \in Phases : file[<<q, i>>] = IF q = p THEN old ELSE NoFile
  /\ \A q \in Phases : file'[<<q, i>>] = IF q = r THEN new ELSE NoFile
  /\ \A j \in Items \ {i} : \A q \in Phases : file'[<<q, j>>] = file[<<q, j>>]

\* A document that is there is well formed, and the only one of its item.
LEMMA OnlyThere ==
  ASSUME QueueInv, NEW i \in Items, NEW p \in Phases, Exists(<<p, i>>)
  PROVE  /\ file[<<p, i>>] \in Doc
         /\ \A q \in Phases : q # p => file[<<q, i>>] = NoFile
  BY DEF QueueInv, TypeOK, OnePhase, Exists, Path

\* An atomic replace of a document that is there touches that document only.
LEMMA TouchWrite ==
  ASSUME QueueInv, NEW i \in Items, NEW p \in Phases, Exists(<<p, i>>),
         NEW new \in Doc, Write(<<p, i>>, new)
  PROVE  Touches(i, p, file[<<p, i>>], p, new)
  BY OnlyThere DEF QueueInv, TypeOK, Write, Path, Touches

\* A rename between phases moves the one document of its item.
LEMMA TouchRename ==
  ASSUME QueueInv, NEW i \in Items, NEW p \in Phases, NEW r \in Phases,
         Rename(<<p, i>>, <<r, i>>)
  PROVE  Touches(i, p, file[<<p, i>>], r, file[<<p, i>>])
<1>1. Exists(<<p, i>>) /\ ~Exists(<<r, i>>) /\ p # r
  BY DEF Rename
<1> QED
  BY <1>1, OnlyThere DEF QueueInv, TypeOK, Rename, Path, Touches

\* The document in hand.
LEMMA HandThere ==
  ASSUME QueueInv, NEW d \in Drainers
  PROVE  /\ dpc[d] \in InHandAtPath => Exists(<<dpath[d][1], Item(d)>>)
         /\ dpc[d] \in InHandInflight => Exists(<<"inflight", Item(d)>>)
         /\ dpc[d] \in InHandAside =>
              /\ dat[d][1] \in {dpath[d][1], "inflight"}
              /\ dat[d] = <<dat[d][1], Item(d)>>
              /\ Exists(<<dat[d][1], Item(d)>>)
<1>1. DrainHand(d)
  BY DEF QueueInv, DrainHandInv
<1> QED
  BY <1>1, DrainTypes DEF DrainHand, Inflight

\* The phase directories: two pending lanes and four others.
LEMMA PhaseFacts ==
  /\ Lanes \subseteq Phases
  /\ {"inflight", "processed", "failed", "cancelled"} \subseteq Phases
  /\ \A lane \in Lanes : lane \notin {"inflight", "processed", "failed", "cancelled"}
  BY DEF Phases, Lanes

\* Recovery rewrites an inflight document, or moves it to its lane or to failed/.
LEMMA RecoveryTouches ==
  ASSUME QueueInv, NEW d \in Drainers, NEW i \in Items
  PROVE  LET old == file[<<"inflight", i>>]
         IN  /\ RependStranded(d, i) =>
                  Touches(i, "inflight", old, "inflight", [Stripped(old) EXCEPT !.stranded = TRUE])
             /\ RecoverNeverTyped(d, i) =>
                  Touches(i, "inflight", old, "inflight", Stripped(old))
             /\ RecoverQuarantine(d, i) => Touches(i, "inflight", old, "failed", old)
             /\ DigestAside(d, i) =>
                  Touches(i, "failed", file[<<"failed", i>>], "cancelled", file[<<"failed", i>>])
             /\ (RependMove(d) \/ RecoverMove(d)) /\ i = Item(d) =>
                  Touches(i, "inflight", old, dpath[d][1], old)
<1> DEFINE old == file[<<"inflight", i>>]
<1>1. ASSUME Exists(<<"inflight", i>>) PROVE old \in Doc
  BY <1>1, OnlyThere, PhaseFacts
<1>2. CASE RependStranded(d, i)
  <2>1. Exists(<<"inflight", i>>) /\ Write(<<"inflight", i>>, [Stripped(old) EXCEPT !.stranded = TRUE])
    BY <1>2 DEF RependStranded, Inflight
  <2>2. [Stripped(old) EXCEPT !.stranded = TRUE] \in Doc
    <3>1. PICK left \in Doc : left = Stripped(old)
      BY <1>1, <2>1, StrippedType
    <3>2. [left EXCEPT !.stranded = TRUE] \in Doc
      BY DEF Doc
    <3> QED
      BY <3>1, <3>2
  <2>3. Touches(i, "inflight", old, "inflight", [Stripped(old) EXCEPT !.stranded = TRUE])
    BY <2>1, <2>2, TouchWrite, PhaseFacts
  <2> QED
    BY <1>2, <2>3 DEF RependStranded, RecoverNeverTyped, RecoverQuarantine, DigestAside, RependMove,
       RecoverMove, Step
<1>3. CASE RecoverNeverTyped(d, i)
  <2>1. Exists(<<"inflight", i>>) /\ Write(<<"inflight", i>>, Stripped(old))
    BY <1>3 DEF RecoverNeverTyped, Inflight
  <2>2. Touches(i, "inflight", old, "inflight", Stripped(old))
    BY <1>1, <2>1, StrippedType, TouchWrite, PhaseFacts
  <2> QED
    BY <1>3, <2>2 DEF RependStranded, RecoverNeverTyped, RecoverQuarantine, DigestAside, RependMove,
       RecoverMove, Step
<1>4. RecoverQuarantine(d, i) => Touches(i, "inflight", old, "failed", old)
  BY TouchRename, PhaseFacts DEF RecoverQuarantine, Inflight
<1>5. DigestAside(d, i) =>
        Touches(i, "failed", file[<<"failed", i>>], "cancelled", file[<<"failed", i>>])
  BY TouchRename, PhaseFacts DEF DigestAside
<1>6. (RependMove(d) \/ RecoverMove(d)) /\ i = Item(d) => Touches(i, "inflight", old, dpath[d][1], old)
  <2> SUFFICES ASSUME RependMove(d) \/ RecoverMove(d), i = Item(d)
               PROVE  Touches(i, "inflight", old, dpath[d][1], old)
    OBVIOUS
  <2>1. dpath[d] = <<dpath[d][1], i>> /\ dpath[d][1] \in Phases
    BY DrainTypes, PhaseFacts
  <2>2. Rename(<<"inflight", i>>, <<dpath[d][1], i>>)
    BY <2>1 DEF RependMove, RecoverMove, Inflight
  <2> QED
    BY <2>1, <2>2, TouchRename, PhaseFacts
<1> QED
  BY <1>2, <1>3, <1>4, <1>5, <1>6

\* A drain before the barrier: it quarantines, blocks, or moves behind the barrier.
LEMMA LoadTouches ==
  ASSUME QueueInv, NEW d \in Drainers
  PROVE  LET i == Item(d)
             lane == dpath[d][1]
             old == file[<<lane, i>>]
         IN  /\ DrainInvalid(d) => Touches(i, lane, old, "failed", old)
             /\ DrainBarrier(d) => Touches(i, lane, old, "inflight", old)
             /\ DrainBlocked(d) =>
                  \E untyped \in BOOLEAN :
                    Touches(i, lane, old, lane, [old EXCEPT !.refused = untyped])
<1>1. PICK i \in Items, lane \in Lanes : i = Item(d) /\ dpath[d] = <<lane, i>>
  BY DrainTypes
<1>2. dpath[d][1] = lane /\ lane \in Phases
  BY <1>1, PhaseFacts
<1>3. DrainInvalid(d) => Touches(i, lane, file[<<lane, i>>], "failed", file[<<lane, i>>])
  BY <1>1, <1>2, TouchRename, PhaseFacts DEF DrainInvalid
<1>4. DrainBarrier(d) => Touches(i, lane, file[<<lane, i>>], "inflight", file[<<lane, i>>])
  BY <1>1, <1>2, TouchRename, PhaseFacts DEF DrainBarrier, Inflight
<1>5. ASSUME DrainBlocked(d)
      PROVE  \E untyped \in BOOLEAN :
               Touches(i, lane, file[<<lane, i>>], lane, [file[<<lane, i>>] EXCEPT !.refused = untyped])
  <2>1. PICK old \in Doc : old = file[<<lane, i>>] /\ Exists(<<lane, i>>)
    BY <1>1, <1>2, <1>5, HandThere, OnlyThere DEF DrainBlocked, InHandAtPath
  <2>2. PICK untyped \in BOOLEAN : Write(<<lane, i>>, [old EXCEPT !.refused = untyped])
    BY <1>1, <1>5, <2>1 DEF DrainBlocked
  <2>3. [old EXCEPT !.refused = untyped] \in Doc
    BY DEF Doc
  <2>4. Touches(i, lane, old, lane, [old EXCEPT !.refused = untyped])
    BY <1>2, <2>1, <2>2, <2>3, TouchWrite
  <2> QED
    BY <2>1, <2>4
<1> QED
  BY <1>1, <1>2, <1>3, <1>4, <1>5

\* set_aside rewrites the document where it is and then moves it to cancelled/.
LEMMA AsideTouches ==
  ASSUME QueueInv, NEW d \in Drainers
  PROVE  LET i == Item(d)
             p == dat[d][1]
             old == file[<<p, i>>]
         IN  /\ AsideWrite(d) => Touches(i, p, old, p, Stripped(old))
             /\ AsideMove(d) => Touches(i, p, old, "cancelled", old)
<1> SUFFICES ASSUME dpc[d] \in InHandAside
             PROVE  LET i == Item(d)
                        p == dat[d][1]
                        old == file[<<p, i>>]
                    IN  /\ AsideWrite(d) => Touches(i, p, old, p, Stripped(old))
                        /\ AsideMove(d) => Touches(i, p, old, "cancelled", old)
  BY DEF AsideWrite, AsideMove, Step, InHandAside
<1>1. PICK i \in Items : i = Item(d)
  BY DrainTypes
<1>2. PICK p \in Phases : p = dat[d][1]
  BY HandThere, DrainTypes, PhaseFacts
<1>3. dat[d] = <<p, i>> /\ Exists(<<p, i>>)
  BY <1>1, <1>2, HandThere
<1>4. file[<<p, i>>] \in Doc
  BY <1>3, OnlyThere
<1>5. AsideWrite(d) => Touches(i, p, file[<<p, i>>], p, Stripped(file[<<p, i>>]))
  BY <1>3, <1>4, StrippedType, TouchWrite DEF AsideWrite
<1>6. AsideMove(d) => Touches(i, p, file[<<p, i>>], "cancelled", file[<<p, i>>])
  BY <1>1, <1>3, TouchRename, PhaseFacts DEF AsideMove
<1> QED
  BY <1>1, <1>2, <1>5, <1>6

\* Behind the barrier: stamps, the settled document, and the moves out of inflight/.
LEMMA InflightTouches ==
  ASSUME QueueInv, NEW d \in Drainers
  PROVE  LET i == Item(d)
             old == file[<<"inflight", i>>]
             doc == ddoc[d]
         IN  /\ DrainStamp(d) =>
                  Touches(i, "inflight", old, "inflight",
                          [doc EXCEPT !.tracked = TRUE, !.from = dpath[d][1], !.pasted = FALSE])
             /\ SubmitType(d) =>
                  \/ Touches(i, "inflight", old, "inflight", [doc EXCEPT !.pasted = TRUE])
                  \/ StampMayFail /\ UNCHANGED file
             /\ Settle(d) => Touches(i, "inflight", old, "inflight", Settled(doc, dout[d]))
             /\ MoveProcessed(d) => Touches(i, "inflight", old, "processed", old)
             /\ MoveFailed(d) => Touches(i, "inflight", old, "failed", old)
             /\ MoveBack(d) => Touches(i, "inflight", old, dpath[d][1], old)
<1>1. PICK i \in Items, lane \in Lanes : i = Item(d) /\ dpath[d] = <<lane, i>>
  BY DrainTypes
<1>2. dpath[d][1] = lane /\ lane \in Phases /\ "inflight" \in Phases
  BY <1>1, PhaseFacts
<1>3. PICK doc \in Doc : doc = ddoc[d]
  BY DrainTypes
<1>4. dpc[d] \in InHandInflight => Exists(<<"inflight", i>>)
  BY <1>1, HandThere
<1> DEFINE old == file[<<"inflight", i>>]
<1>5. DrainStamp(d) =>
        Touches(i, "inflight", old, "inflight",
                [doc EXCEPT !.tracked = TRUE, !.from = lane, !.pasted = FALSE])
  <2> SUFFICES ASSUME DrainStamp(d)
               PROVE  Touches(i, "inflight", old, "inflight",
                              [doc EXCEPT !.tracked = TRUE, !.from = lane, !.pasted = FALSE])
    OBVIOUS
  <2>1. Write(<<"inflight", i>>, [doc EXCEPT !.tracked = TRUE, !.from = lane, !.pasted = FALSE])
    BY <1>1, <1>2, <1>3 DEF DrainStamp, Inflight
  <2>2. Exists(<<"inflight", i>>)
    BY <1>4 DEF DrainStamp, Step, InHandInflight
  <2> QED
    BY <1>2, <2>1, <2>2, StampType, TouchWrite
<1>6. SubmitType(d) =>
        \/ Touches(i, "inflight", old, "inflight", [doc EXCEPT !.pasted = TRUE])
        \/ StampMayFail /\ UNCHANGED file
  <2> SUFFICES ASSUME SubmitType(d), Write(<<"inflight", i>>, [doc EXCEPT !.pasted = TRUE])
               PROVE  Touches(i, "inflight", old, "inflight", [doc EXCEPT !.pasted = TRUE])
    BY <1>1, <1>3 DEF SubmitType, Inflight
  <2>1. [doc EXCEPT !.pasted = TRUE] \in Doc
    BY DEF Doc
  <2>2. Exists(<<"inflight", i>>)
    BY <1>4 DEF SubmitType, Step, InHandInflight
  <2> QED
    BY <1>2, <2>1, <2>2, TouchWrite
<1>7. Settle(d) => Touches(i, "inflight", old, "inflight", Settled(doc, dout[d]))
  <2> SUFFICES ASSUME Settle(d) PROVE Touches(i, "inflight", old, "inflight", Settled(doc, dout[d]))
    OBVIOUS
  <2>1. Write(<<"inflight", i>>, Settled(doc, dout[d]))
    BY <1>1, <1>3 DEF Settle, Inflight
  <2>2. Settled(doc, dout[d]) \in Doc
    BY DrainTypes, SettledType
  <2>3. Exists(<<"inflight", i>>)
    BY <1>4 DEF Settle, Step, InHandInflight
  <2> QED
    BY <1>2, <2>1, <2>2, <2>3, TouchWrite
<1>8. MoveProcessed(d) => Touches(i, "inflight", old, "processed", old)
  BY <1>1, <1>2, TouchRename, PhaseFacts DEF MoveProcessed, Inflight
<1>9. MoveFailed(d) => Touches(i, "inflight", old, "failed", old)
  BY <1>1, <1>2, TouchRename, PhaseFacts DEF MoveFailed, Inflight
<1>10. MoveBack(d) => Touches(i, "inflight", old, lane, old)
  BY <1>1, <1>2, TouchRename, PhaseFacts DEF MoveBack, Inflight
<1> QED
  BY <1>1, <1>2, <1>3, <1>5, <1>6, <1>7, <1>8, <1>9, <1>10

-----------------------------------------------------------------------------
(***************************************************************************)
(* The pane.                                                               *)
(***************************************************************************)

\* What a drain does to the pane.
DrainsPane(d) ==
  \/ UNCHANGED paneVars
  \/ dpc[d] = "submit" /\ \E i \in Items : PaneTakes(i)
  \/ /\ SubmitPaste(d)
     /\ IF Verified(d) THEN PanePaste(Item(d)) ELSE PanePrompt(Item(d))
  \/ SubmitEnds(d) /\ Verified(d) /\ Concludes(d, "await", "taken_back") /\ PaneTakeBack(Item(d))

\* A drain types only in SubmitPaste, and takes text back only when an await ends so.
LEMMA DrainPane ==
  ASSUME NEW d \in Drainers, DrainStep(d)
  PROVE  DrainsPane(d)
<1> USE DEF DrainsPane
<1>1. ASSUME NEW i \in Items,
        \/ RependStranded(d, i) \/ RecoverNeverTyped(d, i) \/ RecoverQuarantine(d, i)
        \/ DigestAside(d, i) \/ SubmitRecoverDraft(d, i)
      PROVE DrainsPane(d)
  BY <1>1 DEF RependStranded, RecoverNeverTyped, RecoverQuarantine, DigestAside, SubmitRecoverDraft
<1>2. CASE \/ RependMove(d) \/ RependDone(d) \/ RecoverMove(d) \/ RecoverSidecar(d)
           \/ RecoverDone(d) \/ DigestSidecar(d) \/ DrainSnapshot(d)
  BY <1>2 DEF RependMove, RependDone, RecoverMove, RecoverSidecar, RecoverDone, DigestSidecar,
     DrainSnapshot
<1>3. CASE \/ DrainPick(d) \/ DrainFinish(d) \/ DrainStops(d) \/ DrainInvalid(d)
           \/ DrainAside(d) \/ DrainBlocked(d) \/ DrainReady(d) \/ DrainBarrier(d)
           \/ DrainRecheck(d) \/ DrainStamp(d)
  BY <1>3 DEF DrainPick, DrainFinish, DrainStops, DrainInvalid, DrainAside, DrainBlocked,
     DrainReady, DrainBarrier, DrainRecheck, DrainStamp
<1>4. CASE \/ AsideWrite(d) \/ AsideMove(d) \/ AsideForget(d)
           \/ SubmitRefuse(d) \/ SubmitFlush(d) \/ FlushEnds(d) \/ SubmitLook(d)
           \/ SubmitType(d) \/ SubmitMisses(d)
  BY <1>4 DEF AsideWrite, AsideMove, AsideForget, SubmitRefuse, SubmitFlush, FlushEnds, SubmitLook,
     SubmitType, SubmitMisses
<1>5. CASE SubmitPaste(d)
  BY <1>5 DEF SubmitPaste
<1>6. CASE SubmitEnds(d)
  BY <1>6 DEF SubmitEnds
<1>7. CASE \/ Settle(d) \/ MoveProcessed(d) \/ MoveFailed(d) \/ MoveBackAndGoOn(d)
           \/ MoveBackAndRetry(d) \/ MoveBackAndStop(d) \/ DrainSidecar(d)
  BY <1>7 DEF Settle, MoveProcessed, MoveFailed, MoveBackAndGoOn, MoveBackAndRetry, MoveBackAndStop,
     DrainSidecar
<1> QED
  BY <1>1, <1>2, <1>3, <1>4, <1>5, <1>6, <1>7 DEF DrainStep

\* A client changes the pane's history only when it queues an identifier anew.
LEMMA ClientPane ==
  ASSUME NEW c \in Clients, ClientStep(c)
  PROVE  \/ UNCHANGED <<file, paneVars>>
         \/ /\ WithdrawRemove(c) \/ CancelAsideWrite(c) \/ CancelAsideMove(c)
            /\ UNCHANGED paneVars
         \/ /\ EnqueueCreate(c) /\ cpc[c] = "create" /\ PaneForgets(citem[c])
            /\ Write(<<LaneOf(citem[c]), citem[c]>>, NewDoc)
<1>1. CASE \/ \E i \in Items : EnqueueSerialized(c, i) \/ EnqueueGenerated(c, i)
           \/ \E i \in Withdrawable : WithdrawLock(c, i)
           \/ \E i \in Cancellable : CancelStart(c, i)
           \/ EnqueueCheck(c)
  BY <1>1 DEF EnqueueSerialized, EnqueueGenerated, WithdrawLock, CancelStart, EnqueueCheck,
     queueVars
<1>2. CASE EnqueueCreate(c)
  BY <1>2 DEF EnqueueCreate
<1>3. CASE \/ LookMisses(c) \/ LookFinds(c) \/ LookTorn(c) \/ CancelDecide(c) \/ CancelTombstone(c)
           \/ CancelTryLock(c) \/ CancelAsideForget(c) \/ CancelReport(c)
  BY <1>3 DEF LookMisses, LookFinds, LookTorn, CancelDecide, CancelTombstone, CancelTryLock,
     CancelAsideForget, CancelReport, queueVars
<1>4. CASE WithdrawRemove(c) \/ CancelAsideWrite(c) \/ CancelAsideMove(c)
  BY <1>4 DEF WithdrawRemove, CancelAsideWrite, CancelAsideMove
<1> QED
  BY <1>1, <1>2, <1>3, <1>4 DEF ClientStep

\* One text more in the pane is one more typed; taking, drawing or losing it makes none.
LEMMA PaneKeepsTokens ==
  ASSUME PaneTypeOK, PaneInv, NEW i \in Items,
         \/ PaneDraws(i) \/ PaneDrops(i) \/ PaneTakes(i) \/ PaneTakesUndrawn(i)
         \/ PanePaste(i) \/ PanePrompt(i) \/ PaneTakeBack(i) \/ PaneForgets(i)
  PROVE  PaneInv'
<1> SUFFICES ASSUME NEW j \in Items PROVE (Tokens(j) <= typed[j])'
  BY DEF PaneInv
<1>1. /\ Tokens(j) <= typed[j] /\ typed[j] \in Int /\ accepted[j] \in Nat
      /\ i \in Items /\ NoDraft # j /\ Foreign # j
  BY PaneAssumption DEF PaneInv, PaneTypeOK, PaneAssumption
<1>2. /\ typed \in [Items -> Int] /\ accepted \in [Items -> Nat]
  BY DEF PaneTypeOK
<1>3. CASE PaneDraws(i) \/ PaneDrops(i)
  BY <1>1, <1>2, <1>3 DEF Tokens, PaneDraws, PaneDrops
<1>4. CASE PaneTakes(i) \/ PaneTakesUndrawn(i)
  BY <1>1, <1>2, <1>4 DEF Tokens, PaneTakes, PaneTakesUndrawn
<1>5. CASE PanePaste(i)
  BY <1>1, <1>2, <1>5 DEF Tokens, PanePaste
<1>6. CASE PanePrompt(i)
  BY <1>1, <1>2, <1>6 DEF Tokens, PanePrompt
<1>7. CASE PaneTakeBack(i)
  BY <1>1, <1>2, <1>7 DEF Tokens, PaneTakeBack
<1>8. CASE PaneForgets(i)
  BY <1>1, <1>2, <1>8 DEF Tokens, PaneForgets
<1> QED
  BY <1>3, <1>4, <1>5, <1>6, <1>7, <1>8

\* PaneInv is inductive.
LEMMA NextPaneInv ==
  ASSUME QueueInv, PaneInv, [Next]_vars PROVE PaneInv'
<1>0. PaneTypeOK
  BY DEF QueueInv, TypeOK
<1>1. ASSUME UNCHANGED paneVars PROVE PaneInv'
  BY <1>1 DEF paneVars, PaneInv, Tokens
<1>2. ASSUME NEW c \in Clients, ClientActs(c) PROVE PaneInv'
  BY <1>0, <1>1, <1>2, ClientPane, ClientTypes, PaneKeepsTokens DEF ClientActs
<1>3. ASSUME NEW d \in Drainers, DrainActs(d) PROVE PaneInv'
  BY <1>0, <1>1, <1>3, DrainPane, DrainTypes, PaneKeepsTokens DEF DrainActs, DrainsPane
<1>4. CASE PaneActs
  <2>1. CASE PersonTypes \/ PersonClears
    BY <1>0, <2>1, PaneAssumption DEF PersonTypes, PersonClears, PaneInv, Tokens, PaneAssumption
  <2> QED
    BY <1>0, <1>4, <2>1, PaneKeepsTokens DEF PaneActs, PaneNext
<1>5. CASE TimePasses \/ Crash \/ UNCHANGED vars \/ \E d \in Drainers : DrainStarts(d)
  BY <1>1, <1>5 DEF TimePasses, Crash, DrainCrash, ClientCrash, vars, DrainStarts, DrainLock
<1> QED
  BY <1>2, <1>3, <1>4, <1>5 DEF Next

-----------------------------------------------------------------------------
(***************************************************************************)
(* The drainer's copy of the document.                                     *)
(***************************************************************************)

\* Steps of a drain that leave the files and the pane's history of typing alone.
Quiet(d) ==
  \/ \E i \in Items : SubmitRecoverDraft(d, i)
  \/ RependDone(d) \/ RecoverSidecar(d) \/ RecoverDone(d) \/ DigestSidecar(d) \/ DrainSnapshot(d)
  \/ DrainPick(d) \/ DrainFinish(d) \/ DrainStops(d) \/ DrainAside(d) \/ DrainReady(d)
  \/ DrainRecheck(d) \/ AsideForget(d) \/ SubmitRefuse(d) \/ SubmitFlush(d) \/ FlushEnds(d)
  \/ SubmitLook(d) \/ SubmitMisses(d) \/ DrainSidecar(d)
  \/ SubmitEnds(d) /\ UNCHANGED paneVars

\* A quiet step writes no file and types nothing.
LEMMA QuietKeeps ==
  ASSUME NEW d \in Drainers, Quiet(d)
  PROVE  UNCHANGED <<file, typed>>
<1>1. CASE \/ \E i \in Items : SubmitRecoverDraft(d, i)
           \/ RependDone(d) \/ RecoverSidecar(d) \/ RecoverDone(d) \/ DigestSidecar(d)
           \/ DrainSnapshot(d) \/ DrainPick(d) \/ DrainFinish(d) \/ DrainStops(d) \/ DrainAside(d)
  BY <1>1 DEF SubmitRecoverDraft, PaneTakes, RependDone, RecoverSidecar, RecoverDone, DigestSidecar,
     DrainSnapshot, DrainPick, DrainFinish, DrainStops, DrainAside, queueVars, paneVars
<1>2. CASE \/ DrainReady(d) \/ DrainRecheck(d) \/ AsideForget(d) \/ SubmitRefuse(d) \/ SubmitFlush(d)
           \/ FlushEnds(d) \/ SubmitLook(d) \/ SubmitMisses(d) \/ DrainSidecar(d)
           \/ SubmitEnds(d) /\ UNCHANGED paneVars
  BY <1>2 DEF DrainReady, DrainRecheck, AsideForget, SubmitRefuse, SubmitFlush, FlushEnds,
     SubmitLook,
     SubmitMisses, SubmitEnds, DrainSidecar, Concludes, queueVars, paneVars
<1> QED
  BY <1>1, <1>2 DEF Quiet

\* Every step of a drain: quiet, or one of those that touch a document, or typing, or taking back.
LEMMA DrainCases ==
  ASSUME NEW d \in Drainers, DrainStep(d)
  PROVE  \/ Quiet(d)
         \/ \E i \in Items : \/ RependStranded(d, i) \/ RecoverNeverTyped(d, i)
                             \/ RecoverQuarantine(d, i) \/ DigestAside(d, i)
         \/ RependMove(d) \/ RecoverMove(d)
         \/ DrainInvalid(d) \/ DrainBlocked(d) \/ DrainBarrier(d)
         \/ DrainStamp(d) \/ AsideWrite(d) \/ AsideMove(d) \/ SubmitType(d) \/ SubmitPaste(d)
         \/ SubmitEnds(d) /\ Verified(d) /\ Concludes(d, "await", "taken_back")
              /\ PaneTakeBack(Item(d))
         \/ Settle(d) \/ MoveProcessed(d) \/ MoveFailed(d)
         \/ MoveBackAndGoOn(d) \/ MoveBackAndRetry(d) \/ MoveBackAndStop(d)
<1>1. SubmitEnds(d) => \/ UNCHANGED paneVars
                       \/ /\ Verified(d) /\ Concludes(d, "await", "taken_back")
                          /\ PaneTakeBack(Item(d))
  BY DEF SubmitEnds
<1> QED
  BY <1>1 DEF DrainStep, Quiet

\* Typing changes only when a drain pastes or takes back, and only for the item in hand.
LEMMA LoudKeepsTyped ==
  ASSUME NEW d \in Drainers, NEW i \in Items,
         \/ RependStranded(d, i) \/ RecoverNeverTyped(d, i) \/ RecoverQuarantine(d, i)
         \/ DigestAside(d, i) \/ RependMove(d) \/ RecoverMove(d)
         \/ DrainInvalid(d) \/ DrainBlocked(d) \/ DrainBarrier(d) \/ DrainStamp(d)
         \/ AsideWrite(d) \/ AsideMove(d) \/ SubmitType(d)
         \/ Settle(d) \/ MoveProcessed(d) \/ MoveFailed(d)
         \/ MoveBackAndGoOn(d) \/ MoveBackAndRetry(d) \/ MoveBackAndStop(d)
  PROVE  UNCHANGED paneVars
<1>1. CASE \/ RependStranded(d, i) \/ RecoverNeverTyped(d, i) \/ RecoverQuarantine(d, i)
           \/ DigestAside(d, i) \/ RependMove(d) \/ RecoverMove(d)
           \/ DrainInvalid(d) \/ DrainBlocked(d) \/ DrainBarrier(d) \/ DrainStamp(d)
  BY <1>1 DEF RependStranded, RecoverNeverTyped, RecoverQuarantine, DigestAside, RependMove,
     RecoverMove, DrainInvalid, DrainBlocked, DrainBarrier, DrainStamp
<1>2. CASE \/ AsideWrite(d) \/ AsideMove(d) \/ SubmitType(d)
           \/ Settle(d) \/ MoveProcessed(d) \/ MoveFailed(d)
           \/ MoveBackAndGoOn(d) \/ MoveBackAndRetry(d) \/ MoveBackAndStop(d)
  BY <1>2 DEF AsideWrite, AsideMove, SubmitType, Settle, MoveProcessed, MoveFailed,
     MoveBackAndGoOn, MoveBackAndRetry, MoveBackAndStop
<1> QED
  BY <1>1, <1>2

\* Where the drain gets to by each step that touches a document: recovery ...
LEMMA RecoveryPlaces ==
  ASSUME QueueInv, NEW d \in Drainers, NEW i \in Items
  PROVE  /\ RependStranded(d, i) =>
              /\ dpc[d] = "repend" /\ dpc'[d] = "repend_move"
              /\ dpath'[d] = <<file[Inflight(i)].from, i>>
         /\ RecoverNeverTyped(d, i) =>
              /\ dpc[d] = "recover" /\ dpc'[d] = "recover_move"
              /\ dpath'[d] = <<file[Inflight(i)].from, i>>
         /\ RecoverQuarantine(d, i) =>
              dpc[d] = "recover" /\ dpc'[d] = "recover_sidecar" /\ dpath'[d] = <<"inbox", i>>
         /\ DigestAside(d, i) =>
              /\ dpc[d] = "digest" /\ dpc'[d] = "digest_sidecar" /\ dpath'[d] = <<"inbox", i>>
              /\ i \in Digest
         /\ RependMove(d) => dpc[d] = "repend_move" /\ dpc'[d] = "repend" /\ dpath'[d] = dpath[d]
         /\ RecoverMove(d) => dpc[d] = "recover_move" /\ dpc'[d] = "recover" /\ dpath'[d] = dpath[d]
<1>1. DrainTypeOK
  BY DEF QueueInv, TypeOK
<1> QED
  BY <1>1 DEF DrainTypeOK, RependStranded, RecoverNeverTyped, RecoverQuarantine, DigestAside,
     RependMove, RecoverMove, Step

\* ... up to the stamp behind the barrier, or aside ...
LEMMA LoadPlaces ==
  ASSUME QueueInv, NEW d \in Drainers
  PROVE  /\ DrainInvalid(d) => dpc[d] = "load" /\ dpc'[d] = "sidecar" /\ dpath'[d] = dpath[d]
         /\ DrainBlocked(d) => dpc[d] = "load" /\ DrainEnds(d) /\ dpc'[d] = "idle"
         /\ DrainBarrier(d) => /\ dpc[d] = "barrier" /\ dpc'[d] = "recheck" /\ dpath'[d] = dpath[d]
                               /\ ddoc'[d] = ddoc[d]
         /\ DrainStamp(d) =>
              /\ dpc[d] = "stamp" /\ dpc'[d] = "submit" /\ dpath'[d] = dpath[d]
              /\ ddoc'[d] = [ddoc[d] EXCEPT !.tracked = TRUE, !.from = dpath[d][1],
                                            !.pasted = FALSE]
         /\ AsideWrite(d) => /\ dpc[d] = "aside" /\ dpc'[d] = "aside_move"
                             /\ dpath'[d] = dpath[d] /\ dat'[d] = dat[d]
         /\ AsideMove(d) => /\ dpc[d] = "aside_move" /\ dpc'[d] = "aside_forget"
                            /\ dpath'[d] = dpath[d]
<1>1. DrainTypeOK
  BY DEF QueueInv, TypeOK
<1> QED
  BY <1>1 DEF DrainTypeOK, DrainInvalid, DrainBlocked, DrainBarrier, DrainStamp, AsideWrite,
     AsideMove, Step, DrainEnds

\* ... and from the first key to the settling rename.
LEMMA SubmitPlaces ==
  ASSUME QueueInv, NEW d \in Drainers
  PROVE  /\ SubmitType(d) =>
              /\ dpc[d] = "submit" /\ dpc'[d] = "paste" /\ dpath'[d] = dpath[d]
              /\ ddoc'[d] = ddoc[d] /\ (Verified(d) => ~ddoc[d].stranded)
         /\ SubmitPaste(d) =>
              /\ dpc[d] = "paste" /\ dpc'[d] = "await" /\ dpath'[d] = dpath[d]
              /\ ddoc'[d] = ddoc[d] /\ UNCHANGED file
         /\ Concludes(d, "await", "taken_back") =>
              /\ dpc[d] = "await" /\ dpc'[d] = "settle" /\ dpath'[d] = dpath[d]
              /\ ddoc'[d] = ddoc[d] /\ dout'[d] = "taken_back" /\ UNCHANGED file
         /\ Settle(d) =>
              /\ dpc[d] = "settle" /\ dpc'[d] = "move" /\ dpath'[d] = dpath[d]
              /\ ddoc'[d] = Settled(ddoc[d], dout[d]) /\ dout'[d] = dout[d]
         /\ MoveProcessed(d) => /\ dpc[d] = "move" /\ dpc'[d] = "next" /\ dpath'[d] = dpath[d]
                                /\ dout[d] = "confirmed"
         /\ MoveFailed(d) => dpc[d] = "move" /\ dpc'[d] = "sidecar" /\ dpath'[d] = dpath[d]
         /\ MoveBackAndGoOn(d) => /\ dpc[d] = "move" /\ dpc'[d] = "next" /\ dpath'[d] = dpath[d]
                                  /\ MoveBack(d) /\ dout[d] = "lost"
         /\ MoveBackAndRetry(d) => /\ dpc[d] = "move" /\ dpc'[d] = "load" /\ dpath'[d] = dpath[d]
                                   /\ MoveBack(d)
         /\ MoveBackAndStop(d) => dpc[d] = "move" /\ dpc'[d] = "idle" /\ MoveBack(d) /\ DrainEnds(d)
         /\ MoveBack(d) => dout[d] \notin Open
<1>1. DrainTypeOK
  BY DEF QueueInv, TypeOK
<1>2. /\ SubmitType(d) =>
           /\ dpc[d] = "submit" /\ dpc'[d] = "paste" /\ dpath'[d] = dpath[d]
           /\ ddoc'[d] = ddoc[d] /\ (Verified(d) => ~ddoc[d].stranded)
      /\ SubmitPaste(d) =>
           /\ dpc[d] = "paste" /\ dpc'[d] = "await" /\ dpath'[d] = dpath[d]
           /\ ddoc'[d] = ddoc[d] /\ UNCHANGED file
  BY <1>1 DEF DrainTypeOK, SubmitType, SubmitPaste, Step, queueVars
<1> QED
  BY <1>1, <1>2 DEF DrainTypeOK, Concludes, Settle, MoveProcessed, MoveFailed, MoveBackAndGoOn,
     MoveBackAndRetry, MoveBackAndStop, MoveBack, GivesUp, Open, Step, DrainEnds, queueVars

\* What an outcome leaves of the document: no origin, and the stranded mark where it was.
LEMMA SettledFacts ==
  ASSUME NEW doc \in Doc, NEW out \in Outcome
  PROVE  LET new == Settled(doc, out)
         IN  /\ new.from = "none"
             /\ doc.stranded => new.stranded
             /\ out \in Marking => new.stranded
<1> DEFINE left == Stripped(doc)
<1>1. left \in Doc /\ left.from = "none" /\ left.stranded = doc.stranded
  BY StrippedType DEF Stripped, Doc
<1> HIDE DEF left
<1>2. CASE out = "confirmed"
  BY <1>1, <1>2 DEF Settled, Marking, left
<1>3. CASE out \in {"refused", "unreadable", "taken_back", "not_begun"}
  <2>1. Settled(doc, out) \in {[left EXCEPT !.refused = TRUE], [left EXCEPT !.refused = FALSE]}
    BY <1>3 DEF Settled, left
  <2> QED
    BY <1>1, <1>3, <2>1 DEF Marking, Doc
<1>4. CASE out \in Marking
  <2>1. Settled(doc, out) = [left EXCEPT !.refused = FALSE, !.stranded = TRUE,
                                         !.passes = UpTo(MaxLostPastePasses, @ + 1)]
    BY <1>4 DEF Settled, Marking, left
  <2> QED
    BY <1>1, <2>1 DEF Doc
<1>5. CASE out = "misrouted"
  <2>1. PICK m, n : Settled(doc, out) = [left EXCEPT !.refused = FALSE, !.misroutes = m,
                                                     !.attempts = n]
    BY <1>5 DEF Settled, left
  <2> QED
    BY <1>1, <1>5, <2>1 DEF Marking, Doc
<1>6. CASE out \notin {"confirmed", "refused", "unreadable", "taken_back", "not_begun", "stranded",
                       "lost", "misrouted"}
  <2>1. Settled(doc, out) = [left EXCEPT !.refused = FALSE, !.attempts = @ + 1]
    BY <1>6 DEF Settled, left
  <2> QED
    BY <1>1, <1>6, <2>1 DEF Marking, Doc
<1> QED
  BY <1>2, <1>3, <1>4, <1>5, <1>6 DEF Marking

\* What the stamps of the other writes say.
LEMMA StampFacts ==
  ASSUME NEW doc \in Doc, NEW lane \in Lanes
  PROVE  /\ Stripped(doc).from = "none" /\ Stripped(doc).stranded = doc.stranded
         /\ LET new == [doc EXCEPT !.tracked = TRUE, !.from = lane, !.pasted = FALSE]
            IN  new.tracked /\ new.from = lane /\ ~new.pasted /\ new.stranded = doc.stranded
                /\ new.valid = doc.valid
         /\ LET new == [doc EXCEPT !.pasted = TRUE]
            IN  new.tracked = doc.tracked /\ new.from = doc.from /\ new.pasted
                /\ new.stranded = doc.stranded /\ new.valid = doc.valid
         /\ \A untyped \in BOOLEAN : [doc EXCEPT !.refused = untyped].stranded = doc.stranded
         /\ LET new == [Stripped(doc) EXCEPT !.stranded = TRUE]
            IN  new.from = "none" /\ new.stranded
<1>1. PICK left \in Doc : left = Stripped(doc)
  BY StrippedType
<1>2. left.from = "none" /\ left.stranded = doc.stranded
  BY <1>1 DEF Stripped, Doc
<1>3. [left EXCEPT !.stranded = TRUE].from = left.from /\ [left EXCEPT !.stranded = TRUE].stranded
  BY DEF Doc
<1> QED
  BY <1>1, <1>2, <1>3 DEF Doc

\* Where a quiet step leads.
LEMMA QuietPlaces ==
  ASSUME QueueInv, NEW d \in Drainers
  PROVE  /\ \A i \in Items : SubmitRecoverDraft(d, i) => dpc[d] = "submit" /\ UNCHANGED drainVars
         /\ RependDone(d) => dpc[d] = "repend" /\ dpc'[d] = "recover" /\ dpath'[d] = dpath[d]
         /\ RecoverSidecar(d) => dpc[d] = "recover_sidecar" /\ dpc'[d] = "recover" /\ dpath'[d] = dpath[d]
         /\ RecoverDone(d) => dpc[d] = "recover" /\ dpc'[d] = "digest" /\ dpath'[d] = dpath[d]
         /\ DigestSidecar(d) => dpc[d] = "digest_sidecar" /\ dpc'[d] = "digest" /\ dpath'[d] = dpath[d]
         /\ DrainSnapshot(d) => dpc[d] = "digest" /\ dpc'[d] = "next"
         /\ DrainPick(d) => dpc[d] = "next" /\ dpc'[d] = "load"
         /\ DrainFinish(d) \/ DrainStops(d) => dpc[d] = "next" /\ dpc'[d] = "idle" /\ DrainEnds(d)
         /\ DrainAside(d) =>
              /\ dpc'[d] = "aside" /\ dpath'[d] = dpath[d]
              /\ \/ dpc[d] = "load" /\ dat'[d] = dpath[d]
                 \/ dpc[d] = "recheck" /\ dat'[d] = Inflight(Item(d))
         /\ DrainReady(d) =>
              /\ dpc[d] = "load" /\ dpc'[d] = "barrier" /\ dpath'[d] = dpath[d]
              /\ ddoc'[d] = file[dpath[d]] /\ file[dpath[d]].valid
         /\ DrainRecheck(d) =>
              /\ dpc[d] = "recheck" /\ dpc'[d] = "stamp" /\ dpath'[d] = dpath[d]
              /\ ddoc'[d] = ddoc[d] /\ Item(d) \notin tomb
         /\ AsideForget(d) => dpc[d] = "aside_forget" /\ dpc'[d] = "next" /\ dpath'[d] = dpath[d]
         /\ SubmitFlush(d) =>
              /\ dpc[d] = "submit" /\ dpc'[d] = "flushed" /\ dpath'[d] = dpath[d]
              /\ ddoc'[d] = ddoc[d]
         /\ DrainSidecar(d) => dpc[d] = "sidecar" /\ dpc'[d] = "next" /\ dpath'[d] = dpath[d]
<1>1. DrainTypeOK
  BY DEF QueueInv, TypeOK
<1>2. /\ DrainAside(d) =>
           /\ dpc'[d] = "aside" /\ dpath'[d] = dpath[d]
           /\ \/ dpc[d] = "load" /\ dat'[d] = dpath[d]
              \/ dpc[d] = "recheck" /\ dat'[d] = Inflight(Item(d))
      /\ DrainReady(d) =>
           /\ dpc[d] = "load" /\ dpc'[d] = "barrier" /\ dpath'[d] = dpath[d]
           /\ ddoc'[d] = file[dpath[d]] /\ file[dpath[d]].valid
      /\ DrainRecheck(d) =>
           /\ dpc[d] = "recheck" /\ dpc'[d] = "stamp" /\ dpath'[d] = dpath[d]
           /\ ddoc'[d] = ddoc[d] /\ Item(d) \notin tomb
  BY <1>1 DEF DrainTypeOK, DrainAside, DrainReady, DrainRecheck, SetAsideReason, Step
<1> QED
  BY <1>1, <1>2 DEF DrainTypeOK, SubmitRecoverDraft, RependDone, RecoverSidecar, RecoverDone,
     DigestSidecar, DrainSnapshot, DrainPick, DrainFinish, DrainStops, AsideForget, SubmitFlush,
     DrainSidecar, DrainEnds, PutDown, Step

\* What a submission can conclude, and from where.
LEMMA ConcludePlaces ==
  ASSUME QueueInv, NEW d \in Drainers,
         \/ SubmitRefuse(d) \/ FlushEnds(d) \/ SubmitLook(d) \/ SubmitMisses(d) \/ SubmitEnds(d)
  PROVE  /\ dpc'[d] = "settle" /\ dpath'[d] = dpath[d] /\ ddoc'[d] = ddoc[d]
         /\ \/ dpc[d] = "submit" /\ dout'[d] \in {"refused", "unreadable", "not_begun"}
            \/ dpc[d] = "submit" /\ Verified(d) /\ dout'[d] \in Marking
            \/ /\ dpc[d] = "submit" /\ Verified(d) /\ dout'[d] = "confirmed"
               /\ accepted[Item(d)] > 0
            \/ dpc[d] = "flushed" /\ dout'[d] \in {"stranded", "unknown"}
            \/ dpc[d] = "flushed" /\ dout'[d] = "confirmed" /\ draft = NoDraft
            \/ dpc[d] = "paste" /\ dout'[d] \in {"misrouted", "unknown"}
            \/ dpc[d] = "await" /\ dout'[d] = "confirmed" /\ accepted[Item(d)] > 0
            \/ dpc[d] = "await" /\ dout'[d] = "unknown"
            \/ dpc[d] = "await" /\ Verified(d) /\ dout'[d] \in {"stranded", "taken_back"}
<1>1. DrainTypeOK
  BY DEF QueueInv, TypeOK
<1>2. \A from, out : Concludes(d, from, out) =>
        /\ dpc[d] = from /\ dpc'[d] = "settle" /\ dpath'[d] = dpath[d] /\ ddoc'[d] = ddoc[d]
        /\ dout'[d] = out
  BY <1>1 DEF DrainTypeOK, Concludes, Step
<1>3. CASE SubmitRefuse(d) \/ SubmitLook(d)
  BY <1>2, <1>3 DEF SubmitRefuse, SubmitLook, Marking
<1>4. CASE FlushEnds(d) \/ SubmitMisses(d)
  BY <1>2, <1>4 DEF FlushEnds, SubmitMisses
<1>5. CASE SubmitEnds(d)
  BY <1>2, <1>5 DEF SubmitEnds
<1> QED
  BY <1>3, <1>4, <1>5

\* The places at which HandDoc says something.
HandDocPlaces == {"barrier", "recheck", "stamp", "submit", "paste", "flushed", "await", "move"}

\* Every step of a drain keeps its copy of the document true to the one on disk.
LEMMA DrainHandDoc ==
  ASSUME QueueInv, NEW d \in Drainers, HandDoc(d), DrainStep(d)
  PROVE  HandDoc(d)'
<1>1. ASSUME dpc'[d] \notin HandDocPlaces PROVE HandDoc(d)'
  BY <1>1 DEF HandDoc, HandDocPlaces
<1>2. CASE /\ Quiet(d)
           /\ ~DrainReady(d) /\ ~DrainRecheck(d) /\ ~SubmitFlush(d)
           /\ \A i \in Items : ~SubmitRecoverDraft(d, i)
  BY <1>1, <1>2, QuietPlaces, ConcludePlaces DEF Quiet, HandDocPlaces
<1>3. ASSUME NEW i \in Items, SubmitRecoverDraft(d, i) PROVE HandDoc(d)'
  BY <1>3, QuietPlaces, QuietKeeps DEF Quiet, HandDoc, Item, Inflight, drainVars, Verified
<1>4. CASE DrainReady(d)
  <2>1. UNCHANGED file
    BY <1>4, QuietKeeps DEF Quiet
  <2> QED
    BY <1>4, <2>1, QuietPlaces DEF HandDoc
<1>5. CASE DrainRecheck(d) \/ SubmitFlush(d)
  <2>1. UNCHANGED file
    BY <1>5, QuietKeeps DEF Quiet
  <2> QED
    BY <1>5, <2>1, QuietPlaces DEF HandDoc, Item, Inflight
<1>6. ASSUME NEW i \in Items, \/ RependStranded(d, i) \/ RecoverNeverTyped(d, i)
                              \/ RecoverQuarantine(d, i) \/ DigestAside(d, i)
      PROVE  HandDoc(d)'
  BY <1>1, <1>6, RecoveryPlaces DEF HandDocPlaces
<1>7. CASE RependMove(d) \/ RecoverMove(d)
  BY <1>1, <1>7, DrainTypes, RecoveryPlaces DEF HandDocPlaces
<1>8. CASE DrainInvalid(d) \/ DrainBlocked(d) \/ AsideWrite(d) \/ AsideMove(d)
  BY <1>1, <1>8, LoadPlaces DEF HandDocPlaces
<1>9. CASE DrainBarrier(d)
  <2>1. PICK i \in Items, lane \in Lanes : i = Item(d) /\ dpath[d] = <<lane, i>>
    BY DrainTypes
  <2>2. Touches(i, lane, file[<<lane, i>>], "inflight", file[<<lane, i>>])
    BY <1>9, <2>1, LoadTouches
  <2>3. file'[<<"inflight", i>>] = file[<<lane, i>>]
    BY <2>2, PhaseFacts DEF Touches
  <2>4. file[<<lane, i>>] = ddoc[d] /\ ddoc[d].valid
    BY <1>9, <2>1, LoadPlaces DEF HandDoc
  <2>5. dpc'[d] = "recheck" /\ dpath'[d] = <<lane, i>> /\ ddoc'[d] = ddoc[d]
    BY <1>9, <2>1, LoadPlaces
  <2> QED
    BY <2>3, <2>4, <2>5 DEF HandDoc, Item, Inflight
<1>10. CASE DrainStamp(d)
  <2>1. PICK i \in Items, lane \in Lanes : i = Item(d) /\ dpath[d] = <<lane, i>> /\ dpath[d][1] = lane
    BY DrainTypes
  <2>2. PICK doc \in Doc : doc = ddoc[d] /\ doc.valid
    BY <1>10, DrainTypes, LoadPlaces DEF HandDoc
  <2>3. PICK new \in Doc : /\ new = [doc EXCEPT !.tracked = TRUE, !.from = lane, !.pasted = FALSE]
                           /\ new.tracked /\ new.from = lane /\ new.valid
    <3>1. [doc EXCEPT !.tracked = TRUE, !.from = lane, !.pasted = FALSE] \in Doc
      BY StampType
    <3> QED
      BY <2>2, <3>1 DEF Doc
  <2>4. file'[<<"inflight", i>>] = new
    BY <1>10, <2>1, <2>2, <2>3, InflightTouches, PhaseFacts DEF Touches
  <2>5. ddoc'[d] = new /\ dpc'[d] = "submit" /\ dpath'[d] = dpath[d]
    BY <1>10, <2>1, <2>2, <2>3, LoadPlaces
  <2> QED
    BY <2>1, <2>3, <2>4, <2>5 DEF HandDoc, Item, Inflight
<1>11. CASE SubmitType(d)
  <2>1. PICK i \in Items : i = Item(d)
    BY DrainTypes
  <2>2. file'[<<"inflight", i>>] = [ddoc[d] EXCEPT !.pasted = TRUE] \/ StampMayFail
    BY <1>11, <2>1, InflightTouches, PhaseFacts DEF Touches
  <2> QED
    BY <1>11, <2>1, <2>2, SubmitPlaces DEF HandDoc, Item, Inflight, Verified
<1>12. CASE SubmitPaste(d)
  BY <1>12, SubmitPlaces DEF HandDoc, Item, Inflight, Verified
<1>13. CASE Concludes(d, "await", "taken_back")
  BY <1>1, <1>13, SubmitPlaces DEF HandDocPlaces
<1>14. CASE Settle(d)
  <2>1. PICK i \in Items : i = Item(d)
    BY DrainTypes
  <2>2. PICK new : /\ new = Settled(ddoc[d], dout[d]) /\ new.from = "none"
                   /\ (dout[d] \in Marking => new.stranded)
    BY DrainTypes, SettledFacts
  <2>3. file'[<<"inflight", i>>] = new
    BY <1>14, <2>1, <2>2, InflightTouches, PhaseFacts DEF Touches
  <2> QED
    BY <1>14, <2>1, <2>2, <2>3, SubmitPlaces DEF HandDoc, Item, Inflight, Marking
<1>15. CASE \/ MoveProcessed(d) \/ MoveFailed(d) \/ MoveBackAndGoOn(d) \/ MoveBackAndRetry(d)
            \/ MoveBackAndStop(d)
  BY <1>1, <1>15, SubmitPlaces DEF HandDocPlaces
<1> QED
  BY <1>2, <1>3, <1>4, <1>5, <1>6, <1>7, <1>8, <1>9, <1>10, <1>11, <1>12, <1>13, <1>14, <1>15,
     DrainCases

-----------------------------------------------------------------------------
(***************************************************************************)
(* What a client does to the files: nothing, or, with the lock, one        *)
(* waiting document is rewritten, set aside or deleted, or a new one       *)
(* appears.                                                                *)
(***************************************************************************)
OthersStay(i) == \A j \in Items \ {i} : \A q \in Phases : file'[<<q, j>>] = file[<<q, j>>]

\* withdraw deletes the waiting document of i.
Vanishes(i) ==
  /\ OthersStay(i) /\ \E lane \in Lanes : Exists(<<lane, i>>)
  /\ \A q \in Phases : file'[<<q, i>>] = NoFile

\* enqueue creates the document of i.
Appears(i) ==
  /\ OthersStay(i) /\ ~Present(i)
  /\ \A q \in Phases : file'[<<q, i>>] = IF q = LaneOf(i) THEN NewDoc ELSE NoFile
  /\ PaneForgets(i)

\* cancel rewrites or sets aside the waiting document of i.
SetsAside(i) ==
  \E lane \in Lanes, old \in Doc :
    Touches(i, lane, old, lane, Stripped(old)) \/ Touches(i, lane, old, "cancelled", old)

\* What enqueue, withdraw and cancel do to the files: a document is set aside or deleted only
\* under the lock, with every drainer idle, and a new one appears only where there was none.
LEMMA ClientEffect ==
  ASSUME QueueInv, NEW c \in Clients, ClientStep(c)
  PROVE  \/ UNCHANGED <<file, paneVars>>
         \/ /\ UNCHANGED paneVars /\ \A d \in Drainers : dpc[d] = "idle"
            /\ \E i \in Items : SetsAside(i) \/ Vanishes(i)
         \/ EnqueueCreate(c) /\ Appears(citem[c])
<1>1. PICK i \in Items : i = citem[c]
  BY ClientTypes
<1>2. ASSUME cpc[c] \in {"remove", "aside", "aside_move"} PROVE \A d \in Drainers : dpc[d] = "idle"
  <2>1. lock = c /\ c \notin Drainers
    BY <1>2, ClientLockTypes, SystemAssumption DEF ClientLocked, SystemAssumption
  <2> QED
    BY <2>1 DEF QueueInv, LockInv
<1>3. CASE EnqueueCreate(c)
  <2>1. PICK lane \in Lanes : lane = LaneOf(i)
    BY <1>1, ClientTypes
  <2>2. CASE Exists(<<lane, i>>)
    BY <1>1, <1>3, <2>1, <2>2 DEF EnqueueCreate
  <2>3. CASE ~Exists(<<lane, i>>)
    <3>1. ~Present(i)
      BY <1>1, <1>3 DEF EnqueueCreate, QueueInv, EnqueueInv
    <3>2. Write(<<lane, i>>, NewDoc) /\ PaneForgets(i)
      BY <1>1, <1>3, <2>1, <2>3 DEF EnqueueCreate
    <3>3. \A q \in Phases : file[<<q, i>>] = NoFile
      BY <3>1 DEF Present, Exists
    <3>4. /\ \A q \in Phases : file'[<<q, i>>] = IF q = lane THEN NewDoc ELSE NoFile
          /\ OthersStay(i)
      BY <3>2, <3>3, PhaseFacts DEF Write, QueueInv, TypeOK, Path, OthersStay
    <3> QED
      BY <1>1, <1>3, <2>1, <3>1, <3>2, <3>4 DEF Appears
  <2> QED
    BY <2>2, <2>3
<1>4. CASE WithdrawRemove(c)
  <2>1. CASE UNCHANGED file
    BY <1>4, <2>1 DEF WithdrawRemove
  <2>2. CASE ~UNCHANGED file
    <3>1. PICK lane \in Lanes : lane = WaitingIn(i) /\ Exists(<<lane, i>>) /\ Remove(<<lane, i>>)
      BY <1>1, <1>4, <2>2, ClientTypes DEF WithdrawRemove
    <3>2. \A q \in Phases : q # lane => file[<<q, i>>] = NoFile
      BY <3>1, OnlyThere, PhaseFacts
    <3>3. Vanishes(i)
      BY <3>1, <3>2, PhaseFacts DEF Remove, QueueInv, TypeOK, Path, Vanishes, OthersStay
    <3> QED
      BY <1>2, <1>4, <3>3 DEF WithdrawRemove
  <2> QED
    BY <2>1, <2>2
<1>5. CASE CancelAsideWrite(c)
  <2>1. PICK lane \in Lanes : lane = WaitingIn(i) /\ Exists(<<lane, i>>)
    BY <1>1, <1>5, ClientTypes DEF CancelAsideWrite, QueueInv, ClientHandInv
  <2>2. PICK old \in Doc : old = file[<<lane, i>>]
    BY <2>1, OnlyThere, PhaseFacts
  <2>3. Touches(i, lane, old, lane, Stripped(old))
    BY <1>1, <1>5, <2>1, <2>2, StrippedType, TouchWrite, PhaseFacts DEF CancelAsideWrite
  <2> QED
    BY <1>2, <1>5, <2>3 DEF CancelAsideWrite, SetsAside
<1>6. CASE CancelAsideMove(c)
  <2>1. PICK lane \in Lanes : lane = WaitingIn(i) /\ Exists(<<lane, i>>)
    BY <1>1, <1>6, ClientTypes DEF CancelAsideMove, QueueInv, ClientHandInv
  <2>2. PICK old \in Doc : old = file[<<lane, i>>]
    BY <2>1, OnlyThere, PhaseFacts
  <2>3. Touches(i, lane, old, "cancelled", old)
    BY <1>1, <1>6, <2>1, <2>2, TouchRename, PhaseFacts DEF CancelAsideMove
  <2> QED
    BY <1>2, <1>6, <2>3 DEF CancelAsideMove, SetsAside
<1> QED
  BY <1>3, <1>4, <1>5, <1>6, ClientPane

\* While a drain is at work, no client touches a document that is there, nor the pane's history of
\* its item.
LEMMA ClientSpares ==
  ASSUME QueueInv, NEW c \in Clients, ClientStep(c), NEW d \in Drainers, dpc[d] # "idle",
         NEW i \in Items, NEW p \in Phases, Exists(<<p, i>>)
  PROVE  /\ file'[<<p, i>>] = file[<<p, i>>]
         /\ typed'[i] = typed[i] /\ accepted'[i] = accepted[i] /\ (draft = i => draft' = i)
<1>1. CASE UNCHANGED <<file, paneVars>>
  BY <1>1 DEF paneVars
<1>2. CASE EnqueueCreate(c) /\ Appears(citem[c])
  <2>1. i # citem[c]
    BY <1>2 DEF Appears, Present
  <2> QED
    BY <1>2, <2>1 DEF Appears, OthersStay, PaneForgets, QueueInv, TypeOK, PaneTypeOK
<1> QED
  BY <1>1, <1>2, ClientEffect

-----------------------------------------------------------------------------
(***************************************************************************)
(* All other steps: the pane, the clock, a crash, a drain that takes the   *)
(* lock.  They touch no file.                                              *)
(***************************************************************************)
Elsewhere ==
  /\ UNCHANGED <<file, tomb, typed>>
  /\ UNCHANGED paneVars \/ PaneNext
  /\ UNCHANGED clientVars \/ \E c \in Clients : ClientCrash(c)
  /\ \/ UNCHANGED <<drainVars, crashes>>
     \/ UNCHANGED drainVars /\ crashes' = crashes + 1
     \/ \E d \in Drainers : DrainLock(d) /\ UNCHANGED crashes
     \/ \E d \in Drainers : DrainEnds(d) /\ dpc[d] # "idle" /\ crashes' = crashes + 1

\* Every step is a client's, a drain's, or touches neither a file nor a tombstone.
LEMMA NextCases ==
  ASSUME [Next]_vars
  PROVE  \/ \E c \in Clients : ClientStep(c) /\ UNCHANGED <<drainVars, crashes>>
         \/ \E d \in Drainers : DrainStep(d) /\ UNCHANGED <<clientVars, crashes>>
         \/ Elsewhere
<1>1. CASE PaneActs
  <2>1. UNCHANGED typed
    BY <1>1 DEF PaneActs, PaneNext, PaneDraws, PaneDrops, PaneTakes, PaneTakesUndrawn, PersonTypes,
       PersonClears
  <2> QED
    BY <1>1, <2>1 DEF PaneActs, Elsewhere, queueVars
<1>2. CASE TimePasses
  BY <1>2 DEF TimePasses, Expire, Elsewhere, paneVars
<1>3. CASE Crash
  BY <1>3 DEF Crash, DrainCrash, ClientCrash, Elsewhere, paneVars
<1>4. ASSUME NEW d \in Drainers, DrainStarts(d) PROVE Elsewhere
  BY <1>4 DEF DrainStarts, DrainLock, Elsewhere, paneVars
<1>5. CASE UNCHANGED vars
  BY <1>5 DEF vars, Elsewhere, queueVars, paneVars
<1> QED
  BY <1>1, <1>2, <1>3, <1>4, <1>5 DEF Next, ClientActs, DrainActs

\* A drainer goes on as it was, or stops, or starts.
LEMMA ElsewhereDrainers ==
  ASSUME QueueInv, Elsewhere, NEW d \in Drainers
  PROVE  \/ DrainerSame(d)
         \/ dpc'[d] = "idle" /\ snapshot'[d] = {} /\ todo'[d] = {}
         \/ dpc[d] = "idle" /\ dpc'[d] = "repend" /\ snapshot'[d] = snapshot[d] /\ todo'[d] = todo[d]
<1>1. DrainTypeOK
  BY DEF QueueInv, TypeOK
<1>2. CASE UNCHANGED drainVars
  BY <1>2 DEF drainVars, DrainerSame
<1>3. ASSUME NEW e \in Drainers, DrainLock(e)
      PROVE  \/ DrainerSame(d)
             \/ dpc[d] = "idle" /\ dpc'[d] = "repend" /\ snapshot'[d] = snapshot[d] /\ todo'[d] = todo[d]
  BY <1>1, <1>3 DEF DrainTypeOK, DrainLock, Step, DrainerSame
<1>4. ASSUME NEW e \in Drainers, DrainEnds(e)
      PROVE  DrainerSame(d) \/ (dpc'[d] = "idle" /\ snapshot'[d] = {} /\ todo'[d] = {})
  BY <1>1, <1>4 DEF DrainTypeOK, DrainEnds, DrainerSame
<1> QED
  BY <1>2, <1>3, <1>4 DEF Elsewhere

\* HandDocInv is inductive.
LEMMA NextHandDoc ==
  ASSUME QueueInv, HandDocInv, [Next]_vars PROVE HandDocInv'
<1> SUFFICES ASSUME NEW e \in Drainers PROVE HandDoc(e)'
  BY DEF HandDocInv
<1>1. HandDoc(e)
  BY DEF HandDocInv
<1>2. ASSUME dpc'[e] \in {"idle", "repend"} PROVE HandDoc(e)'
  BY <1>2 DEF HandDoc
<1>3. ASSUME NEW c \in Clients, ClientStep(c), UNCHANGED drainVars PROVE HandDoc(e)'
  <2>1. CASE dpc[e] = "idle"
    BY <1>2, <1>3, <2>1 DEF drainVars
  <2>2. CASE dpc[e] # "idle"
    <3>1. PICK i \in Items, lane \in Lanes : i = Item(e) /\ dpath[e] = <<lane, i>> /\ dpath[e][1] = lane
      BY DrainTypes
    <3>2. dpc[e] = "barrier" => file'[<<lane, i>>] = file[<<lane, i>>]
      BY <1>3, <2>2, <3>1, HandThere, PhaseFacts, ClientSpares DEF InHandAtPath
    <3>3. dpc[e] \in HandDocPlaces \ {"barrier"} =>
            file'[<<"inflight", i>>] = file[<<"inflight", i>>]
      BY <1>3, <2>2, <3>1, HandThere, PhaseFacts, ClientSpares DEF InHandInflight, HandDocPlaces
    <3>4. UNCHANGED <<dpc, dpath, ddoc, dout>>
      BY <1>3 DEF drainVars
    <3> QED
      BY <1>1, <3>1, <3>2, <3>3, <3>4 DEF HandDoc, HandDocPlaces, Item, Inflight, Verified
  <2> QED
    BY <2>1, <2>2
<1>4. ASSUME NEW d \in Drainers, DrainStep(d) PROVE HandDoc(e)'
  BY <1>1, <1>2, <1>4, DrainHandDoc, DrainAlone DEF DrainerSame
<1>5. CASE Elsewhere
  <2>1. CASE DrainerSame(e)
    BY <1>1, <1>5, <2>1 DEF Elsewhere, DrainerSame, HandDoc, Item, Inflight, Verified
  <2> QED
    BY <1>2, <1>5, <2>1, ElsewhereDrainers
<1> QED
  BY <1>3, <1>4, <1>5, NextCases

-----------------------------------------------------------------------------
(***************************************************************************)
(* Evidence: EvidenceInv, where every stamp reaches the disk.              *)
(***************************************************************************)

\* An item whose documents and typing a step leaves alone stays clean.
LEMMA UntouchedClean ==
  ASSUME NEW i \in Items, ItemClean(i), typed'[i] = typed[i],
         \A q \in Phases : file'[<<q, i>>] = file[<<q, i>>]
  PROVE  ItemClean(i)'
  BY PhaseFacts DEF ItemClean, Clean, Exists, Inflight

\* An item whose document moves or is rewritten is clean where it arrives.
LEMMA TouchedClean ==
  ASSUME NEW i \in Items, NEW p \in Phases, NEW r \in Phases, NEW old, NEW new,
         Touches(i, p, old, r, new), typed'[i] = typed[i], i \notin Native => typed[i] <= 1,
         \/ Clean(i, new)
         \/ r \in {"processed", "failed"}
         \/ r = "inflight" /\ (MaybeTyped(new) \/ ~NeverTyped(new))
         \/ r = "cancelled" /\ i \in Digest
  PROVE  ItemClean(i)'
<1>1. \A q \in Phases : file'[<<q, i>>] = IF q = r THEN new ELSE NoFile
  BY DEF Touches
<1>2. \A lane \in Lanes : Exists(<<lane, i>>)' => Clean(i, file[<<lane, i>>])'
  BY <1>1, PhaseFacts DEF Clean, Exists
<1>3. Exists(Inflight(i))' /\ ~MaybeTyped(file[Inflight(i)])' /\ NeverTyped(file[Inflight(i)])' =>
        Clean(i, file[Inflight(i)])'
  BY <1>1, PhaseFacts DEF Clean, Exists, Inflight
<1>4. i \notin Digest /\ Exists(<<"cancelled", i>>)' => Clean(i, file[<<"cancelled", i>>])'
  BY <1>1, PhaseFacts DEF Clean, Exists
<1> QED
  BY <1>2, <1>3, <1>4 DEF ItemClean

\* The places at which HandClean says something.
HandCleanPlaces == {"recheck", "stamp", "submit", "paste", "settle", "move", "repend_move",
                    "recover", "recover_move", "recover_sidecar", "aside", "aside_move"}

\* A document waiting in a lane is clean; so is one that passed the barrier.
LEMMA CleanInHand ==
  ASSUME QueueInv, EvidenceInv, NEW d \in Drainers
  PROVE  /\ dpc[d] \in InHandAtPath => Clean(Item(d), file[<<dpath[d][1], Item(d)>>])
         /\ HandClean(d) /\ ItemClean(Item(d)) /\ (Item(d) \notin Native => typed[Item(d)] <= 1)
<1>1. Item(d) \in Items /\ dpath[d][1] \in Lanes
  BY DrainTypes
<1>2. HandClean(d) /\ ItemClean(Item(d))
  BY <1>1 DEF EvidenceInv
<1> QED
  BY <1>1, <1>2, HandThere DEF ItemClean

\* Only the wait for the screen ends in taking the text back.
LEMMA ConcludeFlush ==
  ASSUME QueueInv, NEW d \in Drainers, dpc[d] \notin {"submit", "paste"}, dout'[d] = "taken_back",
         SubmitRefuse(d) \/ FlushEnds(d) \/ SubmitLook(d) \/ SubmitMisses(d)
  PROVE  FALSE
<1>1. DrainTypeOK
  BY DEF QueueInv, TypeOK
<1> QED
  BY <1>1 DEF DrainTypeOK, SubmitRefuse, FlushEnds, SubmitLook, SubmitMisses, Concludes, Step

\* Text taken back changes the pane.
LEMMA EndsQuietly ==
  ASSUME QueueInv, NEW d \in Drainers, SubmitEnds(d), UNCHANGED paneVars
  PROVE  dout'[d] # "taken_back"
<1>1. PICK i \in Items : i = Item(d)
  BY DrainTypes
<1>2. DrainTypeOK /\ NoDraft # i
  BY PaneAssumption DEF QueueInv, TypeOK, PaneAssumption
<1>3. \A out : Concludes(d, "await", out) => dout'[d] = out
  BY <1>2 DEF Concludes, DrainTypeOK
<1>4. ~PaneTakeBack(i)
  BY <1>2 DEF PaneTakeBack, paneVars
<1> QED
  BY <1>1, <1>3, <1>4 DEF SubmitEnds

\* What has to be shown of HandClean at each place.
LEMMA HandCleanAt ==
  ASSUME NEW d \in Drainers
  PROVE  /\ dpc'[d] \notin HandCleanPlaces => HandClean(d)'
         /\ dpc'[d] \in {"recheck", "stamp", "submit", "paste"} /\ Clean(Item(d), ddoc[d])' =>
              HandClean(d)'
         /\ dpc'[d] \in {"recover", "recover_sidecar"} /\ NoneMaybeTyped' => HandClean(d)'
         /\ dpc'[d] \in {"repend_move"} /\ Clean(Item(d), file[Inflight(Item(d))])' => HandClean(d)'
         /\ dpc'[d] = "recover_move" /\ NoneMaybeTyped' /\ Clean(Item(d), file[Inflight(Item(d))])' =>
              HandClean(d)'
         /\ dpc'[d] \in InHandAside /\ Clean(Item(d), file[dat[d]])' => HandClean(d)'
         /\ dpc'[d] = "settle" /\ (dout'[d] \notin Open \cup Marking => Clean(Item(d), ddoc[d])') =>
              HandClean(d)'
         /\ dpc'[d] = "move" /\ (dout'[d] \notin Open => Clean(Item(d), ddoc[d])') => HandClean(d)'
  BY DEF HandClean, HandCleanPlaces, InHandAside

\* A quiet step leaves every item clean, and the one in hand.
LEMMA QuietClean ==
  ASSUME QueueInv, EvidenceInv, NEW d \in Drainers, HandDoc(d), Quiet(d)
  PROVE  (\A i \in Items : ItemClean(i)') /\ HandClean(d)'
<1>1. UNCHANGED <<file, typed>>
  BY QuietKeeps
<1>2. \A i \in Items : ItemClean(i)'
  BY <1>1, UntouchedClean DEF EvidenceInv
<1> SUFFICES HandClean(d)'
  BY <1>2
<1>3. NoneMaybeTyped => NoneMaybeTyped'
  BY <1>1 DEF NoneMaybeTyped, Exists
<1>4. PICK i \in Items, lane \in Lanes : i = Item(d) /\ dpath[d] = <<lane, i>> /\ dpath[d][1] = lane
  BY DrainTypes
<1>5. ASSUME NEW j \in Items, SubmitRecoverDraft(d, j) PROVE HandClean(d)'
  <2>1. dpc'[d] = "submit" /\ dpath' = dpath /\ ddoc' = ddoc /\ dpc[d] = "submit"
    BY <1>5, QuietPlaces DEF drainVars
  <2>2. Clean(Item(d), ddoc[d])
    BY <2>1, CleanInHand DEF HandClean
  <2> QED
    BY <1>1, <2>1, <2>2, HandCleanAt DEF Clean, Item
<1>6. CASE RependDone(d)
  <2>1. NoneMaybeTyped
    BY <1>6 DEF RependDone, NoneMaybeTyped
  <2> QED
    BY <1>3, <1>6, <2>1, QuietPlaces, HandCleanAt
<1>7. CASE RecoverSidecar(d)
  <2>1. NoneMaybeTyped
    BY <1>7, QuietPlaces, CleanInHand DEF HandClean
  <2> QED
    BY <1>3, <1>7, <2>1, QuietPlaces, HandCleanAt
<1>8. CASE DrainAside(d)
  <2>1. dpc'[d] = "aside" /\ dpath'[d] = dpath[d]
    BY <1>8, QuietPlaces
  <2>2. Clean(i, file[dat'[d]])
    <3>1. CASE dpc[d] = "load" /\ dat'[d] = dpath[d]
      BY <1>4, <3>1, CleanInHand DEF InHandAtPath
    <3>2. CASE dpc[d] = "recheck" /\ dat'[d] = Inflight(Item(d))
      BY <1>4, <3>2, CleanInHand DEF HandClean, HandDoc
    <3> QED
      BY <1>8, <3>1, <3>2, QuietPlaces
  <2>3. Clean(Item(d), file[dat[d]])'
    BY <1>1, <1>4, <2>1, <2>2 DEF Clean, Item
  <2> QED
    BY <2>1, <2>3, HandCleanAt DEF InHandAside
<1>9. CASE DrainRecheck(d)
  <2>1. Clean(Item(d), ddoc[d]) /\ dpc'[d] = "stamp" /\ dpath'[d] = dpath[d] /\ ddoc'[d] = ddoc[d]
    BY <1>9, QuietPlaces, CleanInHand DEF HandClean
  <2> QED
    BY <1>1, <2>1, HandCleanAt DEF Clean, Item
<1>10. CASE SubmitRefuse(d) \/ FlushEnds(d) \/ SubmitLook(d) \/ SubmitMisses(d)
            \/ (SubmitEnds(d) /\ UNCHANGED paneVars)
  <2>1. dpc'[d] = "settle" /\ dpath'[d] = dpath[d] /\ ddoc'[d] = ddoc[d]
    BY <1>10, ConcludePlaces
  <2>2. dout'[d] \notin Open \cup Marking => Clean(i, ddoc[d])
    <3>1. CASE dpc[d] \in {"submit", "paste"}
      BY <1>4, <3>1, CleanInHand DEF HandClean
    <3>2. CASE dpc[d] \notin {"submit", "paste"}
      <4>1. dout'[d] \in {"stranded", "unknown", "confirmed", "taken_back"}
        BY <1>10, <3>2, ConcludePlaces
      <4>2. dout'[d] # "taken_back"
        BY <1>10, <3>2, ConcludeFlush, EndsQuietly
      <4> QED
        BY <4>1, <4>2 DEF Open, Marking
    <3> QED
      BY <3>1, <3>2
  <2>3. dout'[d] \notin Open \cup Marking => Clean(Item(d), ddoc[d])'
    BY <1>1, <1>4, <2>1, <2>2 DEF Clean, Item
  <2> QED
    BY <2>1, <2>3, HandCleanAt
<1>11. CASE \/ RecoverDone(d) \/ DigestSidecar(d) \/ DrainSnapshot(d) \/ DrainPick(d) \/ DrainFinish(d)
            \/ DrainStops(d) \/ DrainReady(d) \/ AsideForget(d) \/ SubmitFlush(d) \/ DrainSidecar(d)
  <2>1. dpc'[d] \in {"digest", "next", "load", "idle", "barrier", "flushed"}
    BY <1>11, QuietPlaces
  <2> QED
    BY <2>1, HandCleanAt DEF HandCleanPlaces
<1> QED
  BY <1>2, <1>5, <1>6, <1>7, <1>8, <1>9, <1>10, <1>11 DEF Quiet

\* A step that touches one document keeps every item clean.
LEMMA TouchClean ==
  ASSUME EvidenceInv, UNCHANGED typed,
         NEW i \in Items, NEW p \in Phases, NEW r \in Phases, NEW old, NEW new,
         Touches(i, p, old, r, new),
         \/ Clean(i, new)
         \/ r \in {"processed", "failed"}
         \/ r = "inflight" /\ (MaybeTyped(new) \/ ~NeverTyped(new))
         \/ r = "cancelled" /\ i \in Digest
  PROVE  \A j \in Items : ItemClean(j)'
<1>1. ItemClean(i)'
  <2>1. i \notin Native => typed[i] <= 1
    BY DEF EvidenceInv, ItemClean
  <2> QED
    BY <2>1, TouchedClean
<1>2. ASSUME NEW j \in Items \ {i} PROVE ItemClean(j)'
  <2>1. \A q \in Phases : file'[<<q, j>>] = file[<<q, j>>]
    BY DEF Touches
  <2>2. ItemClean(j) /\ typed'[j] = typed[j]
    BY DEF EvidenceInv
  <2> QED
    BY <2>1, <2>2, UntouchedClean
<1> QED
  BY <1>1, <1>2

\* Nothing that may have been typed appears behind the barrier.
LEMMA TouchNoneMaybeTyped ==
  ASSUME NoneMaybeTyped, NEW i \in Items, NEW p \in Phases, NEW r \in Phases, NEW old, NEW new,
         Touches(i, p, old, r, new), r # "inflight" \/ ~MaybeTyped(new)
  PROVE  NoneMaybeTyped'
<1> SUFFICES ASSUME NEW j \in Items, Exists(Inflight(j))' PROVE ~MaybeTyped(file'[<<"inflight", j>>])
  BY DEF NoneMaybeTyped, Inflight, MaybeTyped
<1>1. CASE j = i
  BY <1>1, PhaseFacts DEF Touches, Exists, Inflight
<1>2. CASE j # i
  <2>1. file'[<<"inflight", j>>] = file[<<"inflight", j>>]
    BY <1>2, PhaseFacts DEF Touches
  <2> QED
    BY <2>1 DEF NoneMaybeTyped, Exists, Inflight
<1> QED
  BY <1>1, <1>2

\* Recovery keeps the evidence: repend_stranded_inflight marks what may have been typed, and only
\* what was provably not typed goes back unmarked.
LEMMA RecoveryClean ==
  ASSUME QueueInv, EvidenceInv, NEW d \in Drainers, NEW i \in Items,
         \/ RependStranded(d, i) \/ RecoverNeverTyped(d, i)
         \/ RecoverQuarantine(d, i) \/ DigestAside(d, i)
  PROVE  (\A j \in Items : ItemClean(j)') /\ HandClean(d)'
<1>1. UNCHANGED typed
  BY LoudKeepsTyped DEF paneVars
<1>2. CASE RependStranded(d, i)
  <2>1. Exists(<<"inflight", i>>)
    BY <1>2 DEF RependStranded, Inflight
  <2>2. PICK old \in Doc : old = file[<<"inflight", i>>]
    BY <2>1, OnlyThere, PhaseFacts
  <2>3. PICK new : new = [Stripped(old) EXCEPT !.stranded = TRUE] /\ new.stranded
    BY StampFacts DEF Lanes
  <2>4. Touches(i, "inflight", old, "inflight", new)
    BY <1>2, <2>2, <2>3, RecoveryTouches
  <2>5. \A j \in Items : ItemClean(j)'
    BY <1>1, <2>3, <2>4, TouchClean, PhaseFacts DEF Clean
  <2>6. file'[<<"inflight", i>>] = new
    BY <2>4, PhaseFacts DEF Touches
  <2>7. dpc'[d] = "repend_move" /\ Item(d)' = i
    BY <1>2, RecoveryPlaces DEF Item
  <2>8. Clean(Item(d), file[Inflight(Item(d))])'
    BY <2>3, <2>6, <2>7 DEF Clean, Inflight
  <2> QED
    BY <2>5, <2>7, <2>8, HandCleanAt
<1>3. CASE RecoverNeverTyped(d, i)
  <2>1. Exists(<<"inflight", i>>) /\ NeverTyped(file[Inflight(i)])
    BY <1>3 DEF RecoverNeverTyped, Inflight
  <2>2. PICK old \in Doc : old = file[<<"inflight", i>>]
    BY <2>1, OnlyThere, PhaseFacts
  <2>3. PICK new : new = Stripped(old) /\ new.from = "none" /\ new.stranded = old.stranded
    BY StampFacts DEF Lanes
  <2>4. Touches(i, "inflight", old, "inflight", new)
    BY <1>3, <2>2, <2>3, RecoveryTouches
  <2>5. NoneMaybeTyped /\ ItemClean(i)
    BY <1>3, RecoveryPlaces, CleanInHand DEF HandClean, EvidenceInv
  <2>6. Clean(i, old)
    BY <2>1, <2>2, <2>5 DEF NoneMaybeTyped, ItemClean, Inflight
  <2>7. Clean(i, new)
    BY <2>3, <2>6 DEF Clean
  <2>8. \A j \in Items : ItemClean(j)'
    BY <1>1, <2>4, <2>7, TouchClean, PhaseFacts
  <2>9. NoneMaybeTyped'
    BY <2>3, <2>4, <2>5, TouchNoneMaybeTyped, PhaseFacts DEF MaybeTyped, Lanes
  <2>10. file'[<<"inflight", i>>] = new
    BY <2>4, PhaseFacts DEF Touches
  <2>11. dpc'[d] = "recover_move" /\ Item(d)' = i
    BY <1>3, RecoveryPlaces DEF Item
  <2>12. Clean(Item(d), file[Inflight(Item(d))])'
    BY <1>1, <2>7, <2>10, <2>11 DEF Clean, Inflight
  <2> QED
    BY <2>8, <2>9, <2>11, <2>12, HandCleanAt
<1>4. CASE RecoverQuarantine(d, i)
  <2>1. PICK old : Touches(i, "inflight", old, "failed", old)
    BY <1>4, RecoveryTouches
  <2>2. \A j \in Items : ItemClean(j)'
    BY <1>1, <2>1, TouchClean, PhaseFacts
  <2>3. NoneMaybeTyped
    BY <1>4, RecoveryPlaces, CleanInHand DEF HandClean
  <2>4. NoneMaybeTyped'
    BY <2>1, <2>3, TouchNoneMaybeTyped, PhaseFacts
  <2> QED
    BY <1>4, <2>2, <2>4, RecoveryPlaces, HandCleanAt
<1>5. CASE DigestAside(d, i)
  <2>1. PICK old : Touches(i, "failed", old, "cancelled", old)
    BY <1>5, RecoveryTouches
  <2>2. dpc'[d] = "digest_sidecar" /\ i \in Digest
    BY <1>5, RecoveryPlaces
  <2>3. \A j \in Items : ItemClean(j)'
    BY <1>1, <2>1, <2>2, TouchClean, PhaseFacts
  <2>4. HandClean(d)'
    BY <2>2, HandCleanAt DEF HandCleanPlaces
  <2> QED
    BY <2>3, <2>4
<1> QED
  BY <1>2, <1>3, <1>4, <1>5

\* Taking an item up to the barrier keeps the evidence.
LEMMA LoadClean ==
  ASSUME QueueInv, EvidenceInv, NEW d \in Drainers, HandDoc(d),
         \/ RependMove(d) \/ RecoverMove(d)
         \/ DrainInvalid(d) \/ DrainBlocked(d) \/ DrainBarrier(d) \/ DrainStamp(d)
  PROVE  (\A j \in Items : ItemClean(j)') /\ HandClean(d)'
<1>1. UNCHANGED typed
  BY LoudKeepsTyped, DrainTypes DEF paneVars
<1>2. PICK i \in Items, lane \in Lanes : i = Item(d) /\ dpath[d] = <<lane, i>> /\ dpath[d][1] = lane
  BY DrainTypes
<1>3. lane \in Phases
  BY PhaseFacts
<1>4. CASE RependMove(d) \/ RecoverMove(d)
  <2>1. PICK old : old = file[<<"inflight", i>>] /\ Touches(i, "inflight", old, lane, old)
    BY <1>2, <1>4, RecoveryTouches
  <2>2. dpc[d] \in {"repend_move", "recover_move"}
    BY <1>2, <1>4, RecoveryPlaces
  <2>3. Clean(i, old)
    BY <1>2, <2>1, <2>2, CleanInHand DEF HandClean, Inflight
  <2>4. \A j \in Items : ItemClean(j)'
    BY <1>1, <1>3, <2>1, <2>3, TouchClean, PhaseFacts
  <2>5. CASE RependMove(d)
    <3>1. dpc'[d] = "repend"
      BY <1>2, <2>5, RecoveryPlaces
    <3> QED
      BY <2>4, <3>1, HandCleanAt DEF HandCleanPlaces
  <2>6. CASE RecoverMove(d)
    <3>1. dpc[d] = "recover_move" /\ dpc'[d] = "recover"
      BY <1>2, <2>6, RecoveryPlaces
    <3>2. NoneMaybeTyped
      BY <3>1, CleanInHand DEF HandClean
    <3>3. NoneMaybeTyped'
      BY <1>3, <2>1, <3>2, TouchNoneMaybeTyped, PhaseFacts
    <3> QED
      BY <2>4, <3>1, <3>3, HandCleanAt
  <2> QED
    BY <1>4, <2>5, <2>6
<1>5. CASE DrainInvalid(d)
  <2>1. PICK old : Touches(i, lane, old, "failed", old)
    BY <1>2, <1>5, LoadTouches
  <2>2. \A j \in Items : ItemClean(j)'
    BY <1>1, <1>3, <2>1, TouchClean, PhaseFacts
  <2>3. HandClean(d)'
    BY <1>5, LoadPlaces, HandCleanAt DEF HandCleanPlaces
  <2> QED
    BY <2>2, <2>3
<1>6. CASE DrainBlocked(d) \/ DrainBarrier(d)
  <2>1. dpc[d] \in InHandAtPath
    BY <1>6, LoadPlaces DEF InHandAtPath
  <2>2. PICK old \in Doc : old = file[<<lane, i>>]
    BY <1>2, <1>3, <2>1, HandThere, OnlyThere
  <2>3. Clean(i, old)
    BY <1>2, <2>1, <2>2, CleanInHand
  <2>4. CASE DrainBlocked(d)
    <3>0. PICK untyped \in BOOLEAN : Touches(i, lane, old, lane, [old EXCEPT !.refused = untyped])
      BY <1>2, <2>2, <2>4, LoadTouches
    <3>1. PICK new : new.stranded = old.stranded /\ Touches(i, lane, old, lane, new)
      BY <3>0 DEF Doc
    <3>2. Clean(i, new)
      BY <2>3, <3>1 DEF Clean
    <3>3. \A j \in Items : ItemClean(j)'
      BY <1>1, <1>3, <3>1, <3>2, TouchClean
    <3>4. HandClean(d)'
      BY <2>4, LoadPlaces, HandCleanAt DEF HandCleanPlaces
    <3> QED
      BY <3>3, <3>4
  <2>5. CASE DrainBarrier(d)
    <3>1. Touches(i, lane, old, "inflight", old)
      BY <1>2, <2>2, <2>5, LoadTouches
    <3>2. \A j \in Items : ItemClean(j)'
      BY <1>1, <1>3, <2>3, <3>1, TouchClean, PhaseFacts
    <3>3. dpc[d] = "barrier" /\ dpc'[d] = "recheck" /\ dpath'[d] = dpath[d] /\ ddoc'[d] = ddoc[d]
      BY <2>5, LoadPlaces
    <3>4. ddoc[d] = old
      BY <1>2, <2>2, <3>3 DEF HandDoc
    <3>5. Clean(Item(d), ddoc[d])'
      BY <1>1, <1>2, <2>3, <3>3, <3>4 DEF Clean, Item
    <3> QED
      BY <3>2, <3>3, <3>5, HandCleanAt
  <2> QED
    BY <1>6, <2>4, <2>5
<1>7. CASE DrainStamp(d)
  <2>1. dpc[d] = "stamp" /\ dpc'[d] = "submit" /\ dpath'[d] = dpath[d]
    BY <1>7, LoadPlaces
  <2>2. PICK doc \in Doc : doc = ddoc[d]
    BY DrainTypes
  <2>3. PICK new : /\ new = [doc EXCEPT !.tracked = TRUE, !.from = lane, !.pasted = FALSE]
                   /\ new.stranded = doc.stranded
    <3>1. [doc EXCEPT !.tracked = TRUE, !.from = lane, !.pasted = FALSE].stranded = doc.stranded
      BY DEF Doc
    <3> QED
      BY <3>1
  <2>4. ddoc'[d] = new
    BY <1>2, <1>7, <2>2, <2>3, LoadPlaces
  <2>5. PICK old : Touches(i, "inflight", old, "inflight", new)
    BY <1>2, <1>7, <2>2, <2>3, InflightTouches
  <2>6. Clean(i, new)
    BY <1>2, <2>1, <2>2, <2>3, CleanInHand DEF HandClean, Clean
  <2>7. \A j \in Items : ItemClean(j)'
    BY <1>1, <2>5, <2>6, TouchClean, PhaseFacts
  <2>8. Clean(Item(d), ddoc[d])'
    BY <1>1, <1>2, <2>1, <2>4, <2>6 DEF Clean, Item
  <2> QED
    BY <2>1, <2>7, <2>8, HandCleanAt
<1> QED
  BY <1>4, <1>5, <1>6, <1>7

\* set_aside strips the stamps of a document and keeps stranded_at.
LEMMA SetAsideClean ==
  ASSUME QueueInv, EvidenceInv, NEW d \in Drainers, AsideWrite(d) \/ AsideMove(d)
  PROVE  (\A j \in Items : ItemClean(j)') /\ HandClean(d)'
<1>1. UNCHANGED typed
  BY LoudKeepsTyped, DrainTypes DEF paneVars
<1>2. PICK i \in Items : i = Item(d)
  BY DrainTypes
<1>3. dpc[d] \in InHandAside
  BY LoadPlaces DEF InHandAside
<1>4. PICK p \in Phases : p = dat[d][1] /\ dat[d] = <<p, i>> /\ Exists(<<p, i>>)
  BY <1>2, <1>3, HandThere, DrainTypes, PhaseFacts
<1>5. PICK old \in Doc : old = file[<<p, i>>]
  BY <1>4, OnlyThere
<1>6. Clean(i, old)
  BY <1>2, <1>3, <1>4, <1>5, CleanInHand DEF HandClean
<1>7. CASE AsideWrite(d)
  <2>1. PICK new : new = Stripped(old) /\ new.stranded = old.stranded
    BY StampFacts DEF Lanes
  <2>2. Touches(i, p, old, p, new)
    BY <1>2, <1>4, <1>5, <1>7, <2>1, AsideTouches
  <2>3. Clean(i, new)
    BY <1>6, <2>1 DEF Clean
  <2>4. \A j \in Items : ItemClean(j)'
    BY <1>1, <2>2, <2>3, TouchClean
  <2>5. dpc'[d] = "aside_move" /\ dpath'[d] = dpath[d] /\ dat'[d] = <<p, i>>
    BY <1>4, <1>7, LoadPlaces
  <2>6. file'[<<p, i>>] = new
    BY <2>2 DEF Touches
  <2>7. Clean(Item(d), file[dat[d]])'
    BY <1>1, <1>2, <2>3, <2>5, <2>6 DEF Clean, Item
  <2> QED
    BY <2>4, <2>5, <2>7, HandCleanAt DEF InHandAside
<1>8. CASE AsideMove(d)
  <2>1. Touches(i, p, old, "cancelled", old)
    BY <1>2, <1>4, <1>5, <1>8, AsideTouches
  <2>2. \A j \in Items : ItemClean(j)'
    BY <1>1, <1>6, <2>1, TouchClean, PhaseFacts
  <2>3. HandClean(d)'
    BY <1>8, LoadPlaces, HandCleanAt DEF HandCleanPlaces
  <2> QED
    BY <2>2, <2>3
<1> QED
  BY <1>7, <1>8

\* The stamp comes before the text: what a drain has typed is marked as maybe typed on disk.
LEMMA PastedOnDisk ==
  ASSUME QueueInv, StampMayFail = FALSE, NEW d \in Drainers, HandDoc(d), dpc[d] \in {"paste", "await"}
  PROVE  /\ file[<<"inflight", Item(d)>>] \in Doc
         /\ MaybeTyped(file[<<"inflight", Item(d)>>])
         /\ \A q \in Phases : q # "inflight" => file[<<q, Item(d)>>] = NoFile
<1>1. PICK i \in Items, doc \in Doc : i = Item(d) /\ doc = ddoc[d]
  BY DrainTypes
<1>2. Exists(<<"inflight", i>>)
  BY <1>1, HandThere DEF InHandInflight
<1>3. /\ file[<<"inflight", i>>] = [doc EXCEPT !.pasted = TRUE]
      /\ doc.valid /\ doc.tracked /\ doc.from \in Lanes
  BY <1>1 DEF HandDoc, Inflight
<1>4. MaybeTyped([doc EXCEPT !.pasted = TRUE])
  BY <1>3 DEF MaybeTyped, Doc
<1> QED
  BY <1>1, <1>2, <1>3, <1>4, OnlyThere, PhaseFacts

\* Stamping and typing keep the evidence: the paste stamp is on disk before the first input.
LEMMA SubmitClean ==
  ASSUME QueueInv, EvidenceInv, PaneInv, StampMayFail = FALSE, NEW d \in Drainers, HandDoc(d),
         \/ SubmitType(d) \/ SubmitPaste(d)
         \/ SubmitEnds(d) /\ Verified(d) /\ Concludes(d, "await", "taken_back")
              /\ PaneTakeBack(Item(d))
  PROVE  (\A j \in Items : ItemClean(j)') /\ HandClean(d)'
<1>1. PICK i \in Items, doc \in Doc : i = Item(d) /\ doc = ddoc[d]
  BY DrainTypes
<1>2. typed \in [Items -> Int] /\ accepted \in [Items -> Nat]
  BY DEF QueueInv, TypeOK, PaneTypeOK
<1>3. ItemClean(i) /\ (i \notin Native => typed[i] <= 1)
  BY <1>1, CleanInHand
<1>4. CASE SubmitType(d)
  <2>1. /\ dpc[d] = "submit" /\ dpc'[d] = "paste" /\ dpath'[d] = dpath[d]
        /\ ddoc'[d] = ddoc[d]
    BY <1>4, SubmitPlaces
  <2>2. UNCHANGED typed
    BY <1>1, <1>4, LoudKeepsTyped DEF paneVars
  <2>3. PICK new : new = [doc EXCEPT !.pasted = TRUE]
    OBVIOUS
  <2>4. PICK old : Touches(i, "inflight", old, "inflight", new)
    BY <1>1, <1>4, <2>3, InflightTouches
  <2>5. doc.valid /\ doc.tracked /\ doc.from \in Lanes
    BY <1>1, <2>1 DEF HandDoc
  <2>6. MaybeTyped(new)
    BY <2>3, <2>5 DEF MaybeTyped, Doc
  <2>7. \A j \in Items : ItemClean(j)'
    BY <2>2, <2>4, <2>6, TouchClean, PhaseFacts
  <2>8. Clean(Item(d), ddoc[d])
    BY <2>1, CleanInHand DEF HandClean
  <2>9. Clean(Item(d), ddoc[d])'
    BY <2>1, <2>2, <2>8 DEF Clean, Item
  <2> QED
    BY <2>1, <2>7, <2>9, HandCleanAt
<1>5. ASSUME dpc[d] \in {"paste", "await"}, UNCHANGED file, i \notin Native => typed'[i] <= 1,
             \A j \in Items \ {i} : typed'[j] = typed[j]
      PROVE  \A j \in Items : ItemClean(j)'
  <2>1. /\ MaybeTyped(file[<<"inflight", i>>])
        /\ \A q \in Phases : q # "inflight" => file[<<q, i>>] = NoFile
    BY <1>1, <1>5, PastedOnDisk
  <2>2. ItemClean(i)'
    BY <1>5, <2>1, PhaseFacts DEF ItemClean, Exists, Inflight
  <2>3. \A j \in Items \ {i} : ItemClean(j)'
    BY <1>5, UntouchedClean DEF EvidenceInv
  <2> QED
    BY <2>2, <2>3
<1>6. CASE SubmitPaste(d)
  <2>1. dpc[d] = "paste" /\ dpc'[d] = "await" /\ UNCHANGED file
    BY <1>6, SubmitPlaces
  <2>2. typed' = [typed EXCEPT ![i] = @ + 1]
    BY <1>1, <1>6 DEF SubmitPaste, PanePaste, PanePrompt
  <2>3. i \notin Native => typed[i] = 0
    <3>1. Clean(i, doc)
      BY <1>1, <2>1, CleanInHand DEF HandClean
    <3>2. i \notin Native => ~doc.stranded
      BY <1>1, <2>1 DEF HandDoc, Verified
    <3> QED
      BY <3>1, <3>2 DEF Clean
  <2>4. i \notin Native => typed'[i] <= 1
    BY <1>2, <2>2, <2>3
  <2>5. \A j \in Items : ItemClean(j)'
    BY <1>2, <1>5, <2>1, <2>2, <2>4
  <2>6. HandClean(d)'
    BY <2>1, HandCleanAt DEF HandCleanPlaces
  <2> QED
    BY <2>5, <2>6
<1>7. CASE Verified(d) /\ Concludes(d, "await", "taken_back") /\ PaneTakeBack(Item(d))
  <2>1. /\ dpc[d] = "await" /\ dpc'[d] = "settle" /\ dpath'[d] = dpath[d] /\ ddoc'[d] = ddoc[d]
        /\ UNCHANGED file
    BY <1>7, SubmitPlaces
  <2>2. typed' = [typed EXCEPT ![i] = @ - 1] /\ draft = i
    BY <1>1, <1>7 DEF PaneTakeBack
  <2>3. typed[i] = 1
    <3>1. typed[i] <= 1
      BY <1>1, <1>3, <1>7 DEF Verified
    <3>2. Tokens(i) <= typed[i] /\ Tokens(i) >= 1
      BY <1>2, <2>2 DEF PaneInv, Tokens
    <3> QED
      BY <1>2, <3>1, <3>2 DEF Tokens
  <2>4. typed'[i] = 0
    BY <1>2, <2>2, <2>3
  <2>5. \A j \in Items : ItemClean(j)'
    BY <1>2, <1>5, <2>1, <2>2, <2>4
  <2>6. Clean(Item(d), ddoc[d])'
    BY <1>1, <2>1, <2>4 DEF Clean, Item
  <2> QED
    BY <2>1, <2>5, <2>6, HandCleanAt
<1> QED
  BY <1>4, <1>6, <1>7

\* Settling keeps the evidence: an outcome that leaves text in the pane marks the document or
\* quarantines it.
LEMMA SettleClean ==
  ASSUME QueueInv, EvidenceInv, NEW d \in Drainers, HandDoc(d),
         \/ Settle(d) \/ MoveProcessed(d) \/ MoveFailed(d)
         \/ MoveBackAndGoOn(d) \/ MoveBackAndRetry(d) \/ MoveBackAndStop(d)
  PROVE  (\A j \in Items : ItemClean(j)') /\ HandClean(d)'
<1>1. UNCHANGED typed
  BY LoudKeepsTyped, DrainTypes DEF paneVars
<1>2. PICK i \in Items, lane \in Lanes : i = Item(d) /\ dpath[d] = <<lane, i>> /\ dpath[d][1] = lane
  BY DrainTypes
<1>3. PICK doc \in Doc : doc = ddoc[d]
  BY DrainTypes
<1>4. CASE Settle(d)
  <2>1. dpc[d] = "settle" /\ dpc'[d] = "move" /\ dpath'[d] = dpath[d] /\ dout'[d] = dout[d]
    BY <1>4, SubmitPlaces
  <2>2. PICK new : /\ new = Settled(doc, dout[d]) /\ new.from = "none"
                   /\ (doc.stranded => new.stranded) /\ (dout[d] \in Marking => new.stranded)
    BY DrainTypes, SettledFacts
  <2>3. PICK old : Touches(i, "inflight", old, "inflight", new)
    BY <1>2, <1>3, <1>4, <2>2, InflightTouches
  <2>4. ~NeverTyped(new)
    BY <2>2 DEF NeverTyped, Lanes
  <2>5. \A j \in Items : ItemClean(j)'
    BY <1>1, <2>3, <2>4, TouchClean, PhaseFacts
  <2>6. ddoc'[d] = new
    BY <1>3, <1>4, <2>2, SubmitPlaces
  <2>7. dout[d] \notin Open => Clean(i, new)
    <3>1. dout[d] \notin Open \cup Marking => Clean(i, doc)
      BY <1>2, <1>3, <2>1, CleanInHand DEF HandClean
    <3> QED
      BY <2>2, <3>1 DEF Clean
  <2>8. dout'[d] \notin Open => Clean(Item(d), ddoc[d])'
    BY <1>1, <1>2, <2>1, <2>6, <2>7 DEF Clean, Item
  <2> QED
    BY <2>1, <2>5, <2>8, HandCleanAt
<1>5. CASE MoveProcessed(d) \/ MoveFailed(d)
  <2>1. PICK r \in {"processed", "failed"} :
          Touches(i, "inflight", file[<<"inflight", i>>], r, file[<<"inflight", i>>])
    BY <1>2, <1>5, InflightTouches
  <2>2. \A j \in Items : ItemClean(j)'
    BY <1>1, <2>1, TouchClean, PhaseFacts
  <2>3. dpc'[d] \in {"next", "sidecar"}
    BY <1>5, SubmitPlaces
  <2> QED
    BY <2>2, <2>3, HandCleanAt DEF HandCleanPlaces
<1>6. CASE MoveBackAndGoOn(d) \/ MoveBackAndRetry(d) \/ MoveBackAndStop(d)
  <2>1. MoveBack(d) /\ dpc[d] = "move" /\ dout[d] \notin Open /\ dpc'[d] \in {"next", "load", "idle"}
    BY <1>6, SubmitPlaces
  <2>2. PICK old : old = file[<<"inflight", i>>] /\ Touches(i, "inflight", old, lane, old)
    BY <1>2, <2>1, InflightTouches
  <2>3. Clean(i, old)
    <3>1. old = doc
      BY <1>2, <1>3, <2>1, <2>2 DEF HandDoc, Inflight
    <3> QED
      BY <1>2, <1>3, <2>1, <3>1, CleanInHand DEF HandClean
  <2>4. \A j \in Items : ItemClean(j)'
    BY <1>1, <2>2, <2>3, TouchClean, PhaseFacts
  <2> QED
    BY <2>1, <2>4, HandCleanAt DEF HandCleanPlaces
<1> QED
  BY <1>4, <1>5, <1>6

\* Every step of a drain keeps the evidence.
LEMMA DrainClean ==
  ASSUME QueueInv, EvidenceInv, PaneInv, StampMayFail = FALSE, NEW d \in Drainers, HandDoc(d),
         DrainStep(d)
  PROVE  (\A j \in Items : ItemClean(j)') /\ HandClean(d)'
  BY DrainCases, QuietClean, RecoveryClean, LoadClean, SetAsideClean, SubmitClean, SettleClean

\* A client keeps the items clean, and what the drains have in hand.
LEMMA ClientClean ==
  ASSUME QueueInv, EvidenceInv, NEW c \in Clients, ClientStep(c), UNCHANGED drainVars
  PROVE  EvidenceInv'
<1>0. UNCHANGED <<dpc, dpath, dat, ddoc, dout>>
  BY DEF drainVars
<1>1. ASSUME \A d \in Drainers : dpc[d] = "idle" PROVE \A d \in Drainers : HandClean(d)'
  BY <1>0, <1>1, HandCleanAt DEF HandCleanPlaces
<1>2. CASE UNCHANGED <<file, paneVars>>
  <2>1. UNCHANGED typed
    BY <1>2 DEF paneVars
  <2>2. \A i \in Items : ItemClean(i)'
    BY <1>2, <2>1, UntouchedClean DEF EvidenceInv
  <2>3. ASSUME NEW d \in Drainers PROVE HandClean(d)'
    <3>1. HandClean(d)
      BY DEF EvidenceInv
    <3> QED
      BY <1>0, <1>2, <2>1, <3>1 DEF HandClean, Clean, Item, Inflight, NoneMaybeTyped, Exists
  <2> QED
    BY <2>2, <2>3 DEF EvidenceInv
<1>3. ASSUME UNCHANGED paneVars, \A d \in Drainers : dpc[d] = "idle", NEW i \in Items, SetsAside(i)
      PROVE  EvidenceInv'
  <2>1. PICK lane \in Lanes, old \in Doc :
          Touches(i, lane, old, lane, Stripped(old)) \/ Touches(i, lane, old, "cancelled", old)
    BY <1>3 DEF SetsAside
  <2>2. Exists(<<lane, i>>) /\ file[<<lane, i>>] = old
    BY <2>1, PhaseFacts, SystemAssumption DEF Touches, Exists, SystemAssumption
  <2>3. Clean(i, old)
    BY <2>2 DEF EvidenceInv, ItemClean
  <2>4. PICK new : new = Stripped(old) /\ new.stranded = old.stranded
    BY StampFacts
  <2>5. Clean(i, new)
    BY <2>3, <2>4 DEF Clean
  <2>6. UNCHANGED typed
    BY <1>3 DEF paneVars
  <2>7. \A j \in Items : ItemClean(j)'
    BY <2>1, <2>3, <2>4, <2>5, <2>6, TouchClean, PhaseFacts
  <2> QED
    BY <1>1, <1>3, <2>7 DEF EvidenceInv
<1>4. ASSUME UNCHANGED paneVars, \A d \in Drainers : dpc[d] = "idle", NEW i \in Items, Vanishes(i)
      PROVE  EvidenceInv'
  <2>1. UNCHANGED typed
    BY <1>4 DEF paneVars
  <2>2. ItemClean(i)'
    BY <1>4, <2>1, PhaseFacts DEF Vanishes, EvidenceInv, ItemClean, Exists, Inflight
  <2>3. \A j \in Items \ {i} : ItemClean(j)'
    BY <1>4, <2>1, UntouchedClean DEF Vanishes, OthersStay, EvidenceInv
  <2> QED
    BY <1>1, <1>4, <2>2, <2>3 DEF EvidenceInv
<1>5. CASE EnqueueCreate(c) /\ Appears(citem[c])
  <2>1. PICK i \in Items : i = citem[c]
    BY ClientTypes
  <2>2. typed'[i] = 0 /\ \A j \in Items \ {i} : typed'[j] = typed[j]
    BY <1>5, <2>1 DEF Appears, PaneForgets, QueueInv, TypeOK, PaneTypeOK
  <2>3. ItemClean(i)'
    BY <2>2 DEF ItemClean, Clean
  <2>4. \A j \in Items \ {i} : ItemClean(j)'
    BY <1>5, <2>1, <2>2, UntouchedClean DEF Appears, OthersStay, EvidenceInv
  <2>5. NoneMaybeTyped => NoneMaybeTyped'
    <3> SUFFICES ASSUME NoneMaybeTyped, NEW j \in Items, Exists(Inflight(j))'
                 PROVE  ~MaybeTyped(file'[<<"inflight", j>>])
      BY DEF NoneMaybeTyped, MaybeTyped, Inflight
    <3>1. j # i
      BY <1>5, <2>1, PhaseFacts, ClientTypes DEF Appears, Exists, Inflight
    <3>2. file'[<<"inflight", j>>] = file[<<"inflight", j>>]
      BY <1>5, <2>1, <3>1, PhaseFacts DEF Appears, OthersStay
    <3> QED
      BY <3>2 DEF NoneMaybeTyped, Exists, Inflight
  <2>6. ASSUME NEW d \in Drainers PROVE HandClean(d)'
    <3>1. CASE dpc[d] \notin HandCleanPlaces
      BY <1>0, <3>1, HandCleanAt
    <3>2. CASE dpc[d] \in HandCleanPlaces
      <4>1. PICK j \in Items : j = Item(d)
        BY DrainTypes
      <4>2. dpc[d] # "idle" /\ Item(d)' = j
        BY <1>0, <3>2, <4>1 DEF HandCleanPlaces, Item
      <4>3. dpc[d] \in InHandInflight =>
              typed'[j] = typed[j] /\ file'[<<"inflight", j>>] = file[<<"inflight", j>>]
        BY <4>1, <4>2, HandThere, ClientSpares, PhaseFacts
      <4>4. dpc[d] \in InHandAside =>
              /\ typed'[j] = typed[j] /\ file'[<<dat[d][1], j>>] = file[<<dat[d][1], j>>]
              /\ dat[d] = <<dat[d][1], j>>
        BY <4>1, <4>2, HandThere, ClientSpares, PhaseFacts, DrainTypes
      <4>5. HandClean(d)
        BY DEF EvidenceInv
      <4>6. dpc[d] \in InHandInflight \cup InHandAside \cup {"recover", "recover_sidecar"}
        BY <3>2 DEF HandCleanPlaces, InHandInflight, InHandAside
      <4>7. CASE dpc[d] \in InHandAside
        <5>1. Clean(j, file[<<dat[d][1], j>>])
          BY <4>1, <4>4, <4>5, <4>7 DEF HandClean
        <5>2. Clean(Item(d), file[dat[d]])'
          BY <1>0, <4>2, <4>4, <4>7, <5>1 DEF Clean
        <5> QED
          BY <1>0, <4>7, <5>2, HandCleanAt
      <4>8. CASE dpc[d] \in {"recover", "recover_sidecar"}
        <5>1. NoneMaybeTyped'
          BY <2>5, <4>5, <4>8 DEF HandClean
        <5> QED
          BY <1>0, <4>8, <5>1, HandCleanAt
      <4>9. CASE dpc[d] \in InHandInflight
        <5>1. typed'[j] = typed[j] /\ file'[<<"inflight", j>>] = file[<<"inflight", j>>]
          BY <4>3, <4>9
        <5>2. Clean(j, ddoc[d]) => Clean(Item(d), ddoc[d])'
          BY <1>0, <4>2, <5>1 DEF Clean
        <5>3. Clean(j, file[<<"inflight", j>>]) => Clean(Item(d), file[Inflight(Item(d))])'
          BY <4>2, <5>1 DEF Clean, Inflight
        <5>4. CASE dpc[d] \in {"recheck", "stamp", "submit", "paste"}
          BY <1>0, <4>1, <4>5, <5>2, <5>4, HandCleanAt DEF HandClean
        <5>5. CASE dpc[d] = "settle" \/ dpc[d] = "move"
          BY <1>0, <4>1, <4>5, <5>2, <5>5, HandCleanAt DEF HandClean
        <5>6. CASE dpc[d] = "repend_move"
          BY <1>0, <4>1, <4>5, <5>3, <5>6, HandCleanAt DEF HandClean, Inflight
        <5>7. CASE dpc[d] = "recover_move"
          BY <1>0, <2>5, <4>1, <4>5, <5>3, <5>7, HandCleanAt DEF HandClean, Inflight
        <5> QED
          BY <3>2, <4>9, <5>4, <5>5, <5>6, <5>7 DEF HandCleanPlaces, InHandInflight
      <4> QED
        BY <4>6, <4>7, <4>8, <4>9
    <3> QED
      BY <3>1, <3>2
  <2> QED
    BY <2>1, <2>3, <2>4, <2>6 DEF EvidenceInv
<1> QED
  BY <1>2, <1>3, <1>4, <1>5, ClientEffect

\* EvidenceInv is inductive where every stamp reaches the disk.
LEMMA NextEvidence ==
  ASSUME QueueInv, PaneInv, HandDocInv, EvidenceInv, StampMayFail = FALSE, [Next]_vars
  PROVE  EvidenceInv'
<1>1. ASSUME NEW d \in Drainers, DrainStep(d) PROVE EvidenceInv'
  <2>1. HandDoc(d)
    BY DEF HandDocInv
  <2>2. (\A j \in Items : ItemClean(j)') /\ HandClean(d)'
    BY <1>1, <2>1, DrainClean
  <2>3. ASSUME NEW e \in Drainers \ {d} PROVE HandClean(e)'
    <3>1. dpc'[e] = "idle"
      BY <1>1, DrainAlone DEF DrainerSame
    <3> QED
      BY <3>1, HandCleanAt DEF HandCleanPlaces
  <2> QED
    BY <2>2, <2>3 DEF EvidenceInv
<1>2. CASE Elsewhere
  <2>1. UNCHANGED <<file, typed>>
    BY <1>2 DEF Elsewhere
  <2>2. \A j \in Items : ItemClean(j)'
    BY <2>1, UntouchedClean DEF EvidenceInv
  <2>3. ASSUME NEW e \in Drainers PROVE HandClean(e)'
    <3>1. HandClean(e)
      BY DEF EvidenceInv
    <3>2. CASE DrainerSame(e)
      BY <2>1, <3>1, <3>2 DEF DrainerSame, HandClean, Clean, Item, Inflight, NoneMaybeTyped, Exists
    <3>3. CASE dpc'[e] \in {"idle", "repend"}
      BY <3>3, HandCleanAt DEF HandCleanPlaces
    <3> QED
      BY <1>2, <3>2, <3>3, ElsewhereDrainers
  <2> QED
    BY <2>2, <2>3 DEF EvidenceInv
<1> QED
  BY <1>1, <1>2, ClientClean, NextCases

\* At the start no text is in the pane and no process is at work.
LEMMA InitHand ==
  ASSUME Init
  PROVE  /\ \A i \in Items : typed[i] = 0 /\ accepted[i] = 0
         /\ \A d \in Drainers : dpc[d] = "idle" /\ todo[d] = {} /\ snapshot[d] = {}
         /\ \A c \in Clients : cpc[c] = "idle" /\ cresult[c] = "none"
         /\ \A i \in Items : \A p \in Phases \ Lanes : ~Exists(<<p, i>>)
<1>1. \A i \in Items : typed[i] = 0 /\ accepted[i] = 0
  BY DEF Init, PaneInit
<1>2. \A d \in Drainers : dpc[d] = "idle" /\ todo[d] = {} /\ snapshot[d] = {}
  BY DEF Init, DrainInit
<1>3. \A c \in Clients : cpc[c] = "idle" /\ cresult[c] = "none"
  BY DEF Init, ClientInit
<1>4. ASSUME NEW i \in Items, NEW p \in Phases \ Lanes PROVE ~Exists(<<p, i>>)
  <2>1. <<p, i>> \in Path /\ p # StartsAt(i)
    BY DEF Path, StartsAt, LaneOf, Lanes
  <2> QED
    BY <2>1 DEF Init, Exists
<1> QED
  BY <1>1, <1>2, <1>3, <1>4

\* At the start nothing was typed, so there is nothing to give evidence of.
LEMMA InitEvidence ==
  ASSUME Init PROVE PaneInv /\ HandDocInv /\ EvidenceInv
<1>1. PaneInv
  <2>1. draft = NoDraft /\ undrawn = {} /\ NoDraft \notin Items
    BY PaneAssumption DEF Init, PaneInit, PaneAssumption
  <2>2. \A i \in Items : typed[i] = 0 /\ accepted[i] = 0
    BY InitHand
  <2>3. ASSUME NEW i \in Items PROVE Tokens(i) <= typed[i]
    <3>1. typed[i] = 0 /\ accepted[i] = 0 /\ i \notin undrawn /\ draft # i
      BY <2>1, <2>2
    <3>2. Tokens(i) = accepted[i] + 0 + 0
      BY <3>1 DEF Tokens
    <3> QED
      BY <3>1, <3>2
  <2> QED
    BY <2>3 DEF PaneInv
<1>2. HandDocInv
  BY InitHand DEF HandDocInv, HandDoc
<1>3. EvidenceInv
  BY InitHand DEF EvidenceInv, ItemClean, HandClean, Clean, InHandAside
<1> QED
  BY <1>1, <1>2, <1>3

\* The texts of the pane and the drainer's copy of its document are as PaneInv and HandDocInv say.
THEOREM HandInvariant == Spec => [](QueueInv /\ PaneInv /\ HandDocInv)
<1>1. Init => PaneInv /\ HandDocInv
  BY InitEvidence
<1>2. QueueInv /\ PaneInv /\ HandDocInv /\ [Next]_vars => PaneInv' /\ HandDocInv'
  BY NextPaneInv, NextHandDoc
<1> QED
  BY <1>1, <1>2, InitInv, NextInv, PTL DEF Spec

\* When the paste stamp reaches the disk, a document that is not marked stranded, outside the time
\* between the stamp and the settling, belongs to an item with no text in the pane.
THEOREM EvidenceInvariant ==
  ASSUME StampMayFail = FALSE PROVE Spec => []EvidenceInv
<1>1. Init => EvidenceInv
  BY InitEvidence
<1>2. QueueInv /\ PaneInv /\ HandDocInv /\ EvidenceInv /\ [Next]_vars => EvidenceInv'
  BY NextEvidence
<1> QED
  BY <1>1, <1>2, HandInvariant, PTL DEF Spec

\* EvidenceSound: an item that recovery or the next drain would type again has no text in the pane,
\* provided the paste stamp reaches the disk.
THEOREM EvidenceHolds ==
  ASSUME StampMayFail = FALSE PROVE Spec => []EvidenceSound
<1>1. EvidenceInv => EvidenceSound
  BY DEF EvidenceInv, ItemClean, Clean, EvidenceSound
<1> QED
  BY <1>1, EvidenceInvariant, PTL

\* SetAsideKnowsTyped: an item set aside after it was typed still says so, provided the paste stamp
\* reaches the disk.
THEOREM SetAsideHolds ==
  ASSUME StampMayFail = FALSE PROVE Spec => []SetAsideKnowsTyped
<1>1. EvidenceInv => SetAsideKnowsTyped
  BY DEF EvidenceInv, ItemClean, Clean, SetAsideKnowsTyped
<1> QED
  BY <1>1, EvidenceInvariant, PTL

\* AtMostOnce: across refusals, retries, crashes and recoveries the text of an item is in the pane, or
\* was taken by the agent, at most once, provided the paste stamp reaches the disk and every item is
\* submitted through a composer agentctl can read.
THEOREM AtMostOnceHolds ==
  ASSUME StampMayFail = FALSE, Native = {} PROVE Spec => []AtMostOnce
<1>1. QueueInv /\ PaneInv /\ EvidenceInv => AtMostOnce
  <2> SUFFICES ASSUME QueueInv, PaneInv, EvidenceInv, NEW i \in Items
               PROVE  typed[i] <= 1 /\ accepted[i] <= 1
    BY DEF AtMostOnce
  <2>1. typed[i] <= 1 /\ Tokens(i) <= typed[i]
    BY DEF EvidenceInv, ItemClean, PaneInv
  <2>2. typed[i] \in Int /\ accepted[i] \in Nat
    BY DEF QueueInv, TypeOK, PaneTypeOK
  <2>3. accepted[i] <= Tokens(i) /\ Tokens(i) \in Int
    BY <2>2 DEF Tokens
  <2> QED
    BY <2>1, <2>2, <2>3
<1> QED
  BY <1>1, HandInvariant, EvidenceInvariant, PTL

-----------------------------------------------------------------------------
(***************************************************************************)
(* Replays: ReplayInv.                                                     *)
(***************************************************************************)

\* An item whose documents and typing a step leaves alone.
LEMMA UntouchedSpare ==
  ASSUME NEW i \in Items, ItemSpare(i), typed'[i] = typed[i], crashes' = crashes,
         \A q \in Phases : file'[<<q, i>>] = file[<<q, i>>],
         (\E d \in Drainers : AtWork(d, i)) => \E d \in Drainers : AtWork(d, i)'
  PROVE  ItemSpare(i)'
<1>1. typed'[i] <= 1 + crashes'
  BY DEF ItemSpare
<1>2. \A lane \in Lanes : Exists(<<lane, i>>)' => Spare(i, file[<<lane, i>>])'
  BY PhaseFacts DEF ItemSpare, Exists, Spare
<1>3. Exists(Inflight(i))' =>
        Spare(i, file[Inflight(i)])' \/ \E d \in Drainers : AtWork(d, i)'
  BY PhaseFacts DEF ItemSpare, Exists, Spare, Inflight
<1> QED
  BY <1>1, <1>2, <1>3 DEF ItemSpare

\* An item whose document moves or is rewritten.
LEMMA TouchedSpare ==
  ASSUME NEW i \in Items, NEW p \in Phases, NEW r \in Phases, NEW old, NEW new,
         Touches(i, p, old, r, new), UNCHANGED <<typed, crashes>>, typed[i] <= 1 + crashes,
         \/ Spare(i, new)
         \/ r \in {"processed", "failed", "cancelled"}
         \/ r = "inflight" /\ \E d \in Drainers : AtWork(d, i)'
  PROVE  ItemSpare(i)'
<1>1. \A q \in Phases : file'[<<q, i>>] = IF q = r THEN new ELSE NoFile
  BY DEF Touches
<1>2. typed'[i] <= 1 + crashes'
  OBVIOUS
<1>3. \A lane \in Lanes : Exists(<<lane, i>>)' => Spare(i, file[<<lane, i>>])'
  BY <1>1, PhaseFacts DEF Spare, Exists
<1>4. Exists(Inflight(i))' =>
        Spare(i, file[Inflight(i)])' \/ \E d \in Drainers : AtWork(d, i)'
  BY <1>1, PhaseFacts DEF Spare, Exists, Inflight
<1> QED
  BY <1>2, <1>3, <1>4 DEF ItemSpare

\* A drain's step that touches one document.
LEMMA TouchSpare ==
  ASSUME QueueInv, ReplayInv, NEW d \in Drainers, DrainStep(d), UNCHANGED <<typed, crashes>>,
         NEW i \in Items, NEW p \in Phases, NEW r \in Phases, NEW old, NEW new,
         Touches(i, p, old, r, new), dpc[d] \in {"await", "settle", "move"} => Item(d) = i,
         \/ Spare(i, new)
         \/ r \in {"processed", "failed", "cancelled"}
         \/ r = "inflight" /\ AtWork(d, i)'
  PROVE  \A j \in Items : ItemSpare(j)'
<1>1. ItemSpare(i)'
  <2>1. typed[i] <= 1 + crashes
    BY DEF ReplayInv, ItemSpare
  <2> QED
    BY <2>1, TouchedSpare
<1>2. ASSUME NEW j \in Items \ {i} PROVE ItemSpare(j)'
  <2>1. \A q \in Phases : file'[<<q, j>>] = file[<<q, j>>]
    BY DEF Touches
  <2>2. ItemSpare(j) /\ typed'[j] = typed[j]
    BY DEF ReplayInv
  <2>3. \A e \in Drainers : ~AtWork(e, j)
    BY <1>2, DrainAlone DEF AtWork
  <2> QED
    BY <2>1, <2>2, <2>3, UntouchedSpare
<1> QED
  BY <1>1, <1>2

\* What is behind the barrier before a drain has typed it.
LEMMA SpareInflight ==
  ASSUME QueueInv, ReplayInv, NEW d \in Drainers, DrainStep(d), NEW i \in Items,
         dpc[d] \notin {"await", "settle", "move"}, Exists(<<"inflight", i>>)
  PROVE  Spare(i, file[<<"inflight", i>>])
<1>1. \A e \in Drainers : ~AtWork(e, i)
  BY DrainAlone DEF AtWork
<1> QED
  BY <1>1 DEF ReplayInv, ItemSpare, Inflight

\* The stranded mark is never lost, so neither is the right to type.
LEMMA SpareStays ==
  ASSUME NEW i \in Items, NEW old, NEW new, Spare(i, old), old.stranded => new.stranded
  PROVE  Spare(i, new)
  BY DEF Spare

\* What has to be shown of HandSpare at each place.
LEMMA HandSpareAt ==
  ASSUME NEW d \in Drainers
  PROVE  /\ dpc'[d] \notin {"submit", "paste", "flushed", "settle", "move"} => HandSpare(d)'
         /\ dpc'[d] \in {"submit", "paste"} /\ Spare(Item(d), ddoc[d])' => HandSpare(d)'
         /\ dpc'[d] = "flushed" /\ Item(d)' \notin Native => HandSpare(d)'
         /\ /\ dpc'[d] = "settle"
            /\ dout'[d] \notin Open \cup Marking => Spare(Item(d), ddoc[d])'
            /\ dout'[d] \in Marking => Item(d)' \notin Native
            => HandSpare(d)'
         /\ dpc'[d] = "move" /\ (dout'[d] \notin Open => Spare(Item(d), ddoc[d])') => HandSpare(d)'
  BY DEF HandSpare

\* A quiet step keeps the account of replays.
LEMMA QuietSpare ==
  ASSUME QueueInv, ReplayInv, NEW d \in Drainers, DrainStep(d), Quiet(d), UNCHANGED crashes
  PROVE  (\A i \in Items : ItemSpare(i)') /\ HandSpare(d)'
<1>1. UNCHANGED <<file, typed>>
  BY QuietKeeps
<1>2. ASSUME dpc[d] \in {"await", "settle", "move"} PROVE dpc'[d] = "settle" /\ dpath'[d] = dpath[d]
  BY <1>2, QuietPlaces, ConcludePlaces DEF Quiet
<1>3. ASSUME NEW j \in Items PROVE ItemSpare(j)'
  <2>1. (\E e \in Drainers : AtWork(e, j)) => \E e \in Drainers : AtWork(e, j)'
    BY <1>2, DrainAlone DEF AtWork, Item
  <2>2. ItemSpare(j) /\ typed'[j] = typed[j] /\ crashes' = crashes
    BY <1>1 DEF ReplayInv
  <2> QED
    BY <1>1, <2>1, <2>2, UntouchedSpare
<1> SUFFICES HandSpare(d)'
  BY <1>3
<1>4. PICK i \in Items : i = Item(d)
  BY DrainTypes
<1>5. HandSpare(d)
  BY DEF ReplayInv
<1>6. ASSUME NEW j \in Items, SubmitRecoverDraft(d, j) PROVE HandSpare(d)'
  <2>1. dpc'[d] = "submit" /\ dpath' = dpath /\ ddoc' = ddoc /\ dpc[d] = "submit"
    BY <1>6, QuietPlaces DEF drainVars
  <2>2. Spare(Item(d), ddoc[d])
    BY <1>5, <2>1 DEF HandSpare
  <2>3. Spare(Item(d), ddoc[d])'
    BY <1>1, <2>1, <2>2 DEF Spare, Item
  <2> QED
    BY <2>1, <2>3, HandSpareAt
<1>7. CASE SubmitFlush(d)
  <2>1. dpc'[d] = "flushed" /\ Item(d)' = i
    BY <1>4, <1>7, QuietPlaces DEF Item
  <2>2. i \notin Native
    BY <1>4, <1>7 DEF SubmitFlush, Verified
  <2> QED
    BY <2>1, <2>2, HandSpareAt
<1>8. CASE SubmitRefuse(d) \/ FlushEnds(d) \/ SubmitLook(d) \/ SubmitMisses(d)
           \/ (SubmitEnds(d) /\ UNCHANGED paneVars)
  <2>1. dpc'[d] = "settle" /\ Item(d)' = i /\ ddoc'[d] = ddoc[d]
    BY <1>4, <1>8, ConcludePlaces DEF Item
  <2>2. dout'[d] \notin Open \cup Marking => Spare(i, ddoc[d])
    <3>1. CASE dpc[d] \in {"submit", "paste"}
      BY <1>4, <1>5, <3>1 DEF HandSpare
    <3>2. CASE dpc[d] \notin {"submit", "paste"}
      <4>1. dout'[d] \in {"stranded", "unknown", "confirmed", "taken_back"}
        BY <1>8, <3>2, ConcludePlaces
      <4>2. dout'[d] # "taken_back"
        BY <1>8, <3>2, ConcludeFlush, EndsQuietly
      <4> QED
        BY <4>1, <4>2 DEF Open, Marking
    <3> QED
      BY <3>1, <3>2
  <2>3. dout'[d] \in Marking => i \notin Native
    <3>1. CASE Verified(d)
      BY <1>4, <3>1 DEF Verified
    <3>2. CASE dpc[d] = "flushed"
      BY <1>4, <1>5, <3>2 DEF HandSpare
    <3>3. CASE ~Verified(d) /\ dpc[d] # "flushed"
      <4>1. dout'[d] \in {"refused", "unreadable", "not_begun", "misrouted", "unknown", "confirmed"}
        BY <1>8, <3>3, ConcludePlaces
      <4> QED
        BY <4>1 DEF Marking
    <3> QED
      BY <3>1, <3>2, <3>3
  <2>4. dout'[d] \notin Open \cup Marking => Spare(Item(d), ddoc[d])'
    BY <1>1, <2>1, <2>2 DEF Spare
  <2> QED
    BY <2>1, <2>3, <2>4, HandSpareAt
<1>9. CASE \/ RecoverDone(d) \/ DigestSidecar(d) \/ DrainSnapshot(d) \/ DrainPick(d) \/ DrainFinish(d)
           \/ DrainStops(d) \/ DrainReady(d) \/ AsideForget(d) \/ DrainSidecar(d)
           \/ RependDone(d) \/ RecoverSidecar(d) \/ DrainAside(d) \/ DrainRecheck(d)
  <2>1. dpc'[d] \in {"digest", "next", "load", "idle", "barrier", "recover", "aside", "stamp"}
    BY <1>9, QuietPlaces
  <2> QED
    BY <2>1, HandSpareAt
<1> QED
  BY <1>6, <1>7, <1>8, <1>9 DEF Quiet

\* Recovery, and the way to the stamp.
LEMMA LoadSpare ==
  ASSUME QueueInv, ReplayInv, NEW d \in Drainers, HandDoc(d), DrainStep(d), UNCHANGED crashes,
         NEW i \in Items,
         \/ RependStranded(d, i) \/ RecoverNeverTyped(d, i)
         \/ RecoverQuarantine(d, i) \/ DigestAside(d, i)
         \/ i = Item(d) /\ \/ RependMove(d) \/ RecoverMove(d)
                           \/ DrainInvalid(d) \/ DrainBlocked(d) \/ DrainBarrier(d) \/ DrainStamp(d)
                           \/ AsideWrite(d) \/ AsideMove(d)
  PROVE  (\A j \in Items : ItemSpare(j)') /\ HandSpare(d)'
<1>1. UNCHANGED <<typed, crashes>>
  BY LoudKeepsTyped DEF paneVars
<1>2. PICK lane \in Lanes : dpath[d] = <<lane, Item(d)>> /\ dpath[d][1] = lane
  BY DrainTypes
<1>3. lane \in Phases /\ "inflight" \in Phases
  BY PhaseFacts
<1>4. ASSUME Exists(<<"inflight", i>>), dpc[d] \notin {"await", "settle", "move"}
      PROVE  \E old \in Doc : old = file[<<"inflight", i>>] /\ Spare(i, old)
  BY <1>3, <1>4, SpareInflight, OnlyThere
<1>5. ASSUME Exists(<<lane, i>>) PROVE \E old \in Doc : old = file[<<lane, i>>] /\ Spare(i, old)
  BY <1>3, <1>5, OnlyThere DEF ReplayInv, ItemSpare
<1>6. CASE RependStranded(d, i) \/ RecoverNeverTyped(d, i)
  <2>1. dpc[d] \in {"repend", "recover"} /\ dpc'[d] \in {"repend_move", "recover_move"}
    BY <1>6, RecoveryPlaces
  <2>2. Exists(<<"inflight", i>>)
    BY <1>6 DEF RependStranded, RecoverNeverTyped, Inflight
  <2>3. PICK old \in Doc : old = file[<<"inflight", i>>] /\ Spare(i, old)
    BY <1>4, <2>1, <2>2
  <2>4. PICK new : Touches(i, "inflight", old, "inflight", new) /\ (old.stranded => new.stranded)
    BY <1>6, <2>3, RecoveryTouches, StampFacts DEF Lanes
  <2>5. Spare(i, new)
    BY <2>3, <2>4, SpareStays
  <2>6. \A j \in Items : ItemSpare(j)'
    BY <1>1, <1>3, <2>1, <2>4, <2>5, TouchSpare
  <2> QED
    BY <2>1, <2>6, HandSpareAt
<1>7. CASE RecoverQuarantine(d, i) \/ DigestAside(d, i)
  <2>1. dpc[d] \in {"recover", "digest"} /\ dpc'[d] \in {"recover_sidecar", "digest_sidecar"}
    BY <1>7, RecoveryPlaces
  <2>2. PICK p \in {"inflight", "failed"}, r \in {"failed", "cancelled"} :
          Touches(i, p, file[<<p, i>>], r, file[<<p, i>>])
    BY <1>7, RecoveryTouches
  <2>3. \A j \in Items : ItemSpare(j)'
    BY <1>1, <2>1, <2>2, TouchSpare, PhaseFacts
  <2> QED
    BY <2>1, <2>3, HandSpareAt
<1>8. CASE i = Item(d) /\ (RependMove(d) \/ RecoverMove(d))
  <2>1. dpc[d] \in {"repend_move", "recover_move"} /\ dpc'[d] \in {"repend", "recover"}
    BY <1>8, RecoveryPlaces
  <2>2. Exists(<<"inflight", i>>)
    BY <1>8, <2>1, HandThere DEF InHandInflight
  <2>3. PICK old \in Doc : old = file[<<"inflight", i>>] /\ Spare(i, old)
    BY <1>4, <2>1, <2>2
  <2>4. Touches(i, "inflight", old, lane, old)
    BY <1>2, <1>8, <2>3, RecoveryTouches
  <2>5. \A j \in Items : ItemSpare(j)'
    BY <1>1, <1>3, <2>1, <2>3, <2>4, TouchSpare
  <2> QED
    BY <2>1, <2>5, HandSpareAt
<1>9. CASE i = Item(d) /\ DrainInvalid(d)
  <2>1. dpc[d] = "load" /\ dpc'[d] = "sidecar"
    BY <1>9, LoadPlaces
  <2>2. Touches(i, lane, file[<<lane, i>>], "failed", file[<<lane, i>>])
    BY <1>2, <1>9, LoadTouches
  <2>3. \A j \in Items : ItemSpare(j)'
    BY <1>1, <1>3, <2>1, <2>2, TouchSpare, PhaseFacts
  <2> QED
    BY <2>1, <2>3, HandSpareAt
<1>10. CASE i = Item(d) /\ (DrainBlocked(d) \/ DrainBarrier(d))
  <2>1. dpc[d] \in InHandAtPath /\ dpc[d] \in {"load", "barrier"} /\ dpc'[d] \in {"idle", "recheck"}
    BY <1>10, LoadPlaces DEF InHandAtPath
  <2>2. Exists(<<lane, i>>)
    BY <1>2, <1>10, <2>1, HandThere
  <2>3. PICK old \in Doc : old = file[<<lane, i>>] /\ Spare(i, old)
    BY <1>5, <2>2
  <2>4. PICK r \in {lane, "inflight"}, new \in Doc :
          Touches(i, lane, old, r, new) /\ new.stranded = old.stranded
    <3>1. CASE DrainBarrier(d)
      BY <1>2, <1>10, <2>3, <3>1, LoadTouches
    <3>2. CASE DrainBlocked(d)
      <4>1. PICK untyped \in BOOLEAN : Touches(i, lane, old, lane, [old EXCEPT !.refused = untyped])
        BY <1>2, <1>10, <2>3, <3>2, LoadTouches
      <4> QED
        BY <4>1 DEF Doc
    <3> QED
      BY <1>10, <3>1, <3>2
  <2>5. Spare(i, new)
    BY <2>3, <2>4, SpareStays
  <2>6. \A j \in Items : ItemSpare(j)'
    BY <1>1, <1>3, <2>1, <2>4, <2>5, TouchSpare
  <2> QED
    BY <2>1, <2>6, HandSpareAt
<1>11. CASE i = Item(d) /\ DrainStamp(d)
  <2>1. dpc[d] = "stamp" /\ dpc'[d] = "submit" /\ Item(d)' = i
    BY <1>11, LoadPlaces DEF Item
  <2>2. Exists(<<"inflight", i>>)
    BY <1>11, <2>1, HandThere DEF InHandInflight
  <2>3. PICK doc \in Doc : doc = file[<<"inflight", i>>] /\ Spare(i, doc) /\ doc = ddoc[d]
    BY <1>4, <1>11, <2>1, <2>2 DEF HandDoc, Inflight
  <2>4. PICK new : /\ new = [doc EXCEPT !.tracked = TRUE, !.from = lane, !.pasted = FALSE]
                   /\ new.stranded = doc.stranded
    <3>1. [doc EXCEPT !.tracked = TRUE, !.from = lane, !.pasted = FALSE].stranded = doc.stranded
      BY DEF Doc
    <3> QED
      BY <3>1
  <2>5. Touches(i, "inflight", doc, "inflight", new) /\ ddoc'[d] = new
    BY <1>2, <1>11, <2>3, <2>4, InflightTouches, LoadPlaces
  <2>6. Spare(i, new)
    BY <2>3, <2>4, SpareStays
  <2>7. \A j \in Items : ItemSpare(j)'
    BY <1>1, <1>3, <2>1, <2>5, <2>6, TouchSpare
  <2>8. Spare(Item(d), ddoc[d])'
    BY <1>1, <2>1, <2>5, <2>6 DEF Spare
  <2> QED
    BY <2>1, <2>7, <2>8, HandSpareAt
<1>12. CASE i = Item(d) /\ (AsideWrite(d) \/ AsideMove(d))
  <2>1. dpc[d] \in InHandAside /\ dpc[d] \in {"aside", "aside_move"}
        /\ dpc'[d] \in {"aside_move", "aside_forget"}
    BY <1>12, LoadPlaces DEF InHandAside
  <2>2. PICK p \in {lane, "inflight"} : p = dat[d][1] /\ Exists(<<p, i>>)
    BY <1>2, <1>12, <2>1, HandThere
  <2>3. PICK old \in Doc : old = file[<<p, i>>] /\ Spare(i, old)
    BY <1>4, <1>5, <2>1, <2>2
  <2>4. PICK r, new : r \in {p, "cancelled"} /\ Touches(i, p, old, r, new) /\ new.stranded = old.stranded
    BY <1>12, <2>2, <2>3, AsideTouches, StampFacts DEF Lanes
  <2>5. Spare(i, new)
    BY <2>3, <2>4, SpareStays
  <2>6. \A j \in Items : ItemSpare(j)'
    BY <1>1, <1>3, <2>1, <2>4, <2>5, TouchSpare, PhaseFacts
  <2> QED
    BY <2>1, <2>6, HandSpareAt
<1> QED
  BY <1>6, <1>7, <1>8, <1>9, <1>10, <1>11, <1>12

\* From the first key to the rename out of inflight/.
LEMMA SubmitSpare ==
  ASSUME QueueInv, ReplayInv, NEW d \in Drainers, HandDoc(d), DrainStep(d), UNCHANGED crashes,
         \/ SubmitType(d) \/ SubmitPaste(d)
         \/ SubmitEnds(d) /\ Verified(d) /\ Concludes(d, "await", "taken_back")
              /\ PaneTakeBack(Item(d))
         \/ Settle(d) \/ MoveProcessed(d) \/ MoveFailed(d)
         \/ MoveBackAndGoOn(d) \/ MoveBackAndRetry(d) \/ MoveBackAndStop(d)
  PROVE  (\A j \in Items : ItemSpare(j)') /\ HandSpare(d)'
<1>1. PICK i \in Items, lane \in Lanes : i = Item(d) /\ dpath[d] = <<lane, i>> /\ dpath[d][1] = lane
  BY DrainTypes
<1>2. PICK doc \in Doc : doc = ddoc[d]
  BY DrainTypes
<1>3. typed \in [Items -> Int] /\ crashes \in Nat /\ typed[i] <= 1 + crashes
  BY DEF QueueInv, TypeOK, PaneTypeOK, ReplayInv, ItemSpare
<1>4. HandSpare(d)
  BY DEF ReplayInv
<1>5. CASE SubmitType(d)
  <2>1. /\ dpc[d] = "submit" /\ dpc'[d] = "paste" /\ dpath'[d] = dpath[d] /\ ddoc'[d] = ddoc[d]
    BY <1>5, SubmitPlaces
  <2>2. UNCHANGED <<typed, crashes>>
    BY <1>1, <1>5, LoudKeepsTyped DEF paneVars
  <2>3. Spare(i, doc)
    BY <1>1, <1>2, <1>4, <2>1 DEF HandSpare
  <2>4. Spare(Item(d), ddoc[d])'
    BY <1>1, <1>2, <2>1, <2>2, <2>3 DEF Spare, Item
  <2>5. CASE UNCHANGED file
    <3>1. ASSUME NEW j \in Items PROVE ItemSpare(j)'
      <4>1. \A e \in Drainers : ~AtWork(e, j)
        BY <2>1, DrainAlone DEF AtWork
      <4>2. ItemSpare(j) /\ typed'[j] = typed[j] /\ crashes' = crashes
        BY <2>2 DEF ReplayInv
      <4> QED
        BY <2>5, <4>1, <4>2, UntouchedSpare
    <3> QED
      BY <2>1, <2>4, <3>1, HandSpareAt
  <2>6. CASE Touches(i, "inflight", file[<<"inflight", i>>], "inflight", [doc EXCEPT !.pasted = TRUE])
    <3>1. PICK new : new = [doc EXCEPT !.pasted = TRUE] /\ new.stranded = doc.stranded
      <4>1. [doc EXCEPT !.pasted = TRUE].stranded = doc.stranded
        BY DEF Doc
      <4> QED
        BY <4>1
    <3>2. Spare(i, new)
      BY <2>3, <3>1, SpareStays
    <3>3. \A j \in Items : ItemSpare(j)'
      BY <2>1, <2>2, <2>6, <3>1, <3>2, TouchSpare, PhaseFacts
    <3> QED
      BY <2>1, <2>4, <3>3, HandSpareAt
  <2> QED
    BY <1>1, <1>2, <1>5, <2>5, <2>6, InflightTouches
<1>6. ASSUME dpc[d] \in {"paste", "await"}, UNCHANGED file, AtWork(d, i)', typed'[i] <= 1 + crashes,
             \A j \in Items \ {i} : typed'[j] = typed[j]
      PROVE  \A j \in Items : ItemSpare(j)'
  <2>1. Exists(<<"inflight", i>>)
    BY <1>1, <1>6, HandThere DEF InHandInflight
  <2>2. \A q \in Phases : q # "inflight" => file[<<q, i>>] = NoFile
    BY <2>1, OnlyThere, PhaseFacts
  <2>3. ItemSpare(i)'
    <3>1. \A l \in Lanes : ~Exists(<<l, i>>)'
      BY <1>6, <2>2, PhaseFacts DEF Exists
    <3> QED
      BY <1>6, <3>1 DEF ItemSpare
  <2>4. ASSUME NEW j \in Items \ {i} PROVE ItemSpare(j)'
    <3>1. \A e \in Drainers : ~AtWork(e, j)
      BY <1>1, DrainAlone DEF AtWork
    <3>2. ItemSpare(j) /\ typed'[j] = typed[j] /\ crashes' = crashes
      BY <1>6 DEF ReplayInv
    <3> QED
      BY <1>6, <3>1, <3>2, UntouchedSpare
  <2> QED
    BY <2>3, <2>4
<1>7. CASE SubmitPaste(d)
  <2>1. dpc[d] = "paste" /\ dpc'[d] = "await" /\ dpath'[d] = dpath[d] /\ UNCHANGED file
    BY <1>7, SubmitPlaces
  <2>2. typed' = [typed EXCEPT ![i] = @ + 1]
    BY <1>1, <1>7 DEF SubmitPaste, PanePaste, PanePrompt
  <2>3. typed[i] <= crashes
    <3>1. Spare(i, doc)
      BY <1>1, <1>2, <1>4, <2>1 DEF HandSpare
    <3>2. i \notin Native => ~doc.stranded
      BY <1>1, <1>2, <2>1 DEF HandDoc, Verified
    <3> QED
      BY <3>1, <3>2 DEF Spare
  <2>4. typed'[i] <= 1 + crashes
    BY <1>3, <2>2, <2>3
  <2>5. AtWork(d, i)'
    BY <1>1, <2>1 DEF AtWork, Item
  <2>6. \A j \in Items : ItemSpare(j)'
    BY <1>3, <1>6, <2>1, <2>2, <2>4, <2>5
  <2> QED
    BY <2>1, <2>6, HandSpareAt
<1>8. CASE Concludes(d, "await", "taken_back") /\ PaneTakeBack(Item(d))
  <2>1. /\ dpc[d] = "await" /\ dpc'[d] = "settle" /\ dpath'[d] = dpath[d] /\ UNCHANGED file
        /\ dout'[d] = "taken_back"
    BY <1>8, SubmitPlaces
  <2>2. typed' = [typed EXCEPT ![i] = @ - 1]
    BY <1>1, <1>8 DEF PaneTakeBack
  <2>3. typed'[i] <= crashes /\ typed'[i] <= 1 + crashes
    BY <1>3, <2>2
  <2>4. AtWork(d, i)'
    BY <1>1, <2>1 DEF AtWork, Item
  <2>5. \A j \in Items : ItemSpare(j)'
    BY <1>3, <1>6, <2>1, <2>2, <2>3, <2>4
  <2>6. Spare(Item(d), ddoc[d])'
    BY <2>3, <2>4 DEF Spare, AtWork
  <2>7. dout'[d] \notin Marking
    BY <2>1 DEF Marking
  <2> QED
    BY <2>1, <2>5, <2>6, <2>7, HandSpareAt
<1>9. CASE Settle(d)
  <2>1. dpc[d] = "settle" /\ dpc'[d] = "move" /\ dpath'[d] = dpath[d] /\ dout'[d] = dout[d]
    BY <1>9, SubmitPlaces
  <2>2. PICK new : /\ new = Settled(doc, dout[d])
                   /\ (doc.stranded => new.stranded) /\ (dout[d] \in Marking => new.stranded)
    BY DrainTypes, SettledFacts
  <2>3. PICK old : Touches(i, "inflight", old, "inflight", new)
    BY <1>1, <1>2, <1>9, <2>2, InflightTouches
  <2>4. AtWork(d, i)' /\ UNCHANGED <<typed, crashes>>
    BY <1>1, <1>9, <2>1, LoudKeepsTyped DEF AtWork, Item, paneVars
  <2>5. \A j \in Items : ItemSpare(j)'
    BY <1>1, <2>1, <2>3, <2>4, TouchSpare, PhaseFacts
  <2>6. ddoc'[d] = new
    BY <1>2, <1>9, <2>2, SubmitPlaces
  <2>7. dout[d] \notin Open => Spare(i, new)
    <3>1. CASE dout[d] \in Marking
      BY <1>1, <1>4, <2>1, <2>2, <3>1 DEF HandSpare, Spare
    <3>2. CASE dout[d] \notin Open \cup Marking
      <4>1. Spare(i, doc)
        BY <1>1, <1>2, <1>4, <2>1, <3>2 DEF HandSpare
      <4> QED
        BY <2>2, <4>1, SpareStays
    <3> QED
      BY <3>1, <3>2
  <2>8. dout'[d] \notin Open => Spare(Item(d), ddoc[d])'
    BY <2>1, <2>4, <2>6, <2>7 DEF Spare, AtWork
  <2> QED
    BY <2>1, <2>5, <2>8, HandSpareAt
<1>10. CASE MoveProcessed(d) \/ MoveFailed(d)
  <2>1. PICK r \in {"processed", "failed"} :
          Touches(i, "inflight", file[<<"inflight", i>>], r, file[<<"inflight", i>>])
    BY <1>1, <1>10, InflightTouches
  <2>2. UNCHANGED <<typed, crashes>>
    BY <1>1, <1>10, LoudKeepsTyped DEF paneVars
  <2>3. dpc'[d] \in {"next", "sidecar"} /\ Item(d) = i
    BY <1>1, <1>10, SubmitPlaces
  <2>4. \A j \in Items : ItemSpare(j)'
    BY <2>1, <2>2, <2>3, TouchSpare, PhaseFacts
  <2> QED
    BY <2>3, <2>4, HandSpareAt
<1>11. CASE MoveBackAndGoOn(d) \/ MoveBackAndRetry(d) \/ MoveBackAndStop(d)
  <2>1. MoveBack(d) /\ dpc[d] = "move" /\ dout[d] \notin Open /\ dpc'[d] \in {"next", "load", "idle"}
    BY <1>11, SubmitPlaces
  <2>2. PICK old : old = file[<<"inflight", i>>] /\ Touches(i, "inflight", old, lane, old)
    BY <1>1, <2>1, InflightTouches
  <2>3. UNCHANGED <<typed, crashes>>
    BY <1>1, <1>11, LoudKeepsTyped DEF paneVars
  <2>4. Spare(i, old)
    <3>1. old = doc
      BY <1>1, <1>2, <2>1, <2>2 DEF HandDoc, Inflight
    <3> QED
      BY <1>1, <1>2, <1>4, <2>1, <3>1 DEF HandSpare
  <2>5. \A j \in Items : ItemSpare(j)'
    BY <1>1, <2>2, <2>3, <2>4, TouchSpare, PhaseFacts
  <2> QED
    BY <2>1, <2>5, HandSpareAt
<1> QED
  BY <1>5, <1>7, <1>8, <1>9, <1>10, <1>11

\* Every step of a drain keeps the account of replays.
LEMMA DrainSpare ==
  ASSUME QueueInv, ReplayInv, NEW d \in Drainers, HandDoc(d), DrainStep(d), UNCHANGED crashes
  PROVE  (\A j \in Items : ItemSpare(j)') /\ HandSpare(d)'
<1>1. Item(d) \in Items
  BY DrainTypes
<1> QED
  BY <1>1, DrainCases, QuietSpare, LoadSpare, SubmitSpare

\* Without a crash a drainer goes on as it was, or starts.
LEMMA ElsewhereNoCrash ==
  ASSUME QueueInv, Elsewhere, crashes' # crashes + 1, NEW d \in Drainers
  PROVE  crashes' = crashes /\ (DrainerSame(d) \/ (dpc[d] = "idle" /\ dpc'[d] = "repend"))
<1>1. DrainTypeOK
  BY DEF QueueInv, TypeOK
<1>2. CASE UNCHANGED <<drainVars, crashes>>
  BY <1>2 DEF drainVars, DrainerSame
<1>3. ASSUME NEW e \in Drainers, DrainLock(e), UNCHANGED crashes
      PROVE  DrainerSame(d) \/ (dpc[d] = "idle" /\ dpc'[d] = "repend")
  BY <1>1, <1>3 DEF DrainTypeOK, DrainLock, Step, DrainerSame
<1> QED
  BY <1>2, <1>3 DEF Elsewhere

\* Every step of a client keeps the account of replays: an identifier queued anew starts afresh.
LEMMA ClientSpare ==
  ASSUME QueueInv, ReplayInv, NEW c \in Clients, ClientStep(c), UNCHANGED <<drainVars, crashes>>
  PROVE  ReplayInv'
<1>0. UNCHANGED <<dpc, dpath, dat, ddoc, dout, crashes>>
  BY DEF drainVars
<1>1. \A i \in Items, d \in Drainers : AtWork(d, i)' <=> AtWork(d, i)
  BY <1>0 DEF AtWork, Item
<1>2. ASSUME NEW j \in Items, typed'[j] = typed[j], \A q \in Phases : file'[<<q, j>>] = file[<<q, j>>]
      PROVE  ItemSpare(j)'
  <2>1. ItemSpare(j)
    BY DEF ReplayInv
  <2> QED
    BY <1>0, <1>1, <1>2, <2>1, UntouchedSpare
<1>3. ASSUME \A d \in Drainers : dpc[d] = "idle" PROVE \A d \in Drainers : HandSpare(d)'
  BY <1>0, <1>3, HandSpareAt
<1>4. CASE UNCHANGED <<file, paneVars>>
  <2>1. UNCHANGED typed
    BY <1>4 DEF paneVars
  <2>2. \A i \in Items : ItemSpare(i)'
    BY <1>2, <1>4, <2>1
  <2>3. ASSUME NEW d \in Drainers PROVE HandSpare(d)'
    <3>1. HandSpare(d)
      BY DEF ReplayInv
    <3> QED
      BY <1>0, <2>1, <3>1 DEF HandSpare, Spare, Item
  <2> QED
    BY <2>2, <2>3 DEF ReplayInv
<1>5. ASSUME UNCHANGED paneVars, \A d \in Drainers : dpc[d] = "idle", NEW i \in Items, SetsAside(i)
      PROVE  ReplayInv'
  <2>1. PICK lane \in Lanes, old \in Doc :
          Touches(i, lane, old, lane, Stripped(old)) \/ Touches(i, lane, old, "cancelled", old)
    BY <1>5 DEF SetsAside
  <2>2. Exists(<<lane, i>>) /\ file[<<lane, i>>] = old
    BY <2>1, PhaseFacts, SystemAssumption DEF Touches, Exists, SystemAssumption
  <2>3. Spare(i, old) /\ typed[i] <= 1 + crashes
    BY <2>2 DEF ReplayInv, ItemSpare
  <2>4. PICK new : new = Stripped(old) /\ new.stranded = old.stranded
    BY StampFacts
  <2>5. Spare(i, new)
    BY <2>3, <2>4, SpareStays
  <2>6. UNCHANGED <<typed, crashes>>
    BY <1>0, <1>5 DEF paneVars
  <2>7. ItemSpare(i)'
    BY <2>1, <2>3, <2>4, <2>5, <2>6, TouchedSpare, PhaseFacts
  <2>8. \A j \in Items \ {i} : ItemSpare(j)'
    BY <1>2, <2>1, <2>6 DEF Touches
  <2> QED
    BY <1>3, <1>5, <2>7, <2>8 DEF ReplayInv
<1>6. ASSUME UNCHANGED paneVars, \A d \in Drainers : dpc[d] = "idle", NEW i \in Items, Vanishes(i)
      PROVE  ReplayInv'
  <2>1. UNCHANGED typed
    BY <1>6 DEF paneVars
  <2>2. ItemSpare(i)'
    <3>1. \A q \in Phases : ~Exists(<<q, i>>)'
      BY <1>6 DEF Vanishes, Exists
    <3>2. typed'[i] <= 1 + crashes'
      BY <1>0, <2>1 DEF ReplayInv, ItemSpare
    <3> QED
      BY <3>1, <3>2, PhaseFacts DEF ItemSpare, Inflight
  <2>3. \A j \in Items \ {i} : ItemSpare(j)'
    BY <1>2, <1>6, <2>1 DEF Vanishes, OthersStay
  <2> QED
    BY <1>3, <1>6, <2>2, <2>3 DEF ReplayInv
<1>7. CASE EnqueueCreate(c) /\ Appears(citem[c])
  <2>1. PICK i \in Items : i = citem[c]
    BY ClientTypes
  <2>2. typed'[i] = 0 /\ \A j \in Items \ {i} : typed'[j] = typed[j]
    BY <1>7, <2>1 DEF Appears, PaneForgets, QueueInv, TypeOK, PaneTypeOK
  <2>3. crashes' \in Nat /\ 0 <= crashes' /\ 0 <= 1 + crashes'
    BY <1>0 DEF QueueInv, TypeOK
  <2>4. ItemSpare(i)'
    BY <2>2, <2>3 DEF ItemSpare, Spare
  <2>5. \A j \in Items \ {i} : ItemSpare(j)'
    BY <1>2, <1>7, <2>1, <2>2 DEF Appears, OthersStay
  <2>6. ASSUME NEW d \in Drainers PROVE HandSpare(d)'
    <3>1. HandSpare(d) /\ Item(d) \in Items
      BY DrainTypes DEF ReplayInv
    <3>2. CASE dpc[d] \in {"submit", "paste", "flushed", "settle", "move"}
      <4>1. Exists(<<"inflight", Item(d)>>)
        BY <3>2, HandThere DEF InHandInflight
      <4>2. typed'[Item(d)] = typed[Item(d)]
        BY <3>1, <3>2, <4>1, ClientSpares, PhaseFacts
      <4> QED
        BY <1>0, <3>1, <4>2 DEF HandSpare, Spare, Item
    <3>3. CASE dpc[d] \notin {"submit", "paste", "flushed", "settle", "move"}
      BY <1>0, <3>3, HandSpareAt
    <3> QED
      BY <3>2, <3>3
  <2> QED
    BY <2>4, <2>5, <2>6 DEF ReplayInv
<1> QED
  BY <1>4, <1>5, <1>6, <1>7, ClientEffect

\* ReplayInv is inductive: a crash buys every item one more typing.
LEMMA NextReplay ==
  ASSUME QueueInv, HandDocInv, ReplayInv, [Next]_vars
  PROVE  ReplayInv'
<1>1. ASSUME NEW d \in Drainers, DrainStep(d), UNCHANGED crashes PROVE ReplayInv'
  <2>1. HandDoc(d)
    BY DEF HandDocInv
  <2>2. (\A j \in Items : ItemSpare(j)') /\ HandSpare(d)'
    BY <1>1, <2>1, DrainSpare
  <2>3. ASSUME NEW e \in Drainers \ {d} PROVE HandSpare(e)'
    BY <1>1, DrainAlone, HandSpareAt DEF DrainerSame
  <2> QED
    BY <2>2, <2>3 DEF ReplayInv
<1>2. CASE Elsewhere
  <2>1. UNCHANGED <<file, typed>>
    BY <1>2 DEF Elsewhere
  <2>2. CASE crashes' = crashes + 1
    <3>1. typed \in [Items -> Int] /\ crashes \in Nat
      BY DEF QueueInv, TypeOK, PaneTypeOK
    <3>2. \A j \in Items : typed'[j] <= crashes' /\ typed'[j] <= 1 + crashes'
      BY <2>1, <2>2, <3>1 DEF ReplayInv, ItemSpare
    <3>3. \A j \in Items : ItemSpare(j)'
      BY <3>2 DEF ItemSpare, Spare
    <3>4. ASSUME NEW e \in Drainers PROVE HandSpare(e)'
      <4>1. CASE DrainerSame(e)
        <5>1. HandSpare(e)
          BY DEF ReplayInv
        <5>2. Item(e)' \in Items
          BY <4>1, DrainTypes DEF DrainerSame, Item
        <5>3. Spare(Item(e), ddoc[e])'
          BY <3>2, <5>2 DEF Spare
        <5> QED
          BY <4>1, <5>1, <5>3 DEF DrainerSame, HandSpare, Item
      <4>2. CASE dpc'[e] \in {"idle", "repend"}
        BY <4>2, HandSpareAt
      <4> QED
        BY <1>2, <4>1, <4>2, ElsewhereDrainers
    <3> QED
      BY <3>3, <3>4 DEF ReplayInv
  <2>3. CASE crashes' # crashes + 1
    <3>1. \A e \in Drainers : crashes' = crashes /\ (DrainerSame(e) \/ (dpc[e] = "idle" /\ dpc'[e] = "repend"))
      BY <1>2, <2>3, ElsewhereNoCrash
    <3>2. crashes' = crashes
      BY <1>2, <2>3 DEF Elsewhere
    <3>3. \A j \in Items, e \in Drainers : AtWork(e, j) => AtWork(e, j)'
      BY <3>1 DEF AtWork, DrainerSame, Item
    <3>4. ASSUME NEW j \in Items PROVE ItemSpare(j)'
      <4>1. ItemSpare(j)
        BY DEF ReplayInv
      <4> QED
        BY <2>1, <3>2, <3>3, <4>1, UntouchedSpare
    <3>5. ASSUME NEW e \in Drainers PROVE HandSpare(e)'
      <4>1. CASE DrainerSame(e)
        <5>1. HandSpare(e)
          BY DEF ReplayInv
        <5> QED
          BY <2>1, <3>2, <4>1, <5>1 DEF DrainerSame, HandSpare, Spare, Item
      <4>2. CASE dpc'[e] = "repend"
        BY <4>2, HandSpareAt
      <4> QED
        BY <3>1, <4>1, <4>2
    <3> QED
      BY <3>4, <3>5 DEF ReplayInv
  <2> QED
    BY <2>2, <2>3
<1> QED
  BY <1>1, <1>2, ClientSpare, NextCases

\* At the start nothing was typed and nothing has crashed.
LEMMA InitReplay == ASSUME Init PROVE ReplayInv
<1>1. crashes = 0 /\ (\A i \in Items : typed[i] = 0) /\ (\A d \in Drainers : dpc[d] = "idle")
  BY InitHand DEF Init
<1>2. ASSUME NEW i \in Items PROVE ItemSpare(i)
  <2>1. typed[i] = 0 /\ 0 <= crashes /\ 0 <= 1 + crashes
    BY <1>1
  <2>2. typed[i] <= crashes /\ typed[i] <= 1 + crashes
    BY <2>1
  <2> QED
    BY <2>2 DEF ItemSpare, Spare
<1>3. \A d \in Drainers : HandSpare(d)
  BY <1>1 DEF HandSpare
<1> QED
  BY <1>2, <1>3 DEF ReplayInv

\* EachReplayNeedsACrash: an item is typed at most once more than there were crashes, even when
\* the paste stamp is lost and for the native primitive.
THEOREM ReplaysHold == Spec => []EachReplayNeedsACrash
<1>1. Init => ReplayInv
  BY InitReplay
<1>2. QueueInv /\ HandDocInv /\ ReplayInv /\ [Next]_vars => ReplayInv'
  BY NextReplay
<1>3. ReplayInv => EachReplayNeedsACrash
  BY DEF ReplayInv, ItemSpare, EachReplayNeedsACrash
<1> QED
  BY <1>1, <1>2, <1>3, HandInvariant, PTL DEF Spec

-----------------------------------------------------------------------------
(***************************************************************************)
(* Which documents a drain may touch.                                      *)
(***************************************************************************)
DrainTouches(d, i, p, r) ==
  /\ \E old, new \in Doc : Touches(i, p, old, r, new) /\ (p = "failed" => new = old)
  /\ \/ p \in Lanes /\ i = Item(d) /\ dpc[d] \in {"load", "barrier", "aside", "aside_move"}
     \/ /\ p = "inflight" /\ i = Item(d)
        /\ dpc[d] \in {"repend_move", "recover_move", "stamp", "submit", "settle", "move"}
     \/ p = "inflight" /\ i = Item(d) /\ dpc[d] \in {"aside", "aside_move"}
     \/ p = "inflight" /\ dpc[d] \in {"repend", "recover"}
     \/ p = "failed" /\ r = "cancelled" /\ i \in Digest /\ dpc[d] = "digest"
  /\ r \in Lanes => i = Item(d) /\ r = dpath[d][1]
  /\ r = "processed" => i = Item(d) /\ dpc[d] = "move" /\ dout[d] = "confirmed"
  /\ r = "inflight" /\ p # "inflight" => i = Item(d) /\ DrainBarrier(d)

\* A drain step touches no file, or one document it may touch.
LEMMA DrainMoves ==
  ASSUME QueueInv, NEW d \in Drainers, DrainStep(d)
  PROVE  \/ UNCHANGED file
         \/ \E i \in Items, p, r \in Phases : DrainTouches(d, i, p, r)
<1>1. PICK i \in Items, lane \in Lanes : i = Item(d) /\ dpath[d] = <<lane, i>> /\ dpath[d][1] = lane
  BY DrainTypes
<1>2. lane \in Phases /\ lane \notin {"inflight", "processed", "failed", "cancelled"}
  BY PhaseFacts
<1>3. ASSUME NEW j \in Items, NEW p \in Phases, NEW r \in Phases, NEW old, NEW new,
             Touches(j, p, old, r, new)
      PROVE  \E a, b \in Doc : Touches(j, p, a, r, b) /\ a = old /\ b = new
  BY <1>3 DEF Touches
<1>4. ASSUME NEW j \in Items, \/ RependStranded(d, j) \/ RecoverNeverTyped(d, j)
      PROVE  DrainTouches(d, j, "inflight", "inflight")
  <2>1. PICK old, new : Touches(j, "inflight", old, "inflight", new)
    BY <1>4, RecoveryTouches
  <2>2. dpc[d] \in {"repend", "recover"}
    BY <1>4, RecoveryPlaces
  <2> QED
    BY <1>3, <2>1, <2>2, PhaseFacts DEF DrainTouches
<1>5. ASSUME NEW j \in Items, RecoverQuarantine(d, j)
      PROVE  DrainTouches(d, j, "inflight", "failed")
  <2>1. PICK old, new : Touches(j, "inflight", old, "failed", new)
    BY <1>5, RecoveryTouches
  <2>2. dpc[d] = "recover"
    BY <1>5, RecoveryPlaces
  <2> QED
    BY <1>3, <2>1, <2>2, PhaseFacts DEF DrainTouches
<1>6. ASSUME NEW j \in Items, DigestAside(d, j)
      PROVE  DrainTouches(d, j, "failed", "cancelled")
  <2>1. PICK old : Touches(j, "failed", old, "cancelled", old)
    BY <1>6, RecoveryTouches
  <2>2. dpc[d] = "digest" /\ j \in Digest
    BY <1>6, RecoveryPlaces
  <2> QED
    BY <1>3, <2>1, <2>2, PhaseFacts DEF DrainTouches
<1>7. CASE \/ RependMove(d) \/ RecoverMove(d)
           \/ MoveBackAndGoOn(d) \/ MoveBackAndRetry(d) \/ MoveBackAndStop(d)
  <2>1. PICK old : Touches(i, "inflight", old, lane, old)
    BY <1>1, <1>7, RecoveryTouches, InflightTouches, SubmitPlaces
  <2>2. dpc[d] \in {"repend_move", "recover_move", "move"}
    BY <1>1, <1>7, RecoveryPlaces, SubmitPlaces
  <2>3. DrainTouches(d, i, "inflight", lane)
    BY <1>1, <1>2, <1>3, <2>1, <2>2, PhaseFacts DEF DrainTouches
  <2> QED
    BY <1>2, <2>3, PhaseFacts
<1>8. CASE DrainInvalid(d) \/ DrainBlocked(d) \/ DrainBarrier(d)
  <2>1. PICK r \in {"failed", lane, "inflight"} :
          /\ \E new : Touches(i, lane, file[<<lane, i>>], r, new)
          /\ r = "inflight" => DrainBarrier(d)
    <3>1. CASE DrainBlocked(d)
      BY <1>1, <1>2, <3>1, LoadTouches
    <3>2. CASE DrainInvalid(d) \/ DrainBarrier(d)
      BY <1>1, <1>2, <3>2, LoadTouches
    <3> QED
      BY <1>8, <3>1, <3>2
  <2>2. dpc[d] \in {"load", "barrier"}
    BY <1>8, LoadPlaces
  <2>3. DrainTouches(d, i, lane, r)
    BY <1>1, <1>2, <1>3, <2>1, <2>2, PhaseFacts DEF DrainTouches
  <2> QED
    BY <1>2, <2>3, PhaseFacts
<1>9. CASE DrainStamp(d) \/ Settle(d) \/ MoveFailed(d) \/ (SubmitType(d) /\ ~UNCHANGED file)
  <2>1. PICK r \in {"failed", "inflight"} :
          \E new : Touches(i, "inflight", file[<<"inflight", i>>], r, new)
    BY <1>1, <1>9, InflightTouches
  <2>2. dpc[d] \in {"stamp", "submit", "settle", "move"}
    BY <1>9, LoadPlaces, SubmitPlaces
  <2>3. DrainTouches(d, i, "inflight", r)
    BY <1>1, <1>3, <2>1, <2>2, PhaseFacts DEF DrainTouches
  <2> QED
    BY <2>3, PhaseFacts
<1>10. CASE MoveProcessed(d)
  <2>1. PICK new : Touches(i, "inflight", file[<<"inflight", i>>], "processed", new)
    BY <1>1, <1>10, InflightTouches
  <2>2. dpc[d] = "move" /\ dout[d] = "confirmed"
    BY <1>10, SubmitPlaces
  <2>3. DrainTouches(d, i, "inflight", "processed")
    BY <1>1, <1>3, <2>1, <2>2, PhaseFacts DEF DrainTouches
  <2> QED
    BY <2>3, PhaseFacts
<1>11. CASE AsideWrite(d) \/ AsideMove(d)
  <2>1. dpc[d] \in InHandAside
    BY <1>11, LoadPlaces DEF InHandAside
  <2>2. PICK p \in {lane, "inflight"} : p = dat[d][1]
    BY <1>1, <2>1, HandThere
  <2>3. PICK r \in {p, "cancelled"} : \E new : Touches(i, p, file[<<p, i>>], r, new)
    BY <1>1, <1>11, <2>2, AsideTouches
  <2>4. DrainTouches(d, i, p, r)
    BY <1>1, <1>2, <1>3, <2>1, <2>2, <2>3, PhaseFacts DEF DrainTouches, InHandAside
  <2> QED
    BY <1>2, <2>2, <2>3, <2>4, PhaseFacts
<1>12. CASE SubmitPaste(d) \/ Concludes(d, "await", "taken_back")
  BY <1>12, SubmitPlaces
<1> QED
  BY <1>4, <1>5, <1>6, <1>7, <1>8, <1>9, <1>10, <1>11, <1>12, DrainCases, QuietKeeps, PhaseFacts

-----------------------------------------------------------------------------
(***************************************************************************)
(* Confirmation: ConfirmInv, where no two prompts look alike.              *)
(***************************************************************************)

\* What the agent took stays taken, and a draft stays until it is taken.
LEMMA PaneKeepsTaken ==
  ASSUME PaneTypeOK, NEW i \in Items, UNCHANGED paneVars \/ PaneNext \/ \E j \in Items : PaneTakes(j)
  PROVE  /\ accepted[i] > 0 => accepted'[i] > 0
         /\ draft = i => draft' = i \/ accepted'[i] > 0
<1>1. accepted \in [Items -> Nat] /\ NoDraft # i /\ Foreign # i
  BY PaneAssumption DEF PaneTypeOK, PaneAssumption
<1>2. CASE UNCHANGED paneVars \/ PersonTypes \/ PersonClears
  BY <1>1, <1>2 DEF paneVars, PersonTypes, PersonClears
<1>3. ASSUME NEW j \in Items, PaneDraws(j) \/ PaneDrops(j) \/ PaneTakes(j) \/ PaneTakesUndrawn(j)
      PROVE  /\ accepted[i] > 0 => accepted'[i] > 0
             /\ draft = i => draft' = i \/ accepted'[i] > 0
  BY <1>1, <1>3 DEF PaneDraws, PaneDrops, PaneTakes, PaneTakesUndrawn
<1> QED
  BY <1>2, <1>3 DEF PaneNext

\* No step of a drain takes an acceptance back.
LEMMA DrainKeepsTaken ==
  ASSUME QueueInv, NEW d \in Drainers, DrainStep(d), NEW i \in Items, accepted[i] > 0
  PROVE  accepted'[i] > 0
<1>1. PaneTypeOK /\ accepted \in [Items -> Nat] /\ Item(d) \in Items
  BY DrainTypes DEF QueueInv, TypeOK, PaneTypeOK
<1>2. CASE UNCHANGED paneVars \/ \E j \in Items : PaneTakes(j)
  BY <1>1, <1>2, PaneKeepsTaken
<1>3. CASE PanePaste(Item(d)) \/ PanePrompt(Item(d)) \/ PaneTakeBack(Item(d))
  BY <1>1, <1>3 DEF PanePaste, PanePrompt, PaneTakeBack
<1> QED
  BY <1>2, <1>3, DrainPane DEF DrainsPane

\* A drain files as delivered only what it saw taken.
LEMMA DrainTaken ==
  ASSUME QueueInv, ConfirmInv, Placeholders = {}, NEW d \in Drainers, DrainStep(d)
  PROVE  (\A i \in Items : Exists(<<"processed", i>>)' => accepted'[i] > 0) /\ HandTaken(d)'
<1>1. ASSUME NEW i \in Items, Exists(<<"processed", i>>)' PROVE accepted'[i] > 0
  <2>1. CASE Exists(<<"processed", i>>)
    BY <2>1, DrainKeepsTaken DEF ConfirmInv
  <2>2. CASE ~Exists(<<"processed", i>>)
    <3>1. PICK j \in Items, p \in Phases, r \in Phases : DrainTouches(d, j, p, r)
      BY <1>1, <2>2, DrainMoves DEF Exists
    <3>2. PICK old \in Doc, new \in Doc : Touches(j, p, old, r, new)
      BY <3>1 DEF DrainTouches
    <3>3. j = i /\ r = "processed"
      BY <1>1, <2>2, <3>2, PhaseFacts DEF Touches, Exists
    <3>4. i = Item(d) /\ dpc[d] = "move" /\ dout[d] = "confirmed"
      BY <3>1, <3>3 DEF DrainTouches
    <3>5. accepted[i] > 0
      BY <3>4 DEF ConfirmInv, HandTaken
    <3> QED
      BY <3>5, DrainKeepsTaken
  <2> QED
    BY <2>1, <2>2
<1> SUFFICES HandTaken(d)'
  BY <1>1
<1>2. PICK i \in Items : i = Item(d)
  BY DrainTypes
<1>3. HandTaken(d) /\ (accepted[i] > 0 => accepted'[i] > 0)
  BY DrainKeepsTaken DEF ConfirmInv
<1>4. ASSUME dpc'[d] \notin {"flushed", "settle", "move"} PROVE HandTaken(d)'
  BY <1>4 DEF HandTaken
<1>5. CASE SubmitFlush(d)
  <2>1. dpc'[d] = "flushed" /\ Item(d)' = i
    BY <1>2, <1>5, QuietPlaces DEF Item
  <2>2. draft' = i
    BY <1>2, <1>5 DEF SubmitFlush, paneVars
  <2> QED
    BY <2>1, <2>2 DEF HandTaken
<1>6. CASE \/ SubmitRefuse(d) \/ FlushEnds(d) \/ SubmitLook(d) \/ SubmitMisses(d) \/ SubmitEnds(d)
  <2>1. dpc'[d] = "settle" /\ Item(d)' = i
    BY <1>2, <1>6, ConcludePlaces DEF Item
  <2>2. dout'[d] = "confirmed" => accepted[i] > 0
    <3>1. CASE dpc[d] = "flushed"
      <4>1. dout'[d] = "confirmed" => draft = NoDraft
        BY <1>6, <3>1, ConcludePlaces
      <4>2. NoDraft # i
        BY PaneAssumption DEF PaneAssumption
      <4> QED
        BY <1>2, <1>3, <3>1, <4>1, <4>2 DEF HandTaken
    <3>2. CASE dpc[d] # "flushed"
      BY <1>2, <1>6, <3>2, ConcludePlaces DEF Marking
    <3> QED
      BY <3>1, <3>2
  <2> QED
    BY <1>3, <2>1, <2>2 DEF HandTaken
<1>7. CASE Settle(d)
  <2>1. dpc[d] = "settle" /\ dpc'[d] = "move" /\ Item(d)' = i /\ dout'[d] = dout[d]
    BY <1>2, <1>7, SubmitPlaces DEF Item
  <2> QED
    BY <1>2, <1>3, <2>1 DEF HandTaken
<1>8. ASSUME NEW j \in Items, SubmitRecoverDraft(d, j) PROVE HandTaken(d)'
  <2>1. dpc'[d] = "submit"
    BY <1>8, QuietPlaces DEF drainVars
  <2> QED
    BY <1>4, <2>1
<1>9. CASE \/ RecoverDone(d) \/ DigestSidecar(d) \/ DrainSnapshot(d) \/ DrainPick(d) \/ DrainFinish(d)
           \/ DrainStops(d) \/ DrainReady(d) \/ AsideForget(d) \/ DrainSidecar(d)
           \/ RependDone(d) \/ RecoverSidecar(d) \/ DrainAside(d) \/ DrainRecheck(d)
  <2>1. dpc'[d] \in {"digest", "next", "load", "idle", "barrier", "recover", "aside", "stamp"}
    BY <1>9, QuietPlaces
  <2> QED
    BY <1>4, <2>1
<1>10. ASSUME NEW j \in Items, \/ RependStranded(d, j) \/ RecoverNeverTyped(d, j)
                               \/ RecoverQuarantine(d, j) \/ DigestAside(d, j)
       PROVE  HandTaken(d)'
  BY <1>4, <1>10, RecoveryPlaces
<1>11. CASE RependMove(d) \/ RecoverMove(d)
  BY <1>2, <1>4, <1>11, RecoveryPlaces
<1>12. CASE \/ DrainInvalid(d) \/ DrainBlocked(d) \/ DrainBarrier(d) \/ DrainStamp(d)
            \/ AsideWrite(d) \/ AsideMove(d)
  BY <1>4, <1>12, LoadPlaces
<1>13. CASE \/ SubmitType(d) \/ SubmitPaste(d) \/ MoveProcessed(d) \/ MoveFailed(d)
            \/ MoveBackAndGoOn(d) \/ MoveBackAndRetry(d) \/ MoveBackAndStop(d)
  BY <1>4, <1>13, SubmitPlaces
<1> QED
  BY <1>5, <1>6, <1>7, <1>8, <1>9, <1>10, <1>11, <1>12, <1>13, DrainCases DEF Quiet

\* ConfirmInv is inductive.
LEMMA NextConfirm ==
  ASSUME QueueInv, ConfirmInv, Placeholders = {}, [Next]_vars
  PROVE  ConfirmInv'
<1>0. PaneTypeOK
  BY DEF QueueInv, TypeOK
<1>1. ASSUME NEW d \in Drainers, DrainStep(d) PROVE ConfirmInv'
  <2>1. (\A i \in Items : Exists(<<"processed", i>>)' => accepted'[i] > 0) /\ HandTaken(d)'
    BY <1>1, DrainTaken
  <2>2. ASSUME NEW e \in Drainers \ {d} PROVE HandTaken(e)'
    BY <1>1, DrainAlone DEF DrainerSame, HandTaken
  <2> QED
    BY <2>1, <2>2 DEF ConfirmInv
<1>2. CASE Elsewhere
  <2>1. ASSUME NEW i \in Items
        PROVE  /\ accepted[i] > 0 => accepted'[i] > 0
               /\ draft = i => draft' = i \/ accepted'[i] > 0
    BY <1>0, <1>2, PaneKeepsTaken DEF Elsewhere
  <2>2. \A i \in Items : Exists(<<"processed", i>>)' => accepted'[i] > 0
    BY <1>2, <2>1 DEF Elsewhere, Exists, ConfirmInv
  <2>3. ASSUME NEW e \in Drainers PROVE HandTaken(e)'
    <3>1. HandTaken(e) /\ Item(e) \in Items
      BY DrainTypes DEF ConfirmInv
    <3>2. CASE DrainerSame(e)
      BY <2>1, <3>1, <3>2 DEF DrainerSame, HandTaken, Item
    <3>3. CASE dpc'[e] \in {"idle", "repend"}
      BY <3>3 DEF HandTaken
    <3> QED
      BY <1>2, <3>2, <3>3, ElsewhereDrainers
  <2> QED
    BY <2>2, <2>3 DEF ConfirmInv
<1>3. ASSUME NEW c \in Clients, ClientStep(c), UNCHANGED drainVars PROVE ConfirmInv'
  <2>1. ASSUME NEW i \in Items, Exists(<<"processed", i>>)' PROVE accepted'[i] > 0
    <3>1. CASE UNCHANGED <<file, paneVars>>
      BY <2>1, <3>1 DEF ConfirmInv, Exists, paneVars
    <3>2. ASSUME UNCHANGED paneVars, NEW j \in Items, SetsAside(j) \/ Vanishes(j) PROVE accepted'[i] > 0
      <4>1. Exists(<<"processed", i>>)
        BY <2>1, <3>2, PhaseFacts DEF SetsAside, Vanishes, OthersStay, Touches, Exists
      <4> QED
        BY <3>2, <4>1 DEF ConfirmInv, paneVars
    <3>3. CASE EnqueueCreate(c) /\ Appears(citem[c])
      <4>1. i # citem[c]
        BY <2>1, <3>3, ClientTypes, PhaseFacts DEF Appears, Exists
      <4>2. Exists(<<"processed", i>>) /\ accepted'[i] = accepted[i]
        BY <2>1, <3>3, <4>1, PhaseFacts DEF Appears, OthersStay, Exists, PaneForgets, QueueInv,
           TypeOK, PaneTypeOK
      <4> QED
        BY <4>2 DEF ConfirmInv
    <3> QED
      BY <1>3, <3>1, <3>2, <3>3, ClientEffect
  <2>2. ASSUME NEW e \in Drainers PROVE HandTaken(e)'
    <3>1. HandTaken(e) /\ Item(e) \in Items /\ Item(e)' = Item(e) /\ dpc' = dpc /\ dout' = dout
      BY <1>3, DrainTypes DEF ConfirmInv, drainVars, Item
    <3>2. CASE dpc[e] \in {"flushed", "settle", "move"}
      <4>1. Exists(<<"inflight", Item(e)>>)
        BY <3>2, HandThere DEF InHandInflight
      <4>2. accepted'[Item(e)] = accepted[Item(e)] /\ (draft = Item(e) => draft' = Item(e))
        BY <1>3, <3>1, <3>2, <4>1, ClientSpares, PhaseFacts
      <4> QED
        BY <3>1, <4>2 DEF HandTaken
    <3>3. CASE dpc[e] \notin {"flushed", "settle", "move"}
      BY <3>1, <3>3 DEF HandTaken
    <3> QED
      BY <3>2, <3>3
  <2> QED
    BY <2>1, <2>2 DEF ConfirmInv
<1> QED
  BY <1>1, <1>2, <1>3, NextCases

\* ProcessedWasAccepted: an item in processed/ was taken by the agent, provided no prompt is drawn as
\* a collapsed placeholder (a placeholder does not tell whose text it stands for).
THEOREM ProcessedHolds ==
  ASSUME Placeholders = {} PROVE Spec => []ProcessedWasAccepted
<1>1. Init => ConfirmInv
  BY InitHand, PhaseFacts DEF ConfirmInv, HandTaken
<1>2. QueueInv /\ ConfirmInv /\ [Next]_vars => ConfirmInv'
  BY NextConfirm
<1>3. ConfirmInv => ProcessedWasAccepted
  BY DEF ConfirmInv, ProcessedWasAccepted
<1> QED
  BY <1>1, <1>2, <1>3, QueueInvariant, PTL DEF Spec

-----------------------------------------------------------------------------
(***************************************************************************)
(* Settled items, and what is behind the barrier.                          *)
(***************************************************************************)

\* A waiting or inflight item is not settled.
LEMMA OpenNotFinal ==
  ASSUME QueueInv, NEW i \in Items, NEW p \in Lanes \cup {"inflight"}, Exists(<<p, i>>)
  PROVE  Final(i) = {}
  BY OnlyThere, PhaseFacts DEF Final, Exists

\* What SettledIsFinal asks of a step.
SettledStays(i) ==
  \A p \in Final(i) :
    /\ typed'[i] <= typed[i]
    /\ \/ file'[<<p, i>>] = file[<<p, i>>]
       \/ p = "failed" /\ i \in Digest /\ file'[<<"cancelled", i>>] = file[<<p, i>>]

\* A drain leaves settled items alone, except a recovered digest, which it sets aside.
LEMMA SettledDrain ==
  ASSUME QueueInv, NEW d \in Drainers, DrainStep(d), NEW i \in Items PROVE SettledStays(i)
<1> SUFFICES ASSUME NEW p \in Final(i)
             PROVE  /\ typed'[i] <= typed[i]
                    /\ \/ file'[<<p, i>>] = file[<<p, i>>]
                       \/ p = "failed" /\ i \in Digest /\ file'[<<"cancelled", i>>] = file[<<p, i>>]
  BY DEF SettledStays
<1>0. typed \in [Items -> Int] /\ Item(d) \in Items
  BY DrainTypes DEF QueueInv, TypeOK, PaneTypeOK
<1>1. p \in Phases /\ p \notin Lanes \cup {"inflight"} /\ Exists(<<p, i>>)
  BY PhaseFacts DEF Final
<1>2. typed'[i] <= typed[i]
  <2>1. CASE UNCHANGED paneVars \/ \E j \in Items : PaneTakes(j)
    BY <1>0, <2>1 DEF paneVars, PaneTakes
  <2>2. CASE SubmitPaste(d)
    <3>1. Exists(<<"inflight", Item(d)>>)
      BY <2>2, SubmitPlaces, HandThere DEF InHandInflight
    <3>2. i # Item(d)
      BY <1>0, <3>1, OpenNotFinal
    <3> QED
      BY <1>0, <2>2, <3>2 DEF SubmitPaste, PanePaste, PanePrompt
  <2>3. CASE PaneTakeBack(Item(d))
    BY <1>0, <2>3 DEF PaneTakeBack
  <2> QED
    BY <2>1, <2>2, <2>3, DrainPane DEF DrainsPane
<1>3. CASE UNCHANGED file
  BY <1>2, <1>3
<1>4. ASSUME NEW j \in Items, NEW q \in Phases, NEW r \in Phases, DrainTouches(d, j, q, r)
      PROVE  \/ file'[<<p, i>>] = file[<<p, i>>]
             \/ p = "failed" /\ i \in Digest /\ file'[<<"cancelled", i>>] = file[<<p, i>>]
  <2>1. PICK old \in Doc, new \in Doc : Touches(j, q, old, r, new) /\ (q = "failed" => new = old)
    BY <1>4 DEF DrainTouches
  <2>2. CASE j # i
    BY <1>1, <2>1, <2>2 DEF Touches
  <2>3. CASE j = i
    <3>1. p = q
      BY <1>1, <2>1, <2>3 DEF Touches, Exists
    <3>2. q = "failed" /\ r = "cancelled" /\ i \in Digest
      BY <1>1, <1>4, <2>3, <3>1 DEF DrainTouches
    <3> QED
      BY <2>1, <2>3, <3>1, <3>2 DEF Touches
  <2> QED
    BY <2>2, <2>3
<1> QED
  BY <1>2, <1>3, <1>4, DrainMoves

\* So does every other step.
LEMMA SettledNext ==
  ASSUME QueueInv, [Next]_vars, NEW i \in Items PROVE SettledStays(i)
<1>0. typed \in [Items -> Int]
  BY DEF QueueInv, TypeOK, PaneTypeOK
<1>1. ASSUME UNCHANGED <<file, typed>> PROVE SettledStays(i)
  BY <1>0, <1>1 DEF SettledStays
<1>2. ASSUME NEW c \in Clients, ClientStep(c) PROVE SettledStays(i)
  <2>1. CASE UNCHANGED <<file, paneVars>>
    BY <1>1, <2>1 DEF paneVars
  <2>2. ASSUME UNCHANGED paneVars, NEW j \in Items, SetsAside(j) \/ Vanishes(j) PROVE SettledStays(i)
    <3>1. PICK lane \in Lanes : Exists(<<lane, j>>)
      BY <2>2, PhaseFacts, SystemAssumption DEF SetsAside, Vanishes, Touches, Exists,
         SystemAssumption
    <3>2. CASE i = j
      BY <3>1, <3>2, OpenNotFinal DEF SettledStays
    <3>3. CASE i # j
      <4>1. \A q \in Phases : file'[<<q, i>>] = file[<<q, i>>]
        BY <2>2, <3>3 DEF SetsAside, Vanishes, OthersStay, Touches
      <4> QED
        BY <1>0, <2>2, <4>1, PhaseFacts DEF SettledStays, Final, paneVars
    <3> QED
      BY <3>2, <3>3
  <2>3. CASE EnqueueCreate(c) /\ Appears(citem[c])
    <3>1. CASE i = citem[c]
      BY <2>3, <3>1, PhaseFacts DEF Appears, Present, Final, SettledStays
    <3>2. CASE i # citem[c]
      BY <1>0, <2>3, <3>2, PhaseFacts, ClientTypes DEF Appears, OthersStay, PaneForgets, Final,
         SettledStays
    <3> QED
      BY <3>1, <3>2
  <2> QED
    BY <1>2, <2>1, <2>2, <2>3, ClientEffect
<1> QED
  BY <1>1, <1>2, SettledDrain, NextCases DEF Elsewhere

\* SettledIsFinal: no step types, changes or moves a settled item, a recovered digest excepted.
THEOREM SettledHolds == Spec => SettledIsFinal
<1>1. QueueInv /\ [Next]_vars =>
        [\A i \in Items : \A p \in Final(i) :
           /\ typed'[i] <= typed[i]
           /\ \/ file'[<<p, i>>] = file[<<p, i>>]
              \/ p = "failed" /\ i \in Digest /\ file'[<<"cancelled", i>>] = file[<<p, i>>]]_vars
  BY SettledNext DEF SettledStays
<1> QED
  BY <1>1, QueueInvariant, PTL DEF Spec, SettledIsFinal

\* While an item is being set aside a drain does nothing else.
LEMMA AsideSteps ==
  ASSUME QueueInv, NEW d \in Drainers, DrainStep(d), dpc[d] \in InHandAside
  PROVE  AsideWrite(d) \/ AsideMove(d)
<1>1. dpc[d] \in {"aside", "aside_move"}
  BY DEF InHandAside
<1>2. /\ ~DrainInvalid(d) /\ ~DrainBlocked(d) /\ ~DrainBarrier(d) /\ ~DrainStamp(d)
  BY <1>1, LoadPlaces
<1>3. /\ ~RependMove(d) /\ ~RecoverMove(d)
      /\ \A j \in Items : /\ ~RependStranded(d, j) /\ ~RecoverNeverTyped(d, j)
                          /\ ~RecoverQuarantine(d, j) /\ ~DigestAside(d, j)
  BY <1>1, RecoveryPlaces, DrainTypes
<1>4. /\ ~RecoverDone(d) /\ ~DigestSidecar(d) /\ ~DrainSnapshot(d) /\ ~DrainPick(d)
      /\ ~DrainFinish(d) /\ ~DrainStops(d) /\ ~DrainReady(d) /\ ~AsideForget(d) /\ ~DrainSidecar(d)
      /\ ~RependDone(d) /\ ~RecoverSidecar(d) /\ ~DrainAside(d) /\ ~DrainRecheck(d)
      /\ ~SubmitFlush(d) /\ \A j \in Items : ~SubmitRecoverDraft(d, j)
  BY <1>1, QuietPlaces
<1>5. ~SubmitRefuse(d) /\ ~FlushEnds(d) /\ ~SubmitLook(d) /\ ~SubmitMisses(d) /\ ~SubmitEnds(d)
  BY <1>1, ConcludePlaces
<1>6. /\ ~SubmitType(d) /\ ~SubmitPaste(d) /\ ~Settle(d) /\ ~MoveProcessed(d) /\ ~MoveFailed(d)
      /\ ~MoveBackAndGoOn(d) /\ ~MoveBackAndRetry(d) /\ ~MoveBackAndStop(d)
  BY <1>1, SubmitPlaces
<1> QED
  BY <1>2, <1>3, <1>4, <1>5, <1>6 DEF DrainStep

\* AttendedInv is inductive: a drain that is not killed takes out of inflight/ what it put there.
LEMMA DrainAttends ==
  ASSUME QueueInv, AttendedInv, NEW d \in Drainers, DrainStep(d), crashes = 0,
         NEW i \in Items, Exists(Inflight(i))'
  PROVE  Attends(d, i)'
<1>1. ASSUME NEW j \in Items, Exists(<<"inflight", j>>) PROVE Attends(d, j)
  <2>1. PICK e \in Drainers : Attends(e, j)
    BY <1>1 DEF AttendedInv, Inflight
  <2>2. dpc[e] # "idle"
    BY <2>1 DEF Attends, InHandAside
  <2> QED
    BY <2>1, <2>2, DrainAlone
<1>2. CASE DrainBarrier(d)
  <2>1. dpc[d] = "barrier" /\ dpc'[d] = "recheck" /\ Item(d)' = Item(d) /\ Item(d) \in Items
    BY <1>2, LoadPlaces, DrainTypes DEF Item
  <2>2. ~Exists(<<"inflight", i>>)
    BY <1>1, <2>1 DEF Attends, InHandAside
  <2>3. Item(d) = i
    <3>1. PICK lane \in Lanes : lane = dpath[d][1]
      BY DrainTypes
    <3>2. PICK old : Touches(Item(d), lane, old, "inflight", old)
      BY <1>2, <3>1, LoadTouches
    <3> QED
      BY <2>2, <3>2, PhaseFacts DEF Touches, Exists, Inflight
  <2> QED
    BY <2>1, <2>3 DEF Attends
<1>3. CASE ~DrainBarrier(d)
  <2>1. Exists(<<"inflight", i>>)
    <3> SUFFICES ASSUME ~Exists(<<"inflight", i>>) PROVE FALSE
      OBVIOUS
    <3>1. PICK j \in Items, p \in Phases, r \in Phases : DrainTouches(d, j, p, r)
      BY DrainMoves DEF Exists, Inflight
    <3>2. PICK old \in Doc, new \in Doc : Touches(j, p, old, r, new)
      BY <3>1 DEF DrainTouches
    <3>3. j = i /\ r = "inflight" /\ p # "inflight"
      BY <3>2, PhaseFacts, SystemAssumption DEF Touches, Exists, Inflight, SystemAssumption
    <3> QED
      BY <1>3, <3>1, <3>3 DEF DrainTouches
  <2>2. Attends(d, i)
    BY <1>1, <2>1
  <2>3. Item(d) = i
    BY <2>2 DEF Attends
  <2>4. file'[<<"inflight", i>>] # NoFile
    BY DEF Exists, Inflight
  <2>5. \A r \in Phases : \A old, new : Touches(i, "inflight", old, r, new) => r = "inflight"
    BY <2>4, PhaseFacts DEF Touches
  <2>6. CASE dpc[d] \in InHandAside /\ dat[d] = <<"inflight", i>>
    <3>1. CASE AsideWrite(d)
      BY <2>3, <2>6, <3>1, LoadPlaces DEF Attends, Item, InHandAside, Inflight
    <3>2. CASE AsideMove(d)
      BY <2>3, <2>5, <2>6, <3>2, AsideTouches, PhaseFacts
    <3> QED
      BY <2>6, <3>1, <3>2, AsideSteps
  <2>7. CASE dpc[d] \in {"recheck", "stamp", "submit", "paste", "flushed", "await", "settle", "move"}
    <3>1. CASE \/ DrainRecheck(d) \/ DrainStamp(d) \/ SubmitFlush(d) \/ SubmitType(d) \/ SubmitPaste(d)
               \/ Settle(d)
      <4>1. dpc'[d] \in {"stamp", "submit", "flushed", "paste", "await", "move"} /\ dpath'[d] = dpath[d]
        BY <3>1, QuietPlaces, LoadPlaces, SubmitPlaces
      <4> QED
        BY <2>3, <4>1 DEF Attends, Item
    <3>2. CASE \/ SubmitRefuse(d) \/ FlushEnds(d) \/ SubmitLook(d) \/ SubmitMisses(d) \/ SubmitEnds(d)
      BY <2>3, <3>2, ConcludePlaces DEF Attends, Item
    <3>3. CASE DrainAside(d)
      <4>1. dpc[d] = "recheck" /\ dat'[d] = Inflight(i) /\ dpath'[d] = dpath[d] /\ dpc'[d] = "aside"
        BY <2>3, <2>7, <3>3, QuietPlaces
      <4> QED
        BY <2>3, <4>1 DEF Attends, Item, InHandAside
    <3>4. ASSUME NEW j \in Items, SubmitRecoverDraft(d, j) PROVE Attends(d, i)'
      BY <2>3, <2>7, <3>4, QuietPlaces DEF Attends, Item, drainVars
    <3>5. CASE MoveProcessed(d) \/ MoveFailed(d)
      BY <2>3, <2>5, <3>5, InflightTouches, PhaseFacts
    <3>6. CASE MoveBackAndGoOn(d) \/ MoveBackAndRetry(d) \/ MoveBackAndStop(d)
      <4>1. MoveBack(d) /\ dpath[d][1] \in Lanes
        BY <3>6, SubmitPlaces, DrainTypes
      <4> QED
        BY <2>3, <2>5, <4>1, InflightTouches, PhaseFacts
    <3>7. ~AsideWrite(d) /\ ~AsideMove(d) /\ ~DrainInvalid(d) /\ ~DrainBlocked(d)
      BY <2>7, LoadPlaces
    <3>8. /\ ~RependMove(d) /\ ~RecoverMove(d)
          /\ \A j \in Items : /\ ~RependStranded(d, j) /\ ~RecoverNeverTyped(d, j)
                              /\ ~RecoverQuarantine(d, j) /\ ~DigestAside(d, j)
      BY <2>7, RecoveryPlaces
    <3>9. /\ ~RecoverDone(d) /\ ~DigestSidecar(d) /\ ~DrainSnapshot(d) /\ ~DrainPick(d)
          /\ ~DrainFinish(d) /\ ~DrainStops(d) /\ ~DrainReady(d) /\ ~AsideForget(d) /\ ~DrainSidecar(d)
          /\ ~RependDone(d) /\ ~RecoverSidecar(d)
      BY <2>7, QuietPlaces
    <3> QED
      BY <1>3, <3>1, <3>2, <3>3, <3>4, <3>5, <3>6, <3>7, <3>8, <3>9 DEF DrainStep
  <2> QED
    BY <2>2, <2>6, <2>7 DEF Attends, Inflight
<1> QED
  BY <1>2, <1>3

\* AttendedInv is inductive.
LEMMA NextAttended ==
  ASSUME QueueInv, AttendedInv, [Next]_vars PROVE AttendedInv'
<1> SUFFICES ASSUME NEW i \in Items, Exists(Inflight(i))', ~(crashes' > 0)
             PROVE  \E d \in Drainers : Attends(d, i)'
  BY DEF AttendedInv
<1>0. crashes \in Nat
  BY DEF QueueInv, TypeOK
<1>1. ASSUME NEW d \in Drainers, DrainStep(d), UNCHANGED crashes PROVE Attends(d, i)'
  BY <1>0, <1>1, DrainAttends
<1>2. ASSUME NEW c \in Clients, ClientStep(c), UNCHANGED <<drainVars, crashes>>
      PROVE  \E d \in Drainers : Attends(d, i)'
  <2>1. Exists(<<"inflight", i>>)
    <3>1. file'[<<"inflight", i>>] # NoFile
      BY DEF Exists, Inflight
    <3>2. ASSUME NEW j \in Items, SetsAside(j) \/ Vanishes(j)
          PROVE  file[<<"inflight", i>>] = file'[<<"inflight", i>>]
      BY <3>1, <3>2, PhaseFacts DEF SetsAside, Vanishes, OthersStay, Touches
    <3>3. CASE Appears(citem[c])
      BY <3>1, <3>3, ClientTypes, PhaseFacts DEF Appears, OthersStay, Exists
    <3> QED
      BY <1>2, <3>1, <3>2, <3>3, ClientEffect DEF Exists
  <2>2. PICK d \in Drainers : Attends(d, i)
    BY <1>2, <2>1 DEF AttendedInv, Inflight
  <2> QED
    BY <1>2, <2>2 DEF Attends, drainVars, Item
<1>3. CASE Elsewhere
  <2>1. crashes' # crashes + 1
    BY <1>0
  <2>2. PICK d \in Drainers : Attends(d, i)
    BY <1>3, <2>1, ElsewhereNoCrash DEF AttendedInv, Elsewhere, Exists
  <2>3. DrainerSame(d)
    BY <1>3, <2>1, <2>2, ElsewhereNoCrash DEF Attends, InHandAside
  <2> QED
    BY <2>2, <2>3 DEF DrainerSame, Attends, Item
<1> QED
  BY <1>1, <1>2, <1>3, NextCases

\* NoStrayInflight: without a crash an item is behind the barrier only while the drain that put
\* it there holds the lock.
THEOREM NoStrayHolds == Spec => []NoStrayInflight
<1>1. Init => AttendedInv
  BY InitHand, PhaseFacts DEF AttendedInv, Inflight
<1>2. QueueInv /\ AttendedInv /\ [Next]_vars => AttendedInv'
  BY NextAttended
<1>3. QueueInv /\ AttendedInv => NoStrayInflight
  BY DEF QueueInv, LockInv, AttendedInv, NoStrayInflight, Attends, InHandAside
<1> QED
  BY <1>1, <1>2, <1>3, QueueInvariant, PTL DEF Spec

-----------------------------------------------------------------------------
(***************************************************************************)
(* Order: OrderInv.                                                        *)
(***************************************************************************)

\* A drain fills its batch once, takes one path at a time from it, and ends.
LEMMA DrainBatch ==
  ASSUME QueueInv, NEW d \in Drainers, DrainStep(d)
  PROVE  \/ DrainSnapshot(d) \/ DrainPick(d) \/ DrainEnds(d)
         \/ todo'[d] = todo[d] /\ snapshot'[d] = snapshot[d]
<1>1. CASE \/ \E i \in Items : \/ RependStranded(d, i) \/ RecoverNeverTyped(d, i)
                               \/ RecoverQuarantine(d, i)
                               \/ DigestAside(d, i) \/ SubmitRecoverDraft(d, i)
           \/ RependMove(d) \/ RependDone(d) \/ RecoverMove(d) \/ RecoverSidecar(d)
           \/ RecoverDone(d) \/ DigestSidecar(d)
  BY <1>1 DEF RependStranded, RecoverNeverTyped, RecoverQuarantine, DigestAside, SubmitRecoverDraft,
     RependMove, RependDone, RecoverMove, RecoverSidecar, RecoverDone, DigestSidecar, drainVars
<1>2. CASE \/ DrainFinish(d) \/ DrainStops(d) \/ DrainInvalid(d)
           \/ DrainAside(d) \/ DrainBlocked(d) \/ DrainReady(d) \/ DrainBarrier(d)
           \/ DrainRecheck(d) \/ DrainStamp(d)
  BY <1>2 DEF DrainFinish, DrainStops, DrainInvalid, DrainAside, DrainBlocked, DrainReady,
     DrainBarrier, DrainRecheck, DrainStamp
<1>3. CASE \/ AsideWrite(d) \/ AsideMove(d) \/ AsideForget(d)
           \/ SubmitRefuse(d) \/ SubmitFlush(d) \/ FlushEnds(d) \/ SubmitLook(d)
           \/ SubmitType(d) \/ SubmitPaste(d) \/ SubmitMisses(d) \/ SubmitEnds(d)
  BY <1>3 DEF AsideWrite, AsideMove, AsideForget, SubmitRefuse, SubmitFlush, FlushEnds, SubmitLook,
     SubmitType, SubmitPaste, SubmitMisses, SubmitEnds, Concludes
<1>4. CASE \/ Settle(d) \/ MoveProcessed(d) \/ MoveFailed(d) \/ MoveBackAndGoOn(d)
           \/ MoveBackAndRetry(d) \/ MoveBackAndStop(d) \/ DrainSidecar(d)
  BY <1>4 DEF Settle, MoveProcessed, MoveFailed, MoveBackAndGoOn, MoveBackAndRetry, MoveBackAndStop,
     DrainSidecar
<1> QED
  BY <1>1, <1>2, <1>3, <1>4 DEF DrainStep

\* No step of a drain loses an item.
LEMMA DrainKeepsPresent ==
  ASSUME QueueInv, NEW d \in Drainers, DrainStep(d), NEW j \in Items, Present(j) PROVE Present(j)'
<1>1. CASE UNCHANGED file
  BY <1>1 DEF Present, Exists
<1>2. ASSUME NEW i \in Items, NEW p \in Phases, NEW r \in Phases, DrainTouches(d, i, p, r)
      PROVE  Present(j)'
  <2>1. PICK old \in Doc, new \in Doc : Touches(i, p, old, r, new)
    BY <1>2 DEF DrainTouches
  <2>2. CASE j = i
    <3>1. file'[<<r, j>>] = new /\ new # NoFile
      BY <2>1, <2>2, SystemAssumption DEF Touches, SystemAssumption
    <3> QED
      BY <3>1 DEF Present, Exists
  <2>3. CASE j # i
    BY <2>1, <2>3 DEF Touches, Present, Exists
  <2> QED
    BY <2>2, <2>3
<1> QED
  BY <1>1, <1>2, DrainMoves

\* Past its recovery a drain touches only the item in hand.
LEMMA DrainSparesRest ==
  ASSUME QueueInv, NEW d \in Drainers, DrainStep(d), dpc[d] \notin Recovering,
         NEW q \in Lanes \X Items, q # dpath[d], ~Exists(q) \/ file[q].stranded
  PROVE  (~Exists(q))' \/ file'[q].stranded
<1>1. PICK lane \in Lanes, j \in Items : q = <<lane, j>> /\ lane \in Phases
  BY PhaseFacts
<1>2. CASE UNCHANGED file
  BY <1>2 DEF Exists
<1>3. ASSUME NEW i \in Items, NEW p \in Phases, NEW r \in Phases, DrainTouches(d, i, p, r)
      PROVE  (~Exists(q))' \/ file'[q].stranded
  <2>1. PICK old \in Doc, new \in Doc : Touches(i, p, old, r, new)
    BY <1>3 DEF DrainTouches
  <2>2. CASE j # i
    <3>1. file'[<<lane, j>>] = file[<<lane, j>>]
      BY <1>1, <2>1, <2>2 DEF Touches
    <3> QED
      BY <1>1, <3>1 DEF Exists
  <2>3. CASE j = i
    <3>1. lane # r
      <4>1. r \in Lanes => i = Item(d) /\ r = dpath[d][1]
        BY <1>3 DEF DrainTouches
      <4>2. dpath[d] = <<dpath[d][1], Item(d)>>
        BY DrainTypes
      <4> QED
        BY <1>1, <2>3, <4>1, <4>2
    <3>2. file'[<<lane, j>>] = NoFile
      BY <1>1, <2>1, <2>3, <3>1 DEF Touches
    <3> QED
      BY <1>1, <3>2 DEF Exists
  <2> QED
    BY <2>2, <2>3
<1> QED
  BY <1>2, <1>3, DrainMoves

\* A step with an item of the batch, or between two of them.
LEMMA OrderGoesOn ==
  ASSUME QueueInv, NEW d \in Drainers, HandOrder(d), DrainStep(d), dpc[d] \notin Recovering,
         todo'[d] = todo[d], snapshot'[d] = snapshot[d], dpath'[d] = dpath[d],
         dpc'[d] \notin Recovering \cup {"idle"}, dpc'[d] \in Holding => dpc[d] \in Holding,
         dpc[d] \in Holding /\ dpc'[d] \notin Holding =>
           (~Exists(dpath[d]))' \/ file'[dpath[d]].stranded
  PROVE  HandOrder(d)'
<1>0. snapshot[d] \subseteq Lanes \X Items /\ Item(d)' = Item(d)
  BY DEF QueueInv, TypeOK, DrainTypeOK, Item
<1>1. todo'[d] \subseteq snapshot'[d]
  BY DEF HandOrder
<1>2. ASSUME NEW q \in snapshot'[d] PROVE Present(q[2])'
  <2>1. q[2] \in Items /\ Present(q[2])
    BY <1>0, <1>2 DEF HandOrder
  <2> QED
    BY <2>1, DrainKeepsPresent
<1>3. dpc'[d] \in Holding =>
        /\ dpath'[d] \in snapshot'[d] \ todo'[d]
        /\ \A q \in todo'[d] : ~Earlier(q[2], Item(d)')
  BY <1>0 DEF HandOrder
<1>4. ASSUME NEW q \in snapshot'[d] \ todo'[d]
      PROVE  (dpc'[d] \in Holding /\ q = dpath'[d]) \/ (~Exists(q))' \/ file'[q].stranded
  <2>1. CASE q = dpath[d] /\ dpc[d] \in Holding
    BY <2>1
  <2>2. CASE ~(q = dpath[d] /\ dpc[d] \in Holding)
    <3>1. q \in Lanes \X Items /\ (~Exists(q) \/ file[q].stranded)
      BY <1>0, <1>4, <2>2 DEF HandOrder
    <3>2. CASE q # dpath[d]
      BY <3>1, <3>2, DrainSparesRest
    <3>3. CASE q = dpath[d] /\ dpc[d] \notin Holding
      <4>1. UNCHANGED file
        <5>1. dpc[d] \notin {"load", "barrier", "aside", "aside_move", "stamp", "submit", "settle", "move"}
          BY <3>3 DEF Holding
        <5>2. dpc[d] \notin {"repend_move", "recover_move", "repend", "recover", "digest"}
          BY DEF Recovering
        <5> QED
          BY <5>1, <5>2, DrainMoves DEF DrainTouches
      <4> QED
        BY <3>1, <4>1 DEF Exists
    <3> QED
      BY <3>2, <3>3
  <2> QED
    BY <2>1, <2>2
<1> QED
  BY <1>1, <1>2, <1>3, <1>4 DEF HandOrder, Exists, Earlier, Item

\* A drain whose batch is not there yet, or no longer.
LEMMA OrderEmpty ==
  ASSUME NEW d \in Drainers, snapshot'[d] = {}, todo'[d] = {}, dpc'[d] \notin Holding
  PROVE  HandOrder(d)'
  BY DEF HandOrder

\* What Before puts first is not later.
LEMMA BeforeNotLater ==
  ASSUME NEW p \in Lanes \X Items, NEW q \in Lanes \X Items, Before(p, q)
  PROVE  ~Earlier(q[2], p[2])
<1>1. PICK i \in Items, j \in Items : i = p[2] /\ j = q[2]
  OBVIOUS
<1>2. QueuedAt[i] \in Nat /\ QueuedAt[j] \in Nat /\ i \in Nat /\ j \in Nat
  BY QueueAssumption DEF QueueAssumption
<1>3. CASE i = j
  BY <1>1, <1>2, <1>3 DEF Earlier
<1>4. CASE i # j
  <2>1. \/ i \in Owner /\ j \notin Owner
        \/ (i \in Owner <=> j \in Owner) /\ QueuedAt[i] < QueuedAt[j]
        \/ (i \in Owner <=> j \in Owner) /\ QueuedAt[i] = QueuedAt[j] /\ i < j
    BY <1>1, <1>4 DEF Before
  <2> QED
    BY <1>1, <1>2, <2>1 DEF Earlier
<1> QED
  BY <1>3, <1>4

\* An item that leaves a drain's hands has left the lane it came from, or is there stranded.
LEMMA HandEmptied ==
  ASSUME QueueInv, NEW d \in Drainers, HandDoc(d),
         \/ DrainInvalid(d) \/ AsideMove(d) \/ MoveProcessed(d) \/ MoveFailed(d)
         \/ MoveBackAndGoOn(d)
  PROVE  (~Exists(dpath[d]))' \/ file'[dpath[d]].stranded
<1>1. PICK i \in Items, lane \in Lanes : i = Item(d) /\ dpath[d] = <<lane, i>> /\ dpath[d][1] = lane
  BY DrainTypes
<1>2. lane \in Phases /\ lane \notin {"inflight", "processed", "failed", "cancelled"}
  BY PhaseFacts
<1>3. dpath'[d] = dpath[d]
  BY DEF DrainInvalid, AsideMove, MoveProcessed, MoveFailed, MoveBackAndGoOn
<1>4. ASSUME NEW p, NEW r \in Phases, NEW old, NEW new, r # lane, Touches(i, p, old, r, new)
      PROVE  (~Exists(dpath[d]))'
  <2>1. file'[<<lane, i>>] = NoFile
    BY <1>2, <1>4 DEF Touches
  <2> QED
    BY <1>1, <1>3, <2>1 DEF Exists
<1>5. CASE DrainInvalid(d)
  <2>1. PICK old : Touches(i, lane, old, "failed", old)
    BY <1>1, <1>5, LoadTouches
  <2> QED
    BY <1>2, <1>4, <2>1, PhaseFacts
<1>6. CASE AsideMove(d)
  <2>1. PICK p, old : Touches(i, p, old, "cancelled", old)
    BY <1>1, <1>6, AsideTouches
  <2> QED
    BY <1>2, <1>4, <2>1, PhaseFacts
<1>7. CASE MoveProcessed(d)
  <2>1. PICK old : Touches(i, "inflight", old, "processed", old)
    BY <1>1, <1>7, InflightTouches
  <2> QED
    BY <1>2, <1>4, <2>1, PhaseFacts
<1>8. CASE MoveFailed(d)
  <2>1. PICK old : Touches(i, "inflight", old, "failed", old)
    BY <1>1, <1>8, InflightTouches
  <2> QED
    BY <1>2, <1>4, <2>1, PhaseFacts
<1>9. CASE MoveBackAndGoOn(d)
  <2>1. PICK old : old = file[<<"inflight", i>>] /\ Touches(i, "inflight", old, lane, old)
    BY <1>1, <1>9, InflightTouches, SubmitPlaces
  <2>2. dpc[d] = "move" /\ dout[d] = "lost"
    BY <1>9 DEF MoveBackAndGoOn, MoveBack
  <2>3. old.stranded
    BY <1>1, <2>1, <2>2 DEF HandDoc, Inflight
  <2>4. file'[<<lane, i>>] = old
    BY <1>2, <2>1 DEF Touches
  <2> QED
    BY <1>1, <2>3, <2>4
<1> QED
  BY <1>5, <1>6, <1>7, <1>8, <1>9

\* The course of a drain: it recovers, takes its batch, and goes through it item by item.
LEMMA DrainCourse ==
  ASSUME QueueInv, NEW d \in Drainers, HandDoc(d), DrainStep(d)
  PROVE  \/ DrainSnapshot(d) \/ DrainPick(d) \/ DrainEnds(d)
         \/ dpc[d] \in Recovering /\ dpc'[d] \in Recovering
         \/ /\ dpc[d] \notin Recovering /\ dpath'[d] = dpath[d]
            /\ dpc'[d] \notin Recovering \cup {"idle"}
            /\ dpc'[d] \in Holding => dpc[d] \in Holding
            /\ dpc[d] \in Holding /\ dpc'[d] \notin Holding =>
                 (~Exists(dpath[d]))' \/ file'[dpath[d]].stranded
<1> USE DEF Recovering, Holding
<1>0. DrainTypeOK
  BY DEF QueueInv, TypeOK
<1>1. CASE \/ \E i \in Items : \/ RependStranded(d, i) \/ RecoverNeverTyped(d, i)
                               \/ RecoverQuarantine(d, i) \/ DigestAside(d, i)
           \/ RependMove(d) \/ RependDone(d) \/ RecoverMove(d) \/ RecoverSidecar(d)
           \/ RecoverDone(d) \/ DigestSidecar(d)
  <2>1. dpc[d] \in Recovering /\ dpc'[d] \in Recovering
    BY <1>0, <1>1 DEF DrainTypeOK, Step, RependStranded, RecoverNeverTyped, RecoverQuarantine,
       DigestAside, RependMove, RependDone, RecoverMove, RecoverSidecar, RecoverDone, DigestSidecar
  <2> QED
    BY <2>1
<1>2. CASE DrainFinish(d) \/ DrainStops(d) \/ DrainBlocked(d) \/ MoveBackAndStop(d)
  BY <1>2 DEF DrainFinish, DrainStops, DrainBlocked, MoveBackAndStop
<1>3. CASE \/ DrainAside(d) \/ DrainReady(d) \/ DrainBarrier(d) \/ DrainRecheck(d)
           \/ DrainStamp(d) \/ AsideWrite(d)
  <2>1. dpath'[d] = dpath[d] /\ dpc[d] \in Holding /\ dpc'[d] \in Holding
    BY <1>0, <1>3 DEF DrainTypeOK, Step, DrainAside, DrainReady, DrainBarrier, DrainRecheck,
       DrainStamp,
       AsideWrite
  <2> QED
    BY <2>1
<1>4. CASE \/ SubmitRefuse(d) \/ SubmitFlush(d) \/ FlushEnds(d) \/ SubmitLook(d) \/ SubmitType(d)
           \/ SubmitPaste(d) \/ SubmitMisses(d) \/ SubmitEnds(d) \/ Settle(d) \/ MoveBackAndRetry(d)
           \/ \E i \in Items : SubmitRecoverDraft(d, i)
  <2>1. dpath'[d] = dpath[d] /\ dpc[d] \in Holding /\ dpc'[d] \in Holding
    BY <1>0, <1>4 DEF DrainTypeOK, Step, Concludes, SubmitRefuse, SubmitFlush, FlushEnds,
       SubmitLook,
       SubmitType, SubmitPaste, SubmitMisses, SubmitEnds, Settle, MoveBackAndRetry, MoveBack,
       SubmitRecoverDraft, drainVars
  <2> QED
    BY <2>1
<1>5. CASE \/ DrainInvalid(d) \/ AsideMove(d) \/ MoveProcessed(d) \/ MoveFailed(d)
           \/ MoveBackAndGoOn(d)
  <2>1. (~Exists(dpath[d]))' \/ file'[dpath[d]].stranded
    BY <1>5, HandEmptied
  <2>2. /\ dpath'[d] = dpath[d] /\ dpc[d] \in Holding
        /\ dpc'[d] \in {"next", "sidecar", "aside_forget"}
    BY <1>0, <1>5 DEF DrainTypeOK, Step, DrainInvalid, AsideMove, MoveProcessed, MoveFailed,
       MoveBackAndGoOn, MoveBack
  <2> QED
    BY <2>1, <2>2
<1>6. CASE AsideForget(d) \/ DrainSidecar(d)
  <2>1. /\ dpath'[d] = dpath[d] /\ dpc[d] \in {"aside_forget", "sidecar"} /\ dpc'[d] = "next"
    BY <1>0, <1>6 DEF DrainTypeOK, Step, AsideForget, DrainSidecar
  <2> QED
    BY <2>1
<1> QED
  BY <1>1, <1>2, <1>3, <1>4, <1>5, <1>6 DEF DrainStep

\* The item a drain takes from its batch comes first.
LEMMA PickOrder ==
  ASSUME QueueInv, NEW d \in Drainers, HandOrder(d), DrainPick(d) PROVE HandOrder(d)'
<1>0. DrainTypeOK
  BY DEF QueueInv, TypeOK
<1>1. PICK p \in todo[d] : /\ \A q \in todo[d] \ {p} : Before(p, q)
                           /\ dpath'[d] = p /\ todo'[d] = todo[d] \ {p}
  BY <1>0 DEF DrainPick, DrainTypeOK
<1>2. /\ dpc[d] = "next" /\ dpc'[d] = "load"
      /\ snapshot'[d] = snapshot[d] /\ UNCHANGED file
  BY <1>0 DEF DrainPick, DrainTypeOK, Step, queueVars
<1>3. p \in snapshot[d] /\ snapshot[d] \subseteq Lanes \X Items
  BY <1>0, <1>1 DEF HandOrder, DrainTypeOK
<1>4. ASSUME NEW q \in todo'[d] PROVE ~Earlier(q[2], p[2])
  <2>1. q \in Lanes \X Items /\ p \in Lanes \X Items /\ Before(p, q)
    BY <1>0, <1>1, <1>3, <1>4 DEF DrainTypeOK
  <2> QED
    BY <2>1, BeforeNotLater
<1>5. ASSUME NEW q \in snapshot'[d] \ todo'[d]
      PROVE  q = p \/ ~Exists(q) \/ file[q].stranded
  <2>1. q = p \/ q \in snapshot[d] \ todo[d]
    BY <1>1, <1>2, <1>5
  <2>2. dpc[d] \notin Holding
    BY <1>2 DEF Holding
  <2> QED
    BY <2>1, <2>2 DEF HandOrder
<1>6. /\ todo'[d] \subseteq snapshot'[d]
      /\ \A q \in snapshot'[d] : Present(q[2])
      /\ dpath'[d] \in snapshot'[d] \ todo'[d]
  BY <1>1, <1>2, <1>3 DEF HandOrder
<1>7. dpc'[d] \notin Recovering \cup {"idle"} /\ dpc'[d] \in Holding /\ Item(d)' = p[2]
  BY <1>1, <1>2 DEF Recovering, Holding, Item
<1> QED
  BY <1>1, <1>2, <1>4, <1>5, <1>6, <1>7 DEF HandOrder, Exists, Present, Earlier

\* Every step of a drain keeps its batch in order.
LEMMA DrainOrder ==
  ASSUME QueueInv, NEW d \in Drainers, HandDoc(d), HandOrder(d), DrainStep(d) PROVE HandOrder(d)'
<1>0. DrainTypeOK
  BY DEF QueueInv, TypeOK
<1>1. CASE DrainSnapshot(d)
  <2>1. PICK chosen : /\ chosen \subseteq {p \in Lanes \X Items : Exists(p)}
                      /\ todo'[d] = chosen /\ snapshot'[d] = chosen
    BY <1>0, <1>1 DEF DrainSnapshot, DrainTypeOK
  <2>2. dpc'[d] = "next" /\ UNCHANGED file
    BY <1>0, <1>1 DEF DrainSnapshot, DrainTypeOK, Step, queueVars
  <2>3. ASSUME NEW q \in chosen PROVE Present(q[2])
    <3>1. PICK lane \in Lanes, i \in Items : q = <<lane, i>> /\ Exists(<<lane, i>>)
      BY <2>1, <2>3
    <3> QED
      BY <3>1, PhaseFacts DEF Present
  <2>4. dpc'[d] \notin Holding /\ dpc'[d] \notin Recovering \cup {"idle"}
    BY <2>2 DEF Holding, Recovering
  <2> QED
    BY <2>1, <2>2, <2>3, <2>4 DEF HandOrder, Present, Exists
<1>2. CASE DrainPick(d)
  BY <1>2, PickOrder
<1>3. CASE DrainEnds(d)
  <2>1. snapshot'[d] = {} /\ todo'[d] = {} /\ dpc'[d] \notin Holding
    BY <1>0, <1>3 DEF DrainEnds, DrainTypeOK, Holding
  <2> QED
    BY <2>1, OrderEmpty
<1>4. CASE ~(DrainSnapshot(d) \/ DrainPick(d) \/ DrainEnds(d))
  <2>1. todo'[d] = todo[d] /\ snapshot'[d] = snapshot[d]
    BY <1>4, DrainBatch
  <2>2. CASE dpc[d] \in Recovering /\ dpc'[d] \in Recovering
    <3>1. snapshot'[d] = {} /\ todo'[d] = {} /\ dpc'[d] \notin Holding
      BY <2>1, <2>2 DEF HandOrder, Recovering, Holding
    <3> QED
      BY <3>1, OrderEmpty
  <2>3. CASE ~(dpc[d] \in Recovering /\ dpc'[d] \in Recovering)
    <3>1. /\ dpc[d] \notin Recovering /\ dpath'[d] = dpath[d]
          /\ dpc'[d] \notin Recovering \cup {"idle"}
          /\ dpc'[d] \in Holding => dpc[d] \in Holding
          /\ dpc[d] \in Holding /\ dpc'[d] \notin Holding =>
               (~Exists(dpath[d]))' \/ file'[dpath[d]].stranded
      BY <1>4, <2>3, DrainCourse
    <3> QED
      BY <2>1, <3>1, OrderGoesOn
  <2> QED
    BY <2>2, <2>3
<1> QED
  BY <1>1, <1>2, <1>3, <1>4

\* A drainer that rests, while others write, keeps its batch in order.
LEMMA RestOrder ==
  ASSUME NEW e \in Drainers, HandOrder(e), DrainerSame(e),
         snapshot[e] = {} \/ \A i \in Items : Present(i) =>
                               \A q \in Phases : file'[<<q, i>>] = file[<<q, i>>],
         snapshot[e] \subseteq Lanes \X Items
  PROVE  HandOrder(e)'
<1>1. CASE snapshot[e] = {}
  BY <1>1 DEF HandOrder, DrainerSame
<1>2. CASE snapshot[e] # {}
  <2>1. ASSUME NEW q \in snapshot[e] PROVE file'[q] = file[q] /\ Present(q[2])'
    <3>1. PICK lane \in Lanes, i \in Items : q = <<lane, i>> /\ i = q[2]
      BY <2>1
    <3>2. Present(i) /\ \A p \in Phases : file'[<<p, i>>] = file[<<p, i>>]
      BY <1>2, <2>1, <3>1 DEF HandOrder
    <3> QED
      BY <3>1, <3>2, PhaseFacts DEF Present, Exists
  <2> QED
    BY <2>1 DEF HandOrder, DrainerSame, Item, Exists, Earlier
<1> QED
  BY <1>1, <1>2

\* OrderInv is inductive.
LEMMA NextOrder ==
  ASSUME QueueInv, HandDocInv, OrderInv, [Next]_vars PROVE OrderInv'
<1> SUFFICES ASSUME NEW e \in Drainers PROVE HandOrder(e)'
  BY DEF OrderInv
<1>1. HandOrder(e) /\ HandDoc(e) /\ snapshot[e] \subseteq Lanes \X Items
  BY DEF OrderInv, HandDocInv, QueueInv, TypeOK, DrainTypeOK
<1>2. dpc[e] = "idle" => snapshot[e] = {} /\ todo[e] = {}
  BY <1>1 DEF HandOrder
<1>3. ASSUME NEW c \in Clients, ClientStep(c), UNCHANGED drainVars PROVE HandOrder(e)'
  <2>1. DrainerSame(e)
    BY <1>3 DEF drainVars, DrainerSame
  <2>2. CASE UNCHANGED file
    BY <1>1, <2>1, <2>2, RestOrder
  <2>3. CASE \A d \in Drainers : dpc[d] = "idle"
    BY <1>1, <1>2, <2>1, <2>3, RestOrder
  <2>4. CASE Appears(citem[c])
    BY <1>1, <2>1, <2>4, RestOrder DEF Appears, OthersStay
  <2> QED
    BY <1>3, <2>2, <2>3, <2>4, ClientEffect
<1>4. ASSUME NEW d \in Drainers, DrainStep(d) PROVE HandOrder(e)'
  <2>1. CASE e = d
    BY <1>1, <1>4, <2>1, DrainOrder
  <2>2. CASE e # d
    BY <1>1, <1>2, <1>4, <2>2, DrainAlone, RestOrder
  <2> QED
    BY <2>1, <2>2
<1>5. CASE Elsewhere
  <2>1. CASE DrainerSame(e)
    BY <1>1, <1>5, <2>1, RestOrder DEF Elsewhere
  <2>2. CASE dpc'[e] \in {"idle", "repend"} /\ snapshot'[e] = {} /\ todo'[e] = {}
    BY <2>2, OrderEmpty DEF Holding
  <2> QED
    BY <1>2, <1>5, <2>1, <2>2, ElsewhereDrainers
<1> QED
  BY <1>3, <1>4, <1>5, NextCases

\* TypedInQueueOrder: a drain types in queue order.
THEOREM OrderHolds == Spec => []TypedInQueueOrder
<1>1. Init => OrderInv
  BY InitHand DEF OrderInv, HandOrder, Holding
<1>2. QueueInv /\ HandDocInv /\ OrderInv /\ [Next]_vars => OrderInv'
  BY NextOrder
<1>3. QueueInv /\ OrderInv => TypedInQueueOrder
  <2> SUFFICES ASSUME QueueInv, OrderInv, NEW d \in Drainers, dpc[d] \in {"submit", "paste"},
                      NEW q \in snapshot[d], Exists(q), Earlier(q[2], Item(d))
               PROVE  file[q].stranded
    BY DEF TypedInQueueOrder
  <2>1. HandOrder(d) /\ dpc[d] \in Holding
    BY DEF OrderInv, Holding
  <2>2. q \notin todo[d]
    BY <2>1 DEF HandOrder
  <2>3. q # dpath[d]
    <3>1. Item(d) \in Items /\ QueuedAt[Item(d)] \in Nat /\ Item(d) \in Nat
      BY DrainTypes, QueueAssumption DEF QueueAssumption
    <3>2. ~Earlier(Item(d), Item(d))
      BY <3>1 DEF Earlier
    <3> QED
      BY <3>2 DEF Item
  <2> QED
    BY <2>1, <2>2, <2>3 DEF HandOrder
<1> QED
  BY <1>1, <1>2, <1>3, HandInvariant, PTL DEF Spec

-----------------------------------------------------------------------------
(***************************************************************************)
(* Cancellation: CancelInv.                                                *)
(***************************************************************************)

\* A tombstone is consumed only for an item that is set aside.
LEMMA TombSteps ==
  ASSUME QueueInv, CancelInv, [Next]_vars, NEW i \in tomb
  PROVE  i \in tomb' \/ Exists(<<"cancelled", i>>)
<1>1. ASSUME NEW c \in Clients, ClientStep(c) PROVE i \in tomb' \/ Exists(<<"cancelled", i>>)
  <2>1. CASE CancelAsideForget(c)
    <3>1. Exists(<<"cancelled", citem[c]>>)
      BY <2>1 DEF CancelInv, CancelHand, CancelAsideForget
    <3> QED
      BY <2>1, <3>1 DEF CancelAsideForget, ConsumeTombstone
  <2>2. CASE \/ \E j \in Items : EnqueueSerialized(c, j) \/ EnqueueGenerated(c, j)
             \/ \E j \in Withdrawable : WithdrawLock(c, j)
             \/ \E j \in Cancellable : CancelStart(c, j)
             \/ EnqueueCheck(c) \/ EnqueueCreate(c) \/ WithdrawRemove(c)
    BY <2>2 DEF EnqueueSerialized, EnqueueGenerated, WithdrawLock, CancelStart, EnqueueCheck,
       EnqueueCreate, WithdrawRemove, queueVars
  <2>3. CASE \/ LookMisses(c) \/ LookFinds(c) \/ LookTorn(c)
             \/ CancelDecide(c) \/ CancelTombstone(c) \/ CancelTryLock(c)
             \/ CancelAsideWrite(c) \/ CancelAsideMove(c) \/ CancelReport(c)
    BY <2>3 DEF LookMisses, LookFinds, LookTorn, CancelDecide, CancelTombstone, CancelTryLock,
       CancelAsideWrite, CancelAsideMove, CancelReport, queueVars
  <2> QED
    BY <1>1, <2>1, <2>2, <2>3 DEF ClientStep
<1>2. ASSUME NEW d \in Drainers, DrainStep(d) PROVE i \in tomb' \/ Exists(<<"cancelled", i>>)
  <2>1. CASE AsideForget(d)
    <3>1. Exists(<<"cancelled", Item(d)>>)
      BY <2>1 DEF CancelInv, AsideForget, Step
    <3> QED
      BY <2>1, <3>1 DEF AsideForget, ConsumeTombstone
  <2>2. CASE ~AsideForget(d)
    <3>1. UNCHANGED tomb
      <4>1. CASE \/ \E j \in Items : \/ RependStranded(d, j) \/ RecoverNeverTyped(d, j)
                                     \/ RecoverQuarantine(d, j) \/ DigestAside(d, j)
                                     \/ SubmitRecoverDraft(d, j)
                 \/ RependMove(d) \/ RependDone(d) \/ RecoverMove(d) \/ RecoverSidecar(d)
                 \/ RecoverDone(d) \/ DigestSidecar(d) \/ DrainSnapshot(d)
        BY <4>1 DEF RependStranded, RecoverNeverTyped, RecoverQuarantine, DigestAside,
           SubmitRecoverDraft, RependMove, RependDone, RecoverMove, RecoverSidecar, RecoverDone,
           DigestSidecar, DrainSnapshot, queueVars
      <4>2. CASE \/ DrainPick(d) \/ DrainFinish(d) \/ DrainStops(d) \/ DrainInvalid(d)
                 \/ DrainAside(d) \/ DrainBlocked(d) \/ DrainReady(d) \/ DrainBarrier(d)
                 \/ DrainRecheck(d) \/ DrainStamp(d) \/ AsideWrite(d) \/ AsideMove(d)
        BY <4>2 DEF DrainPick, DrainFinish, DrainStops, DrainInvalid, DrainAside, DrainBlocked,
           DrainReady, DrainBarrier, DrainRecheck, DrainStamp, AsideWrite, AsideMove, queueVars
      <4>3. CASE \/ SubmitRefuse(d) \/ SubmitFlush(d) \/ FlushEnds(d) \/ SubmitLook(d)
                 \/ SubmitType(d) \/ SubmitPaste(d) \/ SubmitMisses(d) \/ SubmitEnds(d)
        BY <4>3 DEF SubmitRefuse, SubmitFlush, FlushEnds, SubmitLook, SubmitType, SubmitPaste,
           SubmitMisses, SubmitEnds, Concludes, queueVars
      <4>4. CASE \/ Settle(d) \/ MoveProcessed(d) \/ MoveFailed(d) \/ MoveBackAndGoOn(d)
                 \/ MoveBackAndRetry(d) \/ MoveBackAndStop(d) \/ DrainSidecar(d)
        BY <4>4 DEF Settle, MoveProcessed, MoveFailed, MoveBackAndGoOn, MoveBackAndRetry,
           MoveBackAndStop, DrainSidecar
      <4> QED
        BY <1>2, <2>2, <4>1, <4>2, <4>3, <4>4 DEF DrainStep
    <3> QED
      BY <3>1
  <2> QED
    BY <2>1, <2>2
<1>3. CASE Elsewhere
  BY <1>3 DEF Elsewhere
<1> QED
  BY <1>1, <1>2, <1>3, NextCases

\* What is set aside stays set aside.
LEMMA CancelledStays ==
  ASSUME QueueInv, [Next]_vars, NEW i \in Items, Exists(<<"cancelled", i>>)
  PROVE  Exists(<<"cancelled", i>>)'
<1>1. "cancelled" \in Final(i)
  BY DEF Final
<1>2. file'[<<"cancelled", i>>] = file[<<"cancelled", i>>]
  BY <1>1, SettledNext DEF SettledStays
<1> QED
  BY <1>2 DEF Exists

\* A cancelled item keeps its tombstone until it is set aside for it.
LEMMA BuriedStays ==
  ASSUME QueueInv, CancelInv, [Next]_vars, NEW i \in Items, Buried(i) PROVE Buried(i)'
  BY TombSteps, CancelledStays DEF Buried

\* Past the recheck, up to the paste.
Typing == {"stamp", "submit", "paste"}

\* A drain comes to type an item only through the recheck behind the barrier.
LEMMA TypingSteps ==
  ASSUME QueueInv, NEW d \in Drainers, HandDoc(d), DrainStep(d), dpc'[d] \in Typing
  PROVE  dpath'[d] = dpath[d] /\ (dpc[d] \in Typing \/ DrainRecheck(d))
<1> USE DEF Typing
<1>0. DrainTypeOK
  BY DEF QueueInv, TypeOK
<1>1. dpath'[d] = dpath[d]
  <2>1. ~DrainSnapshot(d) /\ ~DrainPick(d) /\ ~DrainEnds(d)
    BY <1>0 DEF DrainTypeOK, DrainSnapshot, DrainPick, DrainEnds, Step
  <2>2. dpc'[d] \notin Recovering
    BY DEF Recovering
  <2> QED
    BY <2>1, <2>2, DrainCourse
<1>2. CASE \/ \E i \in Items : \/ RependStranded(d, i) \/ RecoverNeverTyped(d, i)
                               \/ RecoverQuarantine(d, i) \/ DigestAside(d, i)
           \/ RependMove(d) \/ RependDone(d) \/ RecoverMove(d) \/ RecoverSidecar(d)
           \/ RecoverDone(d) \/ DigestSidecar(d) \/ DrainSnapshot(d)
  BY <1>0, <1>2 DEF DrainTypeOK, Step, RependStranded, RecoverNeverTyped, RecoverQuarantine,
     DigestAside, RependMove, RependDone, RecoverMove, RecoverSidecar, RecoverDone, DigestSidecar,
     DrainSnapshot
<1>3. CASE \/ DrainPick(d) \/ DrainFinish(d) \/ DrainStops(d) \/ DrainInvalid(d) \/ DrainAside(d)
           \/ DrainBlocked(d) \/ DrainReady(d) \/ DrainBarrier(d) \/ DrainStamp(d)
           \/ AsideWrite(d) \/ AsideMove(d) \/ AsideForget(d)
  BY <1>0, <1>1, <1>3 DEF DrainTypeOK, Step, DrainPick, DrainFinish, DrainStops, DrainInvalid,
     DrainAside, DrainBlocked, DrainReady, DrainBarrier, DrainStamp, AsideWrite, AsideMove,
     AsideForget, DrainEnds
<1>4. CASE \/ SubmitRefuse(d) \/ SubmitFlush(d) \/ FlushEnds(d) \/ SubmitLook(d) \/ SubmitType(d)
           \/ SubmitPaste(d) \/ SubmitMisses(d) \/ SubmitEnds(d)
           \/ \E i \in Items : SubmitRecoverDraft(d, i)
  BY <1>0, <1>1, <1>4 DEF DrainTypeOK, Step, Concludes, SubmitRefuse, SubmitFlush, FlushEnds,
     SubmitLook, SubmitType, SubmitPaste, SubmitMisses, SubmitEnds, SubmitRecoverDraft
<1>5. CASE \/ Settle(d) \/ MoveProcessed(d) \/ MoveFailed(d) \/ MoveBackAndGoOn(d)
           \/ MoveBackAndRetry(d) \/ MoveBackAndStop(d) \/ DrainSidecar(d)
  BY <1>0, <1>5 DEF DrainTypeOK, Step, Settle, MoveProcessed, MoveFailed, MoveBackAndGoOn,
     MoveBackAndRetry, MoveBackAndStop, MoveBack, DrainSidecar, DrainEnds
<1> QED
  BY <1>1, <1>2, <1>3, <1>4, <1>5 DEF DrainStep

\* An item that is nowhere behind the barrier is in no drain's hands there.
LEMMA NotTyping ==
  ASSUME QueueInv, NEW i \in Items, Buried(i), ~Exists(<<"inflight", i>>) PROVE OutOfReach(i)
<1>1. ASSUME NEW d \in Drainers, Item(d) = i, dpc[d] \in {"stamp", "submit", "paste"} PROVE FALSE
  <2>1. Exists(<<"inflight", Item(d)>>)
    BY <1>1, HandThere DEF InHandInflight
  <2> QED
    BY <1>1, <2>1
<1> QED
  BY <1>1 DEF OutOfReach

\* What is set aside is out of reach.
LEMMA CancelledOutOfReach ==
  ASSUME QueueInv, NEW i \in Items, NEW p \in Phases \ {"inflight"}, Exists(<<p, i>>), Buried(i)
  PROVE  OutOfReach(i)
<1>1. ~Exists(<<"inflight", i>>)
  BY OnlyThere, PhaseFacts DEF Exists
<1> QED
  BY <1>1, NotTyping

\* An item once out of reach stays so: the recheck behind the barrier finds the tombstone.
LEMMA OutOfReachStays ==
  ASSUME QueueInv, HandDocInv, CancelInv, [Next]_vars, NEW i \in Items, OutOfReach(i)
  PROVE  OutOfReach(i)'
<1>1. Buried(i)'
  BY BuriedStays DEF OutOfReach
<1> SUFFICES ASSUME NEW e \in Drainers, Item(e)' = i, dpc'[e] \in Typing PROVE FALSE
  BY <1>1 DEF OutOfReach, Typing
<1>2. ASSUME dpath'[e] = dpath[e], dpc[e] \in Typing PROVE FALSE
  BY <1>2 DEF OutOfReach, Typing, Item
<1>3. ASSUME NEW c \in Clients, ClientStep(c), UNCHANGED drainVars PROVE FALSE
  BY <1>2, <1>3 DEF drainVars
<1>4. ASSUME NEW d \in Drainers, DrainStep(d) PROVE FALSE
  <2>1. CASE e # d
    BY <1>2, <1>4, <2>1, DrainAlone DEF DrainerSame
  <2>2. CASE e = d
    <3>1. HandDoc(d)
      BY DEF HandDocInv
    <3>2. dpath'[d] = dpath[d] /\ DrainRecheck(d)
      BY <1>2, <1>4, <2>2, <3>1, TypingSteps
    <3>3. Item(d) = i /\ dpc[d] = "recheck" /\ SetAsideReason(i) = "none"
      BY <2>2, <3>2 DEF Item, DrainRecheck, Step
    <3>4. i \notin tomb /\ Exists(<<"inflight", i>>)
      BY <3>3, HandThere DEF SetAsideReason, InHandInflight
    <3>5. ~Exists(<<"cancelled", i>>)
      BY <3>4, OnlyThere, PhaseFacts DEF Exists
    <3> QED
      BY <3>4, <3>5 DEF OutOfReach, Buried
  <2> QED
    BY <2>1, <2>2
<1>5. CASE Elsewhere
  <2>1. DrainerSame(e)
    BY <1>5, ElsewhereDrainers DEF Typing
  <2> QED
    BY <1>2, <2>1 DEF DrainerSame, Typing
<1> QED
  BY <1>3, <1>4, <1>5, NextCases

\* The order of a look: both lanes, then inflight/, then the settled phases.
LEMMA LookOrder ==
  /\ Len(States) = 6
  /\ \A n \in 1..6 : States[n] \in Phases
  /\ States[3] = "inflight"
<1>1. Len(States) = 6
  BY DEF States
<1>2. /\ States[1] = "inbox" /\ States[2] = "inbox.v2" /\ States[3] = "inflight"
      /\ States[4] = "processed" /\ States[5] = "failed" /\ States[6] = "cancelled"
  BY DEF States
<1>3. ASSUME NEW n \in 1..6 PROVE States[n] \in Phases
  <2>1. n = 1 \/ n = 2 \/ n = 3 \/ n = 4 \/ n = 5 \/ n = 6
    OBVIOUS
  <2> QED
    BY <1>2, <2>1 DEF Phases, Lanes
<1> QED
  BY <1>1, <1>2, <1>3

\* What a client's step leaves of the other clients.
LEMMA ClientAlone ==
  ASSUME QueueInv, NEW c \in Clients, ClientStep(c), NEW e \in Clients, e # c
  PROVE  /\ cpc'[e] = cpc[e] /\ citem'[e] = citem[e] /\ clook'[e] = clook[e]
         /\ cseen'[e] = cseen[e] /\ cresult'[e] = cresult[e]
<1>0. ClientTypeOK
  BY DEF QueueInv, TypeOK
<1>1. CASE \/ \E i \in Items : EnqueueSerialized(c, i) \/ EnqueueGenerated(c, i)
           \/ \E i \in Withdrawable : WithdrawLock(c, i)
           \/ \E i \in Cancellable : CancelStart(c, i)
           \/ EnqueueCheck(c) \/ EnqueueCreate(c) \/ WithdrawRemove(c)
  BY <1>0, <1>1 DEF ClientTypeOK, EnqueueSerialized, EnqueueGenerated, WithdrawLock, CancelStart,
     EnqueueCheck, EnqueueCreate, WithdrawRemove, Start, Goto, Return
<1>2. CASE \/ LookMisses(c) \/ LookFinds(c) \/ LookTorn(c)
           \/ CancelDecide(c) \/ CancelTombstone(c) \/ CancelTryLock(c)
           \/ CancelAsideWrite(c) \/ CancelAsideMove(c) \/ CancelAsideForget(c)
           \/ CancelReport(c)
  BY <1>0, <1>2 DEF ClientTypeOK, LookMisses, LookFinds, LookTorn, CancelDecide, CancelTombstone,
     CancelTryLock, CancelAsideWrite, CancelAsideMove, CancelAsideForget, CancelReport, Goto,
     Return,
     LookAgain
<1> QED
  BY <1>1, <1>2 DEF ClientStep

\* A client that rests keeps what it knows.
LEMMA CancelRests ==
  ASSUME QueueInv, HandDocInv, CancelInv, [Next]_vars, NEW e \in Clients,
         cpc'[e] = cpc[e], citem'[e] = citem[e], clook'[e] = clook[e], cseen'[e] = cseen[e],
         cresult'[e] = cresult[e]
  PROVE  CancelHand(e)'
<1>1. PICK i \in Items : i = citem[e]
  BY ClientTypes
<1>2. CancelHand(e)
  BY DEF CancelInv
<1>3. Buried(i) => Buried(i)'
  BY BuriedStays
<1>4. Exists(<<"cancelled", i>>) => Exists(<<"cancelled", i>>)'
  BY CancelledStays
<1>5. OutOfReach(i) => OutOfReach(i)'
  BY OutOfReachStays
<1> QED
  BY <1>1, <1>2, <1>3, <1>4, <1>5 DEF CancelHand, Buried, OutOfReach, Exists

\* One directory further.
LEMMA CancelLooks ==
  ASSUME QueueInv, HandDocInv, CancelInv, [Next]_vars, NEW c \in Clients,
         LookMisses(c) \/ LookFinds(c) \/ LookTorn(c)
  PROVE  CancelHand(c)'
<1>0. ClientTypeOK
  BY DEF QueueInv, TypeOK
<1>1. PICK i \in Items, n \in 1..6 : i = citem[c] /\ n = clook[c] /\ citem'[c] = i
  <2>1. citem[c] \in Items /\ clook[c] \in 1..7 /\ clook[c] <= 6
    BY <1>0, LookOrder DEF LookMisses, LookFinds, LookTorn, Looking, ClientTypeOK
  <2>2. citem'[c] = citem[c]
    BY DEF LookMisses, LookFinds, LookTorn, Return
  <2> QED
    BY <2>1, <2>2
<1>2. CancelHand(c)
  BY DEF CancelInv
<1>3. Buried(i) => Buried(i)'
  BY BuriedStays
<1>4. Exists(<<"cancelled", i>>) => Exists(<<"cancelled", i>>)'
  BY CancelledStays
<1>5. OutOfReach(i) => OutOfReach(i)'
  BY OutOfReachStays
<1>6. cpc[c] \in {"look", "look_again"} /\ cpc'[c] \in {cpc[c], "idle"}
  BY <1>0 DEF LookMisses, LookFinds, LookTorn, Looking, Return, ClientTypeOK
<1>7. cpc[c] = "look_again" => Buried(i)
  BY <1>1, <1>2 DEF CancelHand
<1>8. CASE LookTorn(c)
  <2>1. \/ cpc'[c] = cpc[c] /\ clook'[c] = 1 /\ cseen'[c] = {}
        \/ cpc'[c] = "idle" /\ cresult'[c] = "error"
    BY <1>0, <1>8 DEF LookTorn, Return, ClientTypeOK
  <2>2. cpc'[c] = "idle" => cresult'[c] \notin Promising
    BY <1>6, <2>1 DEF Promising
  <2> QED
    BY <1>1, <1>3, <1>6, <1>7, <2>1, <2>2 DEF CancelHand, Buried, Exists
<1>9. CASE LookFinds(c)
  <2>1. /\ cpc'[c] = cpc[c] /\ cseen'[c] = {States[n]} /\ Exists(<<States[n], i>>)
        /\ States[n] \in Phases
    BY <1>0, <1>1, <1>9, LookOrder DEF LookFinds, ClientTypeOK
  <2>2. cpc[c] = "look_again" /\ States[n] # "inflight" => OutOfReach(i)
    BY <1>7, <2>1, CancelledOutOfReach
  <2> QED
    BY <1>1, <1>3, <1>4, <1>5, <1>6, <1>7, <2>1, <2>2 DEF CancelHand, Buried, OutOfReach, Exists
<1>10. CASE LookMisses(c)
  <2>1. /\ cpc'[c] = cpc[c] /\ cseen'[c] = cseen[c] /\ ~Exists(<<States[n], i>>)
        /\ clook'[c] = n + 1
    BY <1>0, <1>1, <1>10 DEF LookMisses, ClientTypeOK
  <2>2. cpc[c] = "look_again" /\ n = 3 => OutOfReach(i)
    BY <1>7, <2>1, LookOrder, NotTyping
  <2>3. cpc[c] = "look_again" /\ cseen[c] # {"inflight"} /\ (cseen[c] # {} \/ n + 1 > 3) =>
          OutOfReach(i)
    BY <1>1, <1>2, <2>2 DEF CancelHand
  <2> QED
    BY <1>1, <1>2, <1>3, <1>4, <1>5, <1>6, <1>7, <2>1, <2>3 DEF CancelHand, Buried, OutOfReach,
       Exists
<1> QED
  BY <1>8, <1>9, <1>10

\* The steps of cancel between and after its looks.
LEMMA CancelMoves ==
  ASSUME QueueInv, HandDocInv, CancelInv, [Next]_vars, NEW c \in Clients,
         \/ CancelDecide(c) \/ CancelTombstone(c) \/ CancelTryLock(c) \/ CancelAsideWrite(c)
         \/ CancelAsideMove(c) \/ CancelAsideForget(c) \/ CancelReport(c)
  PROVE  CancelHand(c)'
<1>0. ClientTypeOK
  BY DEF QueueInv, TypeOK
<1>1. PICK i \in Items : i = citem[c] /\ citem'[c] = i
  <2>1. citem[c] \in Items /\ citem'[c] = citem[c]
    BY <1>0 DEF CancelDecide, CancelTombstone, CancelTryLock, CancelAsideWrite, CancelAsideMove,
       CancelAsideForget, CancelReport, Return, Goto, LookAgain, ClientTypeOK
  <2> QED
    BY <2>1
<1>2. CancelHand(c)
  BY DEF CancelInv
<1>3. Buried(i) => Buried(i)'
  BY BuriedStays
<1>4. Exists(<<"cancelled", i>>) => Exists(<<"cancelled", i>>)'
  BY CancelledStays
<1>5. OutOfReach(i) => OutOfReach(i)'
  BY OutOfReachStays
<1>6. Exists(<<"cancelled", i>>) => OutOfReach(i)
  BY CancelledOutOfReach, PhaseFacts DEF Buried
<1>7. CASE CancelDecide(c)
  <2>1. \/ cpc'[c] = "idle" /\ cresult'[c] = "already_cancelled" /\ Exists(<<"cancelled", i>>)
        \/ cpc'[c] = "idle" /\ cresult'[c] = "too_late"
        \/ cpc'[c] = "tomb"
    BY <1>0, <1>1, <1>2, <1>7 DEF CancelDecide, Looked, Return, Goto, ClientTypeOK, CancelHand
  <2>2. cpc'[c] = "idle" /\ cresult'[c] \in Promising => OutOfReach(i)'
    BY <1>5, <1>6, <2>1 DEF Promising
  <2> QED
    BY <1>1, <2>1, <2>2 DEF CancelHand, OutOfReach, Buried
<1>8. CASE CancelTombstone(c)
  <2>1. cpc'[c] = "try" /\ Buried(i)'
    BY <1>0, <1>1, <1>8 DEF CancelTombstone, Goto, ClientTypeOK, Buried
  <2> QED
    BY <1>1, <2>1 DEF CancelHand, Buried, Exists
<1>9. CASE CancelTryLock(c)
  <2>1. cpc[c] = "try"
    BY <1>9 DEF CancelTryLock
  <2>2. \/ cpc'[c] = "look_again" /\ clook'[c] = 1 /\ cseen'[c] = {}
        \/ cpc'[c] = "idle" /\ cresult'[c] = "error"
        \/ cpc'[c] = "aside"
    BY <1>0, <1>9 DEF CancelTryLock, LookAgain, Return, Goto, ClientTypeOK
  <2>3. Buried(i)'
    BY <1>1, <1>2, <1>3, <2>1 DEF CancelHand
  <2> QED
    BY <1>1, <2>2, <2>3 DEF CancelHand, Buried, Exists, Promising
<1>10. CASE CancelAsideWrite(c)
  <2>1. cpc'[c] = "aside_move"
    BY <1>0, <1>10 DEF CancelAsideWrite, Goto, ClientTypeOK
  <2> QED
    BY <2>1 DEF CancelHand
<1>11. CASE CancelAsideMove(c)
  <2>1. cpc'[c] = "aside_forget"
    BY <1>0, <1>11 DEF CancelAsideMove, Goto, ClientTypeOK
  <2>2. PICK lane \in Lanes : lane = WaitingIn(i)
    <3>1. cpc[c] = "aside_move"
      BY <1>11 DEF CancelAsideMove
    <3> QED
      BY <1>1, <3>1, ClientTypes DEF QueueInv, ClientHandInv
  <2>3. Rename(<<lane, i>>, <<"cancelled", i>>)
    BY <1>1, <1>11, <2>2 DEF CancelAsideMove
  <2>4. PICK old : Touches(i, lane, old, "cancelled", old)
    BY <2>3, TouchRename, PhaseFacts
  <2>5. file'[<<"cancelled", i>>] \in Doc
    BY <2>4, PhaseFacts DEF Touches
  <2>6. Exists(<<"cancelled", i>>)'
    BY <2>5, SystemAssumption DEF Exists, SystemAssumption
  <2> QED
    BY <1>1, <2>1, <2>6 DEF CancelHand, Exists
<1>12. CASE CancelAsideForget(c)
  <2>1. cpc'[c] = "idle"
    BY <1>0, <1>12 DEF CancelAsideForget, Return, ClientTypeOK
  <2>2. Exists(<<"cancelled", i>>)
    BY <1>1, <1>2, <1>12 DEF CancelAsideForget, CancelHand
  <2>3. OutOfReach(i)'
    BY <1>5, <1>6, <2>2
  <2> QED
    BY <1>1, <2>1, <2>3 DEF CancelHand, OutOfReach, Buried
<1>13. CASE CancelReport(c)
  <2>1. /\ cpc[c] = "look_again" /\ clook[c] > 6 /\ clook[c] \in 1..7
        /\ cpc'[c] = "idle" /\ cresult'[c] = Reported(cseen[c])
    BY <1>0, <1>13, LookOrder DEF CancelReport, Looked, Return, ClientTypeOK
  <2>2. cseen[c] # {"inflight"} => OutOfReach(i)
    BY <1>1, <1>2, <2>1 DEF CancelHand
  <2>3. cseen[c] = {"inflight"} => Reported(cseen[c]) = "inflight"
    BY DEF Reported, Lanes
  <2>4. cresult'[c] \in Promising => OutOfReach(i)'
    BY <1>5, <2>1, <2>2, <2>3 DEF Promising
  <2> QED
    BY <1>1, <2>1, <2>4 DEF CancelHand, OutOfReach, Buried
<1> QED
  BY <1>7, <1>8, <1>9, <1>10, <1>11, <1>12, <1>13

\* Every step of a client keeps what it knows of the item it cancels.
LEMMA CancelClient ==
  ASSUME QueueInv, HandDocInv, CancelInv, [Next]_vars, NEW c \in Clients, ClientStep(c)
  PROVE  CancelHand(c)'
<1>0. ClientTypeOK
  BY DEF QueueInv, TypeOK
<1>1. CASE \/ \E i \in Items : EnqueueSerialized(c, i) \/ EnqueueGenerated(c, i)
           \/ \E i \in Withdrawable : WithdrawLock(c, i)
           \/ \E i \in Cancellable : CancelStart(c, i)
  <2>1. cpc'[c] \in {"check", "remove", "look"} /\ cseen'[c] = {}
    BY <1>0, <1>1 DEF ClientTypeOK, EnqueueSerialized, EnqueueGenerated, WithdrawLock, CancelStart,
       Start
  <2> QED
    BY <2>1 DEF CancelHand
<1>2. CASE EnqueueCheck(c) \/ EnqueueCreate(c) \/ WithdrawRemove(c)
  <2>1. \/ cpc'[c] = "create"
        \/ /\ cpc'[c] = "idle"
           /\ cresult'[c] \in {"duplicate", "queued", "not_found", "error", "withdrawn"}
    BY <1>0, <1>2 DEF ClientTypeOK, EnqueueCheck, EnqueueCreate, WithdrawRemove, Goto, Return
  <2> QED
    BY <2>1 DEF CancelHand, Promising
<1> QED
  BY <1>1, <1>2, CancelLooks, CancelMoves DEF ClientStep

\* A drain that forgets a tombstone has set its item aside.
LEMMA DrainForgets ==
  ASSUME QueueInv, CancelInv, [Next]_vars, NEW d \in Drainers, HandDoc(d), DrainStep(d),
         dpc'[d] = "aside_forget"
  PROVE  Exists(<<"cancelled", Item(d)>>)'
<1>0. DrainTypeOK
  BY DEF QueueInv, TypeOK
<1>1. AsideMove(d)
  <2>1. CASE \/ \E i \in Items : \/ RependStranded(d, i) \/ RecoverNeverTyped(d, i)
                                 \/ RecoverQuarantine(d, i) \/ DigestAside(d, i)
             \/ RependMove(d) \/ RependDone(d) \/ RecoverMove(d) \/ RecoverSidecar(d)
             \/ RecoverDone(d) \/ DigestSidecar(d) \/ DrainSnapshot(d)
    BY <1>0, <2>1 DEF DrainTypeOK, Step, RependStranded, RecoverNeverTyped, RecoverQuarantine,
       DigestAside, RependMove, RependDone, RecoverMove, RecoverSidecar, RecoverDone, DigestSidecar,
       DrainSnapshot
  <2>2. CASE \/ DrainPick(d) \/ DrainFinish(d) \/ DrainStops(d) \/ DrainInvalid(d) \/ DrainAside(d)
             \/ DrainBlocked(d) \/ DrainReady(d) \/ DrainBarrier(d) \/ DrainRecheck(d)
             \/ DrainStamp(d) \/ AsideWrite(d) \/ AsideForget(d)
    BY <1>0, <2>2 DEF DrainTypeOK, Step, DrainPick, DrainFinish, DrainStops, DrainInvalid,
       DrainAside, DrainBlocked, DrainReady, DrainBarrier, DrainRecheck, DrainStamp, AsideWrite,
       AsideForget, DrainEnds
  <2>3. CASE \/ SubmitRefuse(d) \/ SubmitFlush(d) \/ FlushEnds(d) \/ SubmitLook(d) \/ SubmitType(d)
             \/ SubmitPaste(d) \/ SubmitMisses(d) \/ SubmitEnds(d)
             \/ \E i \in Items : SubmitRecoverDraft(d, i)
    BY <1>0, <2>3 DEF DrainTypeOK, Step, Concludes, SubmitRefuse, SubmitFlush, FlushEnds,
       SubmitLook, SubmitType, SubmitPaste, SubmitMisses, SubmitEnds, SubmitRecoverDraft, drainVars
  <2>4. CASE \/ Settle(d) \/ MoveProcessed(d) \/ MoveFailed(d) \/ MoveBackAndGoOn(d)
             \/ MoveBackAndRetry(d) \/ MoveBackAndStop(d) \/ DrainSidecar(d)
    BY <1>0, <2>4 DEF DrainTypeOK, Step, Settle, MoveProcessed, MoveFailed, MoveBackAndGoOn,
       MoveBackAndRetry, MoveBackAndStop, MoveBack, DrainSidecar, DrainEnds
  <2> QED
    BY <2>1, <2>2, <2>3, <2>4 DEF DrainStep
<1>2. PICK i \in Items : i = Item(d) /\ Item(d)' = i
  <2>1. Item(d) \in Items /\ Item(d)' = Item(d)
    BY <1>1, DrainTypes DEF AsideMove, Item
  <2> QED
    BY <2>1
<1>3. PICK p, old : Touches(i, p, old, "cancelled", old)
  BY <1>1, <1>2, AsideTouches
<1>4. file'[<<"cancelled", i>>] \in Doc
  BY <1>3, PhaseFacts DEF Touches
<1> QED
  BY <1>2, <1>4, SystemAssumption DEF Exists, SystemAssumption, Item

\* CancelInv is inductive.
LEMMA NextCancel ==
  ASSUME QueueInv, HandDocInv, CancelInv, [Next]_vars PROVE CancelInv'
<1>0. ClientTypeOK
  BY DEF QueueInv, TypeOK
<1>1. ASSUME NEW e \in Clients PROVE CancelHand(e)'
  <2>1. ASSUME UNCHANGED clientVars PROVE CancelHand(e)'
    BY <2>1, CancelRests DEF clientVars
  <2>2. ASSUME NEW c \in Clients, ClientStep(c) PROVE CancelHand(e)'
    <3>1. CASE e = c
      BY <2>2, <3>1, CancelClient
    <3>2. CASE e # c
      BY <2>2, <3>2, ClientAlone, CancelRests
    <3> QED
      BY <3>1, <3>2
  <2>3. ASSUME NEW c \in Clients, ClientCrash(c) PROVE CancelHand(e)'
    <3>1. CASE e = c
      <4>1. cpc'[e] = "idle" /\ cresult'[e] = "error"
        BY <1>0, <2>3, <3>1 DEF ClientCrash, Return, ClientTypeOK
      <4> QED
        BY <4>1 DEF CancelHand, Promising
    <3>2. CASE e # c
      <4>1. /\ cpc'[e] = cpc[e] /\ citem'[e] = citem[e] /\ clook'[e] = clook[e]
            /\ cseen'[e] = cseen[e] /\ cresult'[e] = cresult[e]
        BY <1>0, <2>3, <3>2 DEF ClientCrash, Return, ClientTypeOK
      <4> QED
        BY <4>1, CancelRests
    <3> QED
      BY <3>1, <3>2
  <2> QED
    BY <2>1, <2>2, <2>3, NextCases DEF Elsewhere
<1>2. ASSUME NEW e \in Drainers, dpc'[e] = "aside_forget" PROVE Exists(<<"cancelled", Item(e)>>)'
  <2>1. ASSUME DrainerSame(e) PROVE Exists(<<"cancelled", Item(e)>>)'
    <3>1. PICK i \in Items : i = Item(e) /\ Item(e)' = i
      BY <2>1, DrainTypes DEF DrainerSame, Item
    <3>2. Exists(<<"cancelled", i>>)
      BY <1>2, <2>1, <3>1 DEF CancelInv, DrainerSame
    <3>3. Exists(<<"cancelled", i>>)'
      BY <3>2, CancelledStays
    <3> QED
      BY <3>1, <3>3 DEF Exists
  <2>2. ASSUME UNCHANGED drainVars PROVE DrainerSame(e)
    BY <2>2 DEF drainVars, DrainerSame
  <2>3. ASSUME NEW d \in Drainers, DrainStep(d) PROVE Exists(<<"cancelled", Item(e)>>)'
    <3>1. CASE e = d
      BY <1>2, <2>3, <3>1, DrainForgets DEF HandDocInv
    <3>2. CASE e # d
      BY <2>1, <2>3, <3>2, DrainAlone
    <3> QED
      BY <3>1, <3>2
  <2>4. CASE Elsewhere
    BY <1>2, <2>1, <2>4, ElsewhereDrainers
  <2> QED
    BY <2>1, <2>2, <2>3, <2>4, NextCases
<1> QED
  BY <1>1, <1>2 DEF CancelInv

\* What CancelKeepsItsPromise asks of a step.
PromiseKept(i) ==
  Promised(i) =>
    /\ typed'[i] <= typed[i]
    /\ \A d \in Drainers : dpc'[d] = "flushed" /\ dpc[d] # "flushed" => Item(d) # i

\* A drain neither types an item out of its reach nor presses Enter on it.
LEMMA DrainKeepsPromise ==
  ASSUME QueueInv, NEW i \in Items, OutOfReach(i), NEW d \in Drainers, DrainStep(d)
  PROVE  /\ typed'[i] <= typed[i]
         /\ dpc'[d] = "flushed" /\ dpc[d] # "flushed" => Item(d) # i
<1>0. DrainTypeOK /\ typed \in [Items -> Int] /\ Item(d) \in Items
  BY DrainTypes DEF QueueInv, TypeOK, PaneTypeOK
<1>1. dpc[d] \in {"stamp", "submit", "paste"} => Item(d) # i
  BY DEF OutOfReach
<1>2. typed'[i] <= typed[i]
  <2>1. CASE UNCHANGED paneVars \/ \E j \in Items : PaneTakes(j)
    BY <1>0, <2>1 DEF paneVars, PaneTakes
  <2>2. CASE SubmitPaste(d)
    BY <1>0, <1>1, <2>2 DEF SubmitPaste, Step, PanePaste, PanePrompt
  <2>3. CASE PaneTakeBack(Item(d))
    BY <1>0, <2>3 DEF PaneTakeBack
  <2> QED
    BY <2>1, <2>2, <2>3, DrainPane DEF DrainsPane
<1>3. ASSUME dpc'[d] = "flushed", dpc[d] # "flushed" PROVE dpc[d] = "submit"
  <2>1. CASE \/ \E j \in Items : \/ RependStranded(d, j) \/ RecoverNeverTyped(d, j)
                                 \/ RecoverQuarantine(d, j) \/ DigestAside(d, j)
             \/ RependMove(d) \/ RependDone(d) \/ RecoverMove(d) \/ RecoverSidecar(d)
             \/ RecoverDone(d) \/ DigestSidecar(d) \/ DrainSnapshot(d)
    BY <1>0, <1>3, <2>1 DEF DrainTypeOK, Step, RependStranded, RecoverNeverTyped, RecoverQuarantine,
       DigestAside, RependMove, RependDone, RecoverMove, RecoverSidecar, RecoverDone, DigestSidecar,
       DrainSnapshot
  <2>2. CASE \/ DrainPick(d) \/ DrainFinish(d) \/ DrainStops(d) \/ DrainInvalid(d) \/ DrainAside(d)
             \/ DrainBlocked(d) \/ DrainReady(d) \/ DrainBarrier(d) \/ DrainRecheck(d)
             \/ DrainStamp(d) \/ AsideWrite(d) \/ AsideMove(d) \/ AsideForget(d)
    BY <1>0, <1>3, <2>2 DEF DrainTypeOK, Step, DrainPick, DrainFinish, DrainStops, DrainInvalid,
       DrainAside, DrainBlocked, DrainReady, DrainBarrier, DrainRecheck, DrainStamp, AsideWrite,
       AsideMove, AsideForget, DrainEnds
  <2>3. CASE \/ SubmitRefuse(d) \/ SubmitFlush(d) \/ FlushEnds(d) \/ SubmitLook(d) \/ SubmitType(d)
             \/ SubmitPaste(d) \/ SubmitMisses(d) \/ SubmitEnds(d)
             \/ \E j \in Items : SubmitRecoverDraft(d, j)
    BY <1>0, <1>3, <2>3 DEF DrainTypeOK, Step, Concludes, SubmitRefuse, SubmitFlush, FlushEnds,
       SubmitLook, SubmitType, SubmitPaste, SubmitMisses, SubmitEnds, SubmitRecoverDraft, drainVars
  <2>4. CASE \/ Settle(d) \/ MoveProcessed(d) \/ MoveFailed(d) \/ MoveBackAndGoOn(d)
             \/ MoveBackAndRetry(d) \/ MoveBackAndStop(d) \/ DrainSidecar(d)
    BY <1>0, <1>3, <2>4 DEF DrainTypeOK, Step, Settle, MoveProcessed, MoveFailed, MoveBackAndGoOn,
       MoveBackAndRetry, MoveBackAndStop, MoveBack, DrainSidecar, DrainEnds
  <2> QED
    BY <2>1, <2>2, <2>3, <2>4 DEF DrainStep
<1> QED
  BY <1>1, <1>2, <1>3

\* No step breaks the promise of a cancel.
LEMMA NextPromise ==
  ASSUME QueueInv, PaneInv, CancelInv, [Next]_vars, NEW i \in Items PROVE PromiseKept(i)
<1> SUFFICES ASSUME Promised(i)
             PROVE  /\ typed'[i] <= typed[i]
                    /\ \A e \in Drainers : dpc'[e] = "flushed" /\ dpc[e] # "flushed" => Item(e) # i
  BY DEF PromiseKept
<1>0. typed \in [Items -> Int] /\ accepted \in [Items -> Nat]
  BY DEF QueueInv, TypeOK, PaneTypeOK
<1>1. OutOfReach(i)
  BY DEF Promised, CancelInv, CancelHand, Promising
<1>2. ASSUME NEW c \in Clients, ClientStep(c), UNCHANGED drainVars PROVE typed'[i] <= typed[i]
  <2>1. CASE UNCHANGED paneVars
    BY <1>0, <2>1 DEF paneVars
  <2>2. ASSUME PaneForgets(citem[c]) PROVE typed'[i] <= typed[i]
    <3>1. 0 <= Tokens(i) /\ Tokens(i) <= typed[i]
      BY <1>0 DEF Tokens, PaneInv
    <3>2. typed'[i] \in {0, typed[i]}
      BY <1>0, <2>2 DEF PaneForgets
    <3>3. Tokens(i) \in Nat
      BY <1>0 DEF Tokens
    <3> QED
      BY <1>0, <3>1, <3>2, <3>3
  <2> QED
    BY <1>2, <2>1, <2>2, ClientPane
<1>3. ASSUME UNCHANGED drainVars
      PROVE  \A e \in Drainers : dpc'[e] = "flushed" /\ dpc[e] # "flushed" => Item(e) # i
  BY <1>3 DEF drainVars
<1>4. ASSUME NEW d \in Drainers, DrainStep(d)
      PROVE  /\ typed'[i] <= typed[i]
             /\ \A e \in Drainers : dpc'[e] = "flushed" /\ dpc[e] # "flushed" => Item(e) # i
  BY <1>1, <1>4, DrainKeepsPromise, DrainAlone DEF DrainerSame
<1>5. CASE Elsewhere
  <2>1. typed'[i] <= typed[i]
    BY <1>0, <1>5 DEF Elsewhere
  <2>2. \A e \in Drainers : dpc'[e] = "flushed" => dpc[e] = "flushed"
    BY <1>5, ElsewhereDrainers DEF DrainerSame
  <2> QED
    BY <2>1, <2>2
<1> QED
  BY <1>2, <1>3, <1>4, <1>5, NextCases

\* CancelKeepsItsPromise: once cancel has answered that the item waits, is set aside or is not there
\* yet, no drain types the item or presses Enter on it, whatever the interleaving of the unlocked
\* looks with drains, crashes and other clients.
THEOREM CancelHolds == Spec => CancelKeepsItsPromise
<1>1. Init => CancelInv
  BY InitHand DEF CancelInv, CancelHand, Promising
<1>2. QueueInv /\ HandDocInv /\ CancelInv /\ [Next]_vars => CancelInv'
  BY NextCancel
<1>3. QueueInv /\ PaneInv /\ CancelInv /\ [Next]_vars =>
        [\A i \in Items : Promised(i) =>
           /\ typed'[i] <= typed[i]
           /\ \A d \in Drainers : dpc'[d] = "flushed" /\ dpc[d] # "flushed" => Item(d) # i]_vars
  BY NextPromise DEF PromiseKept
<1> QED
  BY <1>1, <1>2, <1>3, HandInvariant, PTL DEF Spec, CancelKeepsItsPromise
=============================================================================
