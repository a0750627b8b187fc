----------------------------- MODULE DrainProofs -----------------------------
(***************************************************************************)
(* Every step of a drain keeps QueueInv, the inductive invariant of the    *)
(* prompt queue, whatever the queue and the number of processes: one proof *)
(* step per action, each reduced to what the action does to the files, to  *)
(* the drainer's own state and to the lock.                                *)
(***************************************************************************)
EXTENDS PromptQueueInv, TLAPS

FileType == file \in [Path -> Doc \cup {NoFile}]

\* atomic_json over an existing document moves nothing.
LEMMA WriteKeeps ==
  ASSUME FileType, NoFile \notin Doc,
         NEW path \in Path, NEW doc \in Doc,
         Exists(path), Write(path, doc)
  PROVE  FileType' /\ \A q \in Path : Exists(q)' <=> Exists(q)
  BY DEF FileType, Write, Exists

\* transition takes the document from its source to its destination and moves nothing else.
LEMMA RenameMoves ==
  ASSUME FileType,
         NEW src \in Path, NEW dst \in Path, Rename(src, dst)
  PROVE  /\ FileType'
         /\ Exists(src) /\ ~Exists(dst)
         /\ \A q \in Path : Exists(q)' <=> (q = dst \/ (Exists(q) /\ q # src))
  BY DEF FileType, Rename, Exists

\* The document enqueue writes is well formed.
LEMMA NewDocType == NewDoc \in Doc
  BY QueueAssumption DEF QueueAssumption, NewDoc, Doc, Lanes

\* Leaving inflight/ keeps a document well formed.
LEMMA StrippedType == ASSUME NEW doc \in Doc PROVE Stripped(doc) \in Doc
  BY DEF Stripped, Doc, Lanes

\* Every outcome leaves a well-formed document.
LEMMA SettledType ==
  ASSUME NEW doc \in Doc, NEW out \in Outcome
  PROVE  Settled(doc, out) \in Doc
<1> DEFINE left == Stripped(doc)
<1>1. left \in Doc
  BY StrippedType
<1> HIDE DEF left
<1>2. /\ UpTo(MaxLostPastePasses, left.passes + 1) \in 0..MaxLostPastePasses
      /\ UpTo(MaxMisroutes, left.misroutes + 1) \in 0..MaxMisroutes
  <2>1. left.passes + 1 \in Nat /\ left.misroutes + 1 \in Nat
    BY <1>1, QueueAssumption DEF QueueAssumption, Doc
  <2> QED
    BY <2>1, QueueAssumption DEF QueueAssumption, UpTo
<1> DEFINE p == UpTo(MaxLostPastePasses, left.passes + 1)
           m == UpTo(MaxMisroutes, left.misroutes + 1)
<1>3. [left EXCEPT !.refused = TRUE] \in Doc /\ [left EXCEPT !.refused = FALSE] \in Doc
  BY <1>1 DEF Doc
<1>4. [left EXCEPT !.refused = FALSE, !.stranded = TRUE, !.passes = p] \in Doc
  <2> HIDE DEF p
  <2> QED BY <1>1, <1>2 DEF p, Doc
<1>5. ASSUME NEW n \in Nat
      PROVE  [left EXCEPT !.refused = FALSE, !.misroutes = m, !.attempts = n] \in Doc
  BY <1>1, <1>2 DEF Doc
<1>6. ASSUME NEW n \in Nat
      PROVE  [left EXCEPT !.refused = FALSE, !.attempts = n] \in Doc
  BY <1>1 DEF Doc
<1>7. left.attempts \in Nat /\ left.attempts + 1 \in Nat
  BY <1>1 DEF Doc
<1> QED
  BY <1>1, <1>3, <1>4, <1>5, <1>6, <1>7 DEF Settled, left

\* A drainer with no item in hand still names a pending path.
LEMMA NoPathType == NoPath \in Lanes \X Items
  BY QueueAssumption DEF QueueAssumption, NoPath, Lanes

-----------------------------------------------------------------------------
(***************************************************************************)
(* What a step does to the files: nothing comes or goes, or one document   *)
(* moves from one phase to another.                                        *)
(***************************************************************************)
SameFiles == \A q \in Path : Exists(q)' <=> Exists(q)

Moved(i, p, r) ==
  /\ Exists(<<p, i>>)
  /\ ~Exists(<<r, i>>)
  /\ \A q \in Path : Exists(q)' <=> (q = <<r, i>> \/ (Exists(q) /\ q # <<p, i>>))

\* A step after which the same paths exist keeps one phase per identifier.
LEMMA SameOnePhase ==
  ASSUME OnePhase, SameFiles, UNCHANGED live
  PROVE  OnePhase' /\ \A i \in Items : Present(i)' <=> Present(i)
<1>1. \A i \in Items : \A p \in Phases : Exists(<<p, i>>)' <=> Exists(<<p, i>>)
  BY DEF SameFiles, Path
<1> QED
  BY <1>1 DEF OnePhase, Present

\* So does a step that moves one document between two phases.
LEMMA MovedOnePhase ==
  ASSUME OnePhase, UNCHANGED live,
         NEW i \in Items, NEW p \in Phases, NEW r \in Phases, Moved(i, p, r)
  PROVE  OnePhase' /\ \A j \in Items : Present(j)' <=> Present(j)
<1>1. \A j \in Items : \A t \in Phases :
        Exists(<<t, j>>)' <=> (j = i /\ t = r) \/ (Exists(<<t, j>>) /\ ~(j = i /\ t = p))
  BY DEF Moved, Path
<1>2. \A t \in Phases : Exists(<<t, i>>) => t = p
  BY DEF Moved, OnePhase
<1>3. \A t \in Phases : Exists(<<t, i>>)' <=> t = r
  BY <1>1, <1>2
<1>4. \A j \in Items \ {i} : \A t \in Phases : Exists(<<t, j>>)' <=> Exists(<<t, j>>)
  BY <1>1
<1>5. \A j \in Items : Present(j)' <=> Present(j)
  BY <1>3, <1>4 DEF Present, Moved
<1> QED
  BY <1>3, <1>4, <1>5 DEF OnePhase

\* The files after a drain step.
FileEffect ==
  /\ FileType'
  /\ \/ SameFiles
     \/ \E i \in Items : \E p, r \in Phases : Moved(i, p, r)

\* A step of drainer d touches no client and no other drainer, and keeps or frees the lock.
DrainFrame(d) ==
  /\ dpc[d] # "idle"
  /\ UNCHANGED clientVars
  /\ \A e \in Drainers \ {d} :
       /\ dpc'[e] = dpc[e]
       /\ dpath'[e] = dpath[e]
       /\ dat'[e] = dat[e]
       /\ todo'[e] = todo[e]
       /\ recovered'[e] = recovered[e]
  /\ lock' = lock \/ (lock' = Nobody /\ dpc'[d] = "idle")

\* A drain step keeps QueueInv when it keeps the types and what its own drainer relies on.
LEMMA DrainKeeps ==
  ASSUME QueueInv, NEW d \in Drainers, DrainFrame(d), FileEffect, TypeOK', DrainHand(d)'
  PROVE  QueueInv'
<1>1. lock = d
  BY DEF QueueInv, LockInv, DrainFrame
<1>2. UNCHANGED <<live, cpc, citem, used>>
  BY DEF DrainFrame, clientVars
<1>3. OnePhase' /\ \A i \in Items : Present(i)' <=> Present(i)
  BY <1>2, SameOnePhase, MovedOnePhase DEF FileEffect, QueueInv
<1>4. \A c \in Clients : ~ClientLocked(c) /\ c # d
  BY <1>1, SystemAssumption DEF QueueInv, LockInv, SystemAssumption
<1>5. \A e \in Drainers \ {d} : dpc[e] = "idle" /\ dpc'[e] = "idle"
  BY <1>1 DEF QueueInv, LockInv, DrainFrame
<1>6. LockInv'
  BY <1>1, <1>2, <1>4, <1>5 DEF LockInv, ClientLocked, DrainFrame
<1>7. EnqueueInv'
  BY <1>2, <1>3, ClientAssumption
    DEF QueueInv, EnqueueInv, Enqueuing, TypeOK, ClientTypeOK, ClientAssumption
<1>8. ClientHandInv'
  BY <1>2, <1>4 DEF ClientHandInv, ClientLocked
<1>9. ASSUME NEW e \in Drainers \ {d} PROVE DrainHand(e)'
  <2>1. todo'[e] = {} /\ recovered'[e] = {}
    BY <1>5 DEF QueueInv, DrainHandInv, DrainHand, DrainFrame
  <2> QED
    BY <1>5, <2>1 DEF DrainHand, InHandAtPath, InHandInflight, InHandAside, Recovering
<1>10. DrainHandInv'
  BY <1>9 DEF DrainHandInv
<1> QED
  BY <1>3, <1>6, <1>7, <1>8, <1>10 DEF QueueInv

\* A step that touches no file, as a file effect.
LEMMA SameFileEffect ==
  ASSUME QueueInv, UNCHANGED file PROVE FileEffect
  BY DEF QueueInv, TypeOK, FileEffect, FileType, SameFiles, Exists

\* A write over an existing document, as a file effect.
LEMMA WriteEffect ==
  ASSUME QueueInv, NEW path \in Path, NEW doc \in Doc, Exists(path), Write(path, doc)
  PROVE  FileEffect /\ SameFiles
  BY WriteKeeps, SystemAssumption
     DEF QueueInv, TypeOK, FileEffect, FileType, SameFiles, SystemAssumption

\* A rename between two phases, as a file effect.
LEMMA MoveEffect ==
  ASSUME QueueInv, NEW i \in Items, NEW p \in Phases, NEW r \in Phases,
         Rename(<<p, i>>, <<r, i>>)
  PROVE  FileEffect /\ Moved(i, p, r)
<1>1. <<p, i>> \in Path /\ <<r, i>> \in Path
  BY DEF Path
<1>2. FileType
  BY DEF QueueInv, TypeOK, FileType
<1> QED
  BY <1>1, <1>2, RenameMoves DEF FileEffect, Moved

\* What the types say of the item a drainer has in hand.
LEMMA DrainTypes ==
  ASSUME QueueInv, NEW d \in Drainers
  PROVE  /\ Item(d) \in Items
         /\ dpath[d] = <<dpath[d][1], Item(d)>>
         /\ dpath[d][1] \in Lanes
         /\ dpath[d] \in Path /\ dat[d] \in Path /\ Inflight(Item(d)) \in Path
         /\ todo[d] \subseteq Path /\ \A x : <<"inflight", x>> \notin todo[d]
         /\ recovered[d] \subseteq Items
         /\ ddoc[d] \in Doc /\ dout[d] \in Outcome
  BY DEF QueueInv, TypeOK, DrainTypeOK, Item, Inflight, Path, Phases, Lanes

\* A move leaves its document at its destination, and takes away no other.
LEMMA MovedFacts ==
  ASSUME QueueInv, NEW d \in Drainers, NEW i \in Items, NEW p \in Phases, NEW r \in Phases,
         Moved(i, p, r), <<p, i>> \notin todo[d]
  PROVE  /\ Exists(<<r, i>>)'
         /\ \A q \in todo[d] : Exists(q)'
         /\ \A j \in recovered[d] :
              (Exists(<<"failed", j>>) /\ j # i) \/ (p # "failed" /\ Exists(<<"failed", j>>))
                => Exists(<<"failed", j>>)'
<1>1. \A q \in Path : Exists(q)' <=> (q = <<r, i>> \/ (Exists(q) /\ q # <<p, i>>))
  BY DEF Moved
<1>2. <<r, i>> \in Path /\ \A j \in recovered[d] : <<"failed", j>> \in Path
  BY DrainTypes DEF Path, Phases
<1>3. \A q \in todo[d] : q \in Path /\ Exists(q) /\ q # <<p, i>>
  BY DrainTypes DEF QueueInv, DrainHandInv, DrainHand
<1> HIDE DEF Exists
<1>4. \A j \in recovered[d] : j # i \/ p # "failed" => <<"failed", j>> # <<p, i>>
  OBVIOUS
<1> QED
  BY <1>1, <1>2, <1>3, <1>4

\* A document past the barrier is well typed.
LEMMA StampType ==
  ASSUME NEW doc \in Doc, NEW lane \in Lanes
  PROVE  /\ [doc EXCEPT !.tracked = TRUE, !.from = lane, !.pasted = FALSE] \in Doc
         /\ [doc EXCEPT !.stranded = TRUE] \in Doc
  BY DEF Doc, Lanes

\* A drain that returns or dies leaves well-typed state and relies on nothing any more.
LEMMA DrainEndsKeeps ==
  ASSUME QueueInv, NEW d \in Drainers, dpc[d] # "idle", DrainEnds(d), FileEffect,
         UNCHANGED <<tomb, sidecar, expired, paneVars, clientVars>>, crashes' \in 0..MaxCrashes
  PROVE  QueueInv'
<1>1. DrainFrame(d)
  BY DEF DrainFrame, DrainEnds, QueueInv, TypeOK, DrainTypeOK, clientVars
<1>2. DrainTypeOK'
  BY NewDocType, NoPathType, DrainAssumption
     DEF DrainAssumption, DrainEnds, QueueInv, TypeOK, DrainTypeOK, DrainPc, Outcome, Path, Phases
<1>3. TypeOK'
  BY <1>2 DEF DrainEnds, FileEffect, FileType, QueueInv, TypeOK, PaneTypeOK, ClientTypeOK,
     paneVars, clientVars
<1>4. DrainHand(d)'
  BY DEF DrainEnds, DrainHand, InHandAtPath, InHandInflight, InHandAside, Recovering, QueueInv,
     TypeOK, DrainTypeOK
<1> QED
  BY <1>1, <1>3, <1>4, DrainKeeps

\* A submission that ends with an outcome relies on the inflight document and on nothing new.
LEMMA ConcludesKeeps ==
  ASSUME QueueInv, NEW d \in Drainers, NEW from \in InHandInflight, NEW out \in Outcome,
         Concludes(d, from, out), PaneTypeOK', UNCHANGED <<clientVars, crashes>>
  PROVE  QueueInv'
<1>1. DrainFrame(d) /\ UNCHANGED file
  BY DEF Concludes, Step, DrainFrame, queueVars, QueueInv, TypeOK, DrainTypeOK, InHandInflight
<1>2. DrainTypeOK'
  BY DEF Concludes, Step, QueueInv, TypeOK, DrainTypeOK, DrainPc
<1>3. TypeOK'
  BY <1>2 DEF Concludes, QueueInv, TypeOK, ClientTypeOK, queueVars, clientVars
<1>4. DrainHand(d)'
  BY <1>1 DEF Concludes, Step, Item, Inflight, QueueInv, TypeOK, DrainTypeOK, DrainHandInv,
     DrainHand, Exists, InHandAtPath, InHandInflight, InHandAside, Recovering
<1> QED
  BY <1>1, <1>3, <1>4, SameFileEffect, DrainKeeps

(***************************************************************************)
(* One step per action of the drain.                                       *)
(***************************************************************************)

\* Every step of a drain keeps QueueInv.
LEMMA DrainStepKeeps ==
  ASSUME QueueInv, NEW d \in Drainers, DrainStep(d), UNCHANGED <<clientVars, crashes>>
  PROVE  QueueInv'
<1>1. ASSUME NEW i \in Items, RependStranded(d, i) PROVE QueueInv'
  <2>1. DrainFrame(d)
    BY <1>1 DEF RependStranded, Step, DrainFrame, QueueInv, TypeOK, DrainTypeOK, MaybeTyped
  <2>2. Inflight(i) \in Path /\ Exists(Inflight(i))
    BY <1>1, DrainTypes DEF RependStranded, Step, QueueInv, DrainHandInv, DrainHand, InHandAtPath,
       InHandInflight, InHandAside, Recovering, Inflight, Path, Phases, MaybeTyped
  <2>3. [Stripped(file[Inflight(i)]) EXCEPT !.stranded = TRUE] \in Doc
    BY <2>2, StrippedType, StampType DEF QueueInv, TypeOK, Exists, Lanes
  <2>4. FileEffect /\ SameFiles
    BY <1>1, <2>2, <2>3, WriteEffect DEF RependStranded
  <2>5. TypeOK'
    BY <1>1, <2>3, <2>4, DrainTypes DEF RependStranded, Step, Item, Inflight, Path, Phases,
       FileEffect, FileType, QueueInv, TypeOK, PaneTypeOK, ClientTypeOK,
       DrainTypeOK, DrainPc, Outcome, queueVars, paneVars, clientVars, MaybeTyped
  <2>6. DrainHand(d)'
    BY <1>1, <2>2, <2>4, DrainTypes DEF SameFiles, RependStranded, Step, Item, Inflight,
       QueueInv, TypeOK,
       DrainTypeOK, DrainHandInv, DrainHand, InHandAtPath, InHandInflight, InHandAside,
          Recovering, Path, Phases, MaybeTyped
  <2> QED
    BY <2>1, <2>4, <2>5, <2>6, DrainKeeps
<1>2. CASE RependMove(d)
  <2>1. PICK it \in Items, src \in Phases, dst \in Phases :
          it = Item(d) /\ src = "inflight" /\ dst = dpath[d][1]
    BY <1>2, DrainTypes DEF RependMove, Phases
  <2>2. Rename(<<src, it>>, <<dst, it>>)
    BY <1>2, <2>1, DrainTypes DEF RependMove, Inflight
  <2>3. FileEffect /\ Moved(it, src, dst)
    BY <2>1, <2>2, MoveEffect
  <2>4. DrainFrame(d)
    BY <1>2 DEF RependMove, Step, DrainFrame, QueueInv, TypeOK, DrainTypeOK
  <2>5. TypeOK'
    BY <1>2, <2>3, DrainTypes, NewDocType, NoPathType DEF RependMove, Step, Item, Inflight,
       Path, Phases, Lanes, FileEffect, FileType, QueueInv, TypeOK, PaneTypeOK, ClientTypeOK,
       DrainTypeOK, DrainPc, Outcome, queueVars, paneVars, clientVars
  <2>6. <<src, it>> \notin todo[d]
    BY <2>1, DrainTypes
  <2>7. /\ Exists(<<dst, it>>)'
        /\ \A q \in todo[d] : Exists(q)'
        /\ \A j \in recovered[d] :
             (Exists(<<"failed", j>>) /\ j # it) \/ (src # "failed" /\ Exists(<<"failed", j>>))
               => Exists(<<"failed", j>>)'
    BY <2>3, <2>6, MovedFacts
  <2>8. DrainHand(d)'
    BY <1>2, <2>1, <2>7, DrainTypes DEF RependMove, Step, Item, Inflight, QueueInv, TypeOK,
       DrainTypeOK, DrainHandInv, DrainHand, InHandAtPath, InHandInflight, InHandAside, Recovering
  <2> QED
    BY <2>3, <2>4, <2>5, <2>8, DrainKeeps
<1>3. CASE RependDone(d)
  <2>1. DrainFrame(d) /\ UNCHANGED file
    BY <1>3 DEF RependDone, Step, DrainFrame, queueVars, QueueInv, TypeOK, DrainTypeOK
  <2>2. TypeOK'
    BY <1>3, NewDocType, NoPathType DEF RependDone, Step, Item, Inflight, Path, Phases,
       QueueInv, TypeOK, PaneTypeOK, ClientTypeOK,
       DrainTypeOK, DrainPc, Outcome, queueVars, paneVars, clientVars
  <2>3. DrainHand(d)'
    BY <1>3, <2>1 DEF RependDone, Step, Item, Inflight, QueueInv, TypeOK, DrainTypeOK,
       DrainHandInv, DrainHand, Exists, InHandAtPath, InHandInflight, InHandAside, Recovering
  <2> QED
    BY <2>1, <2>2, <2>3, SameFileEffect, DrainKeeps
<1>4. ASSUME NEW i \in Items, RecoverNeverTyped(d, i) PROVE QueueInv'
  <2>1. DrainFrame(d)
    BY <1>4 DEF RecoverNeverTyped, Step, DrainFrame, QueueInv, TypeOK, DrainTypeOK, NeverTyped
  <2>2. Inflight(i) \in Path /\ Exists(Inflight(i))
    BY <1>4, DrainTypes DEF RecoverNeverTyped, Step, QueueInv, DrainHandInv, DrainHand,
       InHandAtPath,
       InHandInflight, InHandAside, Recovering, Inflight, Path, Phases, NeverTyped
  <2>3. Stripped(file[Inflight(i)]) \in Doc
    BY <2>2, StrippedType DEF QueueInv, TypeOK, Exists
  <2>4. FileEffect /\ SameFiles
    BY <1>4, <2>2, <2>3, WriteEffect DEF RecoverNeverTyped
  <2>5. TypeOK'
    BY <1>4, <2>3, <2>4, DrainTypes DEF RecoverNeverTyped, Step, Item, Inflight, Path,
       Phases, FileEffect, FileType, QueueInv, TypeOK, PaneTypeOK, ClientTypeOK,
       DrainTypeOK, DrainPc, Outcome, queueVars, paneVars, clientVars, NeverTyped
  <2>6. DrainHand(d)'
    BY <1>4, <2>2, <2>4, DrainTypes DEF SameFiles, RecoverNeverTyped, Step, Item, Inflight,
       QueueInv, TypeOK,
       DrainTypeOK, DrainHandInv, DrainHand, InHandAtPath, InHandInflight, InHandAside,
          Recovering, Path, Phases, NeverTyped
  <2> QED
    BY <2>1, <2>4, <2>5, <2>6, DrainKeeps
<1>5. CASE RecoverMove(d)
  <2>1. PICK it \in Items, src \in Phases, dst \in Phases :
          it = Item(d) /\ src = "inflight" /\ dst = dpath[d][1]
    BY <1>5, DrainTypes DEF RecoverMove, Phases
  <2>2. Rename(<<src, it>>, <<dst, it>>)
    BY <1>5, <2>1, DrainTypes DEF RecoverMove, Inflight
  <2>3. FileEffect /\ Moved(it, src, dst)
    BY <2>1, <2>2, MoveEffect
  <2>4. DrainFrame(d)
    BY <1>5 DEF RecoverMove, Step, DrainFrame, QueueInv, TypeOK, DrainTypeOK
  <2>5. TypeOK'
    BY <1>5, <2>3, DrainTypes, NewDocType, NoPathType DEF RecoverMove, Step, Item, Inflight,
       Path, Phases, Lanes, FileEffect, FileType, QueueInv, TypeOK, PaneTypeOK, ClientTypeOK,
       DrainTypeOK, DrainPc, Outcome, queueVars, paneVars, clientVars
  <2>6. <<src, it>> \notin todo[d]
    BY <2>1, DrainTypes
  <2>7. /\ Exists(<<dst, it>>)'
        /\ \A q \in todo[d] : Exists(q)'
        /\ \A j \in recovered[d] :
             (Exists(<<"failed", j>>) /\ j # it) \/ (src # "failed" /\ Exists(<<"failed", j>>))
               => Exists(<<"failed", j>>)'
    BY <2>3, <2>6, MovedFacts
  <2>8. DrainHand(d)'
    BY <1>5, <2>1, <2>7, DrainTypes DEF RecoverMove, Step, Item, Inflight, QueueInv, TypeOK,
       DrainTypeOK, DrainHandInv, DrainHand, InHandAtPath, InHandInflight, InHandAside, Recovering
  <2> QED
    BY <2>3, <2>4, <2>5, <2>8, DrainKeeps
<1>6. ASSUME NEW i \in Items, RecoverQuarantine(d, i) PROVE QueueInv'
  <2>1. PICK it \in Items, src \in Phases, dst \in Phases :
          it = i /\ src = "inflight" /\ dst = "failed"
    BY <1>6, DrainTypes DEF RecoverQuarantine, Phases
  <2>2. Rename(<<src, it>>, <<dst, it>>)
    BY <1>6, <2>1, DrainTypes DEF RecoverQuarantine, Inflight
  <2>3. FileEffect /\ Moved(it, src, dst)
    BY <2>1, <2>2, MoveEffect
  <2>4. DrainFrame(d)
    BY <1>6 DEF RecoverQuarantine, Step, DrainFrame, QueueInv, TypeOK, DrainTypeOK
  <2>5. TypeOK'
    BY <1>6, <2>3, DrainTypes, NewDocType, NoPathType DEF RecoverQuarantine, Step, Item,
       Inflight, Path, Phases, Lanes, FileEffect, FileType, QueueInv, TypeOK, PaneTypeOK,
       ClientTypeOK,
       DrainTypeOK, DrainPc, Outcome, queueVars, paneVars, clientVars
  <2>6. <<src, it>> \notin todo[d]
    BY <2>1, DrainTypes
  <2>7. /\ Exists(<<dst, it>>)'
        /\ \A q \in todo[d] : Exists(q)'
        /\ \A j \in recovered[d] :
             (Exists(<<"failed", j>>) /\ j # it) \/ (src # "failed" /\ Exists(<<"failed", j>>))
               => Exists(<<"failed", j>>)'
    BY <2>3, <2>6, MovedFacts
  <2>8. DrainHand(d)'
    BY <1>6, <2>1, <2>7, DrainTypes DEF RecoverQuarantine, Step, Item, Inflight, QueueInv, TypeOK,
       DrainTypeOK, DrainHandInv, DrainHand, InHandAtPath, InHandInflight, InHandAside, Recovering
  <2> QED
    BY <2>3, <2>4, <2>5, <2>8, DrainKeeps
<1>7. CASE RecoverSidecar(d)
  <2>1. DrainFrame(d) /\ UNCHANGED file
    BY <1>7 DEF RecoverSidecar, Step, DrainFrame, queueVars, QueueInv, TypeOK, DrainTypeOK
  <2>2. TypeOK'
    BY <1>7, NewDocType, NoPathType DEF RecoverSidecar, Step, Item, Inflight, Path, Phases,
       QueueInv, TypeOK, PaneTypeOK, ClientTypeOK,
       DrainTypeOK, DrainPc, Outcome, queueVars, paneVars, clientVars
  <2>3. DrainHand(d)'
    BY <1>7, <2>1 DEF RecoverSidecar, Step, Item, Inflight, QueueInv, TypeOK, DrainTypeOK,
       DrainHandInv, DrainHand, Exists, InHandAtPath, InHandInflight, InHandAside, Recovering
  <2> QED
    BY <2>1, <2>2, <2>3, SameFileEffect, DrainKeeps
<1>8. CASE RecoverDone(d)
  <2>1. DrainFrame(d) /\ UNCHANGED file
    BY <1>8 DEF RecoverDone, Step, DrainFrame, queueVars, QueueInv, TypeOK, DrainTypeOK
  <2>2. TypeOK'
    BY <1>8, NewDocType, NoPathType DEF RecoverDone, Step, Item, Inflight, Path, Phases,
       QueueInv, TypeOK, PaneTypeOK, ClientTypeOK,
       DrainTypeOK, DrainPc, Outcome, queueVars, paneVars, clientVars
  <2>3. DrainHand(d)'
    BY <1>8, <2>1 DEF RecoverDone, Step, Item, Inflight, QueueInv, TypeOK, DrainTypeOK,
       DrainHandInv, DrainHand, Exists, InHandAtPath, InHandInflight, InHandAside, Recovering
  <2> QED
    BY <2>1, <2>2, <2>3, SameFileEffect, DrainKeeps
<1>9. ASSUME NEW i \in Items, DigestAside(d, i) PROVE QueueInv'
  <2>1. PICK it \in Items, src \in Phases, dst \in Phases :
          it = i /\ src = "failed" /\ dst = "cancelled"
    BY <1>9, DrainTypes DEF DigestAside, Phases
  <2>2. Rename(<<src, it>>, <<dst, it>>)
    BY <1>9, <2>1, DrainTypes DEF DigestAside, Inflight
  <2>3. FileEffect /\ Moved(it, src, dst)
    BY <2>1, <2>2, MoveEffect
  <2>4. DrainFrame(d)
    BY <1>9 DEF DigestAside, Step, DrainFrame, QueueInv, TypeOK, DrainTypeOK
  <2>5. TypeOK'
    BY <1>9, <2>3, DrainTypes, NewDocType, NoPathType DEF DigestAside, Step, Item, Inflight,
       Path, Phases, Lanes, FileEffect, FileType, QueueInv, TypeOK, PaneTypeOK, ClientTypeOK,
       DrainTypeOK, DrainPc, Outcome, queueVars, paneVars, clientVars
  <2>6. <<src, it>> \notin todo[d]
    BY <1>9, <2>1, DrainTypes DEF DigestAside, Step, QueueInv, DrainHandInv, DrainHand, Recovering
  <2>7. /\ Exists(<<dst, it>>)'
        /\ \A q \in todo[d] : Exists(q)'
        /\ \A j \in recovered[d] :
             (Exists(<<"failed", j>>) /\ j # it) \/ (src # "failed" /\ Exists(<<"failed", j>>))
               => Exists(<<"failed", j>>)'
    BY <2>3, <2>6, MovedFacts
  <2>8. DrainHand(d)'
    BY <1>9, <2>1, <2>7, DrainTypes DEF DigestAside, Step, Item, Inflight, QueueInv, TypeOK,
       DrainTypeOK, DrainHandInv, DrainHand, InHandAtPath, InHandInflight, InHandAside, Recovering
  <2> QED
    BY <2>3, <2>4, <2>5, <2>8, DrainKeeps
<1>10. CASE DigestSidecar(d)
  <2>1. DrainFrame(d) /\ UNCHANGED file
    BY <1>10 DEF DigestSidecar, Step, DrainFrame, queueVars, QueueInv, TypeOK, DrainTypeOK
  <2>2. TypeOK'
    BY <1>10, NewDocType, NoPathType DEF DigestSidecar, Step, Item, Inflight, Path, Phases,
       QueueInv, TypeOK, PaneTypeOK, ClientTypeOK,
       DrainTypeOK, DrainPc, Outcome, queueVars, paneVars, clientVars
  <2>3. DrainHand(d)'
    BY <1>10, <2>1 DEF DigestSidecar, Step, Item, Inflight, QueueInv, TypeOK, DrainTypeOK,
       DrainHandInv, DrainHand, Exists, InHandAtPath, InHandInflight, InHandAside, Recovering
  <2> QED
    BY <2>1, <2>2, <2>3, SameFileEffect, DrainKeeps
<1>11. CASE DrainSnapshot(d)
  <2> DEFINE pending == {p \in Lanes \X Items : Exists(p)}
  <2>1. PICK chosen \in SUBSET pending :
          /\ todo' = [todo EXCEPT ![d] = chosen]
          /\ snapshot' = [snapshot EXCEPT ![d] = chosen]
    BY <1>11 DEF DrainSnapshot
  <2>2. chosen \subseteq Lanes \X Items /\ \A q \in chosen : Exists(q)
    BY <2>1
  <2>3. DrainFrame(d) /\ UNCHANGED file
    BY <1>11, <2>1 DEF DrainSnapshot, Step, DrainFrame, queueVars, QueueInv, TypeOK, DrainTypeOK
  <2>4. TypeOK'
    BY <1>11, <2>1, <2>2 DEF DrainSnapshot, Step, queueVars, paneVars, clientVars, QueueInv, TypeOK,
       PaneTypeOK, ClientTypeOK, DrainTypeOK, DrainPc
  <2>5. todo'[d] = chosen /\ dpc'[d] = "next"
    BY <1>11, <2>1 DEF DrainSnapshot, Step, QueueInv, TypeOK, DrainTypeOK
  <2>6. DrainHand(d)'
    BY <2>2, <2>3, <2>5 DEF DrainHand, Exists, InHandAtPath, InHandInflight, InHandAside, Recovering
  <2> QED
    BY <2>3, <2>4, <2>6, SameFileEffect, DrainKeeps
<1>12. CASE DrainPick(d)
  <2>1. PICK p \in todo[d] :
          /\ dpath' = [dpath EXCEPT ![d] = p]
          /\ todo' = [todo EXCEPT ![d] = todo[d] \ {p}]
    BY <1>12 DEF DrainPick
  <2>2. DrainFrame(d) /\ UNCHANGED file
    BY <1>12, <2>1 DEF DrainPick, Step, DrainFrame, queueVars, QueueInv, TypeOK, DrainTypeOK
  <2>3. p \in Lanes \X Items /\ Exists(p)
    BY DEF QueueInv, TypeOK, DrainTypeOK, DrainHandInv, DrainHand
  <2>4. DrainTypeOK'
    BY <1>12, <2>1, <2>3, DrainAssumption DEF DrainPick, Step, QueueInv, TypeOK,
       DrainTypeOK, DrainPc,
       DrainAssumption
  <2>5. TypeOK'
    BY <1>12, <2>4 DEF DrainPick, queueVars, paneVars, clientVars, QueueInv, TypeOK, PaneTypeOK,
       ClientTypeOK
  <2>6. todo'[d] = todo[d] \ {p} /\ dpath'[d] = p /\ dpc'[d] = "load"
    BY <1>12, <2>1 DEF DrainPick, Step, QueueInv, TypeOK, DrainTypeOK
  <2>7. DrainHand(d)'
    BY <2>2, <2>3, <2>6 DEF QueueInv, DrainHandInv, DrainHand, Exists, InHandAtPath,
       InHandInflight, InHandAside, Recovering
  <2> QED
    BY <2>2, <2>5, <2>7, SameFileEffect, DrainKeeps
<1>13. CASE DrainFinish(d)
  <2>1. FileEffect
    BY <1>13, SameFileEffect DEF DrainFinish
  <2> QED
    BY <1>13, <2>1, DrainEndsKeeps DEF DrainFinish, QueueInv, TypeOK
<1>14. CASE DrainStops(d)
  <2>1. FileEffect
    BY <1>14, SameFileEffect DEF DrainStops
  <2> QED
    BY <1>14, <2>1, DrainEndsKeeps DEF DrainStops, QueueInv, TypeOK
<1>15. CASE DrainInvalid(d)
  <2>1. PICK it \in Items, src \in Phases, dst \in Phases :
          it = Item(d) /\ src = dpath[d][1] /\ dst = "failed"
    BY <1>15, DrainTypes DEF DrainInvalid, Phases
  <2>2. Rename(<<src, it>>, <<dst, it>>)
    BY <1>15, <2>1, DrainTypes DEF DrainInvalid, Inflight
  <2>3. FileEffect /\ Moved(it, src, dst)
    BY <2>1, <2>2, MoveEffect
  <2>4. DrainFrame(d)
    BY <1>15 DEF DrainInvalid, Step, DrainFrame, QueueInv, TypeOK, DrainTypeOK
  <2>5. TypeOK'
    BY <1>15, <2>3, DrainTypes, NewDocType, NoPathType DEF DrainInvalid, Step, Item,
       Inflight, Path, Phases, Lanes, FileEffect, FileType, QueueInv, TypeOK, PaneTypeOK,
       ClientTypeOK,
       DrainTypeOK, DrainPc, Outcome, queueVars, paneVars, clientVars
  <2>6. <<src, it>> \notin todo[d]
    BY <1>15, <2>1, DrainTypes DEF DrainInvalid, Step, QueueInv, DrainHandInv, DrainHand, Recovering
  <2>7. /\ Exists(<<dst, it>>)'
        /\ \A q \in todo[d] : Exists(q)'
        /\ \A j \in recovered[d] :
             (Exists(<<"failed", j>>) /\ j # it) \/ (src # "failed" /\ Exists(<<"failed", j>>))
               => Exists(<<"failed", j>>)'
    BY <2>3, <2>6, MovedFacts
  <2>8. DrainHand(d)'
    BY <1>15, <2>1, <2>7, DrainTypes DEF DrainInvalid, Step, Item, Inflight, QueueInv, TypeOK,
       DrainTypeOK, DrainHandInv, DrainHand, InHandAtPath, InHandInflight, InHandAside, Recovering
  <2> QED
    BY <2>3, <2>4, <2>5, <2>8, DrainKeeps
<1>16. CASE DrainAside(d)
  <2>1. DrainFrame(d) /\ UNCHANGED file
    BY <1>16 DEF DrainAside, Step, DrainFrame, queueVars, QueueInv, TypeOK, DrainTypeOK,
       SetAsideReason
  <2>2. TypeOK'
    BY <1>16, NewDocType, NoPathType DEF DrainAside, Step, Item, Inflight, Path, Phases,
       QueueInv, TypeOK, PaneTypeOK, ClientTypeOK,
       DrainTypeOK, DrainPc, Outcome, queueVars, paneVars, clientVars, SetAsideReason
  <2>3. DrainHand(d)'
    BY <1>16, <2>1, DrainTypes DEF DrainAside, Step, Item, Inflight, QueueInv, TypeOK, DrainTypeOK,
       DrainHandInv, DrainHand, Exists, InHandAtPath, InHandInflight, InHandAside,
          Recovering, SetAsideReason
  <2> QED
    BY <2>1, <2>2, <2>3, SameFileEffect, DrainKeeps
<1>17. CASE DrainBlocked(d)
  <2> DEFINE doc == file[dpath[d]]
  <2>1. dpath[d] \in Path /\ Exists(dpath[d])
    BY <1>17, DrainTypes DEF DrainBlocked, QueueInv, DrainHandInv, DrainHand, InHandAtPath
  <2>2. PICK untyped \in BOOLEAN : Write(dpath[d], [doc EXCEPT !.refused = untyped])
    BY <1>17 DEF DrainBlocked
  <2>3. [doc EXCEPT !.refused = untyped] \in Doc
    BY <2>1 DEF QueueInv, TypeOK, Exists, Doc
  <2>4. FileEffect
    BY <2>1, <2>2, <2>3, WriteEffect
  <2> QED
    BY <1>17, <2>4, DrainEndsKeeps DEF DrainBlocked, QueueInv, TypeOK
<1>18. CASE DrainReady(d)
  <2>0. file[dpath[d]] \in Doc
    BY <1>18, DrainTypes DEF DrainReady, Step, QueueInv, TypeOK, DrainHandInv, DrainHand,
       InHandAtPath,
       Exists
  <2>1. DrainFrame(d) /\ UNCHANGED file
    BY <1>18 DEF DrainReady, Step, DrainFrame, queueVars, QueueInv, TypeOK, DrainTypeOK
  <2>2. TypeOK'
    BY <1>18, NewDocType, NoPathType, <2>0 DEF DrainReady, Step, Item, Inflight, Path,
       Phases, QueueInv, TypeOK, PaneTypeOK, ClientTypeOK,
       DrainTypeOK, DrainPc, Outcome, queueVars, paneVars, clientVars
  <2>3. DrainHand(d)'
    BY <1>18, <2>1 DEF DrainReady, Step, Item, Inflight, QueueInv, TypeOK, DrainTypeOK,
       DrainHandInv, DrainHand, Exists, InHandAtPath, InHandInflight, InHandAside, Recovering
  <2> QED
    BY <2>1, <2>2, <2>3, SameFileEffect, DrainKeeps
<1>19. CASE DrainBarrier(d)
  <2>1. PICK it \in Items, src \in Phases, dst \in Phases :
          it = Item(d) /\ src = dpath[d][1] /\ dst = "inflight"
    BY <1>19, DrainTypes DEF DrainBarrier, Phases
  <2>2. Rename(<<src, it>>, <<dst, it>>)
    BY <1>19, <2>1, DrainTypes DEF DrainBarrier, Inflight
  <2>3. FileEffect /\ Moved(it, src, dst)
    BY <2>1, <2>2, MoveEffect
  <2>4. DrainFrame(d)
    BY <1>19 DEF DrainBarrier, Step, DrainFrame, QueueInv, TypeOK, DrainTypeOK
  <2>5. TypeOK'
    BY <1>19, <2>3, DrainTypes, NewDocType, NoPathType DEF DrainBarrier, Step, Item,
       Inflight, Path, Phases, Lanes, FileEffect, FileType, QueueInv, TypeOK, PaneTypeOK,
       ClientTypeOK,
       DrainTypeOK, DrainPc, Outcome, queueVars, paneVars, clientVars
  <2>6. <<src, it>> \notin todo[d]
    BY <1>19, <2>1, DrainTypes DEF DrainBarrier, Step, QueueInv, DrainHandInv, DrainHand, Recovering
  <2>7. /\ Exists(<<dst, it>>)'
        /\ \A q \in todo[d] : Exists(q)'
        /\ \A j \in recovered[d] :
             (Exists(<<"failed", j>>) /\ j # it) \/ (src # "failed" /\ Exists(<<"failed", j>>))
               => Exists(<<"failed", j>>)'
    BY <2>3, <2>6, MovedFacts
  <2>8. DrainHand(d)'
    BY <1>19, <2>1, <2>7, DrainTypes DEF DrainBarrier, Step, Item, Inflight, QueueInv, TypeOK,
       DrainTypeOK, DrainHandInv, DrainHand, InHandAtPath, InHandInflight, InHandAside, Recovering
  <2> QED
    BY <2>3, <2>4, <2>5, <2>8, DrainKeeps
<1>20. CASE DrainRecheck(d)
  <2>1. DrainFrame(d) /\ UNCHANGED file
    BY <1>20 DEF DrainRecheck, Step, DrainFrame, queueVars, QueueInv, TypeOK, DrainTypeOK
  <2>2. TypeOK'
    BY <1>20, NewDocType, NoPathType DEF DrainRecheck, Step, Item, Inflight, Path, Phases,
       QueueInv, TypeOK, PaneTypeOK, ClientTypeOK,
       DrainTypeOK, DrainPc, Outcome, queueVars, paneVars, clientVars
  <2>3. DrainHand(d)'
    BY <1>20, <2>1 DEF DrainRecheck, Step, Item, Inflight, QueueInv, TypeOK, DrainTypeOK,
       DrainHandInv, DrainHand, Exists, InHandAtPath, InHandInflight, InHandAside, Recovering
  <2> QED
    BY <2>1, <2>2, <2>3, SameFileEffect, DrainKeeps
<1>21. CASE DrainStamp(d)
  <2>1. DrainFrame(d)
    BY <1>21 DEF DrainStamp, Step, DrainFrame, QueueInv, TypeOK, DrainTypeOK
  <2>2. Inflight(Item(d)) \in Path /\ Exists(Inflight(Item(d)))
    BY <1>21, DrainTypes DEF DrainStamp, Step, QueueInv, DrainHandInv, DrainHand, InHandAtPath,
       InHandInflight, InHandAside, Recovering, Inflight, Path, Phases
  <2>3. [ddoc[d] EXCEPT !.tracked = TRUE, !.from = dpath[d][1], !.pasted = FALSE] \in Doc
    BY DrainTypes, StampType
  <2>4. FileEffect /\ SameFiles
    BY <1>21, <2>2, <2>3, WriteEffect DEF DrainStamp
  <2>5. TypeOK'
    BY <1>21, <2>3, <2>4, DrainTypes DEF DrainStamp, Step, Item, Inflight, Path, Phases,
       FileEffect, FileType, QueueInv, TypeOK, PaneTypeOK, ClientTypeOK,
       DrainTypeOK, DrainPc, Outcome, queueVars, paneVars, clientVars
  <2>6. DrainHand(d)'
    BY <1>21, <2>2, <2>4, DrainTypes DEF SameFiles, DrainStamp, Step, Item, Inflight,
       QueueInv, TypeOK,
       DrainTypeOK, DrainHandInv, DrainHand, InHandAtPath, InHandInflight, InHandAside,
          Recovering, Path, Phases
  <2> QED
    BY <2>1, <2>4, <2>5, <2>6, DrainKeeps
<1>22. CASE AsideWrite(d)
  <2>1. DrainFrame(d)
    BY <1>22 DEF AsideWrite, Step, DrainFrame, QueueInv, TypeOK, DrainTypeOK
  <2>2. dat[d] \in Path /\ Exists(dat[d])
    BY <1>22, DrainTypes DEF AsideWrite, Step, QueueInv, DrainHandInv, DrainHand, InHandAtPath,
       InHandInflight, InHandAside, Recovering, Inflight, Path, Phases
  <2>3. Stripped(file[dat[d]]) \in Doc
    BY <2>2, StrippedType DEF QueueInv, TypeOK, Exists
  <2>4. FileEffect /\ SameFiles
    BY <1>22, <2>2, <2>3, WriteEffect DEF AsideWrite
  <2>5. TypeOK'
    BY <1>22, <2>3, <2>4, DrainTypes DEF AsideWrite, Step, Item, Inflight, Path, Phases,
       FileEffect, FileType, QueueInv, TypeOK, PaneTypeOK, ClientTypeOK,
       DrainTypeOK, DrainPc, Outcome, queueVars, paneVars, clientVars
  <2>6. DrainHand(d)'
    BY <1>22, <2>2, <2>4, DrainTypes DEF SameFiles, AsideWrite, Step, Item, Inflight,
       QueueInv, TypeOK,
       DrainTypeOK, DrainHandInv, DrainHand, InHandAtPath, InHandInflight, InHandAside,
          Recovering, Path, Phases
  <2> QED
    BY <2>1, <2>4, <2>5, <2>6, DrainKeeps
<1>23. CASE AsideMove(d)
  <2>1. PICK p \in Phases : dat[d] = <<p, Item(d)>> /\ p \in Lanes \cup {"inflight"}
    BY <1>23, DrainTypes DEF AsideMove, Step, QueueInv, DrainHandInv, DrainHand,
       InHandAside, Inflight,
       Phases
  <2>2. Item(d) \in Items /\ "cancelled" \in Phases
    BY DrainTypes DEF Phases
  <2>3. FileEffect /\ Moved(Item(d), p, "cancelled")
    BY <1>23, <2>1, <2>2, MoveEffect DEF AsideMove
  <2>4. DrainFrame(d)
    BY <1>23 DEF AsideMove, Step, DrainFrame, QueueInv, TypeOK, DrainTypeOK
  <2>5. TypeOK'
    BY <1>23, <2>3 DEF AsideMove, Step, FileEffect, FileType, QueueInv, TypeOK, PaneTypeOK,
       ClientTypeOK, DrainTypeOK, DrainPc, paneVars, clientVars
  <2>6. <<p, Item(d)>> \notin todo[d]
    BY <1>23, <2>1, DrainTypes DEF AsideMove, Step, QueueInv, TypeOK, DrainTypeOK, DrainHandInv,
       DrainHand, InHandAside, Inflight, Lanes
  <2>7. \A q \in todo[d] : Exists(q)'
    BY <2>1, <2>2, <2>3, <2>6, MovedFacts
  <2>8. DrainHand(d)'
    BY <1>23, <2>7 DEF AsideMove, Step, Item, QueueInv, TypeOK, DrainTypeOK, DrainHandInv,
       DrainHand,
       InHandAtPath, InHandInflight, InHandAside, Recovering
  <2> QED
    BY <2>3, <2>4, <2>5, <2>8, DrainKeeps
<1>24. CASE AsideForget(d)
  <2>1. DrainFrame(d) /\ UNCHANGED file
    BY <1>24 DEF AsideForget, Step, DrainFrame, queueVars, QueueInv, TypeOK, DrainTypeOK,
       PutDown, ConsumeTombstone
  <2>2. TypeOK'
    BY <1>24, NewDocType, NoPathType DEF AsideForget, Step, Item, Inflight, Path, Phases,
       QueueInv, TypeOK, PaneTypeOK, ClientTypeOK,
       DrainTypeOK, DrainPc, Outcome, queueVars, paneVars, clientVars, PutDown, ConsumeTombstone
  <2>3. DrainHand(d)'
    BY <1>24, <2>1 DEF AsideForget, Step, Item, Inflight, QueueInv, TypeOK, DrainTypeOK,
       DrainHandInv, DrainHand, Exists, InHandAtPath, InHandInflight, InHandAside,
          Recovering, PutDown, ConsumeTombstone
  <2> QED
    BY <2>1, <2>2, <2>3, SameFileEffect, DrainKeeps
<1>25. CASE SubmitRefuse(d)
  BY <1>25, ConcludesKeeps DEF SubmitRefuse, InHandInflight, Outcome, QueueInv, TypeOK,
     PaneTypeOK, paneVars
<1>26. CASE SubmitFlush(d)
  <2>1. DrainFrame(d) /\ UNCHANGED file
    BY <1>26 DEF SubmitFlush, Step, DrainFrame, queueVars, QueueInv, TypeOK, DrainTypeOK
  <2>2. TypeOK'
    BY <1>26, NewDocType, NoPathType DEF SubmitFlush, Step, Item, Inflight, Path, Phases,
       QueueInv, TypeOK, PaneTypeOK, ClientTypeOK,
       DrainTypeOK, DrainPc, Outcome, queueVars, paneVars, clientVars
  <2>3. DrainHand(d)'
    BY <1>26, <2>1 DEF SubmitFlush, Step, Item, Inflight, QueueInv, TypeOK, DrainTypeOK,
       DrainHandInv, DrainHand, Exists, InHandAtPath, InHandInflight, InHandAside, Recovering
  <2> QED
    BY <2>1, <2>2, <2>3, SameFileEffect, DrainKeeps
<1>27. CASE FlushEnds(d)
  BY <1>27, ConcludesKeeps DEF FlushEnds, InHandInflight, Outcome, QueueInv, TypeOK,
     PaneTypeOK, paneVars
<1>28. ASSUME NEW i \in Items, SubmitRecoverDraft(d, i) PROVE QueueInv'
  <2>1. DrainFrame(d) /\ UNCHANGED file
    BY <1>28 DEF SubmitRecoverDraft, Step, DrainFrame, queueVars, QueueInv, TypeOK,
       DrainTypeOK, PaneTakes, drainVars
  <2>2. TypeOK'
    BY <1>28, NewDocType, NoPathType DEF SubmitRecoverDraft, Step, Item, Inflight, Path,
       Phases, QueueInv, TypeOK, PaneTypeOK, ClientTypeOK,
       DrainTypeOK, DrainPc, Outcome, queueVars, paneVars, clientVars, PaneTakes, drainVars
  <2>3. DrainHand(d)'
    BY <1>28, <2>1 DEF SubmitRecoverDraft, Step, Item, Inflight, QueueInv, TypeOK, DrainTypeOK,
       DrainHandInv, DrainHand, Exists, InHandAtPath, InHandInflight, InHandAside,
          Recovering, PaneTakes, drainVars
  <2> QED
    BY <2>1, <2>2, <2>3, SameFileEffect, DrainKeeps
<1>29. CASE SubmitLook(d)
  BY <1>29, ConcludesKeeps DEF SubmitLook, InHandInflight, Outcome, QueueInv, TypeOK,
     PaneTypeOK, paneVars
<1>30. CASE SubmitType(d)
  <2>1. DrainFrame(d)
    BY <1>30 DEF SubmitType, Step, DrainFrame, QueueInv, TypeOK, DrainTypeOK
  <2>2. Inflight(Item(d)) \in Path /\ Exists(Inflight(Item(d)))
    BY <1>30, DrainTypes DEF SubmitType, Step, QueueInv, DrainHandInv, DrainHand, InHandInflight
  <2>3. [ddoc[d] EXCEPT !.pasted = TRUE] \in Doc
    BY DrainTypes DEF Doc
  <2>4. FileEffect /\ SameFiles
    <3>1. CASE Write(Inflight(Item(d)), [ddoc[d] EXCEPT !.pasted = TRUE])
      BY <3>1, <2>2, <2>3, WriteEffect
    <3>2. CASE UNCHANGED file
      BY <3>2, SameFileEffect DEF SameFiles, Exists
    <3> QED
      BY <1>30, <3>1, <3>2 DEF SubmitType
  <2>5. TypeOK'
    BY <1>30, <2>4 DEF SubmitType, Step, FileEffect, FileType, QueueInv, TypeOK, PaneTypeOK,
       ClientTypeOK, DrainTypeOK, DrainPc, paneVars, clientVars
  <2>6. DrainHand(d)'
    BY <1>30, <2>2, <2>4, DrainTypes DEF SameFiles, SubmitType, Step, Item, Inflight,
       QueueInv, TypeOK,
       DrainTypeOK, DrainHandInv, DrainHand, InHandAtPath, InHandInflight, InHandAside,
          Recovering, Path, Phases
  <2> QED
    BY <2>1, <2>4, <2>5, <2>6, DrainKeeps
<1>31. CASE SubmitPaste(d)
  <2>1. DrainFrame(d) /\ UNCHANGED file
    BY <1>31 DEF SubmitPaste, Step, DrainFrame, queueVars, QueueInv, TypeOK, DrainTypeOK,
       PanePaste, PanePrompt
  <2>2. TypeOK'
    BY <1>31, NewDocType, NoPathType DEF SubmitPaste, Step, Item, Inflight, Path, Phases,
       QueueInv, TypeOK, PaneTypeOK, ClientTypeOK,
       DrainTypeOK, DrainPc, Outcome, queueVars, paneVars, clientVars, PanePaste, PanePrompt
  <2>3. DrainHand(d)'
    BY <1>31, <2>1 DEF SubmitPaste, Step, Item, Inflight, QueueInv, TypeOK, DrainTypeOK,
       DrainHandInv, DrainHand, Exists, InHandAtPath, InHandInflight, InHandAside,
          Recovering, PanePaste, PanePrompt
  <2> QED
    BY <2>1, <2>2, <2>3, SameFileEffect, DrainKeeps
<1>32. CASE SubmitMisses(d)
  BY <1>32, ConcludesKeeps DEF SubmitMisses, InHandInflight, Outcome, QueueInv, TypeOK,
     PaneTypeOK, paneVars
<1>33. CASE SubmitEnds(d)
  <2>1. PICK out \in Outcome : Concludes(d, "await", out)
    BY <1>33 DEF SubmitEnds, Outcome
  <2>2. PaneTypeOK'
    BY <1>33 DEF SubmitEnds, PaneTakeBack, PaneTypeOK, QueueInv, TypeOK, paneVars
  <2> QED
    BY <1>33, <2>1, <2>2, ConcludesKeeps DEF InHandInflight
<1>34. CASE Settle(d)
  <2>1. DrainFrame(d)
    BY <1>34 DEF Settle, Step, DrainFrame, QueueInv, TypeOK, DrainTypeOK
  <2>2. Inflight(Item(d)) \in Path /\ Exists(Inflight(Item(d)))
    BY <1>34, DrainTypes DEF Settle, Step, QueueInv, DrainHandInv, DrainHand, InHandAtPath,
       InHandInflight, InHandAside, Recovering, Inflight, Path, Phases
  <2>3. Settled(ddoc[d], dout[d]) \in Doc
    BY DrainTypes, SettledType
  <2>4. FileEffect /\ SameFiles
    BY <1>34, <2>2, <2>3, WriteEffect DEF Settle
  <2>5. TypeOK'
    BY <1>34, <2>3, <2>4, DrainTypes DEF Settle, Step, Item, Inflight, Path, Phases,
       FileEffect, FileType, QueueInv, TypeOK, PaneTypeOK, ClientTypeOK,
       DrainTypeOK, DrainPc, Outcome, queueVars, paneVars, clientVars
  <2>6. DrainHand(d)'
    BY <1>34, <2>2, <2>4, DrainTypes DEF SameFiles, Settle, Step, Item, Inflight, QueueInv, TypeOK,
       DrainTypeOK, DrainHandInv, DrainHand, InHandAtPath, InHandInflight, InHandAside,
          Recovering, Path, Phases
  <2> QED
    BY <2>1, <2>4, <2>5, <2>6, DrainKeeps
<1>35. CASE MoveProcessed(d)
  <2>1. PICK it \in Items, src \in Phases, dst \in Phases :
          it = Item(d) /\ src = "inflight" /\ dst = "processed"
    BY <1>35, DrainTypes DEF MoveProcessed, Phases
  <2>2. Rename(<<src, it>>, <<dst, it>>)
    BY <1>35, <2>1, DrainTypes DEF MoveProcessed, Inflight, PutDown
  <2>3. FileEffect /\ Moved(it, src, dst)
    BY <2>1, <2>2, MoveEffect
  <2>4. DrainFrame(d)
    BY <1>35 DEF MoveProcessed, Step, DrainFrame, QueueInv, TypeOK, DrainTypeOK, PutDown
  <2>5. TypeOK'
    BY <1>35, <2>3, DrainTypes, NewDocType, NoPathType DEF MoveProcessed, Step, Item,
       Inflight, Path, Phases, Lanes, FileEffect, FileType, QueueInv, TypeOK, PaneTypeOK,
       ClientTypeOK,
       DrainTypeOK, DrainPc, Outcome, queueVars, paneVars, clientVars, PutDown
  <2>6. <<src, it>> \notin todo[d]
    BY <2>1, DrainTypes
  <2>7. /\ Exists(<<dst, it>>)'
        /\ \A q \in todo[d] : Exists(q)'
        /\ \A j \in recovered[d] :
             (Exists(<<"failed", j>>) /\ j # it) \/ (src # "failed" /\ Exists(<<"failed", j>>))
               => Exists(<<"failed", j>>)'
    BY <2>3, <2>6, MovedFacts
  <2>8. DrainHand(d)'
    BY <1>35, <2>1, <2>7, DrainTypes DEF MoveProcessed, Step, Item, Inflight, QueueInv, TypeOK,
       DrainTypeOK, DrainHandInv, DrainHand, InHandAtPath, InHandInflight, InHandAside,
          Recovering, PutDown
  <2> QED
    BY <2>3, <2>4, <2>5, <2>8, DrainKeeps
<1>36. CASE MoveFailed(d)
  <2>1. PICK it \in Items, src \in Phases, dst \in Phases :
          it = Item(d) /\ src = "inflight" /\ dst = "failed"
    BY <1>36, DrainTypes DEF MoveFailed, Phases
  <2>2. Rename(<<src, it>>, <<dst, it>>)
    BY <1>36, <2>1, DrainTypes DEF MoveFailed, Inflight, PutDown
  <2>3. FileEffect /\ Moved(it, src, dst)
    BY <2>1, <2>2, MoveEffect
  <2>4. DrainFrame(d)
    BY <1>36 DEF MoveFailed, Step, DrainFrame, QueueInv, TypeOK, DrainTypeOK, PutDown
  <2>5. TypeOK'
    BY <1>36, <2>3, DrainTypes, NewDocType, NoPathType DEF MoveFailed, Step, Item, Inflight,
       Path, Phases, Lanes, FileEffect, FileType, QueueInv, TypeOK, PaneTypeOK, ClientTypeOK,
       DrainTypeOK, DrainPc, Outcome, queueVars, paneVars, clientVars, PutDown
  <2>6. <<src, it>> \notin todo[d]
    BY <2>1, DrainTypes
  <2>7. /\ Exists(<<dst, it>>)'
        /\ \A q \in todo[d] : Exists(q)'
        /\ \A j \in recovered[d] :
             (Exists(<<"failed", j>>) /\ j # it) \/ (src # "failed" /\ Exists(<<"failed", j>>))
               => Exists(<<"failed", j>>)'
    BY <2>3, <2>6, MovedFacts
  <2>8. DrainHand(d)'
    BY <1>36, <2>1, <2>7, DrainTypes DEF MoveFailed, Step, Item, Inflight, QueueInv, TypeOK,
       DrainTypeOK, DrainHandInv, DrainHand, InHandAtPath, InHandInflight, InHandAside,
          Recovering, PutDown
  <2> QED
    BY <2>3, <2>4, <2>5, <2>8, DrainKeeps
<1>37. CASE MoveBackAndGoOn(d)
  <2>1. PICK it \in Items, src \in Phases, dst \in Phases :
          it = Item(d) /\ src = "inflight" /\ dst = dpath[d][1]
    BY <1>37, DrainTypes DEF MoveBackAndGoOn, Phases
  <2>2. Rename(<<src, it>>, <<dst, it>>)
    BY <1>37, <2>1, DrainTypes DEF MoveBackAndGoOn, Inflight, MoveBack, PutDown
  <2>3. FileEffect /\ Moved(it, src, dst)
    BY <2>1, <2>2, MoveEffect
  <2>4. DrainFrame(d)
    BY <1>37 DEF MoveBackAndGoOn, Step, DrainFrame, QueueInv, TypeOK, DrainTypeOK, MoveBack, PutDown
  <2>5. TypeOK'
    BY <1>37, <2>3, DrainTypes, NewDocType, NoPathType DEF MoveBackAndGoOn, Step, Item,
       Inflight, Path, Phases, Lanes, FileEffect, FileType, QueueInv, TypeOK, PaneTypeOK,
       ClientTypeOK,
       DrainTypeOK, DrainPc, Outcome, queueVars, paneVars, clientVars, MoveBack, PutDown
  <2>6. <<src, it>> \notin todo[d]
    BY <2>1, DrainTypes
  <2>7. /\ Exists(<<dst, it>>)'
        /\ \A q \in todo[d] : Exists(q)'
        /\ \A j \in recovered[d] :
             (Exists(<<"failed", j>>) /\ j # it) \/ (src # "failed" /\ Exists(<<"failed", j>>))
               => Exists(<<"failed", j>>)'
    BY <2>3, <2>6, MovedFacts
  <2>8. DrainHand(d)'
    BY <1>37, <2>1, <2>7, DrainTypes DEF MoveBackAndGoOn, Step, Item, Inflight, QueueInv, TypeOK,
       DrainTypeOK, DrainHandInv, DrainHand, InHandAtPath, InHandInflight, InHandAside,
          Recovering, MoveBack, PutDown
  <2> QED
    BY <2>3, <2>4, <2>5, <2>8, DrainKeeps
<1>38. CASE MoveBackAndRetry(d)
  <2>0. dtries' \in [Drainers -> 0..MaxComposerRetries]
    BY <1>38, DrainAssumption DEF MoveBackAndRetry, DrainAssumption, QueueInv, TypeOK, DrainTypeOK
  <2>1. PICK it \in Items, src \in Phases, dst \in Phases :
          it = Item(d) /\ src = "inflight" /\ dst = dpath[d][1]
    BY <1>38, DrainTypes DEF MoveBackAndRetry, Phases
  <2>2. Rename(<<src, it>>, <<dst, it>>)
    BY <1>38, <2>1, DrainTypes DEF MoveBackAndRetry, Inflight, MoveBack, PutDown
  <2>3. FileEffect /\ Moved(it, src, dst)
    BY <2>1, <2>2, MoveEffect
  <2>4. DrainFrame(d)
    BY <1>38 DEF MoveBackAndRetry, Step, DrainFrame, QueueInv, TypeOK, DrainTypeOK,
       MoveBack, PutDown
  <2>5. TypeOK'
    BY <1>38, <2>3, DrainTypes, NewDocType, NoPathType, <2>0 DEF MoveBackAndRetry, Step,
       Item, Inflight, Path, Phases, Lanes, FileEffect, FileType, QueueInv, TypeOK, PaneTypeOK,
       ClientTypeOK,
       DrainTypeOK, DrainPc, Outcome, queueVars, paneVars, clientVars, MoveBack, PutDown
  <2>6. <<src, it>> \notin todo[d]
    BY <2>1, DrainTypes
  <2>7. /\ Exists(<<dst, it>>)'
        /\ \A q \in todo[d] : Exists(q)'
        /\ \A j \in recovered[d] :
             (Exists(<<"failed", j>>) /\ j # it) \/ (src # "failed" /\ Exists(<<"failed", j>>))
               => Exists(<<"failed", j>>)'
    BY <2>3, <2>6, MovedFacts
  <2>8. DrainHand(d)'
    BY <1>38, <2>1, <2>7, DrainTypes DEF MoveBackAndRetry, Step, Item, Inflight, QueueInv, TypeOK,
       DrainTypeOK, DrainHandInv, DrainHand, InHandAtPath, InHandInflight, InHandAside,
          Recovering, MoveBack, PutDown
  <2> QED
    BY <2>3, <2>4, <2>5, <2>8, DrainKeeps
<1>39. CASE MoveBackAndStop(d)
  <2>1. PICK it \in Items, src \in Phases, dst \in Phases :
          it = Item(d) /\ src = "inflight" /\ dst = dpath[d][1]
    BY <1>39, DrainTypes DEF MoveBackAndStop, Phases
  <2>2. Rename(<<src, it>>, <<dst, it>>)
    BY <1>39, <2>1, DrainTypes DEF MoveBackAndStop, Inflight, MoveBack
  <2>3. FileEffect /\ Moved(it, src, dst)
    BY <2>1, <2>2, MoveEffect
  <2> QED
    BY <1>39, <2>3, DrainEndsKeeps DEF MoveBackAndStop, QueueInv, TypeOK, MoveBack
<1>40. CASE DrainSidecar(d)
  <2>1. DrainFrame(d) /\ UNCHANGED file
    BY <1>40 DEF DrainSidecar, Step, DrainFrame, queueVars, QueueInv, TypeOK, DrainTypeOK
  <2>2. TypeOK'
    BY <1>40, NewDocType, NoPathType DEF DrainSidecar, Step, Item, Inflight, Path, Phases,
       QueueInv, TypeOK, PaneTypeOK, ClientTypeOK,
       DrainTypeOK, DrainPc, Outcome, queueVars, paneVars, clientVars
  <2>3. DrainHand(d)'
    BY <1>40, <2>1 DEF DrainSidecar, Step, Item, Inflight, QueueInv, TypeOK, DrainTypeOK,
       DrainHandInv, DrainHand, Exists, InHandAtPath, InHandInflight, InHandAside, Recovering
  <2> QED
    BY <2>1, <2>2, <2>3, SameFileEffect, DrainKeeps
<1> QED
  BY <1>1, <1>2, <1>3, <1>4, <1>5, <1>6, <1>7, <1>8, <1>9, <1>10, <1>11, <1>12, <1>13,
     <1>14, <1>15, <1>16, <1>17, <1>18, <1>19, <1>20, <1>21, <1>22, <1>23, <1>24, <1>25, <1>26,
     <1>27, <1>28, <1>29, <1>30, <1>31, <1>32, <1>33, <1>34, <1>35, <1>36, <1>37, <1>38, <1>39,
     <1>40 DEF DrainStep
=============================================================================
