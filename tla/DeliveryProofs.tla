--------------------------- MODULE DeliveryProofs ---------------------------
(***************************************************************************)
(* What the headless wrapper does with queued messages, for any number of  *)
(* them and any faults: the model receives a message at most once, what    *)
(* is recorded as processed was received, what waits was not, and a        *)
(* takeover stops the wrapper at a turn boundary.                          *)
(***************************************************************************)
EXTENDS TakeoverProofs

-----------------------------------------------------------------------------
(***************************************************************************)
(* The inductive invariant.                                                *)
(***************************************************************************)

\* An input that the model has received, or that a process of the session holds.
Touched(x) == x \in seen \/ \E s \in Slots : x \in HeldInputs(s)

\* No attempt of i has reached a process of the session.
Untouched(i) == \A x \in Inputs : Touched(x) => x[1] # i

\* A process holds an input once, and only before the model receives it.
HeldOnce ==
  \A s \in Slots :
    /\ \A m, n \in DOMAIN proc[s].pipe : proc[s].pipe[m] = proc[s].pipe[n] => m = n
    /\ \A n \in DOMAIN proc[s].pipe : proc[s].pipe[n] \notin proc[s].queue
HeldUnseen == \A s \in Slots : \A x \in HeldInputs(s) : x \notin seen

\* What has reached a process is the latest attempt of its item, and the item is
\* not where it could be offered again.
LatestAttempt == \A x \in Inputs : Touched(x) => x[2] = tries[x[1]]
NotOffered ==
  \A x \in Inputs : Touched(x) => phase[x[1]] \in {"inflight", "processed", "failed"}

\* The stamps are on items in inflight/ or given up, and the barrier alone means
\* that the item has not been written.
StampsTell ==
  \A i \in Items :
    /\ stamp[i] = "barrier" => phase[i] = "inflight" /\ Untouched(i)
    /\ stamp[i] = "written" => phase[i] \in {"inflight", "failed"}

Received == \A i \in Items : phase[i] = "processed" => Input(i) \in seen

\* What a report on its way to the wrapper says is true, and stays true: a
\* cancelled input is nowhere until a later attempt.
SaysTrue(r) ==
  /\ r.what \in {"queued", "started", "cancelled"} =>
       r.input \in Inputs /\ r.input[2] <= tries[r.input[1]]
  /\ r.what = "started" => r.input \in seen
  /\ r.what = "cancelled" /\ r.input[2] = tries[r.input[1]] => Untouched(r.input[1])
ReportsTrue == \A s \in Slots : \A n \in DOMAIN proc[s].out : SaysTrue(proc[s].out[n])

\* No input is started twice.
StartedOnce ==
  \A s \in Slots : \A m, n \in DOMAIN proc[s].out :
    LET q == proc[s].out[m]  r == proc[s].out[n] IN
      q.what = "started" /\ r.what = "started" /\ q.input = r.input => m = n

ItemsSound ==
  /\ HeldOnce /\ HeldUnseen /\ LatestAttempt /\ NotOffered /\ StampsTell /\ Received
  /\ ReportsTrue /\ StartedOnce

\* A process that does not run the wrapper's harness holds no input; the harness of
\* the wrapper is heard by it.
HarnessFits ==
  /\ \A s \in Slots : proc[s].kind # "headless" =>
       proc[s].pipe = <<>> /\ proc[s].queue = {} /\ proc[s].turn = "no"
  /\ lock \in Wrappers /\ mem.harness \in Live =>
       proc[mem.harness].kind = "headless" /\ proc[mem.harness].heard

\* An answered message waits for its answer to be consumed.
AnswersWait == \A i \in mem.consume : phase[i] \in {"new", "pending", "withdrawn"}

\* What the wrapper remembers of its items fits where it is.
JobFits ==
  lock \in Wrappers =>
    IF wpc[lock] \in {"loop", "recover"} THEN mem.job = None
    ELSE mem.job \in Items /\ phase[mem.job] = "inflight" /\ mem.cur = None
CurFits ==
  lock \in Wrappers =>
    /\ mem.harness = None => mem.cur = None /\ wpc[lock] \notin {"moved", "barred"}
    /\ mem.cur # None => phase[mem.cur] = "inflight" /\ stamp[mem.cur] = "written"
MovedFits ==
  lock \in Wrappers /\ wpc[lock] = "moved" => stamp[mem.job] = "none" /\ Untouched(mem.job)

\* A cancelled input.
Gone(r, x) == r.what = "cancelled" /\ r.input = x
BarredFits ==
  lock \in Wrappers /\ wpc[lock] = "barred" =>
    /\ stamp[mem.job] = "barrier"
    /\ \A s \in Slots : \A n \in DOMAIN proc[s].out : ~Gone(proc[s].out[n], Input(mem.job))
SettleFits ==
  lock \in Wrappers /\ wpc[lock] \in {"settle", "resettle"} =>
    /\ stamp[mem.job] = "none"
    /\ mem.to = "pending" => Untouched(mem.job)
    /\ mem.to = "processed" => Input(mem.job) \in seen

\* A wrapper with a harness has every item of inflight/ in hand.
AllOwned ==
  lock \in Wrappers /\ mem.harness # None =>
    \A i \in Items : phase[i] = "inflight" => i \in {mem.cur, mem.job}

\* A start that the wrapper has not heard of is of an item that it has not settled
\* as processed.
UnheardStart(r) ==
  r.what = "started" =>
    /\ phase[r.input[1]] \in {"inflight", "failed"}
    /\ wpc[lock] = "settle" /\ mem.to = "processed" => r.input[1] # mem.job
StartsOpen ==
  lock \in Wrappers /\ mem.harness # None =>
    \A n \in DOMAIN proc[mem.harness].out : UnheardStart(proc[mem.harness].out[n])

\* The reports from n on include no end of a turn.
NoEnd(out, n) == \A m \in DOMAIN out : m >= n => out[m].what # "result"

\* A turn on an item is one the wrapper knows to be running, or its start is among
\* the reports it has not heard.
TurnIs(out, i) ==
  \/ mem.busy /\ NoEnd(out, 1)
  \/ \E n \in DOMAIN out : out[n].what = "started" /\ out[n].input[1] = i /\ NoEnd(out, n)
TurnKnown ==
  lock \in Wrappers /\ mem.harness # None /\ proc[mem.harness].turn \in Items =>
    TurnIs(proc[mem.harness].out, proc[mem.harness].turn)

\* Between the idle check of a takeover and its stop request, the wrapper it holds
\* is at the top of its loop without an input, and a turn is on a given-up item.
AtBoundary ==
  taker.pc = "stop" /\ lock \in Wrappers /\ mem.held /\ mem.harness # None =>
    /\ wpc[lock] = "loop" /\ mem.cur = None
    /\ proc[mem.harness].turn \in Items => phase[proc[mem.harness].turn] = "failed"

WrapperSound ==
  /\ HarnessFits /\ AnswersWait /\ JobFits /\ CurFits /\ MovedFits /\ BarredFits /\ SettleFits
  /\ AllOwned /\ StartsOpen /\ TurnKnown /\ AtBoundary

DeliveryInv == SessionInv /\ ItemsSound /\ WrapperSound

-----------------------------------------------------------------------------
(***************************************************************************)
(* Facts about inputs and reports.                                         *)
(***************************************************************************)

\* The types that the steps below need, in one place.
LEMMA Types ==
  ASSUME SessionInv
  PROVE  /\ phase \in [Items -> Phases] /\ stamp \in [Items -> {"none", "barrier", "written"}]
         /\ tries \in [Items -> Nat] /\ seen \subseteq Inputs
         /\ wpc \in [Wrappers -> WrapperPlaces] /\ mem \in Memories /\ proc \in [Slots -> Processes]
         /\ mem.cur \in Items \cup {None} /\ mem.job \in Items \cup {None}
         /\ mem.harness \in Slots \cup {None}
         /\ \A s \in Slots : /\ proc[s].pipe \in Seq(Inputs) /\ proc[s].out \in Seq(Reports)
                             /\ proc[s].queue \subseteq Inputs
         /\ None \notin Slots /\ None \notin Items /\ Nobody \notin Wrappers
<1>1. /\ phase \in [Items -> Phases] /\ stamp \in [Items -> {"none", "barrier", "written"}]
      /\ tries \in [Items -> 0 .. MaxTries] /\ seen \subseteq Inputs
  BY DEF SessionInv, QueueTypes
<1>2. wpc \in [Wrappers -> WrapperPlaces] /\ mem \in Memories /\ proc \in [Slots -> Processes]
  BY DEF SessionInv, SessionTypes
<1>3. 0 .. MaxTries \subseteq Nat
  OBVIOUS
<1>4. /\ mem.cur \in Items \cup {None} /\ mem.job \in Items \cup {None}
      /\ mem.harness \in Slots \cup {None}
  BY <1>2 DEF Memories
<1>5. \A s \in Slots : /\ proc[s].pipe \in Seq(Inputs) /\ proc[s].out \in Seq(Reports)
                       /\ proc[s].queue \subseteq Inputs
  BY <1>2 DEF Processes
<1> QED BY <1>1, <1>2, <1>3, <1>4, <1>5, Distinct

\* An input is its item and its attempt.
LEMMA InputPair ==
  ASSUME NEW x \in Inputs
  PROVE  x[1] \in Items /\ x[2] \in Nat /\ x = <<x[1], x[2]>>
BY DEF Inputs

\* What processes hold and what was received are inputs.
LEMMA HeldIsInput ==
  ASSUME SessionInv
  PROVE  /\ \A s \in Slots : HeldInputs(s) \subseteq Inputs
         /\ \A x : Touched(x) => x \in Inputs
<1>1. \A s \in Slots : proc[s].pipe \in Seq(Inputs) /\ proc[s].queue \subseteq Inputs
  BY Types
<1>2. \A s \in Slots : \A n \in DOMAIN proc[s].pipe : proc[s].pipe[n] \in Inputs
  BY <1>1, LenProperties
<1>3. \A s \in Slots : HeldInputs(s) \subseteq Inputs
  BY <1>1, <1>2 DEF HeldInputs
<1> QED BY <1>3, Types DEF Touched

\* Only one attempt of an item has reached a process.
LEMMA SameInput ==
  ASSUME SessionInv, LatestAttempt, NEW x, NEW y, Touched(x), Touched(y), x[1] = y[1]
  PROVE  x = y
<1>1. x \in Inputs /\ y \in Inputs
  BY HeldIsInput
<1>2. x[2] = y[2]
  BY <1>1 DEF LatestAttempt
<1> QED BY <1>1, <1>2, InputPair

\* What has reached a process is the current input of its item.
LEMMA TouchedInput ==
  ASSUME SessionInv, LatestAttempt, NEW x, Touched(x)
  PROVE  x[1] \in Items /\ x = Input(x[1])
<1>1. x \in Inputs
  BY HeldIsInput
<1> QED BY <1>1, InputPair DEF LatestAttempt, Input

\* A sequence with one more element.
LEMMA Appended ==
  ASSUME NEW S, NEW q \in Seq(S), NEW e \in S
  PROVE  /\ DOMAIN Append(q, e) = 1 .. (Len(q) + 1) /\ DOMAIN q = 1 .. Len(q) /\ Len(q) \in Nat
         /\ Append(q, e)[Len(q) + 1] = e
         /\ \A n \in DOMAIN q : n \in DOMAIN Append(q, e) /\ Append(q, e)[n] = q[n]
         /\ \A n \in DOMAIN Append(q, e) : n \in DOMAIN q \/ n = Len(q) + 1
<1>1. /\ Append(q, e) \in Seq(S) /\ Len(Append(q, e)) = Len(q) + 1
      /\ \A i \in 1 .. Len(q) : Append(q, e)[i] = q[i]
      /\ Append(q, e)[Len(q) + 1] = e
  BY AppendProperties
<1>2. Len(q) \in Nat /\ DOMAIN q = 1 .. Len(q)
  BY LenProperties
<1>3. DOMAIN Append(q, e) = 1 .. (Len(q) + 1)
  BY <1>1, LenProperties
<1> QED BY <1>1, <1>2, <1>3

\* A sequence without its first element.
LEMMA Tailed ==
  ASSUME NEW S, NEW q \in Seq(S), q # <<>>
  PROVE  /\ DOMAIN q = 1 .. Len(q) /\ Len(q) \in Nat \ {0}
         /\ 1 \in DOMAIN q /\ Head(q) = q[1] /\ Head(q) \in S
         /\ DOMAIN Tail(q) = 1 .. (Len(q) - 1)
         /\ \A n \in DOMAIN Tail(q) : n + 1 \in DOMAIN q /\ n + 1 > 1 /\ Tail(q)[n] = q[n + 1]
         /\ \A n \in DOMAIN q : n > 1 => n - 1 \in DOMAIN Tail(q) /\ Tail(q)[n - 1] = q[n]
<1>1. DOMAIN q = 1 .. Len(q) /\ Len(q) \in Nat \ {0}
  BY LenProperties, EmptySeq
<1>2. /\ Head(q) \in S /\ Tail(q) \in Seq(S) /\ Len(Tail(q)) = Len(q) - 1
      /\ \A i \in 1 .. Len(Tail(q)) : Tail(q)[i] = q[i + 1]
  BY HeadTailProperties
<1>3. DOMAIN Tail(q) = 1 .. (Len(q) - 1)
  BY <1>2, LenProperties
<1>4. Head(q) = q[1]
  BY <1>1
<1> QED BY <1>1, <1>2, <1>3, <1>4

-----------------------------------------------------------------------------
(***************************************************************************)
(* Steps that leave the items alone.                                       *)
(***************************************************************************)

\* Process s has no input that it did not have, and of its reports at most the end
\* of its output is new.
Fewer(s) ==
  /\ \A x \in HeldInputs(s)' : x \in HeldInputs(s)
  /\ \A n \in DOMAIN proc'[s].out :
       \/ proc'[s].out[n].what = "eof"
       \/ n \in DOMAIN proc[s].out /\ proc'[s].out[n] = proc[s].out[n]

\* Processes that lose inputs and reports.
LEMMA FewerSound ==
  ASSUME DeliveryInv, UNCHANGED itemVars, HeldOnce', \A s \in Slots : Fewer(s)
  PROVE  /\ ItemsSound'
         /\ \A x : Touched(x)' => Touched(x)
         /\ \A i : Untouched(i) => Untouched(i)'
<1>1. UNCHANGED <<phase, stamp, tries, seen>>
  BY DEF itemVars
<1>2. ItemsSound /\ SessionInv
  BY DEF DeliveryInv
<1>3. \A x : Touched(x)' => Touched(x)
  BY <1>1 DEF Touched, Fewer
<1>4. \A i : Untouched(i) => Untouched(i)'
  BY <1>3 DEF Untouched
<1>5. HeldUnseen'
  BY <1>1, <1>2 DEF ItemsSound, HeldUnseen, Fewer
<1>6. LatestAttempt' /\ NotOffered'
  BY <1>1, <1>2, <1>3 DEF ItemsSound, LatestAttempt, NotOffered
<1>7. StampsTell'
  BY <1>1, <1>2, <1>4 DEF ItemsSound, StampsTell
<1>8. Received'
  BY <1>1, <1>2 DEF ItemsSound, Received, Input
<1>9. ReportsTrue'
  <2> SUFFICES ASSUME NEW s \in Slots, NEW n \in DOMAIN proc'[s].out
               PROVE  SaysTrue(proc[s].out[n])'
    BY DEF ReportsTrue
  <2>1. CASE proc'[s].out[n].what = "eof"
    BY <2>1 DEF SaysTrue
  <2>2. CASE n \in DOMAIN proc[s].out /\ proc'[s].out[n] = proc[s].out[n]
    <3>1. SaysTrue(proc[s].out[n])
      BY <1>2, <2>2 DEF ItemsSound, ReportsTrue
    <3> QED BY <1>1, <1>4, <2>2, <3>1 DEF SaysTrue
  <2> QED BY <2>1, <2>2 DEF Fewer
<1>10. StartedOnce'
  BY <1>2 DEF ItemsSound, StartedOnce, Fewer
<1> QED BY <1>3, <1>4, <1>5, <1>6, <1>7, <1>8, <1>9, <1>10 DEF ItemsSound

\* ... and so does the wrapper's view of them, when it remembers what it did or is
\* gone.
LEMMA FewerKeeps ==
  ASSUME DeliveryInv, UNCHANGED itemVars, HeldOnce', \A s \in Slots : Fewer(s),
         HarnessFits', TurnKnown', AtBoundary', mem'.consume \subseteq mem.consume,
         lock' \in Wrappers => lock' = lock /\ wpc'[lock] = wpc[lock] /\ mem' = mem
  PROVE  ItemsSound' /\ WrapperSound'
<1>1. /\ ItemsSound' /\ UNCHANGED <<phase, stamp, tries, seen>>
      /\ \A i : Untouched(i) => Untouched(i)'
  BY FewerSound DEF itemVars
<1>2. WrapperSound /\ SessionInv
  BY DEF DeliveryInv
<1>3. AnswersWait'
  BY <1>1, <1>2 DEF WrapperSound, AnswersWait
<1>4. JobFits' /\ CurFits' /\ AllOwned'
  BY <1>1, <1>2 DEF WrapperSound, JobFits, CurFits, AllOwned
<1>5. MovedFits' /\ SettleFits'
  BY <1>1, <1>2 DEF WrapperSound, MovedFits, SettleFits, Input
<1>6. BarredFits'
  BY <1>1, <1>2 DEF WrapperSound, BarredFits, Input, Gone, Fewer
<1>7. StartsOpen'
  <2> SUFFICES ASSUME (lock \in Wrappers)', (mem.harness # None)',
                      NEW n \in DOMAIN proc'[mem'.harness].out
               PROVE  UnheardStart(proc[mem.harness].out[n])'
    BY DEF StartsOpen
  <2>1. mem.harness \in Slots
    BY <1>2, Types
  <2>2. CASE proc'[mem'.harness].out[n].what = "eof"
    BY <2>2 DEF UnheardStart
  <2>3. CASE /\ n \in DOMAIN proc[mem.harness].out
             /\ proc'[mem.harness].out[n] = proc[mem.harness].out[n]
    <3>1. UnheardStart(proc[mem.harness].out[n])
      BY <1>2, <2>3 DEF WrapperSound, StartsOpen
    <3> QED BY <1>1, <2>3, <3>1 DEF UnheardStart
  <2> QED BY <2>1, <2>2, <2>3 DEF Fewer
<1> QED BY <1>1, <1>3, <1>4, <1>5, <1>6, <1>7 DEF WrapperSound

\* A step that neither an item, a process of the session nor the wrapper takes part in.
LEMMA Elsewhere ==
  ASSUME DeliveryInv, UNCHANGED <<itemVars, mem, proc>>,
         lock' \in Wrappers => lock' = lock /\ wpc'[lock] = wpc[lock],
         taker'.pc = "stop" => taker.pc = "stop"
  PROVE  ItemsSound' /\ WrapperSound'
<1>1. ItemsSound /\ WrapperSound /\ UNCHANGED <<phase, stamp, tries, seen>>
  BY DEF DeliveryInv, itemVars
<1>2. HeldOnce' /\ \A s \in Slots : Fewer(s)
  BY <1>1 DEF ItemsSound, HeldOnce, Fewer, HeldInputs
<1>3. HarnessFits'
  BY <1>1 DEF WrapperSound, HarnessFits, Live
<1>4. TurnKnown'
  BY <1>1 DEF WrapperSound, TurnKnown, TurnIs, NoEnd
<1>5. AtBoundary'
  BY <1>1 DEF WrapperSound, AtBoundary
<1> QED BY <1>2, <1>3, <1>4, <1>5, FewerKeeps

\* A request of the takeover to the wrapper, or a signal.
LEMMA Asked ==
  ASSUME DeliveryInv, UNCHANGED <<itemVars, lock, wpc, proc>>,
         mem'.cur = mem.cur, mem'.job = mem.job, mem'.harness = mem.harness,
         mem'.busy = mem.busy, mem'.to = mem.to, mem'.consume = mem.consume, AtBoundary'
  PROVE  ItemsSound' /\ WrapperSound'
<1>1. ItemsSound /\ WrapperSound /\ UNCHANGED <<phase, stamp, tries, seen>>
  BY DEF DeliveryInv, itemVars
<1>2. HeldOnce' /\ \A s \in Slots : Fewer(s)
  BY <1>1 DEF ItemsSound, HeldOnce, Fewer, HeldInputs
<1>3. ItemsSound' /\ \A i : Untouched(i) => Untouched(i)'
  BY <1>2, FewerSound
<1>4. HarnessFits'
  BY <1>1 DEF WrapperSound, HarnessFits, Live
<1>5. TurnKnown'
  BY <1>1 DEF WrapperSound, TurnKnown, TurnIs, NoEnd
<1>6. AnswersWait' /\ JobFits' /\ CurFits' /\ AllOwned'
  BY <1>1 DEF WrapperSound, AnswersWait, JobFits, CurFits, AllOwned
<1>7. MovedFits' /\ SettleFits'
  BY <1>1, <1>3 DEF WrapperSound, MovedFits, SettleFits, Input
<1>8. BarredFits'
  BY <1>1 DEF WrapperSound, BarredFits, Input, Gone
<1>9. StartsOpen'
  BY <1>1 DEF WrapperSound, StartsOpen, UnheardStart
<1> QED BY <1>3, <1>4, <1>5, <1>6, <1>7, <1>8, <1>9 DEF WrapperSound

-----------------------------------------------------------------------------
(***************************************************************************)
(* Processes that end, and the takeover.                                   *)
(***************************************************************************)

\* A process that is as it was but for its launcher, and one that holds nothing.
Same(s) ==
  /\ proc'[s].kind = proc[s].kind /\ proc'[s].heard = proc[s].heard
  /\ proc'[s].pipe = proc[s].pipe /\ proc'[s].queue = proc[s].queue
  /\ proc'[s].turn = proc[s].turn /\ proc'[s].out = proc[s].out
Bare(s) ==
  /\ proc'[s].kind # "headless"
  /\ proc'[s].pipe = <<>> /\ proc'[s].queue = {} /\ proc'[s].turn = "no"
  /\ \A n \in DOMAIN proc'[s].out :
       \/ proc'[s].out[n].what = "eof"
       \/ n \in DOMAIN proc[s].out /\ proc'[s].out[n] = proc[s].out[n]

\* Processes that stay as they are or end, with the wrapper left alone or gone.
LEMMA EndsKeep ==
  ASSUME DeliveryInv, UNCHANGED itemVars, \A s \in Slots : Same(s) \/ Bare(s),
         mem'.consume \subseteq mem.consume, taker'.pc = taker.pc,
         lock' \in Wrappers => /\ lock' = lock /\ wpc'[lock] = wpc[lock] /\ mem' = mem
                               /\ mem.harness \in Live' => Same(mem.harness)
  PROVE  ItemsSound' /\ WrapperSound'
<1>1. ItemsSound /\ WrapperSound /\ SessionInv /\ UNCHANGED <<phase, stamp, tries, seen>>
  BY DEF DeliveryInv, itemVars
<1>2. \A s \in Slots : Same(s) => /\ proc'[s].kind = proc[s].kind /\ proc'[s].heard = proc[s].heard
                                  /\ proc'[s].pipe = proc[s].pipe /\ proc'[s].queue = proc[s].queue
                                  /\ proc'[s].turn = proc[s].turn /\ proc'[s].out = proc[s].out
  BY DEF Same
<1>3. ASSUME NEW s \in Slots
      PROVE  /\ Fewer(s)
             /\ \A m, n \in DOMAIN proc'[s].pipe : proc'[s].pipe[m] = proc'[s].pipe[n] => m = n
             /\ \A n \in DOMAIN proc'[s].pipe : proc'[s].pipe[n] \notin proc'[s].queue
  <2>1. CASE Same(s)
    BY <1>1, <1>2, <2>1 DEF ItemsSound, HeldOnce, Fewer, HeldInputs
  <2>2. CASE Bare(s)
    <3>1. DOMAIN proc'[s].pipe = {} /\ proc'[s].queue = {}
      BY <2>2 DEF Bare
    <3>2. HeldInputs(s)' = {}
      BY <3>1 DEF HeldInputs
    <3> QED BY <2>2, <3>1, <3>2 DEF Fewer, Bare
  <2> QED BY <2>1, <2>2
<1>4. HeldOnce' /\ \A s \in Slots : Fewer(s)
  BY <1>3 DEF HeldOnce
<1>5. HarnessFits'
  <2>1. ASSUME NEW s \in Slots, proc'[s].kind # "headless"
        PROVE  proc'[s].pipe = <<>> /\ proc'[s].queue = {} /\ proc'[s].turn = "no"
    BY <1>1, <1>2, <2>1 DEF WrapperSound, HarnessFits, Bare
  <2>2. ASSUME lock' \in Wrappers, mem'.harness \in Live'
        PROVE  proc'[mem'.harness].kind = "headless" /\ proc'[mem'.harness].heard
    <3>1. mem' = mem /\ lock' = lock /\ Same(mem.harness) /\ mem.harness \in Slots
      BY <2>2 DEF Live
    <3>2. mem.harness \in Live
      BY <1>2, <2>2, <3>1 DEF Live
    <3> QED BY <1>1, <1>2, <2>2, <3>1, <3>2 DEF WrapperSound, HarnessFits
  <2> QED BY <2>1, <2>2 DEF HarnessFits
<1>6. \A s \in Slots : proc'[s].turn \in Items => Same(s)
  BY HeadlessAssumption DEF Bare, HeadlessAssumption
<1>7. mem.harness # None => mem.harness \in Slots
  BY <1>1, Types
<1>8. TurnKnown'
  BY <1>1, <1>2, <1>6, <1>7 DEF WrapperSound, TurnKnown, TurnIs, NoEnd
<1>9. AtBoundary'
  BY <1>1, <1>2, <1>6, <1>7 DEF WrapperSound, AtBoundary
<1> QED BY <1>4, <1>5, <1>8, <1>9, FewerKeeps

\* The reports of a process that exits are those it has made, and the end.
LEMMA DeadBare ==
  ASSUME NEW p \in Processes, NEW n \in DOMAIN Dead(p).out
  PROVE  \/ Dead(p).out[n].what = "eof"
         \/ n \in DOMAIN p.out /\ Dead(p).out[n] = p.out[n]
<1> DEFINE e == [what |-> "eof", input |-> None]
<1>1. e \in Reports /\ e.what = "eof" /\ p.out \in Seq(Reports)
  BY DEF Reports, Processes
<1>2. Dead(p).out = IF p.heard THEN Append(p.out, e) ELSE <<>>
  BY DEF Dead, Empty
<1> HIDE DEF e
<1>3. CASE p.heard
  BY <1>1, <1>2, <1>3, Appended
<1>4. CASE ~p.heard
  BY <1>2, <1>4
<1> QED BY <1>3, <1>4

\* A process exits, or only its launcher does.
LEMMA HExitSound ==
  ASSUME DeliveryInv, NEW s \in Slots, HExit(s) \/ LauncherExits(s),
         UNCHANGED <<takeoverVars, scene, faults>>
  PROVE  ItemsSound' /\ WrapperSound'
<1>1. UNCHANGED <<itemVars, lock, wpc, mem>> /\ proc \in [Slots -> Processes]
  BY Types DEF HExit, LauncherExits, DeliveryInv
<1>2. \A z \in Slots : z # s => Same(z) /\ proc'[z] = proc[z]
  BY <1>1 DEF HExit, LauncherExits, Same
<1>3. CASE LauncherExits(s)
  <2>1. Same(s)
    BY <1>1, <1>3 DEF LauncherExits, Same, Processes
  <2> QED BY <1>1, <1>2, <2>1, EndsKeep DEF takeoverVars, Live
<1>4. CASE HExit(s)
  <2>1. proc[s] \in Processes /\ Len(proc[s].out) <= MaxOut /\ proc'[s] = Dead(proc[s])
    BY <1>1, <1>4 DEF HExit, DeliveryInv, SessionInv, ReportsBounded
  <2>2. Bare(s) /\ proc'[s].kind = "none"
    BY <2>1, DeadBare, DeadType DEF Bare
  <2>3. \A z \in Live' : Same(z)
    BY <1>2, <2>2 DEF Live
  <2> QED BY <1>1, <1>2, <2>2, <2>3, EndsKeep DEF takeoverVars
<1> QED BY <1>3, <1>4

\* A handback ends the processes of the session.
LEMMA BackKillSound ==
  ASSUME DeliveryInv, BackKill, UNCHANGED <<scene, faults>>
  PROVE  ItemsSound' /\ WrapperSound'
<1>1. /\ UNCHANGED <<itemVars, lock, wpc, mem, takeoverVars>> /\ proc \in [Slots -> Processes]
      /\ proc' = [s \in Slots |-> IF s \in Live THEN Dead(proc[s]) ELSE proc[s]]
  BY Types DEF BackKill, DeliveryInv
<1>2. ASSUME NEW s \in Live
      PROVE  s \in Slots /\ Bare(s) /\ proc'[s].kind = "none"
  <2>1. /\ s \in Slots /\ proc[s] \in Processes /\ Len(proc[s].out) <= MaxOut
        /\ proc'[s] = Dead(proc[s])
    BY <1>1, <1>2 DEF DeliveryInv, SessionInv, ReportsBounded, Live
  <2> QED BY <2>1, DeadBare, DeadType DEF Bare
<1>3. \A s \in Slots : s \notin Live => Same(s)
  BY <1>1 DEF Same
<1>4. Live' = {}
  BY <1>1, <1>2 DEF Live
<1> QED BY <1>1, <1>2, <1>3, <1>4, EndsKeep DEF takeoverVars

\* The holder starts its session, or ends what is left of it.
LEMMA HolderSound ==
  ASSUME DeliveryInv, NEW t \in Tokens, HolderStep(t), UNCHANGED <<scene, faults>>
  PROVE  ItemsSound' /\ WrapperSound'
<1>1. /\ UNCHANGED <<itemVars, wpc, mem, taker>> /\ proc \in [Slots -> Processes]
  BY Types DEF HolderStep, HoldCheck, HoldLock, HoldSpawn, HoldEnd, DeliveryInv, wrapperVars
<1>2. CASE UNCHANGED proc
  <2>1. lock' \in Wrappers => lock' = lock
    BY Distinct DEF HolderStep, HoldCheck, HoldLock, HoldSpawn, HoldEnd, wrapperVars
  <2> QED BY <1>1, <1>2, <2>1, Elsewhere
<1>3. ASSUME NEW s \in Slots, proc' = [proc EXCEPT ![s] = Started("tui")], holder[t] = "locked",
             UNCHANGED lock
      PROVE  ItemsSound' /\ WrapperSound'
  <2>1. proc'[s] = Started("tui") /\ \A z \in Slots : z # s => proc'[z] = proc[z]
    BY <1>1, <1>3
  <2>2. Bare(s)
    BY <2>1, StartedType DEF Bare
  <2>3. \A z \in Slots : z # s => Same(z)
    BY <2>1 DEF Same
  <2>4. lock' \notin Wrappers
    BY <1>3, Distinct DEF DeliveryInv, SessionInv, LockFits
  <2> QED BY <1>1, <2>2, <2>3, <2>4, EndsKeep
<1>4. ASSUME proc' = [s \in Slots |-> Empty], lock' = Nobody
      PROVE  ItemsSound' /\ WrapperSound'
  <2>1. \A s \in Slots : Bare(s)
    BY <1>4, EmptyType DEF Bare
  <2> QED BY <1>1, <1>4, <2>1, EndsKeep, Distinct
<1> QED BY <1>2, <1>3, <1>4 DEF HolderStep, HoldCheck, HoldLock, HoldSpawn, HoldEnd, wrapperVars

\* A wrapper starts looking for the lock.
LEMMA StartWrapperSound ==
  ASSUME DeliveryInv, NEW w \in Wrappers, StartWrapper(w), UNCHANGED <<scene, faults>>
  PROVE  ItemsSound' /\ WrapperSound'
<1>1. /\ UNCHANGED <<itemVars, lock, mem, proc, taker>>
      /\ wpc' = [wpc EXCEPT ![w] = "start"] /\ lock # w
  BY DEF StartWrapper, takeoverVars, DeliveryInv, SessionInv, LockFits
<1>2. lock \in Wrappers => wpc'[lock] = wpc[lock]
  BY <1>1, Types DEF DeliveryInv
<1> QED BY <1>1, <1>2, Elsewhere

\* When the takeover sees the wrapper idle, no queued message is in the harness's
\* turn but a given-up one.
LEMMA IdleBoundary ==
  ASSUME DeliveryInv, lock \in Wrappers, wpc[lock] = "loop", ~mem.busy, mem.cur = None,
         mem.harness # None, proc[mem.harness].turn \in Items
  PROVE  phase[proc[mem.harness].turn] = "failed"
<1> DEFINE i == proc[mem.harness].turn
           out == proc[mem.harness].out
<1>1. WrapperSound /\ SessionInv
  BY DEF DeliveryInv
<1>2. PICK n \in DOMAIN out : out[n].what = "started" /\ out[n].input[1] = i
  BY <1>1 DEF WrapperSound, TurnKnown, TurnIs
<1>3. phase[i] \in {"inflight", "failed"}
  BY <1>1, <1>2 DEF WrapperSound, StartsOpen, UnheardStart
<1>4. mem.job = None
  BY <1>1 DEF WrapperSound, JobFits
<1>5. phase[i] # "inflight"
  BY <1>1, <1>4, Types DEF WrapperSound, AllOwned
<1> QED BY <1>3, <1>5

\* The takeover: its hold and stop reach the wrapper at the top of its loop only.
LEMMA TakerSound ==
  ASSUME DeliveryInv, TakerStep \/ \E t \in Tokens : TakeMark(t), UNCHANGED <<scene, faults>>
  PROVE  ItemsSound' /\ WrapperSound'
<1>1. taker \in [pc : TakerPlaces, token : Tokens \cup {Nobody}, held : BOOLEAN] /\ mem \in Memories
  BY Types DEF DeliveryInv, SessionInv, TakeoverTypes
<1>2. CASE \/ TakeStatus \/ TakeWait \/ TakeWriters \/ TakeTab \/ \E t \in Tokens : TakeMark(t)
  <2>1. UNCHANGED <<itemVars, lock, wpc, mem, proc>>
    BY <1>2 DEF TakeStatus, TakeWait, TakeWriters, TakeTab, TakeMark, TakerRests, wrapperVars
  <2>2. taker'.pc # "stop"
    BY <1>1, <1>2 DEF TakeStatus, TakeWait, TakeWriters, TakeTab, TakeMark, TakerTo, Undo, Fail
  <2> QED BY <2>1, <2>2, Elsewhere
<1>3. CASE TakeHold \/ TakePoll \/ TakeStop
  <2>1. UNCHANGED <<itemVars, lock, wpc, proc>>
    BY <1>3 DEF TakeHold, TakePoll, TakeStop, TakerRests
  <2>2. /\ mem'.cur = mem.cur /\ mem'.job = mem.job /\ mem'.harness = mem.harness
        /\ mem'.busy = mem.busy /\ mem'.to = mem.to /\ mem'.consume = mem.consume
    BY <1>1, <1>3 DEF TakeHold, TakePoll, TakeStop, Release, AskStop, Memories
  <2>3. taker'.pc = "stop" =>
          lock \in Wrappers /\ wpc[lock] = "loop" /\ ~mem.busy /\ mem.cur = None /\ UNCHANGED mem
    BY <1>1, <1>3 DEF TakeHold, TakePoll, TakeStop, TakerTo, Undo, Answering, Serving
  <2>4. AtBoundary'
    BY <2>1, <2>3, IdleBoundary DEF AtBoundary, itemVars
  <2> QED BY <2>1, <2>2, <2>4, Asked
<1> QED BY <1>2, <1>3 DEF TakerStep

\* The handback.
LEMMA BackSound ==
  ASSUME DeliveryInv, BackCheck \/ BackStep, UNCHANGED <<scene, faults>>
  PROVE  ItemsSound' /\ WrapperSound'
<1>1. CASE BackKill
  BY <1>1, BackKillSound
<1>2. CASE BackCheck \/ BackLock \/ BackClear
  <2>1. UNCHANGED <<itemVars, mem, proc, wpc, taker>>
    BY <1>2 DEF BackCheck, BackLock, BackClear, wrapperVars
  <2>2. lock' \in Wrappers => lock' = lock
    BY <1>2, Distinct, TakeoverAssumption
    DEF BackCheck, BackLock, BackClear, wrapperVars, TakeoverAssumption
  <2> QED BY <2>1, <2>2, Elsewhere
<1> QED BY <1>1, <1>2 DEF BackStep

\* What a wrapper that is killed leaves behind holds at most what was sent.
LEMMA OrphanFits ==
  ASSUME NEW p \in Processes, NEW k \in 0 .. Len(p.pipe)
  PROVE  LET q == Orphan(p, k) IN
           /\ q.kind = p.kind /\ q.out = <<>>
           /\ p.kind = "none" => q.pipe = <<>> /\ q.queue = {} /\ q.turn = "no"
           /\ p.kind # "none" => /\ q.queue = p.queue /\ q.turn = p.turn
                                 /\ q.pipe = SubSeq(p.pipe, 1, k)
BY EmptyType DEF Orphan, Processes

\* The first elements of a sequence.
LEMMA Prefix ==
  ASSUME NEW S, NEW q \in Seq(S), NEW k \in 0 .. Len(q)
  PROVE  /\ DOMAIN SubSeq(q, 1, k) \subseteq DOMAIN q
         /\ \A n \in DOMAIN SubSeq(q, 1, k) : SubSeq(q, 1, k)[n] = q[n]
<1>1. Len(q) \in Nat /\ DOMAIN q = 1 .. Len(q) /\ \A i \in 1 .. k : q[i] \in S
  BY LenProperties
<1>2. k \in Nat /\ k <= Len(q)
  BY <1>1
<1>3. /\ SubSeq(q, 1, k) \in Seq(S) /\ Len(SubSeq(q, 1, k)) = IF 1 <= k THEN k - 1 + 1 ELSE 0
      /\ \A i \in 1 .. k - 1 + 1 : SubSeq(q, 1, k)[i] = q[1 + i - 1]
  BY <1>1, <1>2, SubSeqProperties
<1>4. Len(SubSeq(q, 1, k)) = k
  BY <1>2, <1>3
<1>5. DOMAIN SubSeq(q, 1, k) = 1 .. k
  BY <1>3, <1>4, LenProperties
<1> QED BY <1>1, <1>2, <1>3, <1>5

\* The wrapper is killed: the harness keeps some of what was sent to it.
LEMMA WrapperDiesSound ==
  ASSUME DeliveryInv, NEW w \in Wrappers, WrapperDies(w), UNCHANGED takeoverVars
  PROVE  ItemsSound' /\ WrapperSound'
<1>1. /\ ItemsSound /\ WrapperSound /\ SessionInv /\ UNCHANGED itemVars
      /\ lock' = Nobody /\ mem' = Fresh
  BY DEF DeliveryInv, WrapperDies, Return
<1>2. proc \in [Slots -> Processes] /\ mem.harness \in Slots \cup {None} /\ lock' \notin Wrappers
  BY <1>1, Types
<1>3. mem'.consume = {}
  BY <1>1 DEF Fresh
<1>4. CASE UNCHANGED proc
  <2>1. \A s \in Slots : Same(s)
    BY <1>4 DEF Same
  <2> QED BY <1>1, <1>2, <1>3, <2>1, EndsKeep DEF takeoverVars
<1>5. ASSUME NEW h \in Slots, h = mem.harness, NEW n \in 0 .. Len(proc[h].pipe),
             proc' = [proc EXCEPT ![h] = Orphan(proc[h], n)]
      PROVE  ItemsSound' /\ WrapperSound'
  <2> DEFINE p == proc[h]
             q == Orphan(p, n)
  <2>1. /\ h \in Slots /\ p \in Processes /\ proc'[h] = q
        /\ \A z \in Slots : z # h => proc'[z] = proc[z]
    BY <1>2, <1>5
  <2>2. /\ q.kind = p.kind /\ q.out = <<>>
        /\ p.kind = "none" => q.pipe = <<>> /\ q.queue = {} /\ q.turn = "no"
        /\ p.kind # "none" => q.queue = p.queue /\ q.turn = p.turn /\ q.pipe = SubSeq(p.pipe, 1, n)
    BY <1>5, <2>1, OrphanFits
  <2> HIDE DEF q
  <2>3. /\ DOMAIN SubSeq(p.pipe, 1, n) \subseteq DOMAIN p.pipe
        /\ \A m \in DOMAIN SubSeq(p.pipe, 1, n) : SubSeq(p.pipe, 1, n)[m] = p.pipe[m]
    <3>1. p.pipe \in Seq(Inputs)
      BY <2>1 DEF Processes
    <3> QED BY <1>5, <3>1, Prefix
  <2>4. /\ DOMAIN q.pipe \subseteq DOMAIN p.pipe /\ q.queue \subseteq p.queue
        /\ \A m \in DOMAIN q.pipe : q.pipe[m] = p.pipe[m]
    <3>1. CASE p.kind = "none"
      BY <2>2, <3>1
    <3>2. CASE p.kind # "none"
      BY <2>2, <2>3, <3>2
    <3> QED BY <3>1, <3>2
  <2>5. HeldOnce'
    <3>1. ASSUME NEW s \in Slots
          PROVE  /\ \A i, j \in DOMAIN proc'[s].pipe : proc'[s].pipe[i] = proc'[s].pipe[j] => i = j
                 /\ \A i \in DOMAIN proc'[s].pipe : proc'[s].pipe[i] \notin proc'[s].queue
      BY <1>1, <2>1, <2>4 DEF ItemsSound, HeldOnce
    <3> QED BY <3>1 DEF HeldOnce
  <2>6. Fewer(h)
    <3>1. HeldInputs(h)' = {q.pipe[m] : m \in DOMAIN q.pipe} \cup q.queue
      BY <2>1 DEF HeldInputs
    <3>2. DOMAIN proc'[h].out = {}
      BY <2>1, <2>2
    <3> QED BY <2>4, <3>1, <3>2 DEF Fewer, HeldInputs
  <2>7. \A s \in Slots : Fewer(s)
    BY <2>1, <2>6 DEF Fewer, HeldInputs
  <2>8. HarnessFits'
    BY <1>1, <1>2, <2>1, <2>2 DEF WrapperSound, HarnessFits
  <2>9. TurnKnown' /\ AtBoundary'
    BY <1>2 DEF TurnKnown, AtBoundary
  <2> QED BY <1>1, <1>2, <1>3, <2>5, <2>7, <2>8, <2>9, FewerKeeps
<1> QED BY <1>2, <1>4, <1>5 DEF WrapperDies

\* Any fault.
LEMMA FaultSound ==
  ASSUME DeliveryInv, Fault
  PROVE  ItemsSound' /\ WrapperSound'
<1>1. ASSUME NEW w \in Wrappers, WrapperDies(w), UNCHANGED takeoverVars
      PROVE  ItemsSound' /\ WrapperSound'
  BY <1>1, WrapperDiesSound
<1>2. ASSUME AskStop, UNCHANGED <<itemVars, lock, wpc, proc, takeoverVars>>
      PROVE  ItemsSound' /\ WrapperSound'
  <2>1. /\ mem'.cur = mem.cur /\ mem'.job = mem.job /\ mem'.harness = mem.harness
        /\ mem'.busy = mem.busy /\ mem'.to = mem.to /\ mem'.consume = mem.consume
        /\ mem'.held = mem.held
    BY <1>2, Types DEF AskStop, Memories, DeliveryInv
  <2>2. AtBoundary'
    BY <1>2, <2>1 DEF DeliveryInv, WrapperSound, AtBoundary, takeoverVars, itemVars
  <2> QED BY <1>2, <2>1, <2>2, Asked
<1>3. ASSUME UNCHANGED <<itemVars, wpc, mem, proc>>, lock' \in {Nobody, lock},
             taker'.pc = "stop" => taker.pc = "stop"
      PROVE  ItemsSound' /\ WrapperSound'
  BY <1>3, Distinct, Elsewhere
<1>4. TakerTo("idle") => taker'.pc # "stop"
  BY DEF TakerTo, DeliveryInv, SessionInv, TakeoverTypes
<1> QED BY <1>1, <1>2, <1>3, <1>4 DEF Fault, wrapperVars, takeoverVars

-----------------------------------------------------------------------------
(***************************************************************************)
(* Starting and ending a harness.                                          *)
(***************************************************************************)

\* Inputs stay where they are.
LEMMA SameTouched ==
  ASSUME UNCHANGED <<seen, proc>>
  PROVE  /\ \A x : Touched(x)' <=> Touched(x)
         /\ \A i : Untouched(i)' <=> Untouched(i)
<1>1. \A x : Touched(x)' <=> Touched(x)
  BY DEF Touched, HeldInputs
<1> QED BY <1>1 DEF Untouched

\* A wrapper takes the lock: no process holds an input that it could report on.
LEMMA ServeSound ==
  ASSUME DeliveryInv, NEW w \in Wrappers, Serve(w), UNCHANGED <<takeoverVars, scene, faults>>
  PROVE  ItemsSound' /\ WrapperSound'
<1>1. wpc[w] = "start" /\ UNCHANGED <<itemVars, proc, taker>> /\ lock # w
  BY DEF Serve, takeoverVars, DeliveryInv, SessionInv, LockFits
<1>2. wpc \in [Wrappers -> WrapperPlaces] /\ ItemsSound /\ WrapperSound
  BY Types DEF DeliveryInv
<1>3. CASE lock = Nobody /\ Live = {}
  <2>1. lock' = w /\ mem' = Fresh /\ wpc'[w] = "recover"
    BY <1>2, <1>3 DEF Serve, Goto
  <2>2. /\ mem'.cur = None /\ mem'.job = None /\ mem'.harness = None /\ mem'.consume = {}
    BY <2>1 DEF Fresh
  <2>3. HeldOnce' /\ \A s \in Slots : Fewer(s)
    BY <1>1, <1>2 DEF ItemsSound, HeldOnce, Fewer, HeldInputs, itemVars
  <2>4. ItemsSound'
    BY <1>1, <2>3, FewerSound
  <2>5. HarnessFits'
    BY <1>1, <1>2, <2>2, Distinct DEF WrapperSound, HarnessFits, Live
  <2>6. AnswersWait' /\ JobFits' /\ CurFits'
    BY <2>1, <2>2 DEF AnswersWait, JobFits, CurFits
  <2>7. MovedFits' /\ BarredFits' /\ SettleFits'
    BY <2>1 DEF MovedFits, BarredFits, SettleFits
  <2>8. AllOwned' /\ StartsOpen' /\ TurnKnown' /\ AtBoundary'
    BY <2>2 DEF AllOwned, StartsOpen, TurnKnown, AtBoundary
  <2> QED BY <2>4, <2>5, <2>6, <2>7, <2>8 DEF WrapperSound
<1>4. CASE ~(lock = Nobody /\ Live = {})
  <2>1. UNCHANGED <<lock, mem>> /\ wpc' = [wpc EXCEPT ![w] = "off"]
    BY <1>4 DEF Serve, Goto
  <2>2. lock \in Wrappers => wpc'[lock] = wpc[lock]
    BY <1>1, <1>2, <2>1
  <2> QED BY <1>1, <2>1, <2>2, Elsewhere
<1> QED BY <1>3, <1>4

\* A harness is started, after recovery has emptied inflight/.
LEMMA SpawnSound ==
  ASSUME DeliveryInv, NEW w \in Wrappers, Spawn(w), UNCHANGED <<takeoverVars, scene, faults>>
  PROVE  ItemsSound' /\ WrapperSound'
<1>1. /\ ItemsSound /\ WrapperSound /\ SessionInv
      /\ wpc \in [Wrappers -> WrapperPlaces] /\ mem \in Memories /\ proc \in [Slots -> Processes]
  BY Types DEF DeliveryInv
<1>2. /\ lock = w /\ wpc[w] = "recover" /\ wpc'[w] = "loop" /\ UNCHANGED <<itemVars, lock, taker>>
      /\ \A i \in Items : phase[i] # "inflight"
  BY <1>1 DEF Spawn, Goto, takeoverVars
<1>3. PICK s \in Slots \ Live : /\ proc' = [proc EXCEPT ![s] = Started("headless")]
                                /\ mem' = [mem EXCEPT !.harness = s]
  BY DEF Spawn
<1>4. /\ proc'[s].kind = "headless" /\ proc'[s].out = <<>> /\ proc'[s].heard
      /\ proc'[s].pipe = <<>> /\ proc'[s].queue = {} /\ proc'[s].turn = "no"
      /\ \A z \in Slots : z # s => proc'[z] = proc[z]
  BY <1>1, <1>3, StartedType
<1>5. /\ mem'.harness = s /\ mem'.cur = mem.cur /\ mem'.job = mem.job /\ mem'.consume = mem.consume
  BY <1>1, <1>3 DEF Memories
<1>6. mem.harness = None /\ mem.cur = None /\ mem.job = None
  BY <1>1, <1>2 DEF SessionInv, Alone, WrapperSound, CurFits, JobFits
<1>7. DOMAIN proc'[s].pipe = {} /\ DOMAIN proc'[s].out = {} /\ HeldInputs(s)' = {}
  BY <1>4 DEF HeldInputs
<1>8. HeldOnce' /\ \A z \in Slots : Fewer(z)
  <2>1. HeldOnce'
    BY <1>1, <1>4, <1>7 DEF ItemsSound, HeldOnce
  <2>2. Fewer(s)
    BY <1>7 DEF Fewer
  <2>3. \A z \in Slots : z # s => Fewer(z)
    BY <1>4 DEF Fewer, HeldInputs
  <2> QED BY <2>1, <2>2, <2>3
<1>9. ItemsSound'
  BY <1>2, <1>8, FewerSound
<1>10. HarnessFits'
  BY <1>1, <1>4, <1>5 DEF WrapperSound, HarnessFits
<1>11. AnswersWait' /\ JobFits' /\ CurFits'
  BY <1>1, <1>2, <1>3, <1>5, <1>6, Distinct
  DEF WrapperSound, AnswersWait, JobFits, CurFits, itemVars
<1>12. MovedFits' /\ BarredFits' /\ SettleFits'
  BY <1>2 DEF MovedFits, BarredFits, SettleFits
<1>13. AllOwned' /\ StartsOpen'
  BY <1>2, <1>5, <1>7 DEF AllOwned, StartsOpen, itemVars
<1>14. TurnKnown' /\ AtBoundary'
  BY <1>2, <1>4, <1>5, <1>6, HeadlessAssumption DEF TurnKnown, AtBoundary, HeadlessAssumption
<1> QED BY <1>9, <1>10, <1>11, <1>12, <1>13, <1>14 DEF WrapperSound

\* The harness has ended: its inputs go with it, and the wrapper forgets its own.
LEMMA HarnessExitedSound ==
  ASSUME DeliveryInv, NEW w \in Wrappers, HarnessExited(w),
         UNCHANGED <<takeoverVars, scene, faults>>
  PROVE  ItemsSound' /\ WrapperSound'
<1>1. /\ ItemsSound /\ WrapperSound /\ SessionInv
      /\ wpc \in [Wrappers -> WrapperPlaces] /\ mem \in Memories /\ proc \in [Slots -> Processes]
  BY Types DEF DeliveryInv
<1>2. PICK h \in Slots : h = mem.harness
  BY <1>1, Types DEF HarnessExited
<1>3. /\ lock = w /\ wpc[w] = "loop" /\ proc' = [proc EXCEPT ![h] = Empty]
      /\ UNCHANGED itemVars /\ UNCHANGED taker
  BY <1>2 DEF HarnessExited, Looping, takeoverVars
<1>4. proc'[h] = Empty /\ \A z \in Slots : z # h => proc'[z] = proc[z]
  BY <1>1, <1>3
<1>5. Bare(h) /\ \A z \in Slots : z # h => Same(z)
  BY <1>4, EmptyType DEF Bare, Same
<1>6. CASE Return(w)
  <2>1. lock' = Nobody /\ mem'.consume = {}
    BY <1>6 DEF Return, Fresh
  <2> QED BY <1>3, <1>5, <2>1, Distinct, EndsKeep
<1>7. ASSUME mem' = [mem EXCEPT !.harness = None, !.cur = None, !.acked = FALSE, !.busy = FALSE],
             UNCHANGED <<lock, wpc>>
      PROVE  ItemsSound' /\ WrapperSound'
  <2>1. /\ mem'.harness = None /\ mem'.cur = None /\ mem'.job = mem.job
        /\ mem'.consume = mem.consume
    BY <1>1, <1>7 DEF Memories
  <2>2. DOMAIN proc'[h].pipe = {} /\ DOMAIN proc'[h].out = {} /\ HeldInputs(h)' = {}
    BY <1>4, EmptyType DEF HeldInputs
  <2>3. HeldOnce'
    BY <1>1, <1>4, <2>2 DEF ItemsSound, HeldOnce
  <2>4. Fewer(h) /\ \A z \in Slots : z # h => Fewer(z)
    BY <1>4, <2>2 DEF Fewer, HeldInputs
  <2>5. \A z \in Slots : Fewer(z)
    BY <2>4
  <2>6. ItemsSound'
    BY <1>3, <2>3, <2>5, FewerSound
  <2>7. HarnessFits'
    BY <1>1, <1>4, <2>1, EmptyType, Distinct DEF WrapperSound, HarnessFits, Live
  <2>8. AnswersWait' /\ JobFits' /\ CurFits'
    BY <1>1, <1>3, <1>7, <2>1 DEF WrapperSound, AnswersWait, JobFits, CurFits, itemVars
  <2>9. MovedFits' /\ BarredFits' /\ SettleFits'
    BY <1>3, <1>7 DEF MovedFits, BarredFits, SettleFits
  <2>10. AllOwned' /\ StartsOpen' /\ TurnKnown' /\ AtBoundary'
    BY <2>1 DEF AllOwned, StartsOpen, TurnKnown, AtBoundary
  <2> QED BY <2>6, <2>7, <2>8, <2>9, <2>10 DEF WrapperSound
<1> QED BY <1>6, <1>7 DEF HarnessExited

\* The wrapper recovers before it starts another harness.
LEMMA RestartSound ==
  ASSUME DeliveryInv, NEW w \in Wrappers, Restart(w), UNCHANGED <<takeoverVars, scene, faults>>
  PROVE  ItemsSound' /\ WrapperSound'
<1>1. /\ ItemsSound /\ WrapperSound /\ SessionInv /\ wpc \in [Wrappers -> WrapperPlaces]
  BY Types DEF DeliveryInv
<1>2. /\ lock = w /\ wpc[w] = "loop" /\ mem.harness = None
      /\ UNCHANGED <<itemVars, proc, taker>>
  BY DEF Restart, Looping, takeoverVars
<1>3. CASE Return(w)
  <2>1. lock' = Nobody /\ mem'.consume = {}
    BY <1>3 DEF Return, Fresh
  <2>2. \A z \in Slots : Same(z)
    BY <1>2 DEF Same
  <2> QED BY <1>2, <2>1, <2>2, Distinct, EndsKeep
<1>4. ASSUME Goto(w, "recover"), UNCHANGED <<lock, mem>>
      PROVE  ItemsSound' /\ WrapperSound'
  <2>1. wpc'[w] = "recover"
    BY <1>1, <1>4 DEF Goto
  <2>2. HeldOnce' /\ \A s \in Slots : Fewer(s)
    BY <1>1, <1>2 DEF ItemsSound, HeldOnce, Fewer, HeldInputs, itemVars
  <2>3. ItemsSound'
    BY <1>2, <2>2, FewerSound
  <2>4. HarnessFits'
    BY <1>1, <1>2, <1>4 DEF WrapperSound, HarnessFits, Live
  <2>5. AnswersWait' /\ JobFits' /\ CurFits'
    BY <1>1, <1>2, <1>4, <2>1 DEF WrapperSound, AnswersWait, JobFits, CurFits, itemVars
  <2>6. MovedFits' /\ BarredFits' /\ SettleFits'
    BY <1>2, <1>4, <2>1 DEF MovedFits, BarredFits, SettleFits
  <2>7. AllOwned' /\ StartsOpen' /\ TurnKnown' /\ AtBoundary'
    BY <1>2, <1>4 DEF AllOwned, StartsOpen, TurnKnown, AtBoundary
  <2> QED BY <2>3, <2>4, <2>5, <2>6, <2>7 DEF WrapperSound
<1> QED BY <1>3, <1>4 DEF Restart

-----------------------------------------------------------------------------
(***************************************************************************)
(* Steps on the items.                                                     *)
(***************************************************************************)

\* A step that changes the queue and leaves the processes alone.
LEMMA ItemStep ==
  ASSUME DeliveryInv, UNCHANGED <<tries, seen, proc>>, NotOffered', StampsTell', Received'
  PROVE  ItemsSound'
<1>1. ItemsSound
  BY DEF DeliveryInv
<1>2. /\ \A x : Touched(x)' <=> Touched(x)
      /\ \A i : Untouched(i)' <=> Untouched(i)
  BY SameTouched
<1>3. HeldOnce' /\ HeldUnseen' /\ StartedOnce'
  BY <1>1 DEF ItemsSound, HeldOnce, HeldUnseen, HeldInputs, StartedOnce
<1>4. LatestAttempt'
  BY <1>1, <1>2 DEF ItemsSound, LatestAttempt
<1>5. ReportsTrue'
  BY <1>1, <1>2 DEF ItemsSound, ReportsTrue, SaysTrue
<1> QED BY <1>3, <1>4, <1>5 DEF ItemsSound

\* A message that is not yet offered moves on, or an answer to one is noted.
LEMMA Unoffered ==
  ASSUME DeliveryInv, UNCHANGED <<stamp, tries, seen, lock, wpc, proc, taker>>,
         phase' \in [Items -> Phases],
         \A j \in Items : \/ phase'[j] = phase[j]
                          \/ /\ phase[j] \in {"new", "pending"}
                             /\ phase'[j] \in {"pending", "withdrawn", "consumed"},
         mem'.cur = mem.cur, mem'.job = mem.job, mem'.harness = mem.harness,
         mem'.busy = mem.busy, mem'.to = mem.to, mem'.held = mem.held, AnswersWait'
  PROVE  ItemsSound' /\ WrapperSound'
<1>1. ItemsSound /\ WrapperSound /\ SessionInv
  BY DEF DeliveryInv
<1>2. /\ \A x : Touched(x)' <=> Touched(x)
      /\ \A i : Untouched(i)' <=> Untouched(i)
  BY SameTouched
<1>3. \A j \in Items : phase[j] \in {"inflight", "processed", "failed"} => phase'[j] = phase[j]
  OBVIOUS
<1>4. \A j \in Items : phase'[j] \in {"inflight", "processed", "failed"} => phase'[j] = phase[j]
  OBVIOUS
<1>5. NotOffered'
  BY <1>1, <1>2, <1>3, InputPair DEF ItemsSound, NotOffered
<1>6. StampsTell'
  BY <1>1, <1>2, <1>3 DEF ItemsSound, StampsTell
<1>7. Received'
  BY <1>1, <1>4 DEF ItemsSound, Received, Input
<1>8. ItemsSound'
  BY <1>5, <1>6, <1>7, ItemStep
<1>9. HarnessFits'
  BY <1>1 DEF WrapperSound, HarnessFits, Live
<1>10. TurnKnown'
  BY <1>1 DEF WrapperSound, TurnKnown, TurnIs, NoEnd
<1>11. mem.cur \in Items \cup {None} /\ mem.job \in Items \cup {None}
  BY <1>1, Types
<1>12. JobFits' /\ CurFits'
  BY <1>1, <1>3, <1>11 DEF WrapperSound, JobFits, CurFits
<1>13. AllOwned'
  BY <1>1, <1>4 DEF WrapperSound, AllOwned
<1>14. MovedFits' /\ SettleFits'
  BY <1>1, <1>2 DEF WrapperSound, MovedFits, SettleFits, Input
<1>15. BarredFits'
  BY <1>1 DEF WrapperSound, BarredFits, Input, Gone
<1>16. StartsOpen'
  <2> SUFFICES ASSUME lock \in Wrappers, mem.harness # None,
                      NEW n \in DOMAIN proc[mem.harness].out
               PROVE  UnheardStart(proc[mem.harness].out[n])'
    BY DEF StartsOpen
  <2>1. UnheardStart(proc[mem.harness].out[n])
    BY <1>1 DEF WrapperSound, StartsOpen
  <2>2. SaysTrue(proc[mem.harness].out[n])
    BY <1>1, Types DEF ItemsSound, ReportsTrue
  <2>3. proc[mem.harness].out[n].what = "started" => proc[mem.harness].out[n].input[1] \in Items
    BY <2>2, InputPair DEF SaysTrue
  <2> QED BY <1>3, <2>1, <2>3 DEF UnheardStart
<1>17. AtBoundary'
  BY <1>1, <1>3 DEF WrapperSound, AtBoundary
<1> QED BY <1>8, <1>9, <1>10, <1>12, <1>13, <1>14, <1>15, <1>16, <1>17 DEF WrapperSound

\* Clients touch only items that are new or waiting.
LEMMA QueueSound ==
  ASSUME DeliveryInv, Queue, UNCHANGED <<takeoverVars, scene, faults>>
  PROVE  ItemsSound' /\ WrapperSound'
<1>1. scene.items \subseteq Items /\ phase \in [Items -> Phases] /\ mem \in Memories
  BY TakeoverAssumption, Types DEF DeliveryInv, SessionInv, TakeoverTypes, TakeoverAssumption
<1>2. PICK i \in Items : Enqueue(i) \/ Withdraw(i) \/ Tombstone(i)
  BY <1>1 DEF Queue
<1>3. UNCHANGED <<stamp, tries, seen, lock, wpc, mem, proc, taker>>
  BY <1>2 DEF Enqueue, Withdraw, Tombstone, takeoverVars
<1>4. \/ UNCHANGED phase
      \/ /\ phase[i] \in {"new", "pending"}
         /\ phase' = [phase EXCEPT ![i] = "pending"] \/ phase' = [phase EXCEPT ![i] = "withdrawn"]
  BY <1>2 DEF Enqueue, Withdraw, Tombstone
<1>5. phase' \in [Items -> Phases]
  BY <1>1, <1>4 DEF Phases
<1>6. \A j \in Items : \/ phase'[j] = phase[j]
                       \/ /\ phase[j] \in {"new", "pending"}
                          /\ phase'[j] \in {"pending", "withdrawn"}
  BY <1>1, <1>4
<1>7. mem.consume \subseteq Items
  BY <1>1, HeadlessAssumption DEF Memories, HeadlessAssumption
<1>8. AnswersWait'
  BY <1>3, <1>6, <1>7 DEF DeliveryInv, WrapperSound, AnswersWait
<1> QED BY <1>3, <1>5, <1>6, <1>8, Unoffered

\* Answers that are accepted, used and forgotten.
LEMMA AnswersSound ==
  ASSUME DeliveryInv, NEW w \in Wrappers, NEW i \in Items,
         Consume(w, i) \/ Answer(w, i) \/ Forget(w, i), UNCHANGED <<takeoverVars, scene, faults>>
  PROVE  ItemsSound' /\ WrapperSound'
<1>1. phase \in [Items -> Phases] /\ mem \in Memories
  BY Types DEF DeliveryInv
<1>2. UNCHANGED <<stamp, tries, seen, lock, wpc, proc, taker>>
  BY DEF Consume, Answer, Forget, itemVars, takeoverVars
<1>3. /\ mem'.cur = mem.cur /\ mem'.job = mem.job /\ mem'.harness = mem.harness
      /\ mem'.busy = mem.busy /\ mem'.to = mem.to /\ mem'.held = mem.held
  BY <1>1 DEF Consume, Answer, Forget, Memories
<1>4. \/ UNCHANGED phase
      \/ phase[i] = "pending" /\ phase' = [phase EXCEPT ![i] = "consumed"]
  BY DEF Consume, Answer, Forget, itemVars
<1>5. phase' \in [Items -> Phases]
  BY <1>1, <1>4 DEF Phases
<1>6. \A j \in Items : \/ phase'[j] = phase[j]
                       \/ /\ phase[j] \in {"new", "pending"} /\ phase'[j] = "consumed"
  BY <1>1, <1>4
<1>7. mem.consume \subseteq Items
  BY <1>1, HeadlessAssumption DEF Memories, HeadlessAssumption
<1>8. AnswersWait
  BY DEF DeliveryInv, WrapperSound
<1>9. AnswersWait'
  <2>1. CASE Consume(w, i)
    <3>1. mem'.consume = mem.consume \ {i} /\ phase' = [phase EXCEPT ![i] = "consumed"]
      BY <1>1, <2>1 DEF Consume, Memories
    <3> QED BY <1>1, <1>7, <1>8, <3>1 DEF AnswersWait
  <2>2. CASE Answer(w, i)
    <3>1. mem'.consume = mem.consume \cup {i} /\ phase' = phase /\ phase[i] = "new"
      BY <1>1, <2>2 DEF Answer, Memories, itemVars
    <3> QED BY <1>8, <3>1 DEF AnswersWait
  <2>3. CASE Forget(w, i)
    <3>1. mem'.consume = mem.consume \ {i} /\ phase' = phase
      BY <1>1, <2>3 DEF Forget, Memories, itemVars
    <3> QED BY <1>8, <3>1 DEF AnswersWait
  <2> QED BY <2>1, <2>2, <2>3
<1> QED BY <1>2, <1>3, <1>5, <1>6, <1>9, Unoffered

\* The wrapper settles item i: it drops the stamps, and knows where the item goes.
LEMMA SettleToSound ==
  ASSUME DeliveryInv, NEW w \in Wrappers, lock = w, wpc[w] \in {"recover", "loop"},
         NEW i \in Items, phase[i] = "inflight", NEW to, SettleTo(w, i, to),
         UNCHANGED <<phase, tries, seen, lock, proc, taker>>,
         to = "pending" => Untouched(i),
         to = "processed" => Input(i) \in seen /\ wpc[w] = "recover",
         wpc[w] = "loop" => mem.cur = i
  PROVE  ItemsSound' /\ WrapperSound'
<1>1. /\ ItemsSound /\ WrapperSound /\ SessionInv /\ mem \in Memories
      /\ stamp \in [Items -> {"none", "barrier", "written"}] /\ wpc \in [Wrappers -> WrapperPlaces]
      /\ None \notin Items
  BY Types DEF DeliveryInv
<1>2. /\ \A x : Touched(x)' <=> Touched(x)
      /\ \A j : Untouched(j)' <=> Untouched(j)
  BY SameTouched
<1>3. stamp'[i] = "none" /\ \A j \in Items : j # i => stamp'[j] = stamp[j]
  BY <1>1 DEF SettleTo
<1>4. /\ mem'.cur = None /\ mem'.job = i /\ mem'.to = to /\ mem'.harness = mem.harness
      /\ mem'.busy = mem.busy /\ mem'.held = mem.held /\ mem'.consume = mem.consume
  BY <1>1 DEF SettleTo, Memories
<1>5. wpc'[w] = IF wpc[w] = "recover" THEN "resettle" ELSE "settle"
  BY <1>1 DEF SettleTo, Goto
<1>6. wpc[w] = "recover" => mem.harness = None
  BY <1>1 DEF SessionInv, Alone
<1>7. ItemsSound'
  <2>1. NotOffered'
    BY <1>1, <1>2 DEF ItemsSound, NotOffered
  <2>2. StampsTell'
    BY <1>1, <1>2, <1>3 DEF ItemsSound, StampsTell
  <2>3. Received'
    BY <1>1 DEF ItemsSound, Received, Input
  <2> QED BY <2>1, <2>2, <2>3, ItemStep
<1>8. HarnessFits'
  BY <1>1, <1>4 DEF WrapperSound, HarnessFits, Live
<1>9. AnswersWait' /\ JobFits' /\ CurFits'
  BY <1>1, <1>4, <1>5 DEF WrapperSound, AnswersWait, JobFits, CurFits
<1>10. MovedFits' /\ BarredFits' /\ SettleFits'
  BY <1>2, <1>3, <1>4, <1>5 DEF MovedFits, BarredFits, SettleFits, Input
<1>11. AllOwned'
  BY <1>1, <1>4, <1>6 DEF WrapperSound, AllOwned, JobFits
<1>12. StartsOpen'
  BY <1>1, <1>4, <1>5, <1>6 DEF WrapperSound, StartsOpen, UnheardStart
<1>13. TurnKnown'
  BY <1>1, <1>4 DEF WrapperSound, TurnKnown, TurnIs, NoEnd
<1>14. AtBoundary'
  BY <1>1, <1>4, <1>6 DEF WrapperSound, AtBoundary
<1> QED BY <1>7, <1>8, <1>9, <1>10, <1>11, <1>12, <1>13, <1>14 DEF WrapperSound

\* The acknowledgement deadline gives the input up.
LEMMA AckDeadlineSound ==
  ASSUME DeliveryInv, NEW w \in Wrappers, AckDeadline(w), UNCHANGED <<takeoverVars, scene, faults>>
  PROVE  ItemsSound' /\ WrapperSound'
<1>1. /\ lock = w /\ wpc[w] = "loop" /\ mem.cur # None /\ SettleTo(w, mem.cur, "failed")
      /\ UNCHANGED <<phase, tries, seen, lock, proc, taker>>
  BY DEF AckDeadline, Looping, takeoverVars
<1>2. mem.cur \in Items
  BY <1>1, Types DEF DeliveryInv
<1>3. phase[mem.cur] = "inflight"
  BY <1>1 DEF DeliveryInv, WrapperSound, CurFits
<1> QED BY <1>1, <1>2, <1>3, SettleToSound

\* Recovery: what the stamps say of an item decides where it goes.
LEMMA RecoverSound ==
  ASSUME DeliveryInv, NEW w \in Wrappers, NEW i \in Items, Recover(w, i),
         UNCHANGED <<takeoverVars, scene, faults>>
  PROVE  ItemsSound' /\ WrapperSound'
<1>1. /\ lock = w /\ wpc[w] = "recover" /\ phase[i] = "inflight"
      /\ UNCHANGED <<tries, seen, lock, proc, taker>>
  BY DEF Recover, takeoverVars
<1>2. /\ ItemsSound /\ WrapperSound /\ SessionInv
      /\ phase \in [Items -> Phases] /\ mem \in Memories
  BY Types DEF DeliveryInv
<1>3. ASSUME Input(i) \in seen, SettleTo(w, i, "processed"), UNCHANGED phase
      PROVE  ItemsSound' /\ WrapperSound'
  BY <1>1, <1>3, SettleToSound
<1>4. ASSUME stamp[i] = "barrier", SettleTo(w, i, "pending"), UNCHANGED phase
      PROVE  ItemsSound' /\ WrapperSound'
  <2>1. Untouched(i)
    BY <1>2, <1>4 DEF ItemsSound, StampsTell
  <2> QED BY <1>1, <1>4, <2>1, SettleToSound
<1>5. ASSUME stamp[i] # "barrier", phase' = [phase EXCEPT ![i] = "failed"],
             UNCHANGED <<stamp, wpc, mem>>
      PROVE  ItemsSound' /\ WrapperSound'
  <2>1. phase'[i] = "failed" /\ \A j \in Items : j # i => phase'[j] = phase[j]
    BY <1>2, <1>5
  <2>2. /\ \A x : Touched(x)' <=> Touched(x)
        /\ \A j : Untouched(j)' <=> Untouched(j)
    BY <1>1, SameTouched
  <2>3. ItemsSound'
    <3>1. NotOffered'
      BY <1>2, <2>1, <2>2, InputPair DEF ItemsSound, NotOffered
    <3>2. StampsTell'
      BY <1>2, <1>5, <2>1, <2>2 DEF ItemsSound, StampsTell
    <3>3. Received'
      BY <1>1, <1>2, <2>1 DEF ItemsSound, Received, Input
    <3> QED BY <1>1, <3>1, <3>2, <3>3, ItemStep
  <2>4. mem.harness = None /\ mem.cur = None /\ mem.job = None
    BY <1>1, <1>2 DEF SessionInv, Alone, WrapperSound, CurFits, JobFits
  <2>5. HarnessFits'
    BY <1>1, <1>2, <1>5 DEF WrapperSound, HarnessFits, Live
  <2>6. AnswersWait'
    <3>1. mem.consume \subseteq Items
      BY <1>2, HeadlessAssumption DEF Memories, HeadlessAssumption
    <3> QED BY <1>1, <1>2, <1>5, <2>1, <3>1 DEF WrapperSound, AnswersWait
  <2>7. JobFits' /\ CurFits' /\ MovedFits' /\ BarredFits' /\ SettleFits'
    BY <1>1, <1>5, <2>4 DEF JobFits, CurFits, MovedFits, BarredFits, SettleFits
  <2>8. AllOwned' /\ StartsOpen' /\ TurnKnown' /\ AtBoundary'
    BY <1>5, <2>4 DEF AllOwned, StartsOpen, TurnKnown, AtBoundary
  <2> QED BY <2>3, <2>5, <2>6, <2>7, <2>8 DEF WrapperSound
<1> QED BY <1>3, <1>4, <1>5 DEF Recover

\* A report of a start is of an input that was received.
LEMMA StartTouched ==
  ASSUME DeliveryInv, NEW s \in Slots, NEW n \in DOMAIN proc[s].out,
         proc[s].out[n].what = "started"
  PROVE  LET x == proc[s].out[n].input IN x \in seen /\ Touched(x) /\ x \in Inputs /\ x[1] \in Items
<1>1. SaysTrue(proc[s].out[n])
  BY DEF DeliveryInv, ItemsSound, ReportsTrue
<1> QED BY <1>1, InputPair DEF SaysTrue, Touched

\* The second write of a settling: the item leaves inflight/.
LEMMA SettleSound ==
  ASSUME DeliveryInv, NEW w \in Wrappers, Settle(w), UNCHANGED <<takeoverVars, scene, faults>>
  PROVE  ItemsSound' /\ WrapperSound'
<1>1. /\ ItemsSound /\ WrapperSound /\ SessionInv /\ mem \in Memories /\ None \notin Items
      /\ phase \in [Items -> Phases] /\ wpc \in [Wrappers -> WrapperPlaces]
  BY Types DEF DeliveryInv
<1>2. /\ lock = w /\ wpc[w] \in {"settle", "resettle"}
      /\ wpc'[w] = IF wpc[w] = "resettle" THEN "recover" ELSE "loop"
      /\ UNCHANGED <<stamp, tries, seen, lock, proc, taker>>
  BY <1>1 DEF Settle, Goto, takeoverVars
<1>3. PICK i \in Items : i = mem.job
  BY <1>1, <1>2 DEF WrapperSound, JobFits
<1>4. /\ phase[i] = "inflight" /\ stamp[i] = "none" /\ mem.cur = None
      /\ mem.to = "pending" => Untouched(i)
      /\ mem.to = "processed" => Input(i) \in seen
      /\ mem.to \in {"pending", "processed", "failed"}
  BY <1>1, <1>2, <1>3 DEF WrapperSound, JobFits, SettleFits, Memories
<1>5. phase'[i] = mem.to /\ \A j \in Items : j # i => phase'[j] = phase[j]
  BY <1>1, <1>3 DEF Settle
<1>6. /\ mem'.cur = None /\ mem'.job = None /\ mem'.harness = mem.harness
      /\ mem'.busy = mem.busy /\ mem'.held = mem.held /\ mem'.consume = mem.consume
  BY <1>1, <1>4 DEF Settle, Memories
<1>7. wpc[w] = "resettle" => mem.harness = None
  BY <1>1 DEF SessionInv, Alone
<1>8. /\ \A x : Touched(x)' <=> Touched(x)
      /\ \A j : Untouched(j)' <=> Untouched(j)
  BY <1>2, SameTouched
<1>9. ItemsSound'
  <2>1. NotOffered'
    <3> SUFFICES ASSUME NEW x \in Inputs, Touched(x)
                 PROVE  phase'[x[1]] \in {"inflight", "processed", "failed"}
      BY <1>8 DEF NotOffered
    <3>1. CASE x[1] = i
      BY <1>4, <1>5, <3>1 DEF Untouched
    <3>2. CASE x[1] # i
      BY <1>1, <1>5, <3>2, InputPair DEF ItemsSound, NotOffered
    <3> QED BY <3>1, <3>2
  <2>2. StampsTell'
    BY <1>1, <1>2, <1>4, <1>5, <1>8 DEF ItemsSound, StampsTell
  <2>3. Received'
    BY <1>1, <1>2, <1>4, <1>5 DEF ItemsSound, Received, Input
  <2> QED BY <1>2, <2>1, <2>2, <2>3, ItemStep
<1>10. HarnessFits'
  BY <1>1, <1>2, <1>6 DEF WrapperSound, HarnessFits, Live
<1>11. AnswersWait'
  <2>1. mem.consume \subseteq Items
    BY <1>1, HeadlessAssumption DEF Memories, HeadlessAssumption
  <2> QED BY <1>1, <1>4, <1>5, <1>6, <2>1 DEF WrapperSound, AnswersWait
<1>12. JobFits' /\ CurFits' /\ MovedFits' /\ BarredFits' /\ SettleFits'
  BY <1>2, <1>6 DEF JobFits, CurFits, MovedFits, BarredFits, SettleFits
<1>13. AllOwned'
  BY <1>1, <1>2, <1>3, <1>4, <1>5, <1>6 DEF WrapperSound, AllOwned
<1>14. StartsOpen'
  <2> SUFFICES ASSUME mem.harness # None, NEW n \in DOMAIN proc[mem.harness].out,
                      proc[mem.harness].out[n].what = "started"
               PROVE  phase'[proc[mem.harness].out[n].input[1]] \in {"inflight", "failed"}
    BY <1>2, <1>6 DEF StartsOpen, UnheardStart
  <2> DEFINE x == proc[mem.harness].out[n].input
  <2>1. wpc[w] = "settle" /\ mem.harness \in Slots
    BY <1>1, <1>2, <1>7, Types
  <2>2. Touched(x) /\ x \in Inputs /\ x[1] \in Items
    BY <2>1, StartTouched
  <2>3. /\ phase[x[1]] \in {"inflight", "failed"}
        /\ mem.to = "processed" => x[1] # i
    BY <1>1, <1>2, <1>3, <2>1 DEF WrapperSound, StartsOpen, UnheardStart
  <2>4. mem.to = "pending" => x[1] # i
    BY <1>4, <2>2 DEF Untouched
  <2> QED BY <1>4, <1>5, <2>2, <2>3, <2>4
<1>15. TurnKnown'
  BY <1>1, <1>2, <1>6 DEF WrapperSound, TurnKnown, TurnIs, NoEnd
<1>16. AtBoundary'
  BY <1>1, <1>2, <1>6 DEF WrapperSound, AtBoundary
<1> QED BY <1>9, <1>10, <1>11, <1>12, <1>13, <1>14, <1>15, <1>16 DEF WrapperSound

\* An item that is moved behind the barrier has reached no process.
LEMMA MoveSound ==
  ASSUME DeliveryInv, NEW w \in Wrappers, NEW i \in Items, Move(w, i),
         UNCHANGED <<takeoverVars, scene, faults>>
  PROVE  ItemsSound' /\ WrapperSound'
<1>1. /\ ItemsSound /\ WrapperSound /\ SessionInv /\ mem \in Memories /\ None \notin Items
      /\ phase \in [Items -> Phases] /\ wpc \in [Wrappers -> WrapperPlaces]
  BY Types DEF DeliveryInv
<1>2. /\ lock = w /\ wpc[w] = "loop" /\ wpc'[w] = "moved" /\ phase[i] = "pending"
      /\ mem.cur = None /\ ~mem.held /\ mem.harness # None /\ i \notin mem.consume
      /\ UNCHANGED <<stamp, tries, seen, lock, proc, taker>>
  BY <1>1 DEF Move, Looping, MayDeliver, Goto, takeoverVars
<1>3. phase'[i] = "inflight" /\ \A j \in Items : j # i => phase'[j] = phase[j]
  BY <1>1 DEF Move
<1>4. /\ mem'.cur = None /\ mem'.job = i /\ mem'.harness = mem.harness
      /\ mem'.busy = mem.busy /\ mem'.held = mem.held /\ mem'.consume = mem.consume
  BY <1>1, <1>2 DEF Move, Memories
<1>5. /\ \A x : Touched(x)' <=> Touched(x)
      /\ \A j : Untouched(j)' <=> Untouched(j)
  BY <1>2, SameTouched
<1>6. Untouched(i) /\ stamp[i] \notin {"barrier", "written"}
  BY <1>1, <1>2 DEF ItemsSound, NotOffered, Untouched, StampsTell
<1>7. stamp[i] = "none"
  BY <1>1, <1>6, Types
<1>8. ItemsSound'
  <2>1. NotOffered'
    BY <1>1, <1>3, <1>5, InputPair DEF ItemsSound, NotOffered
  <2>2. StampsTell'
    BY <1>1, <1>2, <1>3, <1>5, <1>7 DEF ItemsSound, StampsTell
  <2>3. Received'
    BY <1>1, <1>2, <1>3 DEF ItemsSound, Received, Input
  <2> QED BY <1>2, <2>1, <2>2, <2>3, ItemStep
<1>9. HarnessFits'
  BY <1>1, <1>2, <1>4 DEF WrapperSound, HarnessFits, Live
<1>10. AnswersWait'
  <2>1. mem.consume \subseteq Items
    BY <1>1, HeadlessAssumption DEF Memories, HeadlessAssumption
  <2> QED BY <1>1, <1>2, <1>3, <1>4, <2>1 DEF WrapperSound, AnswersWait
<1>11. JobFits' /\ CurFits' /\ BarredFits' /\ SettleFits'
  BY <1>2, <1>3, <1>4 DEF JobFits, CurFits, BarredFits, SettleFits
<1>12. MovedFits'
  BY <1>2, <1>4, <1>5, <1>6, <1>7 DEF MovedFits
<1>13. AllOwned'
  BY <1>1, <1>2, <1>3, <1>4 DEF WrapperSound, AllOwned, JobFits
<1>14. StartsOpen'
  <2> SUFFICES ASSUME NEW n \in DOMAIN proc[mem.harness].out,
                      proc[mem.harness].out[n].what = "started"
               PROVE  phase'[proc[mem.harness].out[n].input[1]] \in {"inflight", "failed"}
    BY <1>2, <1>4 DEF StartsOpen, UnheardStart
  <2>1. mem.harness \in Slots
    BY <1>1, <1>2, Types
  <2>2. proc[mem.harness].out[n].input[1] \in Items
    BY <2>1, StartTouched
  <2>3. phase[proc[mem.harness].out[n].input[1]] \in {"inflight", "failed"}
    BY <1>1, <1>2 DEF WrapperSound, StartsOpen, UnheardStart
  <2> QED BY <1>3, <2>2, <2>3
<1>15. TurnKnown'
  BY <1>1, <1>2, <1>4 DEF WrapperSound, TurnKnown, TurnIs, NoEnd
<1>16. AtBoundary'
  BY <1>2, <1>4 DEF AtBoundary
<1> QED BY <1>8, <1>9, <1>10, <1>11, <1>12, <1>13, <1>14, <1>15, <1>16 DEF WrapperSound

\* The barrier starts a new attempt of an item that has reached no process.
LEMMA BarSound ==
  ASSUME DeliveryInv, NEW w \in Wrappers, Bar(w), UNCHANGED <<takeoverVars, scene, faults>>
  PROVE  ItemsSound' /\ WrapperSound'
<1>1. /\ ItemsSound /\ WrapperSound /\ SessionInv /\ mem \in Memories /\ None \notin Items
      /\ phase \in [Items -> Phases] /\ wpc \in [Wrappers -> WrapperPlaces]
      /\ tries \in [Items -> Nat] /\ stamp \in [Items -> {"none", "barrier", "written"}]
  BY Types DEF DeliveryInv
<1>2. lock = w /\ wpc[w] = "moved" /\ UNCHANGED <<seen, lock, proc, taker>>
  BY DEF Bar, takeoverVars
<1>3. PICK i \in Items : i = mem.job
  BY <1>1, <1>2 DEF WrapperSound, JobFits
<1>4. /\ phase[i] = "inflight" /\ stamp[i] = "none" /\ mem.cur = None /\ Untouched(i)
      /\ mem.harness # None
  BY <1>1, <1>2, <1>3 DEF WrapperSound, JobFits, MovedFits, CurFits
<1>5. /\ \A x : Touched(x)' <=> Touched(x)
      /\ \A j : Untouched(j)' <=> Untouched(j)
  BY <1>2, SameTouched
<1>6. HarnessFits' \/ mem'.harness # mem.harness
  BY <1>1, <1>2 DEF WrapperSound, HarnessFits, Live
<1>7. mem.consume \subseteq Items /\ i \notin mem.consume
  BY <1>1, <1>4, HeadlessAssumption DEF WrapperSound, AnswersWait, Memories, HeadlessAssumption
<1>8. mem.harness \in Slots
  BY <1>1, <1>4, Types
<1>9. ASSUME phase' = [phase EXCEPT ![i] = "cancelled"], mem' = [mem EXCEPT !.job = None],
             Goto(w, "loop"), UNCHANGED <<stamp, tries>>
      PROVE  ItemsSound' /\ WrapperSound'
  <2>1. phase'[i] = "cancelled" /\ \A j \in Items : j # i => phase'[j] = phase[j]
    BY <1>1, <1>9
  <2>2. /\ mem'.cur = None /\ mem'.job = None /\ mem'.harness = mem.harness
        /\ mem'.busy = mem.busy /\ mem'.held = mem.held /\ mem'.consume = mem.consume
    BY <1>1, <1>4, <1>9 DEF Memories
  <2>3. wpc'[w] = "loop"
    BY <1>1, <1>9 DEF Goto
  <2>4. ItemsSound'
    <3>1. NotOffered'
      BY <1>1, <1>4, <1>5, <2>1, InputPair DEF ItemsSound, NotOffered, Untouched
    <3>2. StampsTell'
      BY <1>1, <1>4, <1>5, <1>9, <2>1 DEF ItemsSound, StampsTell
    <3>3. Received'
      BY <1>1, <1>2, <1>9, <2>1 DEF ItemsSound, Received, Input
    <3> QED BY <1>2, <1>9, <3>1, <3>2, <3>3, ItemStep
  <2>5. AnswersWait'
    BY <1>1, <1>7, <2>1, <2>2 DEF WrapperSound, AnswersWait
  <2>6. JobFits' /\ CurFits' /\ MovedFits' /\ BarredFits' /\ SettleFits'
    BY <1>2, <1>4, <2>2, <2>3 DEF JobFits, CurFits, MovedFits, BarredFits, SettleFits
  <2>7. AllOwned'
    BY <1>1, <1>2, <1>3, <1>4, <2>1, <2>2 DEF WrapperSound, AllOwned
  <2>8. StartsOpen'
    <3> SUFFICES ASSUME NEW n \in DOMAIN proc[mem.harness].out,
                        proc[mem.harness].out[n].what = "started"
                 PROVE  phase'[proc[mem.harness].out[n].input[1]] \in {"inflight", "failed"}
      BY <1>2, <2>2, <2>3 DEF StartsOpen, UnheardStart
    <3> DEFINE x == proc[mem.harness].out[n].input
    <3>1. Touched(x) /\ x \in Inputs /\ x[1] \in Items
      BY <1>8, StartTouched
    <3>2. phase[x[1]] \in {"inflight", "failed"} /\ x[1] # i
      BY <1>1, <1>2, <1>4, <3>1 DEF WrapperSound, StartsOpen, UnheardStart, Untouched
    <3> QED BY <2>1, <3>1, <3>2
  <2>9. TurnKnown'
    BY <1>1, <1>2, <2>2 DEF WrapperSound, TurnKnown, TurnIs, NoEnd
  <2>10. AtBoundary'
    BY <1>1, <1>2, <2>2 DEF WrapperSound, AtBoundary
  <2> QED BY <1>6, <2>2, <2>4, <2>5, <2>6, <2>7, <2>8, <2>9, <2>10 DEF WrapperSound
<1>10. ASSUME stamp' = [stamp EXCEPT ![i] = "barrier"], tries' = [tries EXCEPT ![i] = @ + 1],
              Goto(w, "barred"), UNCHANGED <<phase, mem>>
       PROVE  ItemsSound' /\ WrapperSound'
  <2>1. /\ stamp'[i] = "barrier" /\ \A j \in Items : j # i => stamp'[j] = stamp[j]
        /\ tries'[i] = tries[i] + 1 /\ \A j \in Items : j # i => tries'[j] = tries[j]
        /\ wpc'[w] = "barred" /\ \A j \in Items : tries[j] \in Nat
    BY <1>1, <1>10 DEF Goto
  <2>2. LatestAttempt' /\ NotOffered'
    BY <1>1, <1>4, <1>5, <1>10, <2>1, InputPair
    DEF ItemsSound, LatestAttempt, NotOffered, Untouched
  <2>3. StampsTell'
    BY <1>1, <1>4, <1>5, <1>10, <2>1 DEF ItemsSound, StampsTell
  <2>4. Received'
    BY <1>1, <1>2, <1>4, <1>10, <2>1 DEF ItemsSound, Received, Input
  <2>5. ASSUME NEW s \in Slots, NEW n \in DOMAIN proc[s].out
        PROVE  SaysTrue(proc[s].out[n])' /\ ~Gone(proc[s].out[n], <<i, tries'[i]>>)
    <3> DEFINE r == proc[s].out[n]
    <3>1. SaysTrue(r)
      BY <1>1 DEF ItemsSound, ReportsTrue
    <3>2. CASE r.what \in {"queued", "started", "cancelled"}
      <4>1. r.input \in Inputs /\ r.input[2] <= tries[r.input[1]]
        BY <3>1, <3>2 DEF SaysTrue
      <4>2. r.input[1] \in Items /\ r.input[2] \in Nat
        BY <4>1, InputPair
      <4>3. r.input[2] <= tries'[r.input[1]]
        BY <2>1, <4>1, <4>2
      <4>4. r.input[1] = i => r.input[2] # tries'[i]
        BY <2>1, <4>1, <4>2
      <4>5. SaysTrue(proc[s].out[n])'
        BY <1>2, <1>5, <2>1, <3>1, <4>1, <4>2, <4>3, <4>4 DEF SaysTrue
      <4> QED BY <4>4, <4>5 DEF Gone
    <3>3. CASE r.what \notin {"queued", "started", "cancelled"}
      BY <1>2, <3>3 DEF SaysTrue, Gone
    <3> QED BY <3>2, <3>3
  <2>6. HeldOnce' /\ HeldUnseen' /\ StartedOnce'
    BY <1>1, <1>2 DEF ItemsSound, HeldOnce, HeldUnseen, HeldInputs, StartedOnce
  <2>7. ReportsTrue'
    BY <1>2, <2>5 DEF ReportsTrue
  <2>8. AnswersWait' /\ JobFits' /\ MovedFits' /\ SettleFits'
    BY <1>1, <1>2, <1>3, <1>4, <1>10, <2>1
    DEF WrapperSound, AnswersWait, JobFits, MovedFits, SettleFits
  <2>9. CurFits'
    BY <1>2, <1>4, <1>10 DEF CurFits
  <2>10. BarredFits'
    BY <1>2, <1>3, <1>10, <2>1, <2>5 DEF BarredFits, Input, Gone
  <2>11. AllOwned' /\ StartsOpen'
    BY <1>1, <1>2, <1>10, <2>1 DEF WrapperSound, AllOwned, StartsOpen, UnheardStart
  <2>12. TurnKnown'
    BY <1>1, <1>2, <1>10 DEF WrapperSound, TurnKnown, TurnIs, NoEnd
  <2>13. AtBoundary'
    BY <1>1, <1>2, <1>10 DEF WrapperSound, AtBoundary
  <2> QED BY <1>6, <1>10, <2>2, <2>3, <2>4, <2>6, <2>7, <2>8, <2>9, <2>10, <2>11, <2>12, <2>13
          DEF ItemsSound, WrapperSound
<1> QED BY <1>3, <1>9, <1>10 DEF Bar

-----------------------------------------------------------------------------
(***************************************************************************)
(* Writing an input and hearing of it.                                     *)
(***************************************************************************)

\* The input is written: the one moment at which an item becomes touched.
LEMMA WriteSound ==
  ASSUME DeliveryInv, NEW w \in Wrappers, Write(w), UNCHANGED <<takeoverVars, scene, faults>>
  PROVE  ItemsSound' /\ WrapperSound'
<1>1. /\ ItemsSound /\ WrapperSound /\ SessionInv /\ mem \in Memories /\ None \notin Items
      /\ wpc \in [Wrappers -> WrapperPlaces] /\ proc \in [Slots -> Processes]
      /\ stamp \in [Items -> {"none", "barrier", "written"}]
  BY Types DEF DeliveryInv
<1>2. /\ lock = w /\ wpc[w] = "barred" /\ wpc'[w] = "loop"
      /\ UNCHANGED <<phase, tries, seen, lock, taker>>
  BY <1>1 DEF Write, Goto, takeoverVars
<1>3. PICK i \in Items : i = mem.job
  BY <1>1, <1>2 DEF WrapperSound, JobFits
<1>4. PICK h \in Slots : h = mem.harness
  BY <1>1, <1>2, Types DEF WrapperSound, CurFits
<1>5. /\ phase[i] = "inflight" /\ stamp[i] = "barrier" /\ mem.cur = None /\ Untouched(i)
      /\ \A s \in Slots : \A n \in DOMAIN proc[s].out : ~Gone(proc[s].out[n], Input(i))
  BY <1>1, <1>2, <1>3 DEF WrapperSound, JobFits, BarredFits, ItemsSound, StampsTell
<1> DEFINE x == <<i, tries[i]>>
<1>6. x \in Inputs /\ x[1] = i /\ x[2] = tries[i] /\ Input(i) = x
  BY <1>1, <1>2, <1>3 DEF SessionInv, AttemptFits, QueueTypes, Input, Inputs
<1> HIDE DEF x
<1>7. /\ mem'.cur = i /\ mem'.job = None /\ mem'.harness = h
      /\ mem'.busy = mem.busy /\ mem'.held = mem.held /\ mem'.consume = mem.consume
  BY <1>1, <1>3, <1>4 DEF Write, Memories
<1>8. stamp'[i] = "written" /\ \A j \in Items : j # i => stamp'[j] = stamp[j]
  BY <1>1, <1>3 DEF Write
<1>9. /\ \A z \in Slots : /\ proc'[z].out = proc[z].out /\ proc'[z].turn = proc[z].turn
                          /\ proc'[z].kind = proc[z].kind /\ proc'[z].heard = proc[z].heard
                          /\ proc'[z].queue = proc[z].queue
      /\ \A z \in Slots : z # h => proc'[z] = proc[z]
      /\ \/ proc'[h].pipe = proc[h].pipe
         \/ h \in Live /\ proc'[h].pipe = Append(proc[h].pipe, x)
  <2>1. CASE h \in Live
    <3>1. proc' = [proc EXCEPT ![h].pipe = Append(@, x)]
      BY <1>3, <1>4, <1>6, <2>1 DEF Write
    <3> QED BY <1>1, <2>1, <3>1 DEF Processes
  <2>2. CASE h \notin Live
    BY <1>4, <2>2 DEF Write
  <2> QED BY <2>1, <2>2
<1>10. ~Touched(x)
  BY <1>5, <1>6 DEF Untouched
<1>11. x \notin HeldInputs(h) /\ x \notin seen
  BY <1>10 DEF Touched
<1>12. /\ \A y \in HeldInputs(h)' : y \in HeldInputs(h) \/ y = x
       /\ \A m, n \in DOMAIN proc'[h].pipe : proc'[h].pipe[m] = proc'[h].pipe[n] => m = n
       /\ \A n \in DOMAIN proc'[h].pipe : proc'[h].pipe[n] \notin proc'[h].queue
  <2>1. CASE proc'[h].pipe = proc[h].pipe
    BY <1>1, <1>9, <2>1 DEF ItemsSound, HeldOnce, HeldInputs
  <2>2. CASE proc'[h].pipe = Append(proc[h].pipe, x)
    <3> DEFINE u == proc[h].pipe
               v == Append(u, x)
    <3>1. u \in Seq(Inputs)
      BY <1>1, Types
    <3>2. /\ DOMAIN v = 1 .. (Len(u) + 1) /\ v[Len(u) + 1] = x
          /\ \A n \in DOMAIN u : n \in DOMAIN v /\ v[n] = u[n]
          /\ \A n \in DOMAIN v : n \in DOMAIN u \/ n = Len(u) + 1
      BY <1>6, <3>1, Appended
    <3>3. /\ \A n \in DOMAIN u : u[n] # x /\ u[n] \notin proc[h].queue
          /\ x \notin proc[h].queue /\ \A m, n \in DOMAIN u : u[m] = u[n] => m = n
      BY <1>1, <1>11 DEF HeldInputs, ItemsSound, HeldOnce
    <3>4. proc'[h].pipe = v
      BY <2>2
    <3> HIDE DEF u, v
    <3>5. \A m, n \in DOMAIN v : v[m] = v[n] => m = n
      BY <3>2, <3>3
    <3>6. \A n \in DOMAIN v : v[n] \notin proc[h].queue
      BY <3>2, <3>3
    <3>7. \A y \in HeldInputs(h)' : y \in proc[h].queue \/ \E n \in DOMAIN v : y = v[n]
      BY <1>9, <3>4 DEF HeldInputs
    <3>8. \A n \in DOMAIN u : u[n] \in HeldInputs(h)
      BY DEF HeldInputs, u
    <3>9. proc[h].queue \subseteq HeldInputs(h)
      BY DEF HeldInputs
    <3> QED BY <1>9, <3>2, <3>4, <3>5, <3>6, <3>7, <3>8, <3>9
  <2> QED BY <1>9, <2>1, <2>2
<1>13. \A y : Touched(y)' => Touched(y) \/ y = x
  BY <1>2, <1>9, <1>12 DEF Touched, HeldInputs
<1>14. \A j : Untouched(j) /\ j # i => Untouched(j)'
  BY <1>6, <1>13 DEF Untouched
<1>15. HeldOnce'
  BY <1>1, <1>9, <1>12 DEF ItemsSound, HeldOnce
<1>16. HeldUnseen'
  <2> SUFFICES ASSUME NEW z \in Slots, NEW y \in HeldInputs(z)'
               PROVE  y \notin seen
    BY <1>2 DEF HeldUnseen
  <2>1. CASE z = h
    BY <1>1, <1>11, <1>12, <2>1 DEF ItemsSound, HeldUnseen
  <2>2. CASE z # h
    <3>1. y \in HeldInputs(z)
      BY <1>9, <2>2 DEF HeldInputs
    <3> QED BY <1>1, <3>1 DEF ItemsSound, HeldUnseen
  <2> QED BY <2>1, <2>2
<1>17. LatestAttempt' /\ NotOffered'
  BY <1>1, <1>2, <1>5, <1>6, <1>13 DEF ItemsSound, LatestAttempt, NotOffered
<1>18. StampsTell'
  BY <1>1, <1>2, <1>5, <1>8, <1>14 DEF ItemsSound, StampsTell
<1>19. Received' /\ StartedOnce'
  BY <1>1, <1>2, <1>9 DEF ItemsSound, Received, Input, StartedOnce
<1>20. ReportsTrue'
  <2> SUFFICES ASSUME NEW s \in Slots, NEW n \in DOMAIN proc[s].out
               PROVE  SaysTrue(proc[s].out[n])'
    BY <1>9 DEF ReportsTrue
  <2> DEFINE r == proc[s].out[n]
  <2>1. SaysTrue(r) /\ ~Gone(r, x)
    BY <1>1, <1>5, <1>6 DEF ItemsSound, ReportsTrue
  <2>2. r.what = "cancelled" /\ r.input[2] = tries[r.input[1]] => r.input[1] # i
    <3>1. SUFFICES ASSUME r.what = "cancelled", r.input[2] = tries[r.input[1]], r.input[1] = i
                   PROVE  FALSE
      OBVIOUS
    <3>2. r.input = x
      BY <1>6, <2>1, <3>1, InputPair DEF SaysTrue
    <3> QED BY <2>1, <3>1, <3>2 DEF Gone
  <2> QED BY <1>2, <1>9, <1>14, <2>1, <2>2 DEF SaysTrue
<1>21. ItemsSound'
  BY <1>15, <1>16, <1>17, <1>18, <1>19, <1>20 DEF ItemsSound
<1>22. HarnessFits'
  <2>1. Live' = Live
    BY <1>9 DEF Live
  <2>2. h \in Live => proc[h].kind = "headless" /\ proc[h].heard
    BY <1>1, <1>2, <1>4 DEF WrapperSound, HarnessFits
  <2> QED BY <1>1, <1>7, <1>9, <2>1, <2>2 DEF WrapperSound, HarnessFits
<1>23. AnswersWait' /\ JobFits' /\ CurFits'
  BY <1>1, <1>2, <1>4, <1>5, <1>7, <1>8, Distinct DEF WrapperSound, AnswersWait, JobFits, CurFits
<1>24. MovedFits' /\ BarredFits' /\ SettleFits'
  BY <1>2 DEF MovedFits, BarredFits, SettleFits
<1>25. AllOwned'
  BY <1>1, <1>2, <1>3, <1>4, <1>5, <1>7, Distinct DEF WrapperSound, AllOwned
<1>26. StartsOpen'
  BY <1>1, <1>2, <1>4, <1>7, <1>9, Distinct DEF WrapperSound, StartsOpen, UnheardStart
<1>27. TurnKnown'
  BY <1>1, <1>2, <1>4, <1>7, <1>9, Distinct DEF WrapperSound, TurnKnown, TurnIs, NoEnd
<1>28. AtBoundary'
  BY <1>1, <1>2, <1>4, <1>7 DEF WrapperSound, AtBoundary
<1> QED BY <1>21, <1>22, <1>23, <1>24, <1>25, <1>26, <1>27, <1>28 DEF WrapperSound

\* The items when the first report of process h is read.
LEMMA HearItems ==
  ASSUME DeliveryInv, NEW h \in Slots, proc[h].out # <<>>,
         proc' = [proc EXCEPT ![h].out = Tail(@)], UNCHANGED <<phase, tries, seen>>,
         stamp' \in [Items -> {"none", "barrier", "written"}],
         \A j \in Items : stamp'[j] \in {stamp[j], "none"}
  PROVE  /\ ItemsSound'
         /\ \A i : Untouched(i) => Untouched(i)'
         /\ \A z \in Slots : /\ proc'[z].pipe = proc[z].pipe /\ proc'[z].queue = proc[z].queue
                             /\ proc'[z].turn = proc[z].turn /\ proc'[z].kind = proc[z].kind
                             /\ proc'[z].heard = proc[z].heard
         /\ proc'[h].out = Tail(proc[h].out) /\ \A z \in Slots : z # h => proc'[z] = proc[z]
<1>1. ItemsSound /\ SessionInv /\ proc \in [Slots -> Processes] /\ proc[h].out \in Seq(Reports)
  BY Types DEF DeliveryInv
<1>2. /\ \A z \in Slots : /\ proc'[z].pipe = proc[z].pipe /\ proc'[z].queue = proc[z].queue
                          /\ proc'[z].turn = proc[z].turn /\ proc'[z].kind = proc[z].kind
                          /\ proc'[z].heard = proc[z].heard
      /\ proc'[h].out = Tail(proc[h].out) /\ \A z \in Slots : z # h => proc'[z] = proc[z]
  BY <1>1 DEF Processes
<1>3. \A z \in Slots : HeldInputs(z)' = HeldInputs(z)
  BY <1>2 DEF HeldInputs
<1>4. \A x : Touched(x)' <=> Touched(x)
  BY <1>3 DEF Touched
<1>5. \A i : Untouched(i)' <=> Untouched(i)
  BY <1>4 DEF Untouched
<1>6. HeldOnce' /\ HeldUnseen'
  BY <1>1, <1>2, <1>3 DEF ItemsSound, HeldOnce, HeldUnseen
<1>7. LatestAttempt' /\ NotOffered' /\ Received'
  BY <1>1, <1>4 DEF ItemsSound, LatestAttempt, NotOffered, Received, Input
<1>8. StampsTell'
  BY <1>1, <1>5 DEF ItemsSound, StampsTell
<1>9. \A n \in DOMAIN Tail(proc[h].out) :
        n + 1 \in DOMAIN proc[h].out /\ Tail(proc[h].out)[n] = proc[h].out[n + 1] /\ n \in Int
  BY <1>1, Tailed
<1>10. ReportsTrue'
  <2> SUFFICES ASSUME NEW s \in Slots, NEW n \in DOMAIN proc'[s].out
               PROVE  SaysTrue(proc[s].out[n])'
    BY DEF ReportsTrue
  <2>1. \E k \in DOMAIN proc[s].out : proc'[s].out[n] = proc[s].out[k]
    BY <1>2, <1>9
  <2>2. PICK k \in DOMAIN proc[s].out : proc'[s].out[n] = proc[s].out[k]
    BY <2>1
  <2>3. SaysTrue(proc[s].out[k])
    BY <1>1 DEF ItemsSound, ReportsTrue
  <2> QED BY <1>5, <2>2, <2>3 DEF SaysTrue
<1>11. StartedOnce'
  <2> SUFFICES ASSUME NEW s \in Slots, NEW m \in DOMAIN proc'[s].out, NEW n \in DOMAIN proc'[s].out,
                      proc'[s].out[m].what = "started", proc'[s].out[n].what = "started",
                      proc'[s].out[m].input = proc'[s].out[n].input
               PROVE  m = n
    BY DEF StartedOnce
  <2>1. CASE s = h
    BY <1>1, <1>2, <1>9, <2>1 DEF ItemsSound, StartedOnce
  <2>2. CASE s # h
    BY <1>1, <1>2, <2>2 DEF ItemsSound, StartedOnce
  <2> QED BY <2>1, <2>2
<1> QED BY <1>2, <1>5, <1>6, <1>7, <1>8, <1>10, <1>11 DEF ItemsSound

\* The turn stays known when a report is read.
LEMMA HearTurn ==
  ASSUME NEW q \in Seq(Reports), q # <<>>, NEW i, TurnIs(q, i),
         mem.busy /\ Head(q).what # "result" => mem'.busy,
         Head(q).what = "started" => mem'.busy
  PROVE  \/ mem'.busy /\ NoEnd(Tail(q), 1)
         \/ \E n \in DOMAIN Tail(q) : /\ Tail(q)[n].what = "started" /\ Tail(q)[n].input[1] = i
                                      /\ NoEnd(Tail(q), n)
<1>1. /\ DOMAIN q = 1 .. Len(q) /\ Len(q) \in Nat \ {0} /\ 1 \in DOMAIN q /\ Head(q) = q[1]
      /\ \A n \in DOMAIN Tail(q) : n + 1 \in DOMAIN q /\ n + 1 > 1 /\ Tail(q)[n] = q[n + 1]
      /\ \A n \in DOMAIN q : n > 1 => n - 1 \in DOMAIN Tail(q) /\ Tail(q)[n - 1] = q[n]
      /\ DOMAIN Tail(q) = 1 .. (Len(q) - 1)
  BY Tailed
<1>2. ASSUME NoEnd(q, 1)
      PROVE  NoEnd(Tail(q), 1) /\ Head(q).what # "result"
  BY <1>1, <1>2 DEF NoEnd
<1>3. ASSUME NEW n \in DOMAIN q, n > 1, q[n].what = "started", q[n].input[1] = i, NoEnd(q, n)
      PROVE  \E k \in DOMAIN Tail(q) : /\ Tail(q)[k].what = "started" /\ Tail(q)[k].input[1] = i
                                       /\ NoEnd(Tail(q), k)
  <2>1. n - 1 \in DOMAIN Tail(q) /\ Tail(q)[n - 1] = q[n]
    BY <1>1, <1>3
  <2>2. NoEnd(Tail(q), n - 1)
    BY <1>1, <1>3 DEF NoEnd
  <2> QED BY <1>3, <2>1, <2>2
<1>4. CASE mem.busy /\ NoEnd(q, 1)
  BY <1>2, <1>4
<1>5. ASSUME NEW n \in DOMAIN q, q[n].what = "started", q[n].input[1] = i, NoEnd(q, n)
      PROVE  \/ mem'.busy /\ NoEnd(Tail(q), 1)
             \/ \E k \in DOMAIN Tail(q) : /\ Tail(q)[k].what = "started" /\ Tail(q)[k].input[1] = i
                                          /\ NoEnd(Tail(q), k)
  <2>1. CASE n = 1
    BY <1>1, <1>2, <1>5, <2>1
  <2>2. CASE n # 1
    BY <1>1, <1>3, <1>5, <2>2
  <2> QED BY <2>1, <2>2
<1> QED BY <1>4, <1>5 DEF TurnIs

\* The wrapper reads a report, and what it concludes from it is true.
LEMMA HearSound ==
  ASSUME DeliveryInv, NEW w \in Wrappers, Hear(w), UNCHANGED <<takeoverVars, scene, faults>>
  PROVE  ItemsSound' /\ WrapperSound'
<1>1. /\ ItemsSound /\ WrapperSound /\ SessionInv /\ mem \in Memories /\ None \notin Items
      /\ wpc \in [Wrappers -> WrapperPlaces] /\ proc \in [Slots -> Processes]
      /\ stamp \in [Items -> {"none", "barrier", "written"}] /\ mem.cur \in Items \cup {None}
  BY Types DEF DeliveryInv
<1>2. PICK h \in Slots : h = mem.harness
  BY <1>1, Types DEF Hear
<1>3. /\ lock = w /\ wpc[w] = "loop" /\ proc[h].out # <<>>
      /\ proc' = [proc EXCEPT ![h].out = Tail(@)]
      /\ UNCHANGED <<phase, tries, seen, lock, taker>>
  BY <1>2 DEF Hear, Looping, takeoverVars
<1> DEFINE said == Head(proc[h].out)
<1>4. PICK r : r = said
  OBVIOUS
<1>5. /\ proc[h].out \in Seq(Reports) /\ 1 \in DOMAIN proc[h].out /\ r = proc[h].out[1]
      /\ \A n \in DOMAIN Tail(proc[h].out) :
           n + 1 \in DOMAIN proc[h].out /\ Tail(proc[h].out)[n] = proc[h].out[n + 1] /\ n + 1 # 1
  <2>1. proc[h].out \in Seq(Reports)
    BY <1>1, Types
  <2> QED BY <1>3, <1>4, <2>1, Tailed
<1>6. SaysTrue(r)
  BY <1>1, <1>5 DEF ItemsSound, ReportsTrue
<1>7. /\ mem'.harness = h /\ mem'.held = mem.held /\ mem'.consume = mem.consume
      /\ mem.busy /\ r.what # "result" => mem'.busy
      /\ r.what = "started" => mem'.busy
      /\ stamp' \in [Items -> {"none", "barrier", "written"}]
      /\ \A j \in Items : stamp'[j] \in {stamp[j], "none"}
  BY <1>1, <1>2, <1>4 DEF Hear, SettleTo, Memories, IsCurrent
<1>8. /\ ItemsSound'
      /\ \A i : Untouched(i) => Untouched(i)'
      /\ \A z \in Slots : /\ proc'[z].pipe = proc[z].pipe /\ proc'[z].queue = proc[z].queue
                          /\ proc'[z].turn = proc[z].turn /\ proc'[z].kind = proc[z].kind
                          /\ proc'[z].heard = proc[z].heard
      /\ proc'[h].out = Tail(proc[h].out) /\ \A z \in Slots : z # h => proc'[z] = proc[z]
  BY <1>3, <1>7, HearItems
<1>9. HarnessFits'
  <2>1. Live' = Live
    BY <1>8 DEF Live
  <2> QED BY <1>1, <1>2, <1>3, <1>7, <1>8, <2>1 DEF WrapperSound, HarnessFits
<1>10. AnswersWait'
  BY <1>1, <1>3, <1>7 DEF WrapperSound, AnswersWait
<1>11. TurnKnown'
  <2>1. SUFFICES ASSUME proc[h].turn \in Items
                 PROVE  TurnIs(proc[h].out, proc[h].turn)'
    BY <1>7, <1>8 DEF TurnKnown, TurnIs
  <2>2. PICK i : i = proc[h].turn
    OBVIOUS
  <2>3. PICK q \in Seq(Reports) : q = proc[h].out
    BY <1>5
  <2>4. TurnIs(q, i)
    BY <1>1, <1>2, <1>3, <2>1, <2>2, <2>3, Distinct DEF WrapperSound, TurnKnown
  <2>5. /\ q # <<>> /\ (mem.busy /\ Head(q).what # "result" => mem'.busy)
        /\ (Head(q).what = "started" => mem'.busy)
    BY <1>3, <1>4, <1>7, <2>3
  <2>6. \/ mem'.busy /\ NoEnd(Tail(q), 1)
        \/ \E n \in DOMAIN Tail(q) : /\ Tail(q)[n].what = "started" /\ Tail(q)[n].input[1] = i
                                     /\ NoEnd(Tail(q), n)
    BY <2>4, <2>5, HearTurn
  <2>7. proc'[h].turn = i /\ proc'[h].out = Tail(q)
    BY <1>8, <2>2, <2>3
  <2> QED BY <2>6, <2>7 DEF TurnIs, NoEnd
<1>12. mem.job = None
  BY <1>1, <1>3 DEF WrapperSound, JobFits
<1>13. ASSUME mem'.cur = mem.cur, mem'.job = mem.job, mem'.to = mem.to, UNCHANGED <<stamp, wpc>>
       PROVE  WrapperSound'
  <2>1. JobFits' /\ CurFits' /\ AllOwned'
    BY <1>1, <1>2, <1>3, <1>7, <1>13 DEF WrapperSound, JobFits, CurFits, AllOwned
  <2>2. MovedFits' /\ BarredFits' /\ SettleFits'
    BY <1>3, <1>13 DEF MovedFits, BarredFits, SettleFits
  <2>3. StartsOpen'
    <3>1. \A n \in DOMAIN proc[h].out : UnheardStart(proc[h].out[n])
      BY <1>1, <1>2, <1>3, Distinct DEF WrapperSound, StartsOpen
    <3> QED BY <1>3, <1>5, <1>7, <1>8, <1>13, <3>1 DEF StartsOpen, UnheardStart
  <2>4. AtBoundary'
    BY <1>1, <1>2, <1>3, <1>7, <1>8, <1>13 DEF WrapperSound, AtBoundary
  <2> QED BY <1>9, <1>10, <1>11, <2>1, <2>2, <2>3, <2>4 DEF WrapperSound
<1>14. ASSUME NEW i \in Items, i = mem.cur, r.input = Input(i),
              NEW to \in {"processed", "pending"},
              r.what = IF to = "processed" THEN "started" ELSE "cancelled",
              stamp' = [stamp EXCEPT ![i] = "none"], wpc'[w] = "settle",
              mem'.cur = None, mem'.job = i, mem'.to = to
       PROVE  WrapperSound'
  <2>1. phase[i] = "inflight" /\ stamp'[i] = "none"
    BY <1>1, <1>3, <1>14 DEF WrapperSound, CurFits
  <2>2. JobFits' /\ CurFits' /\ MovedFits' /\ BarredFits'
    BY <1>2, <1>3, <1>7, <1>14, <2>1, Distinct DEF JobFits, CurFits, MovedFits, BarredFits
  <2>3. Input(i)[1] = i /\ Input(i)[2] = tries[i]
    BY DEF Input
  <2>4. SettleFits'
    <3>1. to = "pending" => Untouched(i)
      BY <1>6, <1>14, <2>3 DEF SaysTrue
    <3>2. to = "processed" => Input(i) \in seen
      BY <1>6, <1>14 DEF SaysTrue
    <3> QED BY <1>3, <1>8, <1>14, <2>1, <3>1, <3>2 DEF SettleFits, Input
  <2>5. AllOwned'
    BY <1>1, <1>2, <1>3, <1>7, <1>12, <1>14, Distinct DEF WrapperSound, AllOwned
  <2>6. StartsOpen'
    <3>4. PICK q : q = Tail(proc[h].out)
      OBVIOUS
    <3>5. SUFFICES ASSUME NEW n \in DOMAIN q, q[n].what = "started"
                   PROVE  /\ phase[q[n].input[1]] \in {"inflight", "failed"}
                          /\ to = "processed" => q[n].input[1] # i
      <4>1. /\ proc'[h].out = q /\ lock' = w /\ mem'.harness = h /\ wpc'[w] = "settle"
            /\ mem'.job = i /\ mem'.to = to /\ phase' = phase
        BY <1>3, <1>7, <1>8, <1>14, <3>4
      <4> QED BY <4>1 DEF StartsOpen, UnheardStart
    <3> DEFINE x == q[n].input
    <3>1. /\ n + 1 \in DOMAIN proc[h].out /\ n + 1 # 1 /\ proc[h].out[n + 1].what = "started"
          /\ proc[h].out[n + 1].input = x
      BY <1>5, <3>4, <3>5
    <3>2. phase[x[1]] \in {"inflight", "failed"}
      BY <1>1, <1>2, <1>3, <3>1, Distinct DEF WrapperSound, StartsOpen, UnheardStart
    <3>3. ASSUME to = "processed", x[1] = i
          PROVE  FALSE
      <4>1. Touched(x) /\ Touched(r.input)
        BY <1>5, <1>14, <3>1, <3>3, StartTouched
      <4>2. x = r.input
        BY <1>1, <1>14, <2>3, <3>3, <4>1, SameInput DEF ItemsSound
      <4>3. n + 1 = 1
        BY <1>1, <1>5, <1>14, <3>1, <3>3, <4>2 DEF ItemsSound, StartedOnce
      <4> QED BY <3>1, <4>3
    <3> QED BY <3>2, <3>3
  <2>7. AtBoundary'
    BY <1>1, <1>2, <1>3, <1>7, <1>14 DEF WrapperSound, AtBoundary
  <2> QED BY <1>9, <1>10, <1>11, <2>2, <2>4, <2>5, <2>6, <2>7 DEF WrapperSound
<1>15. CASE r.what \in {"queued", "init", "result"} \/ ~IsCurrent(r.input)
  <2>1. mem'.cur = mem.cur /\ mem'.job = mem.job /\ mem'.to = mem.to /\ UNCHANGED <<stamp, wpc>>
    BY <1>1, <1>2, <1>4, <1>15 DEF Hear, Memories
  <2> QED BY <1>8, <1>13, <2>1
<1>16. CASE r.what = "started" /\ IsCurrent(r.input)
  <2>1. mem.cur \in Items /\ r.input = Input(mem.cur)
    BY <1>1, <1>16 DEF IsCurrent
  <2>2. /\ stamp' = [stamp EXCEPT ![mem.cur] = "none"] /\ wpc'[w] = "settle"
        /\ mem'.cur = None /\ mem'.job = mem.cur /\ mem'.to = "processed"
    BY <1>1, <1>2, <1>4, <1>16 DEF Hear, Goto, Memories
  <2> QED BY <1>8, <1>14, <1>16, <2>1, <2>2
<1>17. CASE r.what = "cancelled" /\ IsCurrent(r.input)
  <2>1. mem.cur \in Items /\ r.input = Input(mem.cur)
    BY <1>1, <1>17 DEF IsCurrent
  <2>2. SettleTo(w, mem.cur, "pending")
    BY <1>2, <1>4, <1>17 DEF Hear
  <2>3. /\ stamp' = [stamp EXCEPT ![mem.cur] = "none"] /\ wpc'[w] = "settle"
        /\ mem'.cur = None /\ mem'.job = mem.cur /\ mem'.to = "pending"
    BY <1>1, <1>3, <2>2 DEF SettleTo, Goto, Memories
  <2> QED BY <1>8, <1>14, <1>17, <2>1, <2>3
<1>18. r.what \in {"queued", "started", "cancelled", "init", "result"}
  BY <1>2, <1>4 DEF Hear
<1> QED BY <1>15, <1>16, <1>17, <1>18

-----------------------------------------------------------------------------
(***************************************************************************)
(* What the harness does.                                                  *)
(***************************************************************************)

\* Process s reports r, if somebody listens; the other processes do nothing.
Speaks(s, r) ==
  /\ proc[s].kind = "headless" /\ proc'[s].kind = "headless" /\ proc'[s].heard = proc[s].heard
  /\ \A z \in Slots : z # s => proc'[z] = proc[z]
  /\ \A n \in DOMAIN proc[s].out :
       proc[s].heard => n \in DOMAIN proc'[s].out /\ proc'[s].out[n] = proc[s].out[n]
  /\ \A n \in DOMAIN proc'[s].out :
       \/ n \in DOMAIN proc[s].out /\ proc'[s].out[n] = proc[s].out[n]
       \/ n = Len(proc[s].out) + 1 /\ proc'[s].out[n] = r
  /\ proc[s].heard =>
       Len(proc[s].out) + 1 \in DOMAIN proc'[s].out /\ proc'[s].out[Len(proc[s].out) + 1] = r

\* What Say does to a process that is otherwise changed to p.
LEMMA SayEffect ==
  ASSUME proc \in [Slots -> Processes], NEW s \in Slots, NEW p \in Processes,
         NEW what \in {"queued", "started", "cancelled", "init", "result"},
         NEW x \in Inputs \cup {None}, Say(s, p, what, x),
         proc[s].kind = "headless", p.kind = "headless", p.heard = proc[s].heard,
         p.out = proc[s].out
  PROVE  /\ Speaks(s, [what |-> what, input |-> x])
         /\ proc'[s].pipe = p.pipe /\ proc'[s].queue = p.queue /\ proc'[s].turn = p.turn
<1> DEFINE e == [what |-> what, input |-> x]
           q == [p EXCEPT !.out = Append(@, e)]
<1>1. e \in Reports
  BY DEF Reports
<1>2. p.out \in Seq(Reports) /\ p.heard \in BOOLEAN
  BY DEF Processes
<1>3. /\ Len(p.out) + 1 \in DOMAIN Append(p.out, e) /\ Append(p.out, e)[Len(p.out) + 1] = e
      /\ \A n \in DOMAIN p.out : n \in DOMAIN Append(p.out, e) /\ Append(p.out, e)[n] = p.out[n]
      /\ \A n \in DOMAIN Append(p.out, e) : n \in DOMAIN p.out \/ n = Len(p.out) + 1
  BY <1>1, <1>2, Appended
<1>4. proc' = [proc EXCEPT ![s] = IF p.heard THEN q ELSE p]
  BY DEF Say
<1> HIDE DEF e
<1>5. /\ q.kind = p.kind /\ q.heard = p.heard /\ q.pipe = p.pipe /\ q.queue = p.queue
      /\ q.turn = p.turn /\ q.out = Append(p.out, e)
  BY DEF Processes
<1> HIDE DEF q
<1>6. /\ proc'[s] = IF p.heard THEN q ELSE p
      /\ \A z \in Slots : z # s => proc'[z] = proc[z]
  BY <1>4
<1>7. SUFFICES Speaks(s, e) /\ proc'[s].pipe = p.pipe /\ proc'[s].queue = p.queue
                           /\ proc'[s].turn = p.turn
  BY DEF e
<1>8. CASE p.heard
  <2>1. proc'[s] = q /\ proc'[s].out = Append(p.out, e)
    BY <1>5, <1>6, <1>8
  <2> QED BY <1>3, <1>5, <1>6, <1>8, <2>1 DEF Speaks
<1>9. CASE ~p.heard
  BY <1>6, <1>9 DEF Speaks
<1> QED BY <1>2, <1>8, <1>9

\* The items after a step of the harness.
LEMMA SpeakItems ==
  ASSUME DeliveryInv, NEW s \in Slots, NEW r, Speaks(s, r), UNCHANGED <<phase, stamp, tries>>,
         seen \subseteq seen', HeldOnce', HeldUnseen', \A y : Touched(y)' => Touched(y),
         SaysTrue(r)', r.what = "started" => r.input \notin seen
  PROVE  ItemsSound' /\ \A i : Untouched(i) => Untouched(i)'
<1>1. ItemsSound /\ SessionInv
  BY DEF DeliveryInv
<1>2. \A i : Untouched(i) => Untouched(i)'
  BY DEF Untouched
<1>3. LatestAttempt' /\ NotOffered'
  BY <1>1 DEF ItemsSound, LatestAttempt, NotOffered
<1>4. StampsTell'
  BY <1>1, <1>2 DEF ItemsSound, StampsTell
<1>5. Received'
  BY <1>1 DEF ItemsSound, Received, Input
<1>6. \A z \in Slots : \A n \in DOMAIN proc'[z].out :
        \/ n \in DOMAIN proc[z].out /\ proc'[z].out[n] = proc[z].out[n]
        \/ z = s /\ n = Len(proc[s].out) + 1 /\ proc'[z].out[n] = r
  BY DEF Speaks
<1>7. ReportsTrue'
  <2> SUFFICES ASSUME NEW z \in Slots, NEW n \in DOMAIN proc'[z].out
               PROVE  SaysTrue(proc[z].out[n])'
    BY DEF ReportsTrue
  <2>1. CASE proc'[z].out[n] = r
    BY <2>1 DEF SaysTrue
  <2>2. CASE n \in DOMAIN proc[z].out /\ proc'[z].out[n] = proc[z].out[n]
    <3>1. SaysTrue(proc[z].out[n])
      BY <1>1, <2>2 DEF ItemsSound, ReportsTrue
    <3> QED BY <1>2, <2>2, <3>1 DEF SaysTrue
  <2> QED BY <1>6, <2>1, <2>2
<1>8. StartedOnce'
  <2> SUFFICES ASSUME NEW z \in Slots, NEW m \in DOMAIN proc'[z].out, NEW n \in DOMAIN proc'[z].out,
                      proc'[z].out[m].what = "started", proc'[z].out[n].what = "started",
                      proc'[z].out[m].input = proc'[z].out[n].input
               PROVE  m = n
    BY DEF StartedOnce
  <2>1. \A k \in DOMAIN proc[z].out :
          proc[z].out[k].what = "started" => proc[z].out[k].input \in seen
    BY StartTouched
  <2> QED BY <1>1, <1>6, <2>1 DEF ItemsSound, StartedOnce
<1> QED BY <1>1, <1>2, <1>3, <1>4, <1>5, <1>7, <1>8 DEF ItemsSound

\* The wrapper after a step of the harness.
LEMMA SpeakWrapper ==
  ASSUME DeliveryInv, NEW s \in Slots, NEW r, Speaks(s, r), UNCHANGED <<phase, stamp, tries>>,
         UNCHANGED <<lock, wpc, mem, taker>>, seen \subseteq seen',
         \A i : Untouched(i) => Untouched(i)',
         \/ proc'[s].turn = proc[s].turn /\ r.what # "result"
         \/ proc'[s].turn \notin Items
         \/ r.what = "started" /\ r.input[1] = proc'[s].turn,
         lock \in Wrappers /\ s = mem.harness => UnheardStart(r),
         lock \in Wrappers /\ wpc[lock] = "barred" => ~Gone(r, Input(mem.job)),
         AtBoundary'
  PROVE  WrapperSound'
<1>1. /\ ItemsSound /\ WrapperSound /\ SessionInv
      /\ \A z \in Slots : /\ proc[z].out \in Seq(Reports)
                          /\ DOMAIN proc[z].out = 1 .. Len(proc[z].out)
                          /\ Len(proc[z].out) \in Nat
      /\ None \notin Slots /\ mem.harness \in Slots \cup {None}
  BY Types, LenProperties DEF DeliveryInv
<1>2. /\ proc[s].kind = "headless" /\ proc'[s].kind = "headless" /\ proc'[s].heard = proc[s].heard
      /\ \A z \in Slots : z # s => proc'[z] = proc[z]
  BY DEF Speaks
<1>3. HarnessFits'
  <2>1. Live' = Live
    BY <1>2 DEF Live
  <2>2. \A z \in Slots : proc'[z].kind # "headless" =>
          proc'[z].pipe = <<>> /\ proc'[z].queue = {} /\ proc'[z].turn = "no"
    BY <1>1, <1>2 DEF WrapperSound, HarnessFits
  <2>3. lock \in Wrappers /\ mem.harness \in Live =>
          proc[mem.harness].kind = "headless" /\ proc[mem.harness].heard
    BY <1>1 DEF WrapperSound, HarnessFits
  <2>4. lock \in Wrappers /\ mem.harness \in Live =>
          proc'[mem.harness].kind = "headless" /\ proc'[mem.harness].heard
    BY <1>2, <2>3 DEF Live
  <2> QED BY <2>1, <2>2, <2>4 DEF HarnessFits
<1>4. \A z \in Slots : \A n \in DOMAIN proc'[z].out :
        \/ n \in DOMAIN proc[z].out /\ proc'[z].out[n] = proc[z].out[n]
        \/ z = s /\ n = Len(proc[s].out) + 1 /\ proc'[z].out[n] = r
  BY DEF Speaks
<1>5. AnswersWait' /\ JobFits' /\ CurFits' /\ MovedFits' /\ AllOwned'
  BY <1>1 DEF WrapperSound, AnswersWait, JobFits, CurFits, MovedFits, AllOwned
<1>6. SettleFits'
  BY <1>1 DEF WrapperSound, SettleFits, Input
<1>7. BarredFits'
  <2> SUFFICES ASSUME lock \in Wrappers, wpc[lock] = "barred"
               PROVE  \A z \in Slots : \A n \in DOMAIN proc'[z].out :
                        ~Gone(proc'[z].out[n], Input(mem.job))
    BY <1>1 DEF BarredFits, WrapperSound, Input, Gone
  <2>1. \A z \in Slots : \A n \in DOMAIN proc[z].out : ~Gone(proc[z].out[n], Input(mem.job))
    BY <1>1 DEF BarredFits, WrapperSound
  <2> QED BY <1>4, <2>1
<1>8. StartsOpen'
  <2> SUFFICES ASSUME lock \in Wrappers, mem.harness # None, NEW n \in DOMAIN proc'[mem.harness].out
               PROVE  UnheardStart(proc'[mem.harness].out[n])
    BY DEF StartsOpen, UnheardStart
  <2>1. \A k \in DOMAIN proc[mem.harness].out : UnheardStart(proc[mem.harness].out[k])
    BY <1>1 DEF WrapperSound, StartsOpen
  <2> QED BY <1>1, <1>4, <2>1
<1>9. TurnKnown'
  <2>1. CASE mem.harness # s
    BY <1>1, <1>2, <2>1 DEF WrapperSound, TurnKnown, TurnIs, NoEnd
  <2>2. CASE mem.harness = s
    <3>1. SUFFICES ASSUME lock \in Wrappers, proc'[s].turn \in Items
                   PROVE  TurnIs(proc[s].out, proc[s].turn)'
      BY <2>2 DEF TurnKnown, TurnIs
    <3>2. PICK u : u = proc[s].out
      OBVIOUS
    <3>3. PICK v : v = proc'[s].out
      OBVIOUS
    <3>4. PICK i : i = proc'[s].turn
      OBVIOUS
    <3>5. proc[s].heard
      BY <1>1, <1>2, <2>2, <3>1 DEF WrapperSound, HarnessFits, Live
    <3>6. /\ DOMAIN u = 1 .. Len(u) /\ Len(u) \in Nat
          /\ \A n \in DOMAIN u : n \in DOMAIN v /\ v[n] = u[n]
          /\ \A n \in DOMAIN v : (n \in DOMAIN u /\ v[n] = u[n]) \/ (n = Len(u) + 1 /\ v[n] = r)
          /\ Len(u) + 1 \in DOMAIN v /\ v[Len(u) + 1] = r
      <4>1. DOMAIN u = 1 .. Len(u) /\ Len(u) \in Nat
        BY <1>1, <3>2
      <4>2. /\ \A n \in DOMAIN u : n \in DOMAIN v /\ v[n] = u[n]
            /\ Len(u) + 1 \in DOMAIN v /\ v[Len(u) + 1] = r
        BY <3>2, <3>3, <3>5 DEF Speaks
      <4>3. \A n \in DOMAIN v : (n \in DOMAIN u /\ v[n] = u[n]) \/ (n = Len(u) + 1 /\ v[n] = r)
        BY <1>4, <3>2, <3>3
      <4> QED BY <4>1, <4>2, <4>3
    <3>7. SUFFICES TurnIs(v, i)
      BY <3>3, <3>4 DEF TurnIs, NoEnd
    <3>8. CASE r.what = "started" /\ r.input[1] = i
      <4>1. NoEnd(v, Len(u) + 1)
        BY <3>6, <3>8 DEF NoEnd
      <4> QED BY <3>6, <3>8, <4>1 DEF TurnIs
    <3>9. CASE i = proc[s].turn /\ r.what # "result"
      <4>1. TurnIs(u, i)
        BY <1>1, <2>2, <3>1, <3>2, <3>4, <3>9 DEF WrapperSound, TurnKnown
      <4>2. \A n : NoEnd(u, n) => NoEnd(v, n)
        BY <3>6, <3>9 DEF NoEnd
      <4> QED BY <3>6, <4>1, <4>2 DEF TurnIs
    <3> QED BY <3>1, <3>4, <3>8, <3>9
  <2> QED BY <2>1, <2>2
<1> QED BY <1>3, <1>5, <1>6, <1>7, <1>8, <1>9 DEF WrapperSound

\* A step in which s speaks and holds no more than before.
LEMMA SpeakTouched ==
  ASSUME NEW s \in Slots, NEW r, Speaks(s, r), seen \subseteq seen',
         \A y \in HeldInputs(s)' : y \in HeldInputs(s),
         \A y \in seen' : y \in seen \/ y \in HeldInputs(s)
  PROVE  /\ \A y : Touched(y)' => Touched(y)
         /\ \A z \in Slots : z # s => HeldInputs(z)' = HeldInputs(z)
<1>1. \A z \in Slots : z # s => HeldInputs(z)' = HeldInputs(z)
  BY DEF Speaks, HeldInputs
<1> QED BY <1>1 DEF Touched

\* The boundary is kept while no process begins a turn on an item.
LEMMA TurnsKept ==
  ASSUME DeliveryInv, UNCHANGED <<phase, lock, wpc, mem, taker>>, NEW s \in Slots,
         \A z \in Slots : z # s => proc'[z] = proc[z],
         proc'[s].turn = proc[s].turn \/ proc'[s].turn \notin Items
  PROVE  AtBoundary'
<1>1. AtBoundary /\ mem.harness \in Slots \cup {None}
  BY Types DEF DeliveryInv, WrapperSound
<1>2. \A z \in Slots : proc'[z].turn \in Items => proc'[z].turn = proc[z].turn
  OBVIOUS
<1> QED BY <1>1, <1>2 DEF AtBoundary

\* The harness reads an input: it moves from the pipe to the queue.
LEMMA HReadSound ==
  ASSUME DeliveryInv, NEW s \in Slots, HRead(s), UNCHANGED <<takeoverVars, scene, faults>>
  PROVE  ItemsSound' /\ WrapperSound'
<1>1. /\ ItemsSound /\ WrapperSound /\ SessionInv /\ proc \in [Slots -> Processes]
      /\ proc[s].pipe \in Seq(Inputs) /\ proc[s] \in Processes
  BY Types DEF DeliveryInv
<1>2. PICK u \in Seq(Inputs) : u = proc[s].pipe
  BY <1>1
<1>3. /\ u # <<>> /\ proc[s].kind = "headless" /\ UNCHANGED <<itemVars, lock, wpc, mem, taker>>
  BY <1>2 DEF HRead, takeoverVars
<1>4. PICK x \in Inputs : x = Head(u)
  BY <1>3, Tailed
<1>5. /\ 1 \in DOMAIN u /\ u[1] = x
      /\ \A n \in DOMAIN Tail(u) : /\ n + 1 \in DOMAIN u /\ n + 1 > 1 /\ n \in Int
                                   /\ Tail(u)[n] = u[n + 1]
  BY <1>3, <1>4, Tailed
<1> DEFINE p == [proc[s] EXCEPT !.pipe = Tail(@), !.queue = @ \cup {x}]
<1>6. Say(s, p, "queued", x)
  BY <1>2, <1>4 DEF HRead
<1>7. /\ p \in Processes /\ p.kind = "headless" /\ p.heard = proc[s].heard /\ p.out = proc[s].out
      /\ p.pipe = Tail(u) /\ p.queue = proc[s].queue \cup {x} /\ p.turn = proc[s].turn
  <2>1. Tail(u) \in Seq(Inputs)
    BY <1>3, HeadTailProperties
  <2> QED BY <1>1, <1>2, <1>3, <2>1 DEF Processes
<1> HIDE DEF p
<1>8. PICK r : r = [what |-> "queued", input |-> x]
  OBVIOUS
<1>9. /\ Speaks(s, r) /\ proc'[s].pipe = Tail(u) /\ proc'[s].queue = proc[s].queue \cup {x}
      /\ proc'[s].turn = proc[s].turn
  BY <1>1, <1>3, <1>6, <1>7, <1>8, SayEffect
<1>10. r.what = "queued" /\ r.input = x
  BY <1>8
<1>11. UNCHANGED <<phase, stamp, tries, seen>>
  BY <1>3 DEF itemVars
<1>12. x \in HeldInputs(s) /\ \A n \in DOMAIN Tail(u) : Tail(u)[n] \in HeldInputs(s)
  BY <1>2, <1>5 DEF HeldInputs
<1>13. \A y \in HeldInputs(s)' : y \in HeldInputs(s)
  <2>1. proc[s].queue \subseteq HeldInputs(s)
    BY DEF HeldInputs
  <2>2. \A y \in HeldInputs(s)' :
          y \in proc[s].queue \/ y = x \/ \E n \in DOMAIN Tail(u) : y = Tail(u)[n]
    BY <1>9 DEF HeldInputs
  <2> QED BY <1>12, <2>1, <2>2
<1>14. /\ \A y : Touched(y)' => Touched(y)
       /\ \A z \in Slots : z # s => HeldInputs(z)' = HeldInputs(z)
  BY <1>9, <1>11, <1>13, SpeakTouched
<1>15. HeldOnce'
  <2>1. /\ \A m, n \in DOMAIN u : u[m] = u[n] => m = n
        /\ \A n \in DOMAIN u : u[n] \notin proc[s].queue
    BY <1>1, <1>2 DEF ItemsSound, HeldOnce
  <2>2. /\ \A m, n \in DOMAIN Tail(u) : Tail(u)[m] = Tail(u)[n] => m = n
        /\ \A n \in DOMAIN Tail(u) : Tail(u)[n] \notin proc[s].queue \cup {x}
    <3>1. \A m, n \in DOMAIN Tail(u) : Tail(u)[m] = Tail(u)[n] => m + 1 = n + 1
      BY <1>5, <2>1
    <3>2. \A n \in DOMAIN Tail(u) : Tail(u)[n] # x
      BY <1>5, <2>1
    <3>3. \A n \in DOMAIN Tail(u) : Tail(u)[n] \notin proc[s].queue
      BY <1>5, <2>1
    <3> QED BY <1>5, <3>1, <3>2, <3>3
  <2>3. \A z \in Slots : z # s => proc'[z] = proc[z]
    BY <1>9 DEF Speaks
  <2> QED BY <1>1, <1>9, <2>2, <2>3 DEF ItemsSound, HeldOnce
<1>16. HeldUnseen'
  BY <1>1, <1>11, <1>13, <1>14 DEF ItemsSound, HeldUnseen
<1>17. SaysTrue(r)'
  <2>1. Touched(x)
    BY <1>12 DEF Touched
  <2>2. x[2] = tries[x[1]] /\ x[2] \in Nat
    BY <1>1, <2>1, InputPair DEF ItemsSound, LatestAttempt
  <2> QED BY <1>10, <1>11, <2>2 DEF SaysTrue
<1>18. ItemsSound' /\ \A i : Untouched(i) => Untouched(i)'
  BY <1>9, <1>10, <1>11, <1>14, <1>15, <1>16, <1>17, SpeakItems
<1>19. AtBoundary'
  BY <1>3, <1>9, <1>11, TurnsKept DEF Speaks
<1>20. UnheardStart(r) /\ \A y : ~Gone(r, y)
  BY <1>10 DEF UnheardStart, Gone
<1> QED BY <1>3, <1>9, <1>10, <1>11, <1>18, <1>19, <1>20, SpeakWrapper

\* The harness begins or ends a turn of its own.
LEMMA HTurnSound ==
  ASSUME DeliveryInv, NEW s \in Slots, HTurn(s), UNCHANGED <<takeoverVars, scene, faults>>
  PROVE  ItemsSound' /\ WrapperSound'
<1>1. /\ ItemsSound /\ WrapperSound /\ SessionInv /\ proc \in [Slots -> Processes]
      /\ proc[s] \in Processes
  BY Types DEF DeliveryInv
<1>2. /\ proc[s].kind = "headless" /\ UNCHANGED <<itemVars, lock, wpc, mem, taker>>
      /\ UNCHANGED <<phase, stamp, tries, seen>>
  BY DEF HTurn, takeoverVars, itemVars
<1>3. ASSUME NEW turn \in {"self", "no"}, NEW what \in {"init", "result"},
             Say(s, [proc[s] EXCEPT !.turn = turn], what, None)
      PROVE  ItemsSound' /\ WrapperSound'
  <2> DEFINE p == [proc[s] EXCEPT !.turn = turn]
  <2>1. /\ p \in Processes /\ p.kind = "headless" /\ p.heard = proc[s].heard /\ p.out = proc[s].out
        /\ p.pipe = proc[s].pipe /\ p.queue = proc[s].queue /\ p.turn = turn
    BY <1>1, <1>2 DEF Processes
  <2>2. Say(s, p, what, None)
    BY <1>3
  <2> HIDE DEF p
  <2>3. PICK r : r = [what |-> what, input |-> None]
    OBVIOUS
  <2>4. /\ Speaks(s, r) /\ proc'[s].pipe = proc[s].pipe /\ proc'[s].queue = proc[s].queue
        /\ proc'[s].turn = turn
    BY <1>1, <1>2, <2>1, <2>2, <2>3, SayEffect
  <2>5. r.what \in {"init", "result"} /\ turn \notin Items
    BY <2>3, HeadlessAssumption DEF HeadlessAssumption
  <2>6. HeldInputs(s)' = HeldInputs(s)
    BY <2>4 DEF HeldInputs
  <2>7. /\ \A y : Touched(y)' => Touched(y)
        /\ \A z \in Slots : z # s => HeldInputs(z)' = HeldInputs(z)
    BY <1>2, <2>4, <2>6, SpeakTouched
  <2>8. HeldOnce' /\ HeldUnseen'
    BY <1>1, <1>2, <2>4, <2>6, <2>7 DEF ItemsSound, HeldOnce, HeldUnseen, Speaks
  <2>9. SaysTrue(r)'
    BY <2>5 DEF SaysTrue
  <2>10. ItemsSound' /\ \A i : Untouched(i) => Untouched(i)'
    BY <1>2, <2>4, <2>5, <2>7, <2>8, <2>9, SpeakItems
  <2>11. AtBoundary'
    BY <1>2, <2>4, <2>5, TurnsKept DEF Speaks
  <2>12. UnheardStart(r) /\ \A y : ~Gone(r, y)
    BY <2>5 DEF UnheardStart, Gone
  <2> QED BY <1>2, <2>4, <2>5, <2>10, <2>11, <2>12, SpeakWrapper
<1>4. \/ Say(s, [proc[s] EXCEPT !.turn = "self"], "init", None)
      \/ Say(s, [proc[s] EXCEPT !.turn = "no"], "result", None)
  BY DEF HTurn
<1> QED BY <1>3, <1>4

\* An input that waits in a process is of an item that is not recorded as processed.
LEMMA HeldIsOpen ==
  ASSUME DeliveryInv, NEW s \in Slots, NEW x \in HeldInputs(s)
  PROVE  /\ x \in Inputs /\ Touched(x) /\ x[1] \in Items /\ x = Input(x[1]) /\ x[2] = tries[x[1]]
         /\ x \notin seen /\ phase[x[1]] \in {"inflight", "failed"}
<1>1. ItemsSound /\ SessionInv /\ Touched(x)
  BY DEF DeliveryInv, Touched
<1>2. x[1] \in Items /\ x = Input(x[1]) /\ x \in Inputs /\ x \notin seen
  BY <1>1, TouchedInput, HeldIsInput DEF ItemsSound, HeldUnseen
<1>3. x[2] = tries[x[1]] /\ phase[x[1]] \in {"inflight", "processed", "failed"}
  BY <1>1, <1>2 DEF ItemsSound, LatestAttempt, NotOffered
<1>4. phase[x[1]] # "processed"
  BY <1>1, <1>2 DEF ItemsSound, Received
<1> QED BY <1>1, <1>2, <1>3, <1>4

\* The harness starts an input: it is received, for the first time.
LEMMA HStartSound ==
  ASSUME DeliveryInv, NEW s \in Slots, HStart(s), UNCHANGED <<takeoverVars, scene, faults>>
  PROVE  ItemsSound' /\ WrapperSound'
<1>1. /\ ItemsSound /\ WrapperSound /\ SessionInv /\ proc \in [Slots -> Processes]
      /\ proc[s] \in Processes /\ proc[s].queue \subseteq Inputs
  BY Types DEF DeliveryInv
<1>2. /\ proc[s].kind = "headless" /\ UNCHANGED <<lock, wpc, mem, taker>>
      /\ UNCHANGED <<phase, stamp, tries>>
  BY DEF HStart, takeoverVars
<1>3. PICK x \in proc[s].queue :
        /\ seen' = seen \cup {x}
        /\ Say(s, [proc[s] EXCEPT !.queue = @ \ {x}, !.turn = IF @ = "no" THEN x[1] ELSE @],
               "started", x)
  BY DEF HStart
<1>4. x \in HeldInputs(s)
  BY <1>3 DEF HeldInputs
<1>5. /\ x \in Inputs /\ Touched(x) /\ x[1] \in Items /\ x = Input(x[1]) /\ x[2] = tries[x[1]]
      /\ x \notin seen /\ phase[x[1]] \in {"inflight", "failed"}
  BY <1>4, HeldIsOpen
<1>6. PICK turn : turn = IF proc[s].turn = "no" THEN x[1] ELSE proc[s].turn
  OBVIOUS
<1> DEFINE p == [proc[s] EXCEPT !.queue = @ \ {x}, !.turn = turn]
<1>7. /\ p \in Processes /\ p.kind = "headless" /\ p.heard = proc[s].heard /\ p.out = proc[s].out
      /\ p.pipe = proc[s].pipe /\ p.queue = proc[s].queue \ {x} /\ p.turn = turn
  BY <1>1, <1>2, <1>5, <1>6 DEF Processes
<1>8. Say(s, p, "started", x)
  BY <1>3, <1>6
<1> HIDE DEF p
<1>9. PICK r : r = [what |-> "started", input |-> x]
  OBVIOUS
<1>10. /\ Speaks(s, r) /\ proc'[s].pipe = proc[s].pipe /\ proc'[s].queue = proc[s].queue \ {x}
       /\ proc'[s].turn = turn
  BY <1>1, <1>2, <1>5, <1>7, <1>8, <1>9, SayEffect
<1>11. r.what = "started" /\ r.input = x
  BY <1>9
<1>12. \A y \in HeldInputs(s)' : y \in HeldInputs(s) /\ y # x
  <2>1. \A n \in DOMAIN proc[s].pipe : proc[s].pipe[n] # x
    BY <1>1, <1>3 DEF ItemsSound, HeldOnce
  <2> QED BY <1>10, <2>1 DEF HeldInputs
<1>13. /\ \A y : Touched(y)' => Touched(y)
       /\ \A z \in Slots : z # s => HeldInputs(z)' = HeldInputs(z)
  BY <1>3, <1>4, <1>10, <1>12, SpeakTouched
<1>14. HeldOnce'
  BY <1>1, <1>10 DEF ItemsSound, HeldOnce, Speaks
<1>15. HeldUnseen'
  <2>1. \A z \in Slots : z # s => x \notin HeldInputs(z)
    <3> SUFFICES ASSUME NEW z \in Slots, z # s PROVE HeldInputs(z) = {}
      OBVIOUS
    <3>1. proc[z].kind = "none"
      BY <1>2 DEF DeliveryInv, SessionInv, Alone, Live
    <3>2. proc[z].pipe = <<>> /\ proc[z].queue = {}
      BY <1>1, <3>1 DEF WrapperSound, HarnessFits
    <3> QED BY <3>2 DEF HeldInputs
  <2> QED BY <1>1, <1>3, <1>12, <1>13, <2>1 DEF ItemsSound, HeldUnseen
<1>16. SaysTrue(r)'
  <2>1. x[2] \in Nat
    BY <1>5, InputPair
  <2> QED BY <1>2, <1>3, <1>5, <1>11, <2>1 DEF SaysTrue
<1>17. ItemsSound' /\ \A i : Untouched(i) => Untouched(i)'
  BY <1>2, <1>3, <1>5, <1>10, <1>11, <1>13, <1>14, <1>15, <1>16, SpeakItems
<1>18. ASSUME lock \in Wrappers, s = mem.harness
       PROVE  UnheardStart(r)
  <2>1. wpc[lock] = "settle" /\ mem.to = "processed" => Input(mem.job) \in seen
    BY <1>1, <1>18 DEF WrapperSound, SettleFits
  <2> QED BY <1>5, <1>11, <2>1 DEF UnheardStart
<1>19. AtBoundary'
  <2>1. CASE proc'[s].turn = proc[s].turn
    BY <1>2, <1>10, <2>1, TurnsKept DEF Speaks
  <2>2. CASE proc'[s].turn = x[1]
    <3>1. ASSUME taker.pc = "stop", lock \in Wrappers, mem.held, mem.harness # None
          PROVE  /\ wpc[lock] = "loop" /\ mem.cur = None
                 /\ proc[mem.harness].turn \in Items => phase[proc[mem.harness].turn] = "failed"
                 /\ phase[x[1]] = "failed"
      <4>1. /\ wpc[lock] = "loop" /\ mem.cur = None
            /\ proc[mem.harness].turn \in Items => phase[proc[mem.harness].turn] = "failed"
        BY <1>1, <3>1 DEF WrapperSound, AtBoundary
      <4>2. mem.job = None
        BY <1>1, <3>1, <4>1 DEF WrapperSound, JobFits
      <4>3. phase[x[1]] # "inflight"
        BY <1>1, <1>5, <3>1, <4>1, <4>2, Distinct DEF WrapperSound, AllOwned
      <4> QED BY <1>5, <4>1, <4>3
    <3>2. \A z \in Slots : z # s => proc'[z] = proc[z]
      BY <1>10 DEF Speaks
    <3>3. mem.harness # None => mem.harness \in Slots
      BY <1>1, Types
    <3> QED BY <1>2, <2>2, <3>1, <3>2, <3>3 DEF AtBoundary
  <2> QED BY <1>6, <1>10, <2>1, <2>2
<1>20. \A y : ~Gone(r, y)
  BY <1>11 DEF Gone
<1>21. \/ proc'[s].turn = proc[s].turn /\ r.what # "result"
       \/ r.what = "started" /\ r.input[1] = proc'[s].turn
  BY <1>6, <1>10, <1>11
<1>22. seen \subseteq seen'
  BY <1>3
<1> QED BY <1>2, <1>10, <1>17, <1>18, <1>19, <1>20, <1>21, <1>22, SpeakWrapper

\* The harness drops an input: no copy of it is left.
LEMMA HCancelSound ==
  ASSUME DeliveryInv, NEW s \in Slots, HCancel(s), UNCHANGED <<takeoverVars, scene, faults>>
  PROVE  ItemsSound' /\ WrapperSound'
<1>1. /\ ItemsSound /\ WrapperSound /\ SessionInv /\ proc \in [Slots -> Processes]
      /\ proc[s] \in Processes /\ proc[s].queue \subseteq Inputs
  BY Types DEF DeliveryInv
<1>2. /\ proc[s].kind = "headless" /\ UNCHANGED <<lock, wpc, mem, taker>>
      /\ UNCHANGED <<phase, stamp, tries, seen>>
  BY DEF HCancel, takeoverVars, itemVars
<1>3. PICK x \in proc[s].queue : Say(s, [proc[s] EXCEPT !.queue = @ \ {x}], "cancelled", x)
  BY DEF HCancel
<1>4. x \in HeldInputs(s)
  BY <1>3 DEF HeldInputs
<1>5. /\ x \in Inputs /\ Touched(x) /\ x[1] \in Items /\ x = Input(x[1]) /\ x[2] = tries[x[1]]
      /\ x \notin seen
  BY <1>4, HeldIsOpen
<1> DEFINE p == [proc[s] EXCEPT !.queue = @ \ {x}]
<1>6. /\ p \in Processes /\ p.kind = "headless" /\ p.heard = proc[s].heard /\ p.out = proc[s].out
      /\ p.pipe = proc[s].pipe /\ p.queue = proc[s].queue \ {x} /\ p.turn = proc[s].turn
  BY <1>1, <1>2 DEF Processes
<1>7. Say(s, p, "cancelled", x)
  BY <1>3
<1> HIDE DEF p
<1>8. PICK r : r = [what |-> "cancelled", input |-> x]
  OBVIOUS
<1>9. /\ Speaks(s, r) /\ proc'[s].pipe = proc[s].pipe /\ proc'[s].queue = proc[s].queue \ {x}
      /\ proc'[s].turn = proc[s].turn
  BY <1>1, <1>2, <1>5, <1>6, <1>7, <1>8, SayEffect
<1>10. r.what = "cancelled" /\ r.input = x
  BY <1>8
<1>11. \A y \in HeldInputs(s)' : y \in HeldInputs(s) /\ y # x
  <2>1. \A n \in DOMAIN proc[s].pipe : proc[s].pipe[n] # x
    BY <1>1, <1>3 DEF ItemsSound, HeldOnce
  <2> QED BY <1>9, <2>1 DEF HeldInputs
<1>12. /\ \A y : Touched(y)' => Touched(y)
       /\ \A z \in Slots : z # s => HeldInputs(z)' = HeldInputs(z)
  BY <1>2, <1>9, <1>11, SpeakTouched
<1>13. HeldOnce' /\ HeldUnseen'
  BY <1>1, <1>2, <1>9, <1>11, <1>12 DEF ItemsSound, HeldOnce, HeldUnseen, Speaks
<1>14. ~Touched(x)'
  <2>1. \A z \in Slots : z # s => HeldInputs(z) = {}
    <3> SUFFICES ASSUME NEW z \in Slots, z # s PROVE HeldInputs(z) = {}
      OBVIOUS
    <3>1. proc[z].kind = "none"
      BY <1>2 DEF DeliveryInv, SessionInv, Alone, Live
    <3>2. proc[z].pipe = <<>> /\ proc[z].queue = {}
      BY <1>1, <3>1 DEF WrapperSound, HarnessFits
    <3> QED BY <3>2 DEF HeldInputs
  <2> QED BY <1>2, <1>5, <1>11, <1>12, <2>1 DEF Touched
<1>15. Untouched(x[1])'
  <2>1. \A y \in Inputs : Touched(y)' => y[1] # x[1]
    BY <1>1, <1>5, <1>12, <1>14, SameInput DEF ItemsSound
  <2> QED BY <2>1 DEF Untouched
<1>16. SaysTrue(r)'
  <2>1. x[2] \in Nat
    BY <1>5, InputPair
  <2> QED BY <1>2, <1>5, <1>10, <1>15, <2>1 DEF SaysTrue
<1>17. ItemsSound' /\ \A i : Untouched(i) => Untouched(i)'
  BY <1>2, <1>9, <1>10, <1>12, <1>13, <1>16, SpeakItems
<1>18. UnheardStart(r)
  BY <1>10 DEF UnheardStart
<1>19. ASSUME lock \in Wrappers, wpc[lock] = "barred"
       PROVE  ~Gone(r, Input(mem.job))
  <2>1. mem.job \in Items /\ stamp[mem.job] = "barrier"
    BY <1>1, <1>19 DEF WrapperSound, JobFits, BarredFits
  <2>2. Untouched(mem.job)
    BY <1>1, <2>1 DEF ItemsSound, StampsTell
  <2>3. x[1] # mem.job
    BY <1>5, <2>2 DEF Untouched
  <2>4. Input(mem.job)[1] = mem.job
    BY DEF Input
  <2> QED BY <1>10, <2>3, <2>4 DEF Gone
<1>20. AtBoundary'
  BY <1>2, <1>9, TurnsKept DEF Speaks
<1> QED BY <1>2, <1>9, <1>10, <1>17, <1>18, <1>19, <1>20, SpeakWrapper

\* Any step of a process on the session.
LEMMA HarnessSound ==
  ASSUME DeliveryInv, Harness, UNCHANGED <<takeoverVars, scene, faults>>
  PROVE  ItemsSound' /\ WrapperSound'
BY HReadSound, HStartSound, HCancelSound, HTurnSound, HExitSound DEF Harness

-----------------------------------------------------------------------------
(***************************************************************************)
(* The invariant, and what follows from it.                                *)
(***************************************************************************)

\* The invariant holds at first.
LEMMA DeliveryInit ==
  ASSUME Init
  PROVE  DeliveryInv
<1>1. /\ SessionInv /\ lock \notin Wrappers /\ seen = {} /\ mem.consume = {}
      /\ \A i \in Items : phase[i] = "new" /\ stamp[i] = "none"
  BY SessionInit, Distinct DEF Init, Fresh
<1>2. \A s \in Slots : /\ proc[s].kind = "none" /\ proc[s].pipe = <<>> /\ proc[s].queue = {}
                       /\ proc[s].turn = "no" /\ proc[s].out = <<>>
  BY EmptyType DEF Init
<1>3. \A s \in Slots : HeldInputs(s) = {} /\ DOMAIN proc[s].out = {} /\ DOMAIN proc[s].pipe = {}
  BY <1>2 DEF HeldInputs
<1>4. \A x : ~Touched(x)
  BY <1>1, <1>3 DEF Touched
<1>5. HeldOnce /\ HeldUnseen /\ LatestAttempt /\ NotOffered
  BY <1>3, <1>4 DEF HeldOnce, HeldUnseen, LatestAttempt, NotOffered
<1>6. StampsTell /\ Received /\ ReportsTrue /\ StartedOnce
  BY <1>1, <1>3 DEF StampsTell, Received, ReportsTrue, StartedOnce
<1>7. WrapperSound
  BY <1>1, <1>2 DEF WrapperSound, HarnessFits, AnswersWait, JobFits, CurFits, MovedFits, BarredFits,
                    SettleFits, AllOwned, StartsOpen, TurnKnown, AtBoundary
<1> QED BY <1>1, <1>5, <1>6, <1>7 DEF DeliveryInv, ItemsSound

\* Any step of the wrapper.
LEMMA WrapperSteps ==
  ASSUME DeliveryInv, NEW w \in Wrappers, WrapperStep(w) \/ Approvals(w),
         UNCHANGED <<takeoverVars, scene, faults>>
  PROVE  ItemsSound' /\ WrapperSound'
<1>1. Answers \subseteq Items
  BY HeadlessAssumption DEF HeadlessAssumption
<1>2. CASE Approvals(w)
  BY <1>1, <1>2, AnswersSound DEF Approvals
<1>3. CASE WrapperStep(w)
  BY <1>3, ServeSound, SettleSound, SpawnSound, BarSound, WriteSound, HearSound, AckDeadlineSound,
     HarnessExitedSound, RestartSound, RecoverSound, MoveSound, AnswersSound
  DEF WrapperStep
<1> QED BY <1>2, <1>3

\* The invariant is kept by every step.
LEMMA DeliveryNext ==
  ASSUME DeliveryInv, [Next]_vars
  PROVE  DeliveryInv'
<1>1. SessionInv'
  BY SessionNext DEF DeliveryInv
<1>2. SUFFICES ItemsSound' /\ WrapperSound'
  BY <1>1 DEF DeliveryInv
<1>3. CASE UNCHANGED vars
  BY <1>3, Elsewhere DEF vars, wrapperVars, takeoverVars
<1>4. scene.tokens \subseteq Tokens
  BY TakeoverAssumption DEF DeliveryInv, SessionInv, TakeoverTypes, TakeoverAssumption
<1>5. ASSUME Queue \/ Harness \/ \E w \in Wrappers : WrapperStep(w) \/ Approvals(w),
             UNCHANGED <<takeoverVars, scene, faults>>
      PROVE  ItemsSound' /\ WrapperSound'
  BY <1>5, QueueSound, HarnessSound, WrapperSteps
<1>6. ASSUME \/ \E w \in Wrappers : StartWrapper(w)
             \/ \E t \in scene.tokens : TakeMark(t) \/ HolderStep(t)
             \/ TakerStep \/ BackCheck \/ BackStep,
             UNCHANGED <<scene, faults>>
      PROVE  ItemsSound' /\ WrapperSound'
  BY <1>4, <1>6, StartWrapperSound, TakerSound, HolderSound, BackSound
<1> QED BY <1>3, <1>5, <1>6, FaultSound DEF Next

\* In every reachable state the queue, the transcript, what the processes hold and
\* report and what the wrapper remembers tell the same story of each message.
THEOREM DeliveryInvariant == Spec => []DeliveryInv
<1>1. Init => DeliveryInv
  BY DeliveryInit
<1>2. DeliveryInv /\ [Next]_vars => DeliveryInv'
  BY DeliveryNext
<1> QED BY <1>1, <1>2, PTL DEF Spec

\* The variables have their types, and the recovery stamps are on items in inflight/
\* or given up (wrapper.rs, deliver and recover).
THEOREM TypeCorrect == Spec => []TypeOK
<1>1. DeliveryInv => TypeOK
  <2> SUFFICES ASSUME DeliveryInv PROVE TypeOK
    OBVIOUS
  <2>1. SessionInv /\ StampsTell
    BY DEF DeliveryInv, ItemsSound
  <2>2. /\ phase \in [Items -> Phases] /\ tries \in [Items -> 0 .. MaxTries]
        /\ tomb \subseteq Items /\ seen \subseteq Inputs
        /\ stamp \in [Items -> {"none", "barrier", "written"}]
    BY <2>1 DEF SessionInv, QueueTypes
  <2>3. ASSUME NEW i \in Items
        PROVE  stamp[i] \in {"none"} \cup
                 IF phase[i] \in {"inflight", "failed"} THEN {"barrier", "written"} ELSE {}
    BY <2>1, <2>2, <2>3 DEF StampsTell
  <2>4. /\ lock \in Wrappers \cup Tokens \cup {Nobody, Handback}
        /\ mem.cur \in Items \cup {None} /\ mem.job \in Items \cup {None}
        /\ mem.harness \in Slots \cup {None} /\ mem.consume \subseteq Answers
    BY <2>1 DEF SessionInv, SessionTypes, Memories
  <2>5. \A s \in Slots : proc[s].queue \subseteq Inputs /\ Len(proc[s].out) <= MaxOut + 1
    BY <2>1, Types DEF SessionInv, ReportsBounded
  <2>6. tui \in Slots \cup {None} /\ faults \in 0 .. MaxFaults
    BY <2>1 DEF SessionInv, TakeoverTypes
  <2> QED BY <2>2, <2>3, <2>4, <2>5, <2>6 DEF TypeOK
<1> QED BY <1>1, DeliveryInvariant, PTL

\* The model never receives two attempts of one queued message, whatever crashes,
\* cancellations, deadlines, restarts and takeovers come between (wrapper.rs,
\* recover_inflight and check_ack_deadline).
THEOREM AtMostOnceHolds == Spec => []AtMostOnce
<1>1. DeliveryInv => AtMostOnce
  <2> SUFFICES ASSUME DeliveryInv, NEW i \in Items
               PROVE  Cardinality({x \in seen : x[1] = i}) <= 1
    BY DEF AtMostOnce
  <2> DEFINE S == {x \in seen : x[1] = i}
  <2>1. \A x, y \in S : x = y
    <3> SUFFICES ASSUME NEW x \in S, NEW y \in S PROVE x = y
      OBVIOUS
    <3>1. Touched(x) /\ Touched(y) /\ x[1] = y[1]
      BY DEF Touched
    <3> QED BY <3>1, SameInput DEF DeliveryInv, ItemsSound
  <2> HIDE DEF S
  <2>2. Cardinality(S) <= 1
    <3>1. CASE S = {}
      BY <3>1, FS_EmptySet
    <3>2. CASE S # {}
      <4>1. PICK x \in S : S = {x}
        BY <2>1, <3>2
      <4>2. Cardinality({x}) = 1
        BY FS_Singleton
      <4> QED BY <4>1, <4>2
    <3> QED BY <3>1, <3>2
  <2> QED BY <2>2 DEF S
<1> QED BY <1>1, DeliveryInvariant, PTL

\* A message that waits, was withdrawn or was set aside has not been received, and
\* no process holds a copy that it could still start (wrapper.rs, harness_line and
\* recover_inflight return an input to pending/).
THEOREM WaitingIsUnseenHolds == Spec => []WaitingIsUnseen
<1>1. DeliveryInv => WaitingIsUnseen
  <2> SUFFICES ASSUME DeliveryInv, NEW i \in Items,
                      phase[i] \in {"pending", "withdrawn", "cancelled"},
                      NEW x \in seen \cup UNION {HeldInputs(s) : s \in Live}
               PROVE  x[1] # i
    BY DEF WaitingIsUnseen
  <2>1. Touched(x)
    BY DEF Touched, Live
  <2>2. x \in Inputs
    BY <2>1, HeldIsInput DEF DeliveryInv
  <2> QED BY <2>1, <2>2 DEF DeliveryInv, ItemsSound, NotOffered
<1> QED BY <1>1, DeliveryInvariant, PTL

\* A message recorded as processed was received by the model (wrapper.rs,
\* harness_line and recover_inflight).
THEOREM ProcessedWasReceivedHolds == Spec => []ProcessedWasReceived
<1>1. DeliveryInv => ProcessedWasReceived
  BY DEF DeliveryInv, ItemsSound, Received, Input, ProcessedWasReceived
<1> QED BY <1>1, DeliveryInvariant, PTL

\* No message is stranded in inflight/ while the wrapper serves: what is there is
\* its current input (wrapper.rs, harness_exited and recover).
THEOREM InflightIsOwnedHolds == Spec => []InflightIsOwned
<1>1. DeliveryInv => InflightIsOwned
  BY Distinct DEF DeliveryInv, WrapperSound, AllOwned, JobFits, InflightIsOwned, Looping
<1> QED BY <1>1, DeliveryInvariant, PTL

\* A message whose answer was accepted is not written while the wrapper remembers
\* the answer (wrapper.rs, approval_answer and consume_answers).
THEOREM AnswerNotTypedHolds == Spec => []AnswerNotTyped
<1>1. DeliveryInv => AnswerNotTyped
  <2> SUFFICES ASSUME DeliveryInv, NEW i \in mem.consume
               PROVE  phase[i] # "inflight" /\ \A x \in seen : x[1] # i
    BY DEF AnswerNotTyped
  <2>1. phase[i] \in {"new", "pending", "withdrawn"}
    BY DEF DeliveryInv, WrapperSound, AnswersWait
  <2>2. \A x \in seen : x \in Inputs /\ Touched(x)
    BY Types DEF Touched, DeliveryInv
  <2> QED BY <2>1, <2>2 DEF DeliveryInv, ItemsSound, NotOffered
<1> QED BY <1>1, DeliveryInvariant, PTL

\* Between the takeover's idle check and its stop request, no queued message is in
\* the harness's hands, except those given up (takeover.rs, stop_wrapper_for_takeover).
THEOREM StopsAtBoundaryHolds == Spec => []StopsAtBoundary
<1>1. DeliveryInv => StopsAtBoundary
  <2>1. SUFFICES ASSUME DeliveryInv, taker.pc = "stop", Serving, mem.held, mem.harness # None
                 PROVE  \A x \in HeldInputs(mem.harness) \cup
                          ({proc[mem.harness].turn} \cap Items) \X {0} : phase[x[1]] = "failed"
    BY DEF StopsAtBoundary
  <2>2. /\ lock \in Wrappers /\ WrapperSound /\ mem.harness \in Slots
    BY <2>1, Types DEF Serving, DeliveryInv
  <2>3. /\ wpc[lock] = "loop" /\ mem.cur = None
        /\ proc[mem.harness].turn \in Items => phase[proc[mem.harness].turn] = "failed"
    BY <2>1, <2>2 DEF WrapperSound, AtBoundary
  <2>4. mem.job = None
    BY <2>2, <2>3 DEF WrapperSound, JobFits
  <2>5. \A i \in Items : phase[i] # "inflight"
    BY <2>1, <2>2, <2>3, <2>4, Distinct DEF WrapperSound, AllOwned
  <2>6. ASSUME NEW x \in HeldInputs(mem.harness)
        PROVE  phase[x[1]] = "failed"
    BY <2>1, <2>2, <2>5, HeldIsOpen
  <2>7. ASSUME NEW x \in ({proc[mem.harness].turn} \cap Items) \X {0}
        PROVE  phase[x[1]] = "failed"
    BY <2>3
  <2> QED BY <2>6, <2>7
<1> QED BY <1>1, DeliveryInvariant, PTL
=============================================================================
