# A verification project for agent-utils

`agent-utils` is a set of command-line tools for people who run many coding
agents at once. Most of them are sequential programs. Four parts are protocols
between processes that may die at any moment, and those are modelled here:

* the **durable prompt queue**: `agentctl` types prompts into the terminal panes
  of agents on behalf of people, scripts, chat bridges and timers, and must
  neither lose a prompt nor type one twice;
* the **headless wrapper**, a second consumer of the same queue, which feeds a
  harness over a pipe, and the **takeover** that replaces it by an interactive
  session and hands back;
* the **lifecycle lock** of an agent, across a change of the registry's layout
  and builds that know only the old one, and the ranked lock under it;
* **agent-teams** messages from one host's coordinator to another's.

Paths in this document are relative to the repository (`src/` in `PROJECT.json`).

## 1. Inventory

### Modelled

| part | state | operations | source |
|---|---|---|---|
| queue files | one directory per phase (`inbox`, `inbox.v2`, `inflight`, `processed`, `failed`, `cancelled`), one JSON document per identifier, `cancel/` tombstones, `failed/*.error` sidecars, `.delivery.lock` | atomic write, create, `transition` (rename that never replaces), try-lock, lock | `rs/agent-queue/src/queue.rs`, `fsio.rs`, `lib.rs` |
| clients | none between operations | `enqueue_into` (explicit or generated identifier), `withdraw`, `cancel`, `message_state` | `rs/agent-queue/src/queue.rs` |
| drain | the items of this drain, the document in hand | `repend_stranded_inflight`, `recover_inflight`, the digest set-aside, the loop over pending items, the at-most-once barrier, settling | `rs/agentctl/src/agent.rs`, `rs/agent-queue/src/queue.rs` |
| submission | the composer as last read | refuse, recover an own draft, flush a stranded prompt, stamp, paste, watch the screen, clear | `rs/agentctl/src/submission.rs`, `agent.rs` |
| pane | text pasted and not drawn, the draft, what the agent took | draw, drop, take, a person who types | external, as `submission.rs` relies on it |

How they interact: clients and drainers are separate processes that share only
the files. A drain holds `.delivery.lock` from its first step to its last; so do
`withdraw` and an `enqueue` with an explicit identifier. `cancel` does not: it
reads the directories without the lock, drops a tombstone, and sets the item
aside itself only if the lock happens to be free. The pane is shared with a
person and with the agent, which both act when they like.

What makes it hard, with the line where it bites, is the `hazards` list of
`PROJECT.json`. In short:

* a drainer may die between the barrier rename, the stamps, the first key and
  the settling rename, and recovery has nothing but the document to go by;
* every exit from `inflight/` is a write followed by a rename;
* `cancel` and `message_state` look without a lock while items move;
* a paste may show up after the pass that declared it late or lost;
* an identifier can be withdrawn and queued again, and a *stranded* item (typed,
  not confirmed) waits in an inbox like one that was never typed;
* retries happen inside a drain, with the lock held.

In the other three groups, too, the processes share files and little else:

| part | state | operations | source |
|---|---|---|---|
| headless wrapper | `headless.lock`, the queue's items with their stamps, what the running wrapper remembers (current input, busy, held, stopping, answers to consume) | start, recover, deliver, hear a report, acknowledgement deadline, approve, harness exit, restart, stop | `rs/agentctl/src/headless/wrapper.rs` |
| harness | a process on the session: its input pipe, its queue, its turn, its unread reports | read, start, cancel, own turns, exit, a launcher that exits first | external, as `wrapper.rs` relies on it |
| takeover | the mark in the agent's record with its token and state | mark, hold, poll, stop, wait, open the tab; the holder's check, lock and spawn; handback | `rs/agentctl/src/subagents/headless/takeover.rs` |
| ranked lock | a lock file, a gate file, who is registered on it | register, ask the gate, defer, take, cancel | `rs/agent-queue/src/fsio.rs` |
| lifecycle lock | where the agent's directory is, which lock files exist under which name | lock in both layouts, check that it is still current, create, archive, migrate, sweep lock files | `rs/agentctl/src/subagents.rs`, `registry_layout.rs`, `rs/agent-queue/src/registry.rs` |
| team ledger | one entry per message ID, its claimer, the deliverer's places, tombstones | accept, recover, expire, supersede, fence, retract, reconcile, prune, the coordinator's hook | `rs/agent-teams/src/ledger.rs`, `deliver.rs`, `serve.rs`, `cli.rs` |
| team sender | one outbox entry per message | the walk of `send` and of `pump`, ask for a receipt, resend, expire, mirror | `rs/agent-teams/src/sender.rs`, `route.rs`, `cli.rs` |

* The wrapper writes to the harness after it has dropped the delivery lock, and
  settles by reports that come later, or never, or after it was replaced.
* Lock files are deleted and created again under processes that wait on them.
* `accept` recovers dead claims without the lock, and several writers put back
  ledger entries they read earlier.
* A sender that gets no answer cannot tell a lost request from a lost answer.

### Not modelled yet (see the plan), or not at all

| part | why |
|---|---|
| batching of a working backlog (`agent.rs` 2047-2411) | planned; off by default |
| `discard_unconfirmed` (`failed_digest.rs`) | planned: an unlocked look, then `withdraw` |
| pane admission, lock waiters | one flock around the delivery lock; a display of who waits |
| chat bridge and subscriptions (`chat_runtime.rs`, `chat_service.rs`) | 65,000 lines, mostly formatting, policy and one service's API; the ordered delivery with durable acknowledgement inside it is a candidate |
| gh-paced budget and cooldown | planned: shared budget state |
| dagrun admission, reservations, cpuset allocator | planned: resource safety |
| merge-queue | planned as far as TLC reaches: external git state dominates |
| tick-hub cadence | planned as pure operators |
| watch loop, sessions, inbox view, services | policy around the queue; all they do to it is start drains |
| process identity, terminal backends | reads of `/proc`, Herdr and tmux |
| screen recognition, stale drafts, recovery ladder | text matching; the model takes the answers as given |
| herdr-run, wrkslotsd, wrkviz, pr-landing-planner, change-classifier, agent-usage, agent-harness, vibe-talk, Python editions, setup and site | sequential analyses, readers of other programs' files, user interface, build |

Inside the modelled parts, these are left out: the registry-wide identity lock
and the checks of `unmovable()` (one choice, `LeaveAgent`); answers to different
content under one message ID, quarantine and alarms, session contacts, relay
custody, `resolve` by a person, cloud injection, `note_held`, delivery-outcome
notices, and a long-lived relay process that accepts again what it claimed
itself; of the wrapper, the order among pending items (any may be next), the
limit on restarts and all deadlines (choices), interrupts (the harness cancels or
ends a turn when it likes), turnover, retirement and systemd.

The repository has some 720,000 lines of implementation and the modules stand
for about 5,000 of them. The rest is dominated by tools that read, classify,
render or call out, each in one process; a model of those would restate them.

## 2. The modules

```
QueueFiles            documents, tombstones, sidecars, lock, queue order
  AgentPane           the pane: external
    QueueClients      enqueue, withdraw, cancel
    Drain             recovery, barrier, submission, settling
      PromptQueue     the composition, fairness, the properties
        PromptQueueInv      the inductive invariants
          DrainProofs         the first survives every step of a drain
            PromptQueueProofs   every other step, the other invariants; the theorems
          MCPromptQueue       the instances TLC runs

RankedLock            lock_exclusive_ranked over any lock files
  LifecycleLock       one agent's lock, its layouts, migration, older builds
    LifecycleLockProofs
    MCLifecycleLock

TeamPromise           abstract: what a receiving host promises per message ID
TeamLedger            ledger, deliverers, hook, recovery at one host
  TeamLedgerProofs    the ledger's invariant, step by step, for both uses below
  TeamReceiver        the host alone; implements TeamPromise
    TeamReceiverProofs
    MCTeamReceiver
  TeamSender          outbox and walks
    TeamMessaging     sender and receiver over lossy routes
      TeamMessagingProofs
      MCTeamMessaging

HeadlessWrapper       queue items, wrapper, harness
  Takeover            the mark, taker, holder and handback around it
    TakeoverProofs      one writer: locks, marks and processes
      DeliveryProofs    at most once: queue, transcript and reports
    MCTakeover
```

### The prompt queue

**Documents.** A path is a pair `<<phase, identifier>>`, and `file[path]` is the
document there or `NoFile`. A document keeps the fields on which some decision
of the code depends: whether it parses, `paste_tracking`, `inflight_from`,
`paste_started_at`, `stranded_at`, `stranded_passes`, the number of `misroutes`,
`delivery_attempts`, and whether `delivery_error` names a refusal that preceded
typing. Timestamps are present or absent. Texts are the identifiers themselves.
`QueuedAt` is a constant of an item, since nothing rewrites it.

**Steps.** A durable write and a rename are one step each, as `atomic_json` and
`transition` make them. What a lock holder reads between two of them belongs to
one of the two steps, except where another process can change it in between:
the tombstone is read at `DrainAside` and again behind the barrier at
`DrainRecheck`; each directory of a look by `cancel` is a step of its own
(`LookMisses`, `LookFinds`, `LookTorn`).

**Crashes.** `DrainCrash` and `ClientCrash` are possible at every step. They
clear the process's locals and free its lock, which is what the kernel does for
a dead process and what an early return with `?` does for one that met an I/O
error; both leave the files as they are.

**Submission.** One submission is a chain of steps from `submit` to `settle`,
whose outcome (`dout`) is one of the cases the drain tells apart: `confirmed`,
`refused` (a dialog, a foreign draft), `unreadable`, `not_begun`, `taken_back`
(cleared and proved empty), `stranded`, `lost`, `misrouted`, `unknown`.
`Settled` and `GivesUp` say what each writes and where the document then goes.
Items of `Native` go through the primitive that types and submits in one call.

**Pane.** What the screen shows is taken as sound: `confirmed` is concluded only
when the agent took the text or the composer is empty after Enter, `taken_back`
only when it was emptied. The one recognition that is modelled as it is written
is `holds_one_placeholder_only`, which cannot tell whose placeholder it sees
(`Placeholders`). Assumed of the environment: nobody edits a draft that agentctl
typed, and the agent takes one paste once. When an identifier is queued anew
after a withdrawal, text of its earlier life counts as foreign (`PaneForgets`).

**History variables.** `typed` counts the pastes of an item into the pane less
those proved taken back, `accepted` how often the agent took it, `live` the
identifiers queued and not withdrawn, `used` the generated ones handed out,
`snapshot` the paths a drain started with, `crashes` the crashes. No guard of a
modelled operation reads them, except `accepted` (through the screen) and `used`
(generated identifiers are unique).

### Locks and layouts

A lock file is an inode: `named[path]` is the file a layout-1 name stands for at
the moment, `created` numbers them, and a process keeps in `fd` the files it
opened, which a deletion does not change. `flock`, `gateX` and `gateS` are the
kernel's locks on the lock file and on its gate. Each look and each lock is a step
of its own: the agent may move between `Find` and `OpenFirst`, and a lock file may
be deleted between `SweepOpen` and `SweepLock`. Layout-2 lock files are never
deleted and have one inode.

### Team messages

`ledger[m]` is the state of the entry, `claimer[m]` the process it names while it
lives, `place[m]` where the deliverer has the message (a set: the queue can hold
it twice), `typed[m]` how often the text reached the coordinator (capped at 2).
`lock` is the ledger lock where an operation spans steps while it holds it; a
locked section that is one step requires the lock to be free. `seen` and `todo`
are what a process has read and works from. `late` are the messages whose
`not_after` has passed; the clocks of both hosts are taken to agree. The queue
deliverer's queue is reduced to its phases, with a drain that types, strands or
sets aside.

The history variables `raced` (two recoveries of one claim overlapped), `dropped`
(a hook died between its claim and its print), `withdrawn` and `claimed` appear in
properties and in the refinement only, as does the sender's `muddled`.

`KeepsPromise` is the refinement: `TeamReceiver` implements `TeamPromise` under
`fate <- Fate, shown <- typed, doubled <- raced`. Every ID is decided once, taken
or barred; a barred one is never shown, not even after its entry was pruned and a
late copy arrives; a taken one is shown once, or twice if two recoveries
overlapped.

### Headless wrapper and takeover

`phase[i]` is the directory of an item and `stamp[i]` what its inflight document
says: `barrier` (`paste_tracking`) or `written` (`paste_started_at` too). An input
is an item with its attempt number, as each attempt has an input ID of its own.
`seen` is the transcript. `proc` are the processes on the session, which
`session_processes` finds whether or not a wrapper knows of them. A settling is
two steps, the write that strips the stamps and the rename, as in the code.
`mem` is the memory of the wrapper that holds `headless.lock` and is lost with it.
The takeover's requests to the control socket may be answered, refused or applied
with their answer lost (`Fault`), and each of its processes may die anywhere.

## 3. Runs

Deadlock is checked in the runs of `MCPromptQueue` and `MCLifecycleLock`. The
others turn it off: a host with no more messages, or an agent whose takeover mark
nobody clears, really does stop.

| run | instance | properties | distinct states |
|---|---|---|---|
| `races` | one identifier, two clients that enqueue, withdraw and cancel it, two drainers, symmetric | `QueueInv`, `MovesSucceed`, `OnePhase`, `SetAsideKnowsTyped`, `CancelKeepsItsPromise` | 746,000 |
| `recovery` | two waiting items, one a digest, every outcome, one crash anywhere | `AtMostOnce`, `EvidenceSound`, `ProcessedWasAccepted`, `NoStrayInflight`, `SettledIsFinal` | 1.17 million |
| `degraded` | as above with a native prompt, stamps that may be lost, ambiguous placeholders, a person, two crashes | `EachReplayNeedsACrash` | 717,000 |
| `order` | three waiting items in both lanes, mixed `queued_at`, an owner's prompt, one that expires | `TypedInQueueOrder` | 1.8 million |
| `odd` | a malformed file, an exhausted item, a generated identifier that is a digest, a client, one crash | `TypeOK`, `SettledIsFinal` | 913,000 |
| `live` | one item, two crashes, `FairSpec` | `DrainEndsInTime`, `InflightIsResolved` | 8,000 |
| `layout` | one agent, a priority and an ordinary sender, a migration, an older build, crashes, `FairSpec` | `OneOwner`, `OldAndNewExclude`, `HolderFindsAgent`, `RegistrationEnds`, `OvertakenAtMostOnce`, `FreeLockIsTaken` | 727,000 |
| `ledger` | two messages of one topic, two verbs at once, two hooks, a retraction, three deliverers, one crash | `TypeOK`, `KeepsPromise`, `BuriedStaysBuried`, `RefusedUntyped`, `DeliveredWasTyped`, `AcceptedIsHeld` | 1.9 million |
| `team` | one message, `send` and `pump`, a route and a mirror, two receiving processes, one crash | `TypeOK`, `TypedOnce`, `ExpiredIsUntyped` | 1.9 million |
| `headless` | two wrappers, two processes on the session; one message with a takeover, two messages without, two takeovers with none; one fault | `TypeOK`, `OneWriter`, `AtMostOnce`, `WaitingIsUnseen`, `ProcessedWasReceived`, `InflightIsOwned`, `AnswerNotTyped`, `StopsAtBoundary`, `HandbackEndsSession` | 1.4 million |
| `native_replay`, `double_recovery` | see section 6 | `AtMostOnce`, `AtMostOnePaste` | ends with a counterexample |

What they show:

* **At most once.** Where agentctl can read the composer and its stamp reaches
  the disk, no sequence of refusals, retries, misroutes, late or lost pastes and
  crashes types an item twice, and the agent takes none twice (`AtMostOnce`).
  The reason is `EvidenceSound`: a document that recovery would take for untyped
  never belongs to an item that was typed. Where either condition fails, an item
  is typed again at most once per crash (`EachReplayNeedsACrash`).
* **No false delivery.** What is filed in `processed/` was taken by the agent,
  unless two placeholders are confused (section 6).
* **One phase.** An identifier that was queued and not withdrawn is in exactly
  one directory, and no rename of a lock holder finds its source gone or its
  destination taken (`OnePhase`, `MovesSucceed`).
* **Cancel.** After any answer but "in flight" and "too late", the item is
  neither typed nor submitted by a later step (`CancelKeepsItsPromise`): the
  tombstone is seen behind the barrier, and consumed only with its item.
* **Final is final**, except that a recovered digest goes from `failed/` to
  `cancelled/` (`SettledIsFinal`).
* **Order.** A drain types in queue order, owner first, also when items before
  it were set aside, quarantined or put back (`TypedInQueueOrder`).
* **Progress.** Retries are bounded, so a drain ends; an item left in `inflight/`
  by a dead drainer leaves it again, also if the next drainer dies while it
  recovers (`DrainEndsInTime`, `InflightIsResolved`).
* **One owner.** However often the agent's directory and its lock files move while
  processes wait for them, one process owns the agent, older builds never work on
  it at the same time, and the owner finds it where it locked it (`OneOwner`,
  `OldAndNewExclude`, `HolderFindsAgent`). The last needs `locate` to be repeated
  under the lock: that the lock file still has its name is not enough.
* **Rank.** A priority waiter is overtaken by each ordinary one at most once, a
  waiter that is stopped for ever with the gate held cannot keep a free lock from
  the others, and no registration outlives its wait (`OvertakenAtMostOnce`,
  `FreeLockIsTaken`, `RegistrationEnds`).
* **Team messages.** The ledger keeps its promise (`KeepsPromise`); a message
  under a tombstone is not typed unless a reader had it in hand
  (`BuriedStaysBuried`); `refused` and `fenced` mean untyped, `delivered` means
  typed, `accepted` means that the deliverer has it, each outside the cases its
  comment names; over all routes, resends, mirrors and crashes a message is typed
  once unless two recoveries overlapped (`TypedOnce`), and one the sender itself
  gives up as expired was not typed (`ExpiredIsUntyped`): any ambiguous attempt
  bars that conclusion.
* **Headless.** The session never has two writers, with wrappers, harnesses left
  behind, and interactive sessions in any order (`OneWriter`); no message is
  received twice, what waits was not received and cannot be any more, what is
  processed was (`AtMostOnce`, `WaitingIsUnseen`, `ProcessedWasReceived`); nothing
  stays in `inflight/` unattended (`InflightIsOwned`); an item used as the answer
  to an approval is not typed as well (`AnswerNotTyped`); a takeover stops the
  wrapper with no message in the harness's hands, and a handback leaves no writer
  (`StopsAtBoundary`, `HandbackEndsSession`).

### Bounds

| constant | in the code | in the runs | why that is enough |
|---|---|---|---|
| `MaxLostPastePasses` | `MAX_LOST_PASTE_PASSES` | 1 or 2 | compared with a counter that only grows; 2 has one pass below the bound and one at it |
| `MaxMisroutes` | `MAX_MISROUTES` | 1 or 2 | the same |
| `MaxComposerRetries` | `COMPOSER_RETRY_DELAYS.len()` | 0 or 1 | the same, per drain |
| `MaxAttempts` | `--max-attempts` | 1 or 2 | below and at the bound; `Exhausted` items start at it |
| `MaxScanRetries` | 5 looks in `settled_state` | 0 or 1 | each look starts from nothing, so a further one repeats the last |
| `MaxCrashes` | unbounded | 0, 1 or 2 | a crash leaves only files; two let recovery itself be interrupted |
| `MaxRelocks` | 8 rounds in `lock_with_runtime` | 2 | each round starts anew; after the last the operation fails, which the model allows |
| `MaxFiles`, `MaxWork` | unbounded | 3, 4 | lock files created under one name: the first, one after a deletion, one more; operations, crashes and stray directories in all, enough for every process to act once. With 5 the invariants were checked too (3.0 million states) |
| `MaxTries` | unbounded | 2 | a second attempt is one after a cancellation; a third adds no new situation |
| `MaxOut` | the pipe's size | 2 | reports the harness is ahead of the wrapper |
| `MaxFaults` | unbounded | 1 | deaths and lost answers in a run of `headless` |
| `Routes` | any | 1, and a mirror | the next route repeats the same walk; with 2 routes (6.0 million states) the same properties hold |

In `headless` the scenes keep the run short; one message with two takeovers (4.2
million states) and cancellable items throughout (2.1 million) were checked too.
`team` has the command deliverer, whose paste is one step; with the queue deliverer
and neither mirrors nor crashes the same properties hold (8.3 million states), and the
theorems cover every deliverer.

Two items let one be behind the other in every phase and in the composer; three
are needed for the queue order only. One identifier suffices for `races`, since
clients and recovery treat identifiers independently. The theorems hold without
any of these bounds.

### Fairness

Every step of a drain or of a client operation polls with a bounded wait, so a
process that has started goes on (weak fairness of `DrainActs(d)` and of
`ClientGoesOn(c)`). Drains are started again and again by `send`, by the watch
loop and by the timer tick, so one of them finds the lock free in the end (strong
fairness of starting some drain, since a client may hold the lock now and then).
Nothing is assumed of the pane, the person, the clock, or of new client
operations, and crashes are not fair.

`FreeLockIsTaken` assumes that an ordinary sender of this build keeps running (it
polls every 10 ms) and that its clock goes on, so that its deference expires. It
assumes nothing of priority waiters, of holders, of older builds or of a
migration: they may stop anywhere for good.

## 4. Proofs

Every safety invariant and every action property that a passing run checks is also a
theorem, for all values of the constants the modules' `ASSUME`s allow: any number of
items, clients, drainers, messages, processes, routes, wrappers and takeovers, and any
bound on crashes, retries and attempts. An invariant was checked by TLC before it was
proved.

The assumptions say no more than that the names are what they stand for. Process sets
are disjoint and `Nobody` is in none of them; the constants for "no file", "no item" and
"no draft" are no file, item or draft; identifiers of queue items are naturals, so that
file-name order is an order; the special sets are sets of items; the bounds are naturals;
a waiting item has no generated identifier.

### The prompt queue (`DrainProofs`, `PromptQueueProofs`)

`OnePhase` is not inductive. A rename by a drain keeps it only if the document is where
the drain believes it is, and a create keeps it only if nothing was created since the
check. `QueueInv` adds

* `LockInv`: who is past a step that takes the lock holds it. So the files change
  under a lock holder only by an unlocked enqueue.
* `EnqueueInv`: an enqueue past its check still finds its identifier absent. With
  an explicit identifier the lock sees to that; a generated one has been handed
  out to this client alone and is nowhere on disk before.
* `DrainHandInv`: where the document in hand is at each step of a drain, that
  every path still to do has its document, and that what recovery quarantined is
  still in `failed/`.
* `ClientHandInv`: the item `cancel` sets aside still waits.

A step of a drain leaves the identifiers with a document alone (`SameFiles`) or moves
one document (`Moved`); two lemmas show that each effect keeps `OnePhase`, and
`EnqueueInv` and `ClientHandInv` with it. `DrainProofs` has one lemma per step of a
drain, `PromptQueueProofs` one per step of a client, the crashes, the pane and the clock.

With `QueueInv` a step of a drain can be described by the one document it touches
(`Touches`: old at phase p before, new at phase r after, no other document of the item
anywhere, and every other item untouched), and a step of a client by `ClientEffect`.
`NextCases` splits `Next` into these two and the steps that touch no file. On that rest
the other theorems, each with an invariant of its own from `PromptQueueInv`:

| theorem | invariant added | under |
|---|---|---|
| `HandInvariant` | `PaneInv`, `HandDocInv`: the drainer's copy agrees with the disk; what is drawn, under way or taken was typed | |
| `EvidenceHolds`, `SetAsideHolds`, `AtMostOnceHolds` | `EvidenceInv`: a document not marked stranded belongs to an item with no text in the pane, except between the paste stamp and the settling; once recovery is past its first pass no inflight document may have been typed | `StampMayFail = FALSE`; the last also `Native = {}` |
| `ReplaysHold` | `ReplayInv`: an item some drain may still type was typed at most once per crash | |
| `ProcessedHolds` | `ConfirmInv`: an item about to be filed as delivered was taken | `Placeholders = {}` |
| `SettledHolds` (an action property) | none | |
| `NoStrayHolds` | `AttendedInv`: without a crash, what is behind the barrier is in a drain's hands | |
| `OrderHolds` | `OrderInv`: what a drain has taken from its batch is in its hands, gone or stranded, and what it has yet to take is not earlier | |
| `CancelHolds` (an action property) | `CancelInv`: which of `cancel`'s unlocked looks already puts the item out of every drain's reach | |

The three hypotheses are where section 6 says the code itself is weaker: a lost paste
stamp, the native primitive, and a placeholder that does not tell whose text it is.
`AtMostOnce` really fails without the first two, and `EachReplayNeedsACrash` is what
then remains.

The order of recovery matters in `EvidenceInv`: `recover_inflight` takes an earlier
refusal for proof that an item was never typed, which is sound only because
`repend_stranded_inflight` has taken every item that may have been typed out of
`inflight/` before. In `CancelInv` the order of a look matters: an item is out of reach
once the second look has passed `inflight/` without finding it, or found it elsewhere,
since the tombstone was there before the look began and a drain rereads it behind the
barrier.

### The lifecycle lock (`LifecycleLockProofs`)

`LockInvariant` proves the conjunction of the types, `LocksHeld` (which inodes a process
holds at each step: past its last lock the layout-2 file, and on its way from layout 1
the layout-1 file it opened),
`OldWorksInLegacy`, `NamedExists`, `OneLegacyLock` (while the agent is in layout 1 one
lock file has been created there and nobody is about to delete it),
`OvertakenIsRegistered` and the properties `HolderFindsAgent`, `RegistrationEnds` and
`OvertakenAtMostOnce` themselves. `OneOwner` follows because every owner holds the
layout-2 file, which has one inode, and `OldAndNewExclude` because an owner finds the
agent in layout 1, where an older build works, only with the one layout-1 file locked.

### Team messages (`TeamLedgerProofs`, `TeamReceiverProofs`, `TeamMessagingProofs`)

`LedgerInv` says that only claimed messages have anything happen to them
(`ClaimedFirst`), that one process at a time works on a claim and the deliverer has one
copy unless recoveries overlapped (`OneAtWork`, `OneCopyEach`), what a refusal, a record
of `presented`, a terminal state and an accepted message stand for (`RefusedNeverLeft`,
`PresentedShown`, `Ended`, `AcceptedKept`). Its lemmas are about the host's steps alone,
so both compositions use them. `KeepsPromiseHolds` is the refinement
`Spec => TeamPromise!Spec`: the initial states map to initial states, and every step
decides an ID, shows one, doubles one or stutters.

`MessagingInv` adds the sender: each walk that waits has a serve process of its own
(`OwnServe`), and outside the `muddled` messages the outbox, the walks and the answers
under way agree with the ledger (`SenderSound`).

### Headless wrapper and takeover (`TakeoverProofs`, `DeliveryProofs`)

`SessionInv` is about processes and locks only: who believes to hold `headless.lock`
does (`LockFits`), at most one process writes the session and it is the one the holder
started (`Alone`), a takeover under way has a mark that no handback accepts (`Underway`).
It gives `OneWriter` and `HandbackEndsSession`. `DeliveryInv` adds `ItemsSound` (an
attempt is in one place, held copies are unseen and of the latest attempt, the stamps
tell recovery the truth) and `WrapperSound` (the wrapper's memory agrees with the
directories and with the reports it has yet to read), which give the rest. Besides the
run's instance `DeliveryInv` was checked with two faults (2.5 million states).

### What is only model-checked

`DrainEndsInTime`, `InflightIsResolved` and `FreeLockIsTaken`: liveness under fairness
needs `ENABLED`, which is out of the prover's reach. The two runs of section 6 end with
counterexamples and have nothing to prove.

## 5. What each property would catch

Each property of a passing run has a mutant in `PROJECT.json`: an operator
beside the original (its comment begins with "Mutant of") that changes the code's
step as a plausible slip would, such as a recheck dropped behind the barrier, an
item made pending again without its stranded mark, a duplicate check of the
pending lanes only, a retry that is not counted. Under the mutant the run fails.

## 6. Where the code and its documentation disagree

Two have a run that TLC ends with a counterexample.

* `native_replay` (`AtMostOnce`). The native primitive never asks whether an item
  is stranded. A drainer dies behind it, recovery makes the item stranded and
  pending, and the next drain types it again, though
  `repend_stranded_inflight` says the next drain "never types the prompt again".
* `double_recovery` (`AtMostOnePaste`). `accept` unlocks the ledger before it
  recovers the claim of a dead process. Two copies of the message that arrive
  together both find it not handed over, and both hand it over, though the guide
  (`common/docs/agent-teams/USER_GUIDE.md:468`) promises "At most one enqueue and
  one paste per ID per team".

Others, without a run of their own.

*Queue.*

* The error of writing `paste_started_at` is dropped and the paste goes ahead
  (`agent.rs:1091`). A drainer that then dies leaves an item that recovery takes
  for untyped, against the comment at `agent.rs:1001`. `degraded` has this case.
* `withdraw` removes a stranded item, which was typed, though it says "either
  withdrawn or typed, never both" (`queue.rs:478`).
* An item that waits all along is reported `Unknown` ("No item has the identifier
  yet", `queue.rs:838`) when a drain moves it back behind `cancel`'s unlocked
  look. The tombstone is in place, so the promise of `cancel` is kept all the same.
* On a stranded retry Enter is pressed on any single paste placeholder
  (`submission.rs:1308`); with two prompts stranded it may be the other one's, and
  this one is filed as delivered.
* `MessageState::Cancelled` is documented "Set aside untyped", and a stranded item
  is set aside too (`SetAsideKnowsTyped` is what holds: the document says so).
* `repend_never_typed` calls an earlier refusal proof that an item was never typed,
  though `delivery_error` survives the barrier of a later pass. The order of the
  two recoveries in `drain` is what saves it (`AtMostOnce` in `recovery`).

*Ranked lock.* `fsio.rs:196` says a priority waiter "waits at most for the current
holder". An ordinary waiter that passed the gate before the registration may still
take the lock first, once (`OvertakenAtMostOnce`).

*Team messages.*

* The sender can record `expired` or `refused` of a message that was typed, when
  the receiver answers so about a claim it lost track of, or a sender died with the
  envelope out (the `muddled` messages), though exit code 65 is "terminal and
  undelivered".
* One such case needs neither a crash nor an error. A message is accepted and typed,
  its entry is pruned after it expired, and a later `pump` asks again of an agent that
  was archived meanwhile: `accept` asks whether the agent can be delivered to before it
  looks at the time (`ledger.rs:307`) and answers `deferred`, from which the sender, past
  the deadline, concludes `expired` (`sender.rs:456`). The proof of `ExpiredIsUntyped` failed on it.
* A resend that is answered `route-refused` or with an error is recorded as
  `accepted` (`sender.rs:422`), against the comment at `sender.rs:264`.
* The hook records `presented` before it prints (`cli.rs:2313`), and the next run
  takes `presented` as proof that the harness took it. A hook that dies in between
  leaves a message recorded as delivered that was never printed; one that dies
  between its rename and the record strands the message in `claimed/`.
* Terminal states move, though `ledger.rs:906` says an entry in one "can never move
  again": `recover_claim` overwrites `retracted`, and `apply_supersede`, which takes
  no lock, `delivered`. `finish_handover` overwrites `presented` besides.

*Headless.*

* A takeover killed while its mark says `stopping` wedges the agent:
  `handback` refuses (`takeover.rs:703`), and so do a new takeover and the wrapper,
  though the guide says that inputs "stay queued and run after handback".
* `takeover.rs:11` says that "no new turn starts between that check and the stop".
  A turn the harness starts by itself, or on an input given up at the
  acknowledgement deadline, may (hence the exception in `StopsAtBoundary`).
* A wrapper that read the record before the mark was set can start after it; the
  takeover then ends `failed` while a wrapper runs, which `handback` refuses too.
* A holder that passed its token check when a handback cleared the mark runs an
  interactive session on an unmarked agent; `OneWriter` holds, since it has the lock.
* A death between the write that strips the stamps and the rename makes a started
  or cancelled input `failed`, possibly submitted.
* The answers to consume are forgotten when a wrapper is replaced, and the items
  are then typed.
* A hold whose answer was lost is never released; a stop that was applied with its
  answer lost undoes the mark though the wrapper stops.

## 7. Plan

1. *Proofs.* Every safety invariant and action property of a passing run is proved.
   Open: abstract specifications of the queue (an identifier's life as a client sees
   it) and of the lifecycle lock, with the refinement proved as for `TeamPromise`.
2. *Queue, the rest.* Batching of a working backlog and `discard_unconfirmed`, the
   two hazards of `PROJECT.json` that no property covers and a model could.
3. *Other tools.* gh-paced (budget and cooldown shared between processes), dagrun
   (admission and cpusets), tick-hub (cadence as operators), the acknowledgement
   protocol of the chat bridge, merge-queue as far as TLC reaches.
