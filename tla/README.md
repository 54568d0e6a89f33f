# Vynel, modelled in TLA+

Vynel is a desktop assistant: a local daemon (`apps/local-api`) runs provider
turns for one user, in a global conversation, in workspaces and in spawned
sessions and colleagues, and hands work from one conversation to another through
a durable queue. This directory holds TLA+ models of the parts of the daemon
whose behaviour depends on interleavings, crashes, retries and timeouts, the TLC
runs that check them, and TLAPS proofs about the queue and its locks, the lease
sweep, the checkpoint slot, the schedules, the waits of a turn for its user, and the
channels. Every safety property that a passing run checks is also proved, for every
value of the constants, five of the queue's under stated hypotheses (§4).

## 1. The system

The daemon is one JavaScript process over one SQLite file. Database calls are
synchronous, so a stretch of code without an `await` is atomic for every other
activity of the process; it is not atomic for a crash, which may fall between any
two commits. All concurrency comes from awaited turns (seconds to hours long),
timers, HTTP handlers and reboots.

| Part | State it keeps | Operations | Talks to |
|---|---|---|---|
| delegation queue (`packages/orchestration`) | `delegation_jobs` rows | enqueue work, note, report, update; claim; complete, fail, requeue; mark reported, surfaced; recover orphans | everything below |
| delegation pool (`packages/session/src/delegation`, `delegation-service.ts`) | in-memory runs, cancel flags | claim tick, runners by kind, settle, follow-up, give-up, sweep, boot pass | queue, locks, provider |
| single-writer locks (`session-target-locks.ts`, `root-turn-lock.ts`, `lock-wait.ts`) | holders and waiters in memory | acquire, release, give up | pool, interactive streams |
| lease heartbeat and sweeper | `lease_expires_at`, last tick | claim, heartbeat, sweep with a suspend guard | queue |
| checkpoints (`packages/session/src/continuity`) | four columns of a primary session | mark, take, hand over, release, drop, count depth | runners, interactive loop |
| turn clock and approval gate | remaining budget, park count | arm, disarm, park, resolve, interrupt | turns, approvals, asks |
| approvals, asks | request rows, parked promises | record, decide, expire, cancel, reap | turns, UI, channels |
| schedules | next-fire time, run rows, fire pool | poll, claim, fire, miss, catch up, run now, edit | turns, outbox |
| monitors | watermark, armed flag | scan, wake, mark fired | outbox, queue |
| channels, inbound | polling cursor; Zoom's sockets and buffers; message rows | poll, record, start a turn, close it | turns, external services |
| channels, outbound | message queue rows | enqueue, send with backoff, give up | external services |
| hub account and token rotation | vaults, access token; refresh-token families | sign in, restore, rotate, sign out | cloud API |
| the rest (UI, voice pipeline, desktop control, indexing, marketplace, providers, SDK) | mostly content or I/O | | |

`PROJECT.json` lists every part with what is modelled of it, and every hazard
with its line.

What makes each part correct, in one line each:

* queue and pool: one writer per conversation, one verdict per job, no leaked
  claim, no lost or contradicted outcome, a Stop that stays a Stop, and every
  accepted job settled;
* locks: mutual exclusion, first come first served, no leaked hold, and a caller
  that runs really has the lock;
* sweeper: a live run is not swept, however the machine sleeps, a dead one eventually is;
* checkpoints: a step is continued at most once, never after its failure was
  announced, and no runaway chain;
* turn clock, approvals and asks: the clock counts working time only, every wait ends,
  and the decision recorded is the one the agent got and stays;
* schedules: a due time is fired once or recorded missed once, and a kill loses one at most;
* monitors: an event wakes its owner;
* channels: no message that Telegram drops is lost, none is processed twice, no sender is
  left silent, and what is queued is sent or given up;
* hub account: a crash never signs an honest device out.

## 2. Modules

| Module | Contents |
|---|---|
| `DelegationQueue` | rows, pool, locks, leases, Stop, reports, sweep, crash and reboot |
| `MCDelegationQueue` | request mixes and the slot symmetry for TLC |
| `DelegationQueueProofs` | theorems about `DelegationQueue` for every value of the constants |
| `TurnMutex` | what a conversation's lock promises: the abstract specification |
| `SessionTargetLocks` | one key of the session-target locks, reaction by reaction |
| `MCSessionTargetLocks` | four calls, three of them bounded |
| `SessionTargetLocksProofs` | theorems about `SessionTargetLocks`, among them that it implements `TurnMutex` |
| `RootTurnLock` | one key of the root-turn lock: the promise chain and its busy count |
| `MCRootTurnLock` | four turns, three of them bounded |
| `RootTurnLockProofs` | theorems about `RootTurnLock`, among them that it implements `TurnMutex` |
| `CheckpointSlot` | the checkpoint slot of one conversation and the two rails that continue it |
| `CheckpointSlotProofs` | theorems about `CheckpointSlot`, and about `LeaseSweep` |
| `LeaseSweep` | timed: heartbeats, the sweep and its suspend guard |
| `ScheduleFiring` | the schedule poll, its claims and the fire pool |
| `TurnParks` | one turn with its forms, cards, gate and clock |
| `ChannelInbound` | one Telegram chat on the way in: polls, message rows, turns |
| `ChannelDelivery` | the outbound queue and its overlapping delivery ticks |

Each of the last five has an `MC` module with its instance. Each of the last four has a
`Proofs` module with its theorems; those about `LeaseSweep` are at the end of
`CheckpointSlotProofs`, where they say which claims a sweep spares. For that module to
extend both, the definitions of `LeaseSweep` have names of their own (`LeaseInit`,
`LeaseNext`, `LeaseSpec`).

The modules describe one daemon at different grains. `DelegationQueue` uses a lock
as a holder with a list of waiters; the two lock modules show that the code's
promises behave like that. `DelegationQueue` lets a live lease lapse at any moment; `LeaseSweep` shows
when one really does. In `DelegationQueue` a follow-up is one more row;
`CheckpointSlot` looks at one conversation and keeps the slot that ties the row to
the turn that left it.

### DelegationQueue

`rows` is the table: status, kind (`task`, `agentRun`, `note`, `report`,
`direct`, `update`), target columns `ws` and `tp`, requester, chain, lease,
attempts, the reported and surfaced stamps. `about` and `form` are history: which
job a row speaks of, and who wrote it (asked, spoken by a turn, auto-report,
give-up notice, continuation). `runs` is the pool: the job of each slot, the key
it locks, the conversation it resumes, the attempts it was claimed with, the Stop
flag. `holder` and `waiting` are the session-target locks, `rootTurns` the
root-turn locks of interactive turns. `stopped` and `absorbed` record what users
were told.

One action is one synchronous stretch of the code, except where a stretch makes
several commits and a crash between two of them matters. There `stretch` names
the commits still to come: while it is not idle only its own action or
`CrashAndReboot` is enabled. The stretches are: a report is sent, then the
sender's row is stamped (`SendReport`, `MarkReported`); a task or agent-run is
completed, then followed up (`TaskCompletes`/`AgentRunCompletes`, `FollowUp`);
work is failed, then its requester told (`AttemptFails`, `GiveUp`); orphans are
settled in bulk, then announced one by one (`SettleOrphans`, `PushOrphan`).

| Action | Code |
|---|---|
| `Enqueue` | the enqueue operations behind the routing, note and mention routes |
| `ClaimAndRun`, `ClaimAndYield`, `ClaimAndDeliverDirectly` | the poll tick, the exclusion query, the busy-lane yield, direct-reply mode |
| `StoppedTurnEnds`, `RunThrows`, `DeliveryCompletes`, `DeliveryFails`, `TaskCompletes`, `AgentRunCompletes`, `AttemptFails` | the terminal branches of the runners |
| `SendReport`, `SendUpdate` | a running turn's `send_message` |
| `Stop` | the delegation stop route |
| `BecomesDue`, `Heartbeat`, `LeaseLapses`, `Sweep` | backoff, lease heartbeat, lease sweeper |
| `UserTurn*`, `RootTurn*`, `RootAbsorbs` | interactive turns, their locks, the catch-up net |
| `CrashAndReboot` | process death at any commit, followed by the boot pass |

Abstractions, each deliberate:

* one user: the queue is partitioned by user and nothing crosses;
* kind NULL of legacy rows is `task`, as the code reads it;
* leases are untimed: a live lease may lapse at any moment, a heartbeat revives it;
* the lease column is kept only while a row is claimed; the code never reads it otherwise;
* the root lock of a lane is taken with the claim; in the code it is taken a few
  synchronous lines after the yield check, with nothing in between;
* `RootAbsorbs` is a step of its own during a root turn, since the block is
  collected when the turn's message is composed;
* left out: the voice fallback lane, channel origins, deletion of workspaces and
  sessions, enqueue calls that throw;
* `Room` makes new work leave room for the rows it may still owe, so that the
  bound `MaxJobs` never suppresses a notice.

### TurnMutex, SessionTargetLocks, RootTurnLock

`TurnMutex` is the promise of `SessionTargetLocks.acquire` and `runUnderRootTurnLock`: of
the calls that ask, one at a time is admitted, and a call is admitted or refused,
never both.

`SessionTargetLocks` has a key of the map (`held`), the array of hand-over callbacks
(`queue`, in the order of `arrival`), and for each call how far its promises are
(`status`). The point of the module is the gap the code has to bridge: `release`
resolves a waiter's parked promise in one stretch and the waiter resumes in a later
reaction, so a bound or an abort may come between. `React` is the pair of reactions
to a hand-over, the leak guard and the race of `waitInLockQueue` (`lock-wait.ts`); they run one behind the other with nothing in between that touches
the lock.

`GiveUpLate` is an abort raised while a hand-over's reactions are pending. Timers and
network events come only when the reactions have drained, so the bound itself cannot
fire there, and no signal that the daemon passes today is aborted there; an abort raised by
another reaction, or in the same stretch as the release, could be. The constant
`LateAborters` names the calls to which that may happen. The key is never stranded by it
(`HeldByOne`), but a late aborter is resumed with a release function that the leak guard has
already spent, while the key has gone to the next in line: both run their turns. That is
not what the comments at the hand-back say, and `STL_late` shows it. `KeepsPromise` is
therefore the promise to all other callers, whatever the late aborters do: they are left out
of what the refinement maps, and are promised nothing.

`RootTurnLock` has the `tail` of the chain, the tail each call found (`behind`), the
busy `count`, where each place in the chain is (`status`) and what its caller awaits
(`caller`). A caller that gives up is refused at once, keeps its place, and its turn
is skipped when the place comes up (`ComesUp`).

| Action | Code |
|---|---|
| `AcquireFree`, `AcquireHeld` | `acquire`, with and without wait options |
| `EndTurn` (`ReleaseFrom`) | the release function |
| `GiveUp`, `GiveUpLate`, `React`, `Resume` | `waitInLockQueue` and the hand-back |
| `Call`, `ComesUp`, `TurnEnds`, `Settle`, `GiveUp` | `runUnderRootTurnLock` and the handler it chains |

Left out: several keys (they share nothing) and the "still waiting" announcements,
which change no state.

### CheckpointSlot

One conversation, its slot (`slot`: the pending step and the job it is handed to),
the depth of the chain, the queue rows that target it, and the turn under its lock.
A step is the number of the checkpoint that left it, and stands for its `checkpointedAt`;
only the comparison with the turn's start matters. That start is taken when the session's
tools are composed (`build-session-mcp-server.ts:32`), which for the turns of users is before
they wait for the lock: `queued` holds the composed turns with the last step each
could know of, and `since` is that of the running turn. Jobs and deliveries compose under
the lock. `survivor` (what was pending when the turn got the lock), `fate`, `granted` and
`halted` are history.

| Action | Code |
|---|---|
| `Checkpoint` | the checkpoint tool, with its spoken drop of an older step |
| `UserTurnComposes` | the session's tools are built, with the turn's start |
| `UserTurnBegins`, `UserTurnContinues`, `UserTurnEnds` | `runTurnWithContinuations` |
| `DeliveryBegins`, `DeliveryEnds` | the report-delivery turns |
| `Request`, `Claim`, `BeginJob` | the queue and `beginDelegatedTurn` |
| `JobCompletes`, `FollowUp` | the terminal transaction, then `enqueueCheckpointContinuation` |
| `JobFails`, `JobRetries`, `StoppedJobEnds` | the other ends of a run |
| `Stop` | the stop route, and the release of a slot it held |
| `Sweep`, `CrashAndReboot` | orphan settlement and the slots of settled jobs |

Abstractions: a follow-up's taking of its slot is its continuation (a crash between
the two is a crash during the turn); the voice thread, whose slot the boot pass drops,
and plain conversations, which have none, are left out; a lapsed lease may be swept at
any moment; the report of a completed turn is not modelled. Deliveries to the global root, which
compose before the root's chain, are left out. `SurvivorsAreKept` speaks of steps left before the turn was
composed. A step that another turn leaves while this one waits for the lock is taken for
this turn's own, and a checkpoint replaces it without a word: the model reaches that, and the
comment at the composition says so, so it is no finding. `granted` counts the
continuations since the last genuine turn, where a user's turn and the claim of a job
that is no follow-up are genuine. A follow-up that finds its step replaced is genuine
too, as `beginDelegatedTurn` documents; one that is merely retried is not.

### LeaseSweep

The claim of each run (`row`), the run (`live`) and its heartbeat timer (`beating`), and
two kinds of time: `age` and `sinceTick` are wall-clock time since the last heartbeat and
the last sweep, `beatIn` and `tickIn` what is left on the timers. A sleep of the machine
moves the wall clock; its timers either stand still or all come late. A due timer runs
before time goes on, and before those due later.

| Action | Code |
|---|---|
| `ClaimLease` | the claim stamps the lease and its run starts the heartbeat |
| `Heartbeat`, `HeartbeatFails` | the heartbeat extends a lease, stands down, or fails to write |
| `RunEnds` | the run is over; its settling write may fail |
| `SweepTick` | the sweep, or its skipping when the clock has jumped |
| `Pass`, `Suspend` | time, and sleep |

`TimingAssumption` says that a heartbeat comes more often than a sweep and that two sweep
intervals fit in a lease, as with the defaults (30 s, 60 s, 180 s). The configuration only
requires two heartbeats to fit in a lease: with a lease of two sweep intervals or less the
guard would let a suspended run be swept. A run whose last heartbeat failed to write before
a sleep may be swept too; such runs are in `missed` and exempt.

### ScheduleFiring

The schedule's row (`next`, `enabled`, `catchUp`, `cron`, `gone`), the tick's list
(`listed`), the fire pool (`stage`, `waiters`, `active`, and `job`, the snapshot a fire
carries), the run rows. Time is counted in poll intervals. What is synchronous in the code
is kept together by `Quiet`, but each commit is a step, so that a kill may fall between.
`owed` (claimed, no row yet) and `onTime` (offered fresh) are history.

| Action | Code |
|---|---|
| `Poll`, `Admit` | the tick: list what is due, offer each to the pool |
| `Claim`, `RecordMissed`, `FireDue`, `EndFire` | the pool's worker: compare-and-swap, missed row, executor, terminal writes |
| `RunNow`, `StartManual` | the manual fire, which declines instead of waiting |
| `SetScheduleEnabled`, `SetCatchUp`, `SetCron`, `DeleteSchedule` | the edit operations |
| `Tick`, `TickUnpolled`, `Crash`, `Boot` | the timer, sleep, a kill, a start |

Abstractions: a cron is the set of minutes it names; a fire's turn is its end; the purge of
old run rows is left out. What the model shows beside its properties: a row recorded as
missed says the app was not running, also when it ran and only a long fire of the same
schedule kept the next due time waiting.

### TurnParks

One interactive turn; its calls are `ask_user` forms and approval cards. A call has a
waiter in memory (`call`), a row (`row`) and, for a card, events that the stream's consumer
takes in order (`asked`, `decided`). The gate counts what is parked (`parked`, `tracked`),
its edges stop and restart the clock (`clock`, `left`, `armedFor`, `asleep`). The clock's
timer may stand still while the machine sleeps, `Date.now()` does not; both ways a platform
may treat timers are covered. `worked`, `slept` and `deaf` are history.

| Action | Code |
|---|---|
| `CallAsk`, `AskParks`, `AskExpires`, `ResolveAsk`, `ReapAsks` | the life of a form |
| `CallCard`, `CardParks`, `CardAutoApproved`, `CardReleases`, `ResolveCard`, `ReapCard` | the life of a card |
| `Stop`, `Expire`, `StreamEnds`, `RecordFails`, `CancelAsks`, `ExpireCancelled` | the ways a turn ends, to the end of its finally |
| `CrashAndReboot` | a kill, and the boot's settling of pending rows |
| `Tick`, `Sleep` | time |

Abstractions: an interrupt of the provider succeeds; two awaits that cost a microtask only, with
nothing in between that touches the turn, are one step with what follows; a decision told to a waiter and the
commit of its row are one step, since only promise reactions lie between; time passes
when no event is queued and no timer due; a crash and the boot after it are one step. Left
out: a card forwarded from a turn without a session row, and standing rules beyond the one
that approves a card.

### ChannelInbound and ChannelDelivery

`ChannelInbound` is one Telegram chat. Telegram keeps updates (`written`) until a poll asks
beyond them (`confirmed`). Polls are ticks of a timer that does not wait for the last one,
so several are under way (`polls`), each with the cursor it read when it began, and the
`cursor` may go back. `inbound` is the message table, `running` the turns, `before` what
was queued when each began. `queued` is what was ever queued in reply, each row with the
turn it belongs to and its part in it. Replies, closing lines and pushes are final rows
(`payloadKind`, `Final`). Status lines and cards are not: they carry no turn key in the
code, and count for nobody.

| Action | Code |
|---|---|
| `Write` | somebody writes (external) |
| `PollAsks`, `ServiceAnswers`, `PollFails`, `PollApplies` | a polling tick and the service's side of it |
| `StartTurns` | the processing tick claims pending messages and starts their turns |
| `Reply`, `Card`, `Push` | `reply_to_channel`, approval cards and ask nudges, proactive sends |
| `TurnEnds`, `TurnFails`, `ApprovalEnds` | the ends of a chat turn, with the fallback line or an apology, and of an approval reply |
| `CrashAndReboot` | a kill, perhaps between two recorded messages |

The Zoom adapter is not modelled. Its poll empties a buffer in memory before the rows of its
messages exist, and Zoom sends nothing twice, so a crash between the two loses messages; its
comments accept that (`zoom-channel-adapter.ts:164`). `NothingDroppedIsLost` is a statement
about Telegram and its cursor.

A channel may be disabled at any time; then no poll asks and no reply or push is queued.
As the model obliges nobody to do either, that is among its behaviours already. Whether a
message is a chat message or the answer to a card shows when it is dealt with
(`ApprovalEnds` or the others). A turn that fails before its `try` begins fails without an
apology (`TurnFails`).

Left out: group rooms and the mention gate, slash commands (which complete without a word),
connecting and deleting a channel, the batch limit of a processing tick, database errors, the
purge, and a failing write of the fallback line itself. A message whose turn a crash cut off
stays `routed`, and nothing lists it again; `SendersAreAnswered` excepts it, and failed
turns, by name.

`ChannelDelivery` is the table of outbound rows (`status`, `count`), the `line` of those
that are due, and the delivery ticks under way (`ticks`), each with the batch it listed and
the attempt counts it read then.

| Action | Code |
|---|---|
| `Enqueue`, `BackoffEnds` | a row is inserted; the time of its next attempt comes |
| `TickStarts`, `SendSucceeds`, `SendFails` | a tick lists a batch; a send ends and the tick goes on to its next row |
| `Switch`, `CrashAndReboot` | a channel is disabled or enabled; a kill |

The order of a batch is that of the due times. Three things the model shows about the code
that no document of it excludes: ticks that share a row write the counts they listed, so
that a row may be sent more often than `MAX_ATTEMPTS`, or be sent again after it was settled;
a crash leaves the row being sent in `sending`, which nothing lists (`Stranded`); and rows of
a disabled channel keep their place in the line, so that a batch full of them holds up every
other channel (`Blocked`). `EveryRowLeaves` names the last two as its exceptions.

## 3. Runs

| Run | Instance | Question | Result |
|---|---|---|---|
| `DQ_calm` | tasks and mentions, two slots, an interactive turn, no crash | single writer, Stop final, nothing silent, nothing contradicted | holds |
| `DQ_orphans` | `FairSpec`, tasks and global notes, asked by voice too, one crash, one lapsed lease | no leaked claim, one final verdict, late completions enqueue nothing, messages survive, every accepted job settles | holds |
| `STL_turns` | four calls, three bounded, one a late aborter, give-ups at any moment | the key never strands, everyone answered, implements `TurnMutex` for the others | holds |
| `STL_late` | the same calls | one turn at a time | violated |
| `RTL_chain` | four root turns, three bounded | implements `TurnMutex`, exact busy count, the chain drains | holds |
| `CPS_slot` | two jobs, an interactive turn or a delivery, retries, Stops, sweeps, a crash | one taker per step, survivors kept, no dangling hand-over, the cap without retries | holds |
| `CPS_stopped` | a stopped job, then a message | what the user stopped is not continued | violated |
| `LS_suspend` | two runs, missed heartbeats, two sleeps longer than the lease | no live run is swept, every dead claim is | holds |
| `SF_fire` | a one-time and a recurring schedule, one slot, an edit or a Run now, sleep, a kill | one fate per due time, one lost per kill at most, exact pool, what is due is taken | holds |
| `TP_parks` | a form and a card, a Stop, a failing stream, a sleep, a crash | exact gate, honest clock, calls hear what rows say, decisions stand, waits end, rows settle | holds |
| `CI_polls` | `FairSpec`, two overlapping polls, two messages, each a chat message or an approval reply, cards, a push, a crash | nothing dropped is lost, one turn per message, every sender answered | holds |
| `CD_ticks` | two overlapping ticks, three rows of two channels, a crash or a disabled channel | given up only when exhausted, every row leaves | holds |

`CPS_stopped` checks one sentence of the repository against the code: "an interrupted turn
is the user's Stop — continuing would restart the work they just halted"
(`run-turn-with-continuations.ts:20`). A task stopped by the user leaves its checkpoint in
the slot, and the next message's turn continues it.

`STL_late` checks another: when the signal is aborted at the hand-over, the waiter "owns a lock
nobody is waiting on any more, so give it straight back" (`session-target-locks.ts:58`),
and the class is "the single-writer lock registry" (`:1`). The waiter that lost that race is
resumed all the same and runs beside the next in line. The sentences, their lines and the
code's lines are in `PROJECT.json` under `findings`.

Six statements hold only under conditions that the instances keep, because the code does
not promise more; the conditions are stated with the properties:

* the boot pass does not look at the reported stamp, so work that had reported when the
  process died is announced as failed (`delegation-orphan-settlement.ts:54`):
  `NoContradiction` is checked without a crash;
* a crash between a completion and the report that stands in for it is silent for good
  (`settle-completed-task.ts:124`): `NoSilentOutcome` is checked without a crash, and for work that the voice thread did not
  ask for, which the catch-up net does not narrate;
* a colleague's run swept while running still enqueues its continuation
  (`run-agent-run-job.ts:369`): `FollowUpsOnlyFromCompletedWork` is checked for tasks;
* a retried follow-up is taken for a genuine turn and resets the depth of its chain
  (`enqueue-checkpoint-continuation.ts:79`): `RunawayGuardUnlessRetried`;
* the run flag of a Stop dies with the process and is not seen by the sweeper:
  `StopIsFinal` is checked without crash or lapse;
* a caller that aborts between hand-over and resumption runs beside the next one
  (`STL_late`): `KeepsPromise` is checked for the others, `LateAborters` in
  `SessionTargetLocks`.

Deadlock is checked in `LS_suspend`, `SF_fire` and `TP_parks`, where time never stops. It
is off elsewhere: a daemon with no work left does nothing, and a bounded model runs out of
events.

Bounds. Queue: one workspace, one session or colleague, the voice thread and the
global root as requesters and targets, two attempts; `MaxJobs` (rows), `MaxCrashes`,
`MaxLapses`, `MaxTurns` (events). Two slots suffice for every race of two runs; three
to four rows hold a job, what it sends and what is said about it; one crash reaches
every window between two commits, since a second crash starts again from a state the
boot pass produces. `DQ_orphans` has no interactive turns, with which it would be several times
larger: that a turn that ends hands its conversation on is checked there between routed turns,
and with interactive ones in `DQ_calm`. In `DQ_orphans` the busy-lane yield does not
occur; in `DQ_calm` it does. Locks: four calls are a holder, the waiter it hands over to, one
that gives up between them and one behind. Checkpoints: `Cap` 1 makes the cap bite at
the second continuation, `MaxAttempts` 2 admits one retry; two steps
(`MaxSteps`) are one that survives and one that replaces it; `MaxRequests`,
`MaxTurns` and `MaxCrashes` count what comes from outside. Leases: a heartbeat each unit, a
sweep each two, a lease of six, the smallest numbers in the relation of the defaults;
sleeps of up to seven outlast the lease, and two of them may fall in one sweep interval.
Schedules: five minutes (`Horizon` 4) hold a due time, a late one and a missed one; with one
slot the second schedule waits; one request reaches every edit while the tick's snapshot is
in the pool. Turns: bounds of two units let a wait and the clock be interrupted half way;
one form and one card suffice for the edges of the gate, and the proofs cover any number.
Channels: with two polls one is older than the other, with two messages one is a
sibling's, whose turn may run at the same time; two attempts and a batch of two rows make the cap and a full batch reachable.

Fairness. `DelegationQueue!FairSpec`: the poll timer keeps firing (`Claim`), a
synchronous stretch continues (`StretchGoesOn`), the sweep timer fires (`Sweep`),
every routed turn ends (`TurnEnds`, since the hard cap of a routed turn interrupts
it), backoffs pass (`BecomesDue`), interactive turns end. The locks: reactions run and
turns end. `CheckpointSlot`: the sweep timer fires and a synchronous stretch
continues; a slot needs no more to be freed of a settled job. `LeaseSweep`: time goes on and
due timers run. `ScheduleFiring`: the timer ticks and polls, a killed app is started
again, and a fire in the pool goes on; this last is strong fairness, since every other
stretch of code interrupts it for a moment. `TurnParks`: time goes on, due timers, queued
events and handlers run, the reapers run, an interrupted stream ends; nobody has to answer, and
a turn need not end by itself. `ChannelInbound`: the processing timer fires, and turns end, by their
wall clock at the latest; nobody has to poll or reply. `ChannelDelivery`: the timer ticks, a send ends one way or
the other (the adapters bound it), backoffs pass. Nothing is assumed of users' requests,
Stops, give-ups, decisions, lapses or crashes. Elsewhere weak fairness is enough because each
of these stays enabled until it happens: only the claim can be disabled again by another
activity, and only finitely often under the bounds.

## 4. Proofs

`DelegationQueueProofs`, for any sets of slots, workspaces and sessions, any bounds
and any mix of requests:

* `TypeCorrect`: `Spec => []TypeOK`;
* `VerdictsAreFinal`: `Spec => TerminalIsALatch`;
* `NoLeakedClaim`: `Spec => []ClaimedRowHasItsRun`;
* `SingleWriter`: if every agent-run request carries its colleague (`Stamped`),
  `Spec => []ConversationSingleWriter`. The enqueue operation stamps it; only rows of
  earlier versions lack it, and these key on their own id;
* `ReportedWorkRunsOnce`: `Spec => []ReportedWorkNeverQueued`;
* `EngineSpeaksOnce`: `Spec => []OneVerdictPerWork`;
* `OrphansSpareMessages`: `Spec => OrphaningSparesMessages`;
* `FollowUpsFollowCompletion`: if no lease of a live run lapses, or no colleague is asked,
  `Spec => []FollowUpsOnlyFromCompletedWork`;
* `StopsAreFinal`, `ReportsAreNotContradicted`: without crash or lapse,
  `Spec => []StopIsFinal` and `Spec => []NoContradiction`;
* `NothingEndsSilently`: without a crash, and if the voice thread hands out no work,
  `Spec => []NoSilentOutcome`, whatever lapses.

Assumptions are those of `DelegationQueue`: the bounds are naturals, identifiers of
different sorts differ, requests have the shapes the enqueue operations build.

`TypeOK` is not inductive: whether an insertion or an ending is typed depends on the
slot holding a real row and on the stretch belonging to a running slot. `Sound`
adds that (`Shape`: ids are handed out in order and targets are stamped; `Attached`: a
run holds an existing row under the row's key, a stretch belongs to a running slot).
Every way a row may be written is one of a few lawful writes (`RowWrites`), so one
lemma per action group shows `Sound` is kept.

The two later theorems add `Locks` (a slot's key is held by that slot, and a key is
held by at most one) and `Claims` (claimed rows and runs are in bijection). The
argument for preservation goes through `EveryStepForm`: every step leaves the runs as
they are and writes rows lawfully, or ends one run and hands its key over, or claims a
free row into a free slot under a free key, or resets everything (a crash). The claim
is the interesting case: `ClaimedKeyIsFree` derives from the exclusion query, column by
column, that the key was free.

The seven after those are about what is said of a job, and need more of a step than the
shape of the rows. `EveryStepOutcome` shows that every step has one of a dozen outcomes
(`Outcome`): something is asked or absorbed, a run starts, speaks, leaves, pauses before a
second commit, follows up or gives up, a report is marked, a Stop is raised, orphans are
settled or announced. From these follow, once and for all, what every step keeps of a row
(`Keeps`), what may have moved one (`MovedBy`) and who wrote the one row a step may add
(`WrittenBy`). The invariants build on each other:

* `Books`: the engine's rows are reports about settled work, one for each; work a run has
  is not pending; the work a stretch has in hand is settled and not yet spoken for, except
  that a colleague's completion goes on whatever became of its row. This carries the first
  two theorems, unconditionally: a lapse, a late completion and a crash between them cannot
  make the engine speak twice.
* `Punctual`: while no lease lapses, the work of a run stays claimed until the run settles
  it; what was followed up completed.
* `Calm`: while nothing is ever found orphaned, a stopped job is claimed by a flagged run
  or failed without a word, and nothing speaks for work that reported.
* `Audible`: open work is in the catch-up net; the reported stamp, and the commit about to
  set it, stand for a message that exists; a colleague's late completion had been heard of.

The hypotheses are the edges of what the code promises, found in the model: with any one of
them dropped TLC finds a counterexample in the small instances of §3. The orphan passes cannot see a Stop, which is memory of the run they
find orphaned, and do not read the reported stamp (§3); a colleague's completion does not
ask whether its row is still claimed; a crash after a completion loses the report that was
to follow; and what the voice thread asked for is retired from the catch-up net without
being told. The theorems about `LeaseSweep` below say how far the hypothesis `MaxLapses = 0` is
justified: only a run that failed to write a heartbeat can be swept alive.

`CheckpointSlotProofs`, for any cap, number of attempts, requests, turns, checkpoints and
crashes: `SlotTypeCorrect`, `HandedStepsHaveOneTaker` (`QueuedFollowUpOwnsItsStep`),
`CapBoundsContinuations` (`RunawayGuardUnlessRetried`), `NoSurvivorIsLostUnsaid`
(`SurvivorsAreKept`). That a follow-up finds a row to be enqueued in is a counting argument: rows
are one for each request and one for each step handed over (`RowsAreNumbered`), and there
are as many places. The step in the slot is open, and a row exists for it only when the slot
says so (`SlotIsOpen`); so no step is ever handed over twice, and a follow-up that waits to
be claimed has its step to itself. A follow-up takes its step once and begins again only on
another attempt (`FollowUpsBeginOnce`); until one does, every continuation that was granted
is in the depth of the chain (`DepthCountsGrants`), which the cap bounds. A step that was
pending when the turn got the lock, and was left before that turn was composed, is followed
through the turn (`SurvivorIsAccountedFor`): it is in the slot and nobody's, or continued, or
given up aloud.

At the end of that module, about `LeaseSweep`, for any runs, intervals as `TimingAssumption`
relates them, and any number and length of sleeps: `SweeperTypeCorrect` and
`SweepsSpareTheLive` (`LiveRunsAreNeverSwept`). That a run at work has beaten recently is
false after a sleep. The invariant (`OnTime`) says instead: unless the clock has jumped
since the last tick, a live run has beaten since that tick, or its next heartbeat is due
before the next tick. The tick that comes therefore finds a heartbeat that is younger than
a jump, and so than the lease.

`SessionTargetLocksProofs`, for any set of calls, any of them bounded, any of these late
aborters, and aborts at any moment: `LocksTypeCorrect`, `KeyNeverStrands` (`HeldByOne`),
`NobodyOvertakes` (`FirstComeFirstServed`), `LateAbortersHarmNoOthers` (two turns overlap only if
one is a late aborter's) and `LocksKeepPromise` (`KeepsPromise`); and, if nobody aborts late,
`CallersRunAlone` (`OneTurnAtATime`). The inductive invariant says that the queue is the set
of parked calls and a free key has none (`QueueIsParked`), that no arrival is numbered beyond
the last (`Numbered`), and that a release function was run only by a call that had been
granted the lock (`ReleasedWereGranted`). `SpentInTime` adds that only a late aborter runs its
turn on a spent release function. Any other caller in its turn still owes its release, so
`HeldByOne` gives exclusion among the others, and each step is one of `TurnMutex` for them
or a stutter.

`RootTurnLockProofs`, for any finite set of calls: `RootLockTypeCorrect`,
`TurnsStartInOrder`, `RootTurnsExclude`, `BusyIsExact`, `ChainKeepsPromise`. The
invariant has the tail as the latest arrival and each call chained behind the one just
before it (`Chained`, on top of `Numbered`); a place that has come up is therefore
behind settled places only (`StartInOrder`), which gives exclusion. `CallersAgree` ties
the caller's side to the chain's: a refused caller's place never runs. That `count` is
the size of the chain is shown after it, step by step with the cardinality lemmas of the
library, and typing follows (the count is a natural because it is a cardinality).

`ScheduleFiringProofs`, for any schedules, crons, horizon and pool size, and any number of
kills and edits: `TypeCorrect`, `PoolIsExact` (`PoolCountsItsFires`), `NextFollowsTheCron`
(`NextIsOfThePresentCron`), `DueTimesHaveOneFate` (`SlotHasOneFate`),
`WaitingTimesAreNotMissed` (`WaitingIsNotMissing`) and `CrashLosesOneDueTime`
(`CrashLosesAtMostOneSlot`). The invariant adds three things to typing. The pool is exact (`PoolExact`, as cardinalities). What is in the pool is
what the tick read, and a schedule still showing the due time a tick read still has the cron
it read (`Snapshots`): this is why the compare on the time alone suffices for a claim that
writes a time computed from the old cron. And rows lie before the next-fire time, while a
claimed time has none yet (`Fate`). On top of it, a fire that was offered fresh carries
the time it was offered at, so its claim never calls it missed, however long it waited
(`FreshIInv`); and of the times that are claimed and have no row, at most one is in the
hands of the living process, and the others are no more than the kills (`Accounts`).

`TurnParksProofs`, for any finite sets of forms and cards and any bounds: `TypeCorrect`,
`GateIsCounted` (`GateCountsParked`), `ClockIsHonest` (`ClockMeasuresWork`),
`CallsHearTheirRows` (`HeardAsRecorded`), `DecisionsAreFinal` (`DecisionsStand`). The invariant
says which calls have no row yet (`Unrecorded`), that a tracked card is waiting or has its
resolution queued (`CardsAreTracked`), that the count is the cardinality of what is parked
(`GateIsExact`), and that what the clock has used of its budget lies between the time worked
and that plus the sleep (`ClockIsExact`).

`ChannelInboundProofs`, for any number of messages, polls and pushes: `TypeCorrect`,
`NothingIsLost` (`NothingDroppedIsLost`) and `MessagesStartOneTurn` (`OneTurnPerMessage`), of
a Telegram chat. Every cursor, the stored one and those that polls carry, is behind recorded
messages only (`CursorsAreBehind`), so it does not matter that the stored one may go back. A
message has started no turn until it is routed (`UnstartedUntilRouted`,
`RunningAreRouted`).

`ChannelDeliveryProofs`, for any rows, channels, ticks and limits: `TypeCorrect` and
`RowsGetTheirAttempts` (`GivenUpOnlyWhenExhausted`). No count, in the table (`CountsAreMade`) or
listed by a tick (`ListedAreMade`), exceeds the sends that were made; that stale counts are
never too high is what makes the last attempt the last.

Left to TLC: the liveness properties (`EveryJobSettles`, `EveryCallIsAnswered`,
`ChainDrains`, `HandOverIsResolved`, `LostClaimsAreSwept`, `DueIsTaken`, `EveryWaitEnds`,
`EveryRowSettles`, `SendersAreAnswered`, `EveryRowLeaves`), since fairness needs ENABLED, which the prover does
not handle; the violated runs, which are counterexamples.

## 5. Plan

Done: `DelegationQueue`, `SessionTargetLocks`, `RootTurnLock`, `LeaseSweep`,
`ScheduleFiring`, `TurnParks`, `ChannelInbound`, `ChannelDelivery` and `CheckpointSlot`,
with their proofs. Next, in this order:

1. Proofs: of the queue, the silence that is left after a crash, bounded by the crashes as
   the schedules' losses are.
2. `HubSession` composed with token rotation: a crash between a rotation and the storing
   of its token.
3. `Monitors`: the wake and the fired mark are two commits.
4. The routed turn with its hard cap, composed with `TurnParks`.
5. The Zoom adapter: its map of connections across the awaits of overlapping polls.

Not modelled, and why: audio, rendering, indexing, provider adapters, installation
and cryptography are sequential, I/O-bound or about content; tasks, plans and the journal
are records written in single transactions; clients, contracts and generated code have no
protocol of their own. See `components`.
