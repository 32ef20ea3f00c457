# LittleWhale in TLA+

Specifications of the part of LittleWhale that decides what an agent does next
and what its session log says afterwards: the turn driver, the tool-call
scheduler, the validator of the session log, the path on which the log reaches
the disk and comes back, and the jobs an agent leaves running in the background.
Paths below are relative to the repository; `src/` is its root.

## 1. The system

LittleWhale is a plugin host for coding agents. Everything an agent does is an
event of an append-only *session log*; one *agent* drives one session. The parts
that carry the program's own logic:

| component | state | operations | what makes it correct |
|---|---|---|---|
| turn driver, `packages/core/agent-loop/src/agent.ts` | phase (idle, maintenance, running) with an abort controller and a latched wake; turn and step counters; loop counters; messages held for recovery; the promise of the current activity | send, cancel, runMaintenance, whenIdle; kick, turn, preStep, step; finishLoopCompaction | one driver at a time, no waking message forgotten, a log the validator accepts, truthful turn endings, callers of whenIdle released and only when the agent is idle |
| inbox, `packages/core/agent/src/inbox.ts` | two lists of messages (next-turn, next-step) | append, prepend, replace, remove, claim, clear | an identity is pending once; a turn takes one prompt |
| tool-call scheduler, `packages/core/agent-loop/src/tool-calls.ts` | the group, positions, the pool of dispatches, a failure | executeToolCalls, runGroup | one result per call in model order, bounded pool, exclusive calls alone, nothing left running |
| tool pipeline, `packages/core/tools/src/index.ts` | per execution: caller signal, whether the body was invoked | prepare, dispatch, finalize, finish | a cancelled call is reported honestly |
| log validator, `packages/core/session/src/invariant.ts` | open turn and step, next numbers, pending calls | validateEvent, applyTransition | it is the definition of a valid log |
| crash repair, `packages/core/session/src/repair.ts` | none (a function of the log) | interruptedTurnClosers | the repaired log is valid, every call has one result, repeating it is harmless |
| write path, `packages/session/session-persistence/src/write-behind.ts` and `coordinator.ts`, `packages/session/session-persistence-jsonl/src/index.ts` | per session: a queue, its deadline, the active write, a shared barrier; the durable cursor; a file | enqueue, flush, append, materialize, roll back, retire | an event whose flush has resolved stays in the log, in order and once; none is stranded in memory; every flush is answered |
| read path, `preparations.ts` and `coordinator.ts` of the same package | per id: an entry with its phase, a chain of operations, the retirement of the last life | prepare, load, inspect, reserve, release, publish, invalidate | a reservation is exclusive and current, a live session never meets one, every call returns |
| checkpoint policy, `packages/session/session-checkpoint-policy/src/index.ts` | none | flush before a request, a step and a tool body | a tool never runs before its call is durable |
| agent lifecycle, `packages/core/agent-loop/src/index.ts` | live agents, setups in progress | create, resume, dispose | teardown is complete and waits for no model turn |
| background jobs, `packages/jobs/jobs-local/src/index.ts`, `packages/jobs/tool-jobs/src/index.ts` | a record per job with its waits, cleanups per owner, a budget of wakes per owner | start, read, kill, wait, settle; teardown of an owner and of the registry | the end of a job is told exactly where it must be, no work escapes its record, teardowns end |
| schedule, goals, approval, questions, subagents, teams, workflows | registries of running work | start, wait, cancel, settle | work settles once, waiters are told, limits hold |
| models, compaction, retry, guards, commands, UI, gateway, backends | - | - | mostly functions, protocols and I/O |

How they interact. Clients and plugins call `send`, `cancel` and
`runMaintenance`. The driver claims messages from the inbox, asks a model, and
hands the tool calls of an answer to the scheduler, which runs each through the
tool pipeline: policy listeners, approval, around-wrappers, body, post-listeners.
Driver and scheduler append events to the session; validator and persistence
listen. Persistence stores batches in the background and on `flush`; the
checkpoint policy flushes before side effects. When a session is resumed, the
stored prefix is read and repaired in a preparation, which is reserved for one
caller and consumed when the session is published; storage operations of one id,
of a live session and of preparations, run one after another. Tools may leave work
behind as jobs; the reporter wakes an idle owner, or leaves a notice in its inbox,
when one ends without anybody having asked.

What is hard. JavaScript interleaves at every `await`, and listeners called
synchronously (`agent/status`, inbox notifications, observers of a log event)
re-enter the driver in the middle of an operation. A turn may be cancelled,
disposed of, steered or extended at any of these points; three kinds of activity
replace one another and each may leave work for the next; tools settle in any
order and may be reclassified meanwhile; a crash keeps any prefix of the log. The
places where this bites are listed with their lines under `hazards` in
PROJECT.json.

## 2. Modules

| module | models | role |
|---|---|---|
| `SessionTrace` | `session/src/invariant.ts` | the bookkeeping of a valid log: `Accepts`, `Advance` |
| `SessionLog` | the same | the abstract specification: a writer that appends only what is accepted |
| `AgentLoop` | `agent-loop/src/agent.ts` over `agent/src/inbox.ts` | the turn driver with its callers |
| `MCAgentLoop` | - | AgentLoop for TLC |
| `AgentLoopProofs`, `AgentLoopWakeProofs` | - | theorems about AgentLoop |
| `ToolCalls` | `agent-loop/src/tool-calls.ts` over the staged execution of `tools/src/index.ts` | one step's batch of calls |
| `ToolCallsProofs` | - | theorems about ToolCalls |
| `SessionRepair` | `session/src/repair.ts`, preparation in `coordinator.ts`, the checkpoint | a log across crashes |
| `SessionRepairProofs` | - | theorems about SessionRepair |
| `DurableLog` | the promises of `session-persistence/README.md`, "Invariants every backend must honor" | the abstract specification of the write path |
| `WriteBehind` | `write-behind.ts`; flush, append and retirement in `coordinator.ts`; the files of `session-persistence-jsonl` | from an accepted event to a durable line |
| `WriteBehindProofs` | - | theorems about WriteBehind |
| `Preparations` | `preparations.ts`; prepare, load, inspect and the chain in `coordinator.ts` | one id between two lives |
| `PreparationsProofs` | - | theorems about Preparations |
| `Jobs` | `jobs-local/src/index.ts`, `tool-jobs/src/index.ts`, the teardown order of `agent-loop/src/index.ts` | jobs, their waits, owners and notices |
| `JobsProofs`, `JobsEndProofs` | - | theorems about Jobs |

`AgentLoop`, `ToolCalls` and `SessionRepair` all extend `SessionTrace`; the
first two implement `SessionLog` (`WritesValidLog`). The driver sees a batch of
tool calls as one await with three outcomes (`ToolsSettle`), which is what
`ToolCalls` delivers: it returns with or without a conclusion, or throws.
`WriteBehind` implements `DurableLog` (`KeepsThePromise`), with the refinement
mapping `Durable`: the fsynced lines of a file whose directory entry is durable.
`SessionRepair` takes from there that a flushed prefix survives, and `Preparations`
abstracts the log to its revision and to whether a repair is due; an append of its
live session is a batch of `WriteBehind`, and the check that the id may be written and
the invalidation that follows it are one step. `Jobs` knows of the driver only whether
it is idle, running, or past its last look at the inbox.

**AgentLoop.** An action is the code between two places where somebody else can
run. `pc` names the place of the driver:

| `pc` | place in `agent.ts` |
|---|---|
| `top` | the start of `turn()`, behind the `agent/status` listeners or the drain |
| `opened` | `turn/start` appended, or `target = 'next-step'`: the head of the loop |
| `prestep` | the awaits of `preStep()` |
| `request` | the awaits of `step()` |
| `tools` | the await of `executeToolCalls` |
| `closing` | `step()` is over, `step/end` comes next |
| `closed` | after `step/end` |
| `stopping` | the await of `agent/turn-stopping` |
| `ending` | the finally of `turn()`; for an error, behind the `agent/error` listeners |
| `ended`, `exit` | after `turn/end`: drain or leave `kick()` |

`tail` is the place of a finished `kick()`: replaying a latched wake, or in
`finishLoopCompaction()`. `activityDone` says whose promise is current, `waiter`
which promise the caller of `whenIdle()` awaits. At the points of `Publishing`
the code is inside `Session.append`, which refuses re-entrance
(`session/src/index.ts:627`): an observer may cancel there and nothing else.
`exit` is not one of them: it is the microtask of `await this.turn()` in `kick()`,
in which the phase still says running although nobody will look at the inbox again.
`Send` is the whole of `send()` and `wakeDriver()`, with `reentrant` for a
listener of the insertion that cancels in between. The variables `sent`,
`wake`, `disposing`, `truncated` and `ordinary` are history.

`wake[m]` says what is owed to a message that was sent to wake the driver. It is
*promised* when a driver is coming up or the wake is latched, and *handed* when a
live driver is left to find it, or a turn boundary has opened with it in the queue.
It is *parked* when a cancellation that keeps the inbox, a disposal, a vetoed
`turn/start`, or a turn that is rejected, fails or is aborted leaves it in the
inbox, all of which documents or tests of the repository describe; the next turn
boundary takes it up again as handed. Two states are for what the code leaves
behind without such a reason: *late* (sent at `exit`) and *unread* (left by a turn
that ended without a step).

**ToolCalls.** `schedule` is the place of the scheduler; it runs alone until it
awaits (`Awaiting`). `stage[i]` is where call i is between `prepare()` and its
result. Slots, callSeqs and the group-relative indices of `runGroup` become
absolute positions: `nextToStart` and `committed` point at calls in model order,
`first` and `last` delimit the group. A slot that is filled is
`stage = "settled"`. Any append, stage or context acceptance that can throw may
throw.

**SessionRepair.** The log itself is a variable. A process owns it (`live`) or
not; the first `durable` events survive a crash, and any longer prefix may. The
driver is abstracted to any order of events that the validator accepts, which
includes what AgentLoop and ToolCalls do. A batch that a crash cuts is found again as
complete lines, or as the complete records at the start of a torn frame, which the
default zstd encoding lets a read decode: then the log that is read is longer than
`durable` (`Torn`). `CommitRepair` truncates the frame and appends what was recovered
from it with all closers; `CutRepair` is a repair that dies in between or inside its
batch, which may tear a frame again.

**WriteBehind.** An event is its place in the session. `active` follows the promise
of the running write through its microtasks (`then`, `catch`, `finally`), because
`continueAutomatic` and `drainBarrier` run between them; `barrier` is the place of
`drainBarrier`, `call[c]` what a `flush()` awaits ("retire" is the flush of
`retireCore`). `init` is `live.init` with the seed of a new session. `storing`
walks through `appendLines` and `materializePosix`; `lines` are the file's lines
with `Torn` for an incomplete one, `synced` of them covered by an fsync, and
`entry` the state of the directory entry. A timer fires only when no microtask is
left (`Quiet`). `PowerLoss` keeps any suffix-free part of what was not fsynced, and
the session resumes from it. `accepted`, `need`, `acked` and `faulted` are history.

**Preparations.** `entry[s]` is a `PreparationEntry`, `current` the one in the map;
others live on in the calls that hold them. `call[c].at` is where a call awaits.
`chain` is the promise chain of `serialize`: the first operation runs, an abort
turns a queued one into `void`. An operation is one action, except `commitRepair`
(`repairing`), beside which another process may write. The session that a
publication makes live is here too: its appends go through the chain, its disposal
drains and releases, and a drain that fails leaves the id owned, as in the code.
Ready sources of other ids are the action `Evict`.

**Jobs.** `status` and `reported` are those of the record, `producer` is the work
behind it, which may go on after its record was forced to fail. `wait[w]` tells a
wait that is pending from one whose promise has been resolved but which has not
resumed: in between it is still counted, and an abort no longer finds it. `life`
walks an owner through the teardown (cancel, whenIdle, scope, cleanup), `turn`
through its driver. A turn reads `running` until its last look at the inbox and
`retiring` between that and the idle status, where the reporter still sees a busy
owner. `told` and `torn` are history.

Operators named `...Fault` are small mistakes that a maintainer could make in the
operator below them; nothing uses them. Replacing the one by the other shows that
a property is sensitive to that line of the code (`mutants` in PROJECT.json).

## 3. What is checked

| run | instance | shows |
|---|---|---|
| `agent_loop` | 2 messages (one from a user), 1 queued note, loop limit 2, 2 turns and 2 steps, with and without recovery, under fairness; 392,599 states | NoLostWake, OneOrdinaryMessage, OneDriver, IdleIsFinal, EndsHonestly and the log refinement; wakes are answered, waiters released |
| `tool_calls` | 3 calls, pool of 2, every classification; 1.5 million states | one result per call in model order, exclusive calls alone, quiescence at the end, the log stays valid |
| `tool_calls_retried` | 2 calls whose bodies may run twice, under fairness | a cancellation code is honest when a result is decided; the batch ends |
| `session_repair` | 2 turns of 1 step, 2 calls, any number of crashes, in repairs too, under fairness; 28,044 states | validity, balance and convergence of the repair; "not started" is never said of a call that ran; an interrupted session is resumed |
| `write_behind` | 3 events, seeds of 0 and 1, one caller of flush beside the retirement, 2 storage faults of any kind, 1 loss of power, under fairness; 69,731 states | the log implements DurableLog; nothing stranded; a flush rejects only for a fault of its own and is always answered |
| `preparations` | 2 callers and 3 calls, 2 writes, 1 failure, 1 cancellation, under fairness; 754,915 states | a reservation is exclusive and current, a live session never meets one; every call ends |
| `jobs` | 3 jobs of one agent that may run 2, one wait at a time, budget of 1 wake, under fairness; 591,202 states | no end of a job is lost, no work escapes its record or the limit, waits and teardowns end |
| `owed`, `disposal`, `when_idle`, `empty_turn`, `write_behind_materialize` | small instances | the five disagreements of section 6 |

The properties are stated, with the code they are about, at the end of each
module. `CancellationIsHonest` is a property of the step that decides a result,
because only that step shows whether a further attempt had been asked for: it excepts
the refusal of such an attempt, and nothing else. `NoLostWake` and
`TurnsReadTheirWakes` divide one question, who answers for a message that was sent to
wake the driver: the first is what holds, the second what the code does not keep. A
*late* wake is outside both, because the repository documents that it is stranded
(`jobs/tool-jobs/README.md:90`).

**Bounds.** Two messages are enough for each race in the driver: one that is being
served and one that arrives; a third only repeats the second. Two steps give a
continuation and its end, two turns a drain, a replay and a recovery followed by
another turn. `MaxSteps` limits only the decision to ask for another step and
`MaxTurns` only the recovery of a loop, which are the sources of unbounded runs;
a steering message or a queued prompt may still go over them, and messages are
sent once each. Three calls in a pool of two give a full pool with a call waiting,
and a class that changes at either end of a group or in its middle. Retries need
one call to be retried and one beside it. The repair looks at one open turn; two
turns give it a closed one to ignore, and two calls one answered or started beside one
that is not. The cuts of a repair multiply these states (two steps in each turn make
434,486 and the safety properties pass, in more than three minutes), so the run has one
step in a turn; the theorems have no bound. In `WriteBehind` three events give a batch
that is being stored, one that fails behind it and one that arrives meanwhile; two faults
let a retry fail; the bound on events also ends what would otherwise be a barrier
that a producer extends for ever. In `Preparations` two callers share an entry, and
a third call finds what they left; `MaxCalls` also bounds a stream of other callers,
and `MaxWrites` one of other writers, which can hold a call back for ever (the
documentation of `prepare` says so of writers). One more write is shared by the
live session, its retirement, another process and the evictions. `Slots` are the
identities of entries, used again once nobody refers to them; with three of them one
is always free within the bounds of the run. In `Jobs` the third
job meets the limit; two owners never share a record, so one is enough.

**Fairness.** `AgentLoop`: weak fairness of the driver, of the tail of a kick, of
a maintenance job and of the check of a released waiter. Each stands for an await
that settles or a runnable continuation; a tool or a request that never settles
hangs the real driver, too. Callers are not fair: nobody has to send or cancel.
`WaitersAreReleased` assumes that foreign maintenance jobs stop coming, since a
caller can always start another. `ToolCalls`: weak fairness of the scheduler and of
each call's execution; the tool contract demands that bodies reach quiescence
(`tools/src/index.ts`, the comment on `dispatchToolBody`). `SessionRepair`: weak
fairness of the recovery step, as a session that is opened is prepared in a loop
until nothing is left to repair. `WriteBehind`: microtasks run, a timer fires, the
storage answers, if only with an error. `Preparations`: the same of microtasks and
of the chain, and whoever holds a preparation publishes or disposes it
(`SessionPreparation` is disposable and its users dispose it in a finally). `Jobs`: a
wait has a deadline; a producer that has accepted a cancellation settles (the
contract of `JobHooks`, and the code says that one which does not may stall the
teardown); a disposed turn ends, and the disposal goes on.

`CHECK_DEADLOCK FALSE` is set for `ToolCalls`, whose batch ends, and for
`WriteBehind`, `Preparations` and `Jobs`, whose inputs are bounded.

## 4. What is proved

With TLAPS, for every value of the constants, from the named assumptions on them
only (`AgentLoopAssumption`, `ToolCallsAssumption`, `SessionRepairAssumption`, and the
`Assumptions` of `Jobs`, `Preparations` and `WriteBehind`). Every invariant and every
action property that a passing run checks, and every refinement, is stated by one of
these theorems. Each module proves `Invariance`, `Spec => []Inv`, and draws the rest
from it; `AgentLoopWakeProofs` and `JobsEndProofs` build on the invariant of the module
they extend.

| theorem | statement | in a sentence |
|---|---|---|
| **AgentLoopProofs** | | |
| `TypeCorrect` | `Spec => []TypeOK` | types |
| `OneDriverAtATime` | `Spec => OneDriver` | a driver starts only where none is at work |
| `OnePromptPerTurn` | `Spec => []OneOrdinaryMessage` | a turn claims one queued prompt at most |
| `LogRefinement` | `Spec => WritesValidLog` | AgentLoop implements SessionLog |
| `HonestEndings` | `Spec => EndsHonestly` | the ending logged is the one that happened |
| **AgentLoopWakeProofs** | | |
| `WakesAreNotLost` | `Spec => []NoLostWake` | a promised wake is answered, or latched and replayed; what a driver was handed in time is claimed or parked |
| `IdleStaysIdle` | `Spec => []IdleIsFinal` | whenIdle answers only at rest |
| **ToolCallsProofs** | | |
| `TypeCorrect` | `Spec => []TypeOK` | types |
| `ModelOrder` | `Spec => []ResultsInModelOrder` | results are logged in the order of the calls |
| `Answered` | `Spec => []EveryCallAnswered` | a batch that returns has logged every result |
| `ExclusiveAlone` | `Spec => []ExclusiveRunsAlone` | nothing runs beside an exclusive call |
| `HonestCancellation` | `Spec => CancellationIsHonest` | a cancellation code agrees with what the body did |
| `Quiescence` | `Spec => []EndsQuiescent` | no call runs after the batch |
| `ValidLog` | `Spec => WritesValidLog` | ToolCalls implements SessionLog |
| **SessionRepairProofs** | | |
| `TypeCorrect` | `Spec => []TypeOK` | types |
| `AlwaysValid` | `Spec => []LogIsValid` | a log that was crashed, repaired and resumed is valid |
| `RepairBalances` | `Spec => []ClosersBalance` | the closers are accepted, close the turn and answer each call once |
| `RepairsConverge` | `Spec => RepairConverges` | a repair cut short is completed by the next, or has lost events of the torn frame only |
| `NotStartedIsTrue` | `Spec => []NotStartedNeverRan` | "not started" is never said of a call that ran |
| **JobsProofs**, **JobsEndProofs** | | |
| `TypeCorrect` | `Spec => []TypeOK` | types |
| `WorkIsTracked` | `Spec => []NoWorkIsUntracked` | work has a live stored record within its limit |
| `EndsAreAccounted` | `Spec => []NoEndIsLost` | the end of a job is told, noticed, torn down or owed |
| **PreparationsProofs** | | |
| `TypeCorrect` | `Spec => []TypeOK` | types |
| `SoundReservation` | `Spec => []ReservationIsSound` | a reservation is exclusive, current, beside no live session |
| **WriteBehindProofs** | | |
| `TypeCorrect` | `Spec => []TypeOK` | types |
| `NoneStranded` | `Spec => []NothingStranded` | a queued event has somebody who will write it |
| `RejectionsAreDue` | `Spec => RejectsOnlyOnFault` | a flush rejects only for a fault |
| `PromiseKept` | `Spec => KeepsThePromise` | WriteBehind implements DurableLog |

**AgentLoop.** None of the safety results is inductive by itself. `Inv` adds
`DriverInv` (the driver has a place exactly while the phase is running; the recovery
holds the maintenance phase; a turn opens at step 0), `LogInv` (the counters of the
driver and the bookkeeping of the validator agree at each program point) and
`ClaimInv` (a turn has claimed nothing before its first claim, one prompt at most
after). Without the reset of the step counter in `FreshRun` the second turn of a
driver would be refused by the validator: that is why the step counter is in
`DriverInv` and not in `LogInv` alone. `LogRefinement` has one case per action that
appends. Types are two conjuncts, `FlagsOK` and `DataOK`, because Boolean variables
and sequences are in the reach of different provers; the other modules do the same.

For the wakes, `PlainInv` says whose promise `activityDone` is in each phase when no
recovery is possible, and `WakeInv` strengthens NoLostWake message by message: a
promised wake has a driver at `top` that is not cancelled, or its message is still
queued under a latch (`Waiting`); a handed one is queued, and its driver is neither
cancelled nor past its last look. The drain then rests on `hasPending`, and on what a
claim and a removal leave in the two lists (`ClaimKeeps`, `RemoveAtKeeps`). For the endings,
`RecoveryInv` and `EndingInv` say that the ending of a truncated step is never
overwritten before `ending`, and that only a recovery completes the turn after it.

**ToolCalls.** `GroupInv` has the order `first <= committed <= nextToStart <= last + 1`
and what the scheduler knows at each of its places; `StageInv` gives the stage of
every call by its position relative to these; `PendingInv` the pending calls of the
log; `ResultsInv` says that the results are those of the first calls. `StartedInv`
(every call started in the class of its group) is needed for exclusive calls, as the
class is read again while the group runs; `BodiesInv` says in which stages a body has
run and no result is decided. `HonestStep` needs that of the state before: a call whose
body ran and that was not asked for again leaves `running` or `unwinding`, never
`wrapping`. Model order then rests on one fact: only the call at `committed` is
committed, and a settled call waits there for the calls before it.

**SessionRepair.** A crash may leave any prefix of the log, so an invariant of the log
alone is not inductive: `Good` demands `Holds` of every prefix, and a crash then costs
one step (`GoodPrefix`). `Holds` relates the two scans of a log, which are functions
defined by recursion over it. `TraceInv` is the validator's own bookkeeping, with the
turn a resumed driver would count from; `ScanInv` says that the repair's scan holds open
what the validator holds open and that its started calls are the validator's pending
ones; `AskedInv` and `PlacesInv` that calls are asked for once, in order and in their
step; `ResultsInv` that a result says "not started" exactly if there is no `tool/call`;
`OnceInv` that a call of the open step is waited for or has its one result. One lemma
per kind of event (`TurnStartHolds` to `ToolResultHolds`) shows that appending it keeps
`Holds`; the live driver and the repair share them. `OneCloser` says what a repair is:
its first closer is accepted, and what it would append next is the rest. `RepairStep`
follows by induction over the closers, and gives balance and convergence. A repair that
is cut leaves either a prefix of the log that was read (`PrefixInv`), which `Good`
covers and which reaches to `durable` at least (`DurableKept`), or that log with part
of the closers (`PartInv`), from which the next repair goes on to the same end
(`PartGoesOn`); `CutForms` says that these are all. `LiveInv`
keeps a resumed driver from recording a call that a repair has given up, and `RanInv`
is what the checkpoint buys: what has run is recorded in the durable part, which every
crash keeps.

The library's induction rules take an operator as a parameter, which the provers here
cannot instantiate. `Least` (a nonempty set of naturals has a least element, from the
well-foundedness of `<`) and `Induct` (over a set instead of a predicate) replace them;
`TracesAre` and `ScansAre` then give the recursive functions their equations.

**Jobs.** `NoWorkIsUntracked` speaks of producers, and no step of its own preserves
it. `Inv` adds `RecordsAgree` (a live record is stored and has work behind it; a
settled one has none), `RemovalIsDue` (a stored record has the cleanup of its owner
attached, or is among those the teardown awaits, and nothing is attached for an owner
past that cleanup) and `WithinLimit` over the live records that `start` counts. The
second is what a disposed owner rests on: `Admits` lets a job start in a scope that is
unwinding when the cleanup is already there, and only because the cleanup detaches
before it takes its snapshot is that job among those it awaits. `EndsInv` says of
each record why its announcement may be suppressed (a teardown, or an answer to a
wait or a reader, which may still be owed to a wait that has yet to resume);
`NoticesInv` says that an unseen notice beside an idle owner means a spent budget.

**Preparations.** `CallsInv` says on which entry a caller stands and what its place
implies for the phase of that entry, with one holder at most; `SessionInv` that a live
session has its id and took the entry out of the map; `ChainInv` that each queued read
belongs to an entry that still loads and each commit or check to a caller that waits
for it, one each. The last part is what makes a reservation current: the check of the
revision that made it is the only operation of that caller, so none left behind by an
aborted call can act on its entry later.

**WriteBehind.** An event is its number, so every sequence in the system is a run of
consecutive numbers. `QueueInv` is conservation: what is stored, what a write has in
hand and what is queued are three adjoining runs that end at the last accepted
event. `FileInv` gives the lines of the file at each place of an append, whatever of
it a fault has torn; `WriteInv` who started the write and who will hear of it;
`TimerInv` when a deadline stands, and is the part that NothingStranded needs;
`CallInv` what a waiting flush may rely on; `GoneInv` what a retired session or a loss
of power leaves. For the refinement, `KeptInv` says that `Durable` is the run of the
first `Kept` events (the cursor of a live session, the fsynced lines of one that is
gone) and that every answered flush is among them; each step then persists, accepts,
acknowledges, crashes, recovers or stutters.

Some definitions were put differently so that they could be reasoned about. `Fresh` of
WriteBehind picks the unstored events of a batch by their places (`Unstored`, `Place`)
instead of by a recursive selection, and `Enter` of Preparations has the guard that an
identity is free where it takes one. In SessionRepair, `Answered` removes the call at
its place, the calls asked for are a set (`Asked`) that is counted, and the scans after
every prefix have a name (`Scans`). TLC finds the same states as before.

**Only model-checked.** Liveness, which is out of the reach of the proof system:
`WakesAreAnswered`, `WaitersAreReleased`, `BatchEnds`, `RecoveryEnds`,
`FlushesAreAnswered`, `CallsEnd` and `WaitsAndTeardownsEnd`. The five claims that the
code does not keep (section 6) have counterexamples, not proofs.

## 5. What is not modelled

- Inside a step: request construction, streaming, the request retry policy and
  pressure compaction. They change no state of the driver; their outcomes are
  choices of the `request` actions.
- Vetoes of `step/end` and `turn/end`. Those of `turn/start`, `step/start` and the
  events within a step are covered by the failing outcomes.
- Plugins that replace or prepend messages of the inbox, and the replay of the
  inbox from a resumed log.
- Contents: messages, prompts, tool arguments and results, token counts.
- In the write path: a rollback that fails itself, a process that dies without the
  host losing power, reads that fail, a backend's teardown, `live.init` of anything
  but a fresh or a published session, encodings, compression and packing of records,
  Windows, and the SQLite backend.
- In the read path: the public `create` and `append` and `readFrom`, which the hosts
  do not use for live sessions; the collisions of `onCreated`; the order of the LRU.
  What another process may do to a repair is in the model (`ForeignWrite` while
  `repairing`), but the log is only a revision there, and the documentation excludes
  that protection.
- In `Jobs`: jobs without an owner, who are never announced; outputs, labels, change
  observers; the reload of the service; a controller that is not attached.
- The agent lifecycle: disposal appears as a cancellation with cause `disposed`,
  and callers may still call afterwards, as plugins that hold the agent can.
- The components marked `not_modelled` in PROJECT.json, each with its reason.

## 6. Disagreements with the documentation

1. `owed`. A turn truncated by max-tokens keeps that ending. If it is steered on
   and a later step calls tools, the turn stops right after them although the
   model owes an answer (`agent.ts:427`; `agent/src/runtime-types.ts:298`).
2. `disposal`. "Disposal never latches" holds for the first cancellation of an
   activity only. If the user cancelled first, a wake after the disposal is
   latched and replayed (`agent.ts:277-280`).
3. `when_idle`. A `whenIdle()` caller that waits on loop recovery is released
   before the recovered messages are put back and their driver starts
   (`agent.ts:258`, `agent.ts:344-350`; `agent/src/runtime-types.ts:133`).
4. `empty_turn`. A turn whose first step has no message left, because the waking one
   was removed or a listener rewrote the batch, returns without looking at the inbox.
   What arrived during the awaits of `preStep()`, or was queued behind, is left to an
   idle agent (`agent.ts:412`; `agent/src/runtime-types.ts:154`, `:161-164`). Nothing
   documents this one.
5. `write_behind_materialize`. A first append whose directory fsync fails has
   already published the log: the session still takes it for not materialized, and
   every retry is refused because the log exists
   (`session-persistence-jsonl/src/index.ts:560`, `:594`;
   `session-persistence/README.md:52` and `:34`).

The models contain five more windows, which are listed with the hazards and checked
by no run of their own:

- In the microtask between the return of `turn()` and the finally of `kick()` a followup
  or a steer is neither latched nor claimed, and the agent goes idle with it
  (`agent.ts:277`, `:318-329`): `exit`, and the wakes that are *late*. The window is
  documented at `jobs/tool-jobs/README.md:90`.
- A further attempt that is cancelled is reported as `ABORTED_BEFORE_DISPATCH`, "before a
  tool body was invoked", though the body of the first attempt ran
  (`tools/src/index.ts:471`, `:1540`): the exception in `CancellationIsHonest`.
- A repair truncates the torn frame and makes that durable before it writes the events
  recovered from it again, so a crash in between loses complete events that a read had
  returned (`session-persistence-jsonl/src/index.ts:441-443`, against
  `session-persistence/README.md:25` and `session-persistence-jsonl/README.md:43`): the
  second disjunct of `RepairConverges`. No event in front of the frame is at risk.
- A call of `prepare` in the tick in which the session is disposed may reserve the id
  before the retirement has written its last batch, which is then refused
  (`coordinator.ts:722`).
- A job that ends between the quiescence of its owner and the disposal of its scope
  finds the owner idle, and its notice wakes an agent that is being torn down
  (`agent-loop/src/index.ts:684`). The fairness of `Jobs`, that a disposed turn ends,
  speaks of the turn that was cancelled and not of that fresh driver; no property
  depends on it.

## 7. Plan

1. Proofs. The interfaces between the modules: that every outcome `ToolsSettle` of
   AgentLoop admits is one with which ToolCalls ends, and that the prefix a crash leaves
   in SessionRepair is one that DurableLog allows.
2. `AgentLifecycle`: create, resume, setup rollback and dispose of
   `agent-loop/src/index.ts`, composed with Preparations through the reservation and
   with AgentLoop through whenIdle.
3. `Approval`: requests, answers, cancellation; then goal rounds and the schedule's
   timers.
4. Variants: reuse of provider call identities in the repair; consumed work of the
   inbox; the retry budget; the adoption of a stored prefix by a live session.
