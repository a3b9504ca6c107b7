# A verification of the ZCode workflow engine

ZCode (`src/apps/zcode-cli`) is a coding agent for the terminal. Its own logic
lies in a few concurrent pieces: a *dynamic workflow* engine that runs a script
whose subagents work in parallel and that survives crashes by replaying a
journal; a governor that shares a provider's quota between all runs of a
process; pools, queues and registries around the agent's turns and tools; and an
RPC layer that survives a lost socket. This directory models these pieces in
TLA+, checks them with TLC on small instances and proves with TLAPS what can be
proved for all instances. Paths below are relative to `src/`; `P/` stands for
`apps/zcode-cli/packages/`.

## Inventory

| Component | State it keeps | Operations | What is hard | What makes it correct | Status |
| --- | --- | --- | --- | --- | --- |
| Ask scheduler `P/dynamic-workflow/src/engine/scheduler*.ts` | live nodes, one admission queue and one work queue per actor, slot counter, session promises | ask, submission, turn end, failure, abort | the session `await` inside dispatch, queues drained in loops, late reports | one turn per actor in order, slots counted, nothing held for ever | modelled |
| Engine and settlement `engine.ts`, `engine-settlement.ts` | ordinals, run status, settled flag | create, resume, ask, complete, fail, stop; world reads, reports, artifacts | first end wins, late callbacks, replay | same past, same answer; settled rows stay | partly |
| Journal `journal-memory.ts` (and the SQLite store) | run row, node rows, events | put, get, list | crash between two writes | rows are frozen once settled | partly |
| Amended re-runs `imported-cache.ts`, `engine-world.ts`, `P/bootstrap/src/app/dynamic-workflow-import.ts` | imported prefix and cursor per actor, closed flag | build, take, reconcile, close, seed | decisions rebuilt after a crash, boundaries carried through a chain of copies | no imported answer after a write; a subagent sees the exchanges its answers came from | partly |
| Workflow driver `P/bootstrap/src/app/workflow-driver*.ts` | session per actor, its present ask, tool counters | open, start, accept, end of a turn, dispose | what a turn still writes after its ask was settled | boundary and statistics belong to their ask | partly |
| Sandbox harness `P/dynamic-workflow-runtime/src` | child process, two pipes, handle map | request, response, complete, abort, time-out | who settles first, writes to a dead child | one settlement, the child killed | partly |
| Run service `P/bootstrap/src/app/dynamic-workflow-run-*.ts` | registry of live runs, journal | submit, resume, amend, cancel, close, sweep of orphans | a check before an `await` and the registration after it | one engine per run, owned by the open service | partly: engines are reduced to running and settled |
| Quota governor `concurrency.ts`, `workflow-concurrency-governor.ts` | cap, epoch, requests in flight, queue per run, cooldown timer | acquire, report, release, wake | stale verdicts, lost wake-ups, unfair turns | cap between 1 and the ceiling, everybody served | partly: without the fan-out of cap changes |
| AgentSwarm pool `P/core/src/tool/handlers/agent-swarm-pool.ts` | next index, launch count, progress board | launch, retry, time out | retry sleep against deadline, launch throttle read before a sleep | every item has one result | partly: without the progress board |
| Input queue of a session `P/core/src/runtime/command-queue.ts`, `P/core/src/runtime/methods/`, handlers in `P/bootstrap/src/zcode-protocol-v4/commands` | queued inputs in the event projection and in the running turn, reservations, promotion lease, notifications, drain flags | send, guide, edit, reorder, delete, send now, stop, automatic drain | every step of a promotion is an `await`, and two promoters, a turn, notifications and queue commands run in between | each input handled once, the lease always given back, nothing left waiting | partly: without attachments, goals, grants, restart |
| Tool executor `P/core/src/tool/executor/` | batches, background tasks, permission requests | call, approve, time out, background | answer against time-out | each call answered once | not modelled yet |
| RPC link `packages/rpc/src/persistent-protocol.ts` | unacknowledged frames, acknowledged id, saturation | send, acknowledge, replace socket, abandon | replay after a reconnect | no frame lost, order kept | partly: without framing |
| RPC channels `packages/rpc/src/channel{Client,Server}.ts` | handlers, pending rejections, subscriptions, collected requests | call, cancel, listen, register, dispose | what arrives before Initialize or registration, or after its end | every call settles, subscriptions follow listeners | modelled |
| Session protocol `P/bootstrap/src/zcode-protocol*` | resident sessions, interactions, inboxes | open, evict, answer, publish | eviction against use | no answered interaction reopened | not modelled yet |
| Workflow compiler `P/dynamic-workflow/src/{analysis,lowering,schema}` | none | pure | size | sites are stable | not modelled: static analysis of TypeScript syntax trees |
| Adapters, contracts, i18n, telemetry, provider packages | connections, caches | I/O | - | - | not modelled: input and output, data types |
| CLI, TUI, `packages/{ui,web,client}` | view state | rendering | - | - | not modelled: user interface |
| Services and servers `packages/{services,server,zcode-server-cli}` | sessions, tasks | request handling | - | - | not modelled yet: large, mostly storage and transport |

How they interact: the script runs in a child process and speaks to the engine
over two pipes; the engine calls the driver (`createActorSession`, `startAsk`,
`cancelAsk`) and the driver calls back (`submitAttempted`, `turnEnded`,
`askFailed`); every decision passes through the journal; the run service builds
engines, stops them, and rebuilds them over the same journal; every model
request of a turn passes the governor. An amended run reads the journal of the
run before it and the stored transcripts of that run's sessions; the driver
copies a prefix of one of them into a new session. A turn begins from the
session's input queue, whose promotions the host drives. Between hosts and
clients the RPC channels run over the link, which survives the loss of a socket.

## The model

### `AskScheduler`

One run from its first engine to its last. The engine is single-threaded
JavaScript, so a handler is one action, with two exceptions. The loops that
handlers end in, `drainAdmission` and `pumpAll`, are taken one iteration per
action under the program counter `pc`; while `pc` is not idle only these
iterations or a crash can happen, which keeps them atomic with respect to
everything but a crash (each `putNode` of a loop is a durable write of its own).
And `dispatch` is cut at its one `await`: `PumpActor` runs it up to there,
`DispatchResumes` is the continuation.

| State | Code |
| --- | --- |
| `runRow`, `journal` | the run's row and its `dwf_node` rows: actor, actorSeq, inputHash, status, result |
| `ordinals` | `WorkflowEngine.ordinals` |
| `recordedCount`, `nextAdmitSeq`, `pendingRecorded`, `pendingLive`, `liveQueue`, `current`, `session` | the fields of `Actor` (`scheduler-types.ts`) |
| `liveNodes`, `activeAsks` | fields of `AskScheduler` |
| `awaiting` | dispatches suspended in `await ensureSession` |
| `hist`, `toEngine`, `toChild` | the script (what each branch has seen) and the two pipes of the harness |
| `turns` | turns the driver has been given and not finished |
| `engine` | `live`, `settled` (end of run), `none` (process back, no engine), `down` (process dead) |
| `events`, `told`, `mismatch`, `lives` | observations: last event per node in this life, answers given in all lives, whether a hash check failed, how many engines |

| Action | Code |
| --- | --- |
| `ReceiveAsk` | `handleRequest`, `WorkflowEngine.ask`, `admitAsk`: ordinal, row look-up, hash check, held or queued |
| `ReceiveEnd` | `complete`: `settleCompleted` or, for a script that threw, `settleFailed` |
| `ScriptTakesAnswer` | `__deliver` and the script's run to its next host call |
| `DrainRecorded`, `DrainFresh`, `DrainEnds` | `drainAdmission`, the hold rule, `admitLive`, `releaseCachedAsk` |
| `PumpNext` | `pumpAll`, one actor |
| `SessionSettles`, `DispatchResumes` | `ensureSession`, and `dispatch` after its `await` |
| `SubmitAccepted`, `SubmitRejected`, `SubmitHopeless` | `handleSubmitAttempted` |
| `TurnAnswers`, `TurnNudged`, `TurnUnsubmitted` | `handleTurnEnded` |
| `AskFails` | `askFailed` |
| `Stop` | `settleStopped`, for every reason |
| `Crash`, `Reopen` | death of the process, `reconcileOrphanRuns` |
| `Resume` | `resumeDynamicWorkflowRun` and the constructor's resume path |

Abstractions, all of data:

- A script is a set of branches (the arms of a `Promise.all`), each a sequence
  of asks. Loops and helper functions appear as several asks at one site. The
  instructions of an ask are a function of what its branch has seen, so its
  input hash is the branch together with what it saw.
- Actors are created before the first ask. Creating one later makes no
  difference: `recordedCount` counts rows that cannot appear before the actor
  does, since only its own asks write them.
- What the driver reports of an ask that is not live changes nothing in the
  engine, so `DriverReports` lists reports on live asks only. Statistics are
  left out.
- A response is written to the pipe in the step that settles its promise; the
  engine does nothing between the two that another action could see.
- Harness time-outs, a dead child and damaged lines all call `engine.stop`, which
  is `Stop`.

### `AskLedger`

What a journal promises the script: entries that are entered once under an
identity that does not change, settled once, and whose settled outcomes are the
only answers ever told. It has no engine, no crash and no resume.
`AskScheduler` implements it under the mapping `Ledger`: entries are rows, and
settled entries are the rows that are not running.

### `ConcurrencyController` and `ConcurrencyGovernor`

`ConcurrencyController` is a module of operators: the class has no clock and no
input or output, so each of its methods is a function of its fields.
`ConcurrencyGovernor` is the bucket of one provider key, whose state holds such
a record. Buckets share nothing, so one is enough. It does not depend on
`AskScheduler`: of a run only its requests matter to a bucket, and they may come
at any time.

| State | Code |
| --- | --- |
| `ctl` | the fields of `ConcurrencyController` |
| `tickets` | tickets of `mintTicket` whose `settled` is false, with their run and epoch |
| `spent` | tickets that have settled and that the runner has yet to release |
| `waiting`, `lines` | `Bucket.queues`: the length of each queue, and the order of the map's keys |
| `lastGranted` | `Bucket.lastGrantedRun` |
| `wake` | the timer behind `Bucket.cancelCooldownWake` |
| `pc` | whether the loop of `drain` is under way |
| `asked` | observation: the time the provider still asks to wait |

| Action | Code |
| --- | --- |
| `FastPath`, `Refused` | `tryAdmit` |
| `Enqueue` | a refused `tryAdmit`, then `admit`, up to the loop of `drain` |
| `ObserverAcquire` | `observerAdmission` |
| `Abort` | `onAbort` |
| `GrantNext`, `DrainEnds` | an iteration of `drain`, and its end with `armCooldownWake` |
| `Publish`, `Release` | `publish` with an event that ends the attempt, `release` |
| `WakeFires` | the callback of the timer |
| `Tick` | one unit of time |

Handlers run to their end; `drain` alone is a loop, and while `pc` is `drain`
only its iterations are enabled. Abstractions:

- Instants are kept as distances from the present: `cooling` is what is left of
  the cooldown, `idle` the time since the last admission, up to `IdleReset`.
- An epoch is only compared for equality with the present one, so a ticket
  carries the result, `current`, and a verdict that begins an epoch clears it in
  every ticket. An idle reset needs no requests in flight, so there is no
  unsettled ticket for it to clear.
- The streak is kept up to `IncreaseAfter`: beyond, it has the same effect.
- The events of `publish` are the four signals they lead to.
- `lastBad`, `inFlightByRun`, subscriptions and the list of changes are shown to
  the user and decide nothing; they are left out.
- `tickets` also records the cap of the admission, for the properties only.

### `PersistentProtocol` and `ReplayLink`

Two endpoints over a succession of sockets, which the two sides replace
independently. `wire[s][p]` holds the frames on socket `s` that `p` has not read;
losing a connection empties it. `ReplayLink` is what the layer above may rely on:
messages are handed over without gaps, possibly again, and the sender forgets
only what was handed over. Frames carry their number and the acknowledgement of
the moment they were written; a replayed frame carries its old one.

| Action | Code |
| --- | --- |
| `Send` | `send`: number, buffer, saturation, `abandonSession` beyond the limit |
| `KeepAlive`, `GraceExpires` | the two timers |
| `Read` | `readMessages`: `processAck`, then `onMessage` for a regular frame |
| `ReplaceSocket` | `replaceSocket` and the replay of the buffer |
| `Break` | the connection is lost |

Bytes are sizes of messages; the framing of the byte stream is left out.

### `SwarmPool`

`runSwarmPool`: workers, each at one of its awaits (`pc`): the throttle's sleep,
the race of a child against the deadline, the sleep of a back-off. Timers and
children are events in any order. Its `PoolInit`, `PoolNext` and `PoolSpec` have
names of their own because the module with its proofs also extends `RunService`,
with which it has nothing in common.

| Action | Code |
| --- | --- |
| `StartWorker`, `ThrottleEnds` | the worker's loop up to `await`, and after the sleep |
| `ChildSettles`, `ChildRateLimited` | `runOne`: a result, or another attempt |
| `DeadlineFires`, `BackoffEnds` | the timer of the item, the sleep before a retry |

### `RunService`

The registry of a session's run service over the rows of the journal. A call of
`amend` or `resume` is cut at its awaits: `calls[c]` says at which one it waits.
Engines are reduced to `running`, `ended` (row written), `tracked` (booked by the
service) and `dead` (with its process).

| Action | Code |
| --- | --- |
| `Submit`, `Cancel` | `submitDynamicWorkflowRun`, `cancel` |
| `AmendLive`, `AmendSettled`, `AmendPredecessorSettled`, `StartAmended`, `ImportRefused` | `amendDynamicWorkflowRun`: the predecessor is stopped and awaited, the import built, the successor launched |
| `Resume`, `ResumeAmended`, `ResumeRebuilt` | `resumeDynamicWorkflowRun`, at once or after the rebuilt import |
| `EngineEnds`, `Tracked` | `settled` of an engine, then `trackSettlement` and `rememberTerminal` |
| `Close`, `Closed`, `Crash`, `Reopen` | `close`, death of the process, a new service with `reconcileOrphanRuns` |

### `ChannelRpc`

A client and a server over an ordered connection that may be lost. Requests made
before Initialize are queued at the client, those for a channel not yet
registered at the server. `start`, which no step changes, says whether the
connection begins with the handshake done and the channel registered (`steady`)
or before both (`early`).

| Action | Code |
| --- | --- |
| `Call`, `Cancel`, `AddListener`, `RemoveListener` | `requestPromise`, `requestEvent` |
| `Initialized`, `ReceiveAnswer`, `DisposeClient` | `onResponse`, the handlers, `dispose` |
| `ReceiveRequest`, `ReceiveDispose`, `TimerFires`, `RegisterChannel`, `FlushPending` | `onRawMessage`, `collectPendingRequest`, `flushPendingRequests` |
| `CallEnds`, `EventFires`, `DisposeServer` | the work behind a request |

### `AmendedRuns`

A chain of runs, `Scripts[1]`, `Scripts[2]`, ..., each amending the one before.
The scripts, the personas of the subagents and the runs that may crash make up
`plan`, one of `Plans`, chosen at the start.
The engine's rules for slots, holds and budgets are `AskScheduler`'s; here a
subagent's asks are admitted in script order, and what counts is which of them
are answered from the import and what stands in the session the others run in. A
transcript is a sequence of exchanges `<<run, call>>`, and so is an answer: the
two can be compared.

| State | Code |
| --- | --- |
| `journal`, `queuedEvents`, `closedEvent` | `dwf_node` rows with `messageBoundary` and `stats`, the events `node-queued` and `import-cache-closed` |
| `sessionRow`, `transcript` | `dwf_actor.session_id`, the stored messages of a session |
| `cache`, `shut`, `wasLive`, `cursor`, `used` | `ImportedRunCache`, `importClosed`, `liveAskInstances`, `ImportedActorState`, `ImportedWorldQueue` |
| `queue`, `current`, `worldBusy` | `Actor.liveQueue`, `Actor.current`, world commands under way |
| `session`, `turns`, `asked`, `counted` | `sessionPromise` with the copy it begins with, the runtime's turns, `currentInstance`, whether the tool counter is above zero |
| `dirty`, `touched`, `stale`, `split`, `executed`, `lives` | observations: the workspace was changed, which exchanges looked at it, a stale import happened, where an actor departed, how often a command ran |

| Action | Code |
| --- | --- |
| `AskReplayed`, `TryImportedSettle`, `AskLive` | `admitAsk`, `reconcileRecorded`, `tryImportedSettle`, `admitLive` |
| `OpenSession`, `SeedMessage`, `SessionOpens` | `ensureSession`, `seedActorTranscript` (one message a step), `createActorSession` |
| `StartAsk`, `TurnBegins`, `ReadsWorkspace`, `WritesWorkspace` | `startAsk`, `executeTurn`, the tool activity and `askMutating` |
| `SubmitAccepted`, `AcceptedTurnEnds`, `UntypedTurnEnds`, `TurnFails` | `respondToSubmit`, and `settleExchange` with boundary and statistics |
| `WorldReplayed`, `WorldImported`, `WorldLive`, `SettleWorldRead` | `readWorld` |
| `RunEnds`, `Amend`, `Crash`, `CrashInAdmission`, `Resume` | `dispose`, `buildImportedCache`, death of the process (also between a row and its event), `rebuildImportedCacheForResume` |

Repairs, reminders and re-driven turns belong to one turn here, as they do for
the boundary. Subagents are created at the start under unique names. An accepted
submission ends the turn (`stopTurnOnSuccess`), so a turn calls no tool after it.
A turn that was not accepted when its run ended is cancelled and writes nothing
more; what a tool of it does to the workspace afterwards is not modelled.
`plan.crashes` names the runs during which the process may die, `plan.torn` says
whether it may also die between a row and the event that goes with it.

### `InputQueue`

What the user types while a session is busy. The runtime runs one foreground
execution at a time: a prompt or a batch of background-task notifications. An
input that meets a busy runtime is queued; a guide is also put in the memory of
the running turn. Whatever the turn has not taken is promoted later, by the
user's "send now" or by the host's automatic drain, `pc[p]` being the `await` at
which a promoter is.

| State | Code |
| --- | --- |
| `exec` | `activeForegroundExecution`, with `preserveQueueAutoDrainOnCancel` |
| `mem`, `drain`, `proj` | guides in `activeTurn.pendingInputs`; the guide taken and not yet recorded; `pendingSteerInputs` of the event projection |
| `holder`, `lease` | `pendingInputReservations`, `foregroundPromotionLease` |
| `notes`, `noticed` | notifications in the runtime's command queue, and those handed to a turn |
| `pc`, `item` | where each promoter is, and its input |
| `cmd` | a delete, edit or reorder that has read the queue and awaits the store |
| `gate` | `queue.autoDrain` of the projection, `queueAutoDrain` and `queueExternalDrainActive` of the runtime |
| `evalDue` | an evaluation of the automatic drain is scheduled |
| `sent`, `ran`, `removed`, `overlapped` | observations: accepted inputs, how often one was handed to a turn, accepted deletions, inputs consumed while a command that had read them was under way |

| Action | Code |
| --- | --- |
| `SendText`, `StartNow` | `sendText`, `admitPrompt`, `steerTurn`, `enqueueDeferredInput`; with `startNow` the lease and the preemption |
| `Notify`, `RunNext` | `enqueueRuntimeCommand`, `drainRuntimeCommandQueue`, `dequeueNextRunnableBatch` |
| `DrainTake`, `DrainDone` | `drainPendingInput`: out of the memory at once, off the projection at its end |
| `EndTurn`, `Stop` | end of a turn with the two tests that pause the queue, `stopActiveForegroundExecution` |
| `DeleteRead`, `EditRead`, `ReorderRead`, `CmdWrite` | `removePendingInputById`, `editPendingInputById`, `reorderPendingInput`, cut at their wait for the store |
| `SendNow`, `Reserve`, `LeaseAndStop`, `Mark`, `WaitTimeout`, `Admit`, `RemovePromoted`, `GiveUp` | `sendQueuedNow` and its `finally` block |
| `AutoPick`, `AutoLease` | `autoDrainV4QueueIfReady`, the lease in mode idle-only |
| `SetAutoDrain` | `setAutoDrain`, `setQueueAutoDrain` |

The user's commands are serialised by the session gate of `CommandInbox`
(`UserFree`); the automatic drain calls the executor past that gate. Abstractions:

- `mem` holds guides only; other inputs reach the projection by way of the event
  log and are not taken by a turn.
- One evaluation of the automatic drain is under way at a time; a second one
  would find the lease or the reservation taken and try again.
- The `finally` block releases the reservation and the lease in one step.
- A running turn also takes pending notifications at each of its later model steps
  (`turn-loop.ts:55`, `runtime-command-active-loop.ts:22`), whoever has the lease.
  Here a notification that meets a busy runtime waits for the end of the turn, so
  `QueueAnswers` shows more waiting than there is.
- The store does not fail. `DrainDone` always succeeds, but `persistUserPrompt` and
  `appendEvent` may throw (`steering.ts:1220`, `events.ts:132`) when the guide has
  left the turn's memory and not yet the projection. The guide then stays queued
  there and is promoted again, though the turn's message history has it already:
  `InputsSettleOnce` is about a store that works.
- `SendText` is one step. The code awaits the projection between the test for a
  busy runtime (`prompt-admission.ts:34`) and the append (`steering.ts:240-273`),
  and `steerTurn` puts a guide in the memory (`steering.ts:147`) before the event
  that queues it is awaited (`steering.ts:173`). What a turn that ends, or takes the
  guide, in one of these waits makes of the input is not examined.
- Left out: attachments, goal and compact items, the pause of drains for a
  permission grant, the choice of what becomes of a held queue
  (`applyHeldQueueDisposition`, `session-flow.ts:105-131` and `224-250`, whose
  clear-and-send empties the queue and starts the new input), also when a session is
  reopened.

## Runs

| Run | Instance | Question |
| --- | --- | --- |
| `shared` | three branches, three actors, two of the branches sharing one; limit 2; two lives; budgets of one; one result; fairness | The safety of the scheduler and of replay across a crash or a stop at every point; refinement of the ledger; every life ends |
| `gate` | two runs that may abort, the main agent, three requests, ceiling 3, Retry-After of 0 or 1 | The safety properties of the bucket and its controller |
| `served` | three runs, four requests, ceiling 1, Retry-After of 0 or 1, fairness; no main agent, no aborts | No wake-up is lost and everybody is served |
| `link` | an exchange of messages of two sizes over two sockets, a buffer that overflows, fairness | No gap, nothing freed early, no repetition but by a reconnect, the congestion signal right, everything arrives; refinement of `ReplayLink` |
| `swarm` | four items, three workers, two retries, fairness | One result per item, classified by its deadline; the pool returns |
| `runs` | three runs, two overlapping calls, three engines, two services, a close and a crash, fairness | What the run service keeps in any case; calls and close return |
| `channels` | two calls and an event, on a connection that begins after the handshake or before it, fairness | Subscriptions, cancels and the server's book; every call ends once, unless it is stranded on a lost connection |
| `chains` | three runs of one subagent, the same script twice and then one that departs, with a crash anywhere, also between a row and its event; or two subagents, one of them given a new persona and writing, and a world command, all at once, with a crash of the amended run | Transcripts, boundaries, decisions and the import across copies and restarts; nothing stale imported, nothing answered twice |
| `queue` | two inputs and a notification, sent as guides or not, edited, reordered, deleted, promoted by the user and by the automatic drain, stopped at any time; fairness | The lease, every input handled once, promotions that commit, and that notifications and promotions end |
| `runs_double`, `queue_deleted`, `queue_notice` | one or two runs; two inputs and a notification | Three statements of the sources that the code does not keep: see Findings |

These are the runs of `PROJECT.json`. Further configurations stand beside them
and are run by hand (`tlc -config X.cfg M`). The first passes; each of
the others ends in a violation and belongs to a finding below.

| Configuration | Property | Outcome |
| --- | --- | --- |
| `MCAskScheduler_replay` | `ReplayFaithful`, `JournalAgrees`, `ImplementsLedger`, for a two-ask pipeline in two branches, sites shared, two results | passes: even a row looked up under the wrong instance gives no wrong answer |
| `MCAskScheduler_pipeline` | `ReplayNeverMismatches`, same script | violated |
| `MCConcurrencyGovernor_judged`, `_retryafter`, `_alarm`, `_stranded` | `JudgedUnderOwnCap`, `RetryAfterRespected`, `AlarmAwaitsCooldown`, `NoLostWakeup` with aborts | violated |
| `MCPersistentProtocol_bounded` | `BufferBounded` | violated |
| `MCSwarmPool_throttle` | `Throttled` | violated |
| `MCRunService_orphan`, `_lineage`, `_evict` | `OwnedEngines`, `LineageHasTwoEnds`, `RecentTerminalsKept` | violated |
| `MCChannelRpc_stray`, `_deaf` | `NoStraySubscription` before the handshake, `HeardWhileListening` | violated |
| `MCAmendedRuns_remnant`, `_pipelined`, `_deploy`, `_torn`, `_repeats` | `NoStaleImport`, `PureMeansUntouched` and `BoundaryByTurnEnd` (both with `-continue`), `EffectsNotReplayed`, `ModelSeesItsHistory`, `WorldOccurrencesAligned` | violated |
| `MCInputQueue_gates` | `GatesAgree` | violated |

The bounds: in `shared` two lives are one recovery, and as recovery reads only
the journal and every journal that one life can leave is reached, a third life
adds no new kind of start. Two asks of an actor on
different branches are enough for recorded and fresh asks to meet in one actor's
queues; three actors with a limit of two are enough for `pumpAll` to have a
choice. One repair and one nudge exercise both sides of each budget. One result
is enough, as an ask can already end in two ways (answered, failed); `replay`
tells results apart.

In `gate` a ceiling of three is the least with a cut (3 to 2), a raise and a
probe above a proved cap; three requests fill it, with one of them waiting when
the cap is lower; `IncreaseAfter` 2 makes a streak that can be broken;
`IdleReset` 2 is longer than the Retry-After. `served` has one place for three
runs and so always a choice to make, and an idle reset as early as possible.

In `link` two sockets are one reconnect, which the two sides make at different
times; any number of them is covered by the proofs, as far as they go (see
Proofs). Sizes 1 and 2 with marks at 1 and 2 and a limit of 3 make the buffer
saturate, drain and overflow. `swarm` has more items than workers, a limit that
lets one launch through unthrottled, and retries that can run out. `runs` has
three runs, so that a chain of two amendments exists, an eviction limit of one,
and two callers, so that a call is overtaken while it waits. In `channels` a call
can be served, cancelled and answered at the same time, and a listener that was
removed comes again (in the steady connection; before the handshake that ends as
`stray` shows). `chains` needs three runs because a boundary must be copied once
and then used on the copy; one crash per plan suffices because what a resume
reads is durable.

In `queue` two inputs are enough for a head and what waits behind it, and for a
position in the memory that shifts; both promoters can be at work on the same or
on different inputs, and one notification comes at any point of either.

### Properties

A property of `PROJECT.json` is in some cases the conjunction of several, which
are named here behind it. `TypeOK` is the type invariant of each module.

Of the scheduler:

- `JournalSound`: `TypeOK`, and what the scheduler holds of an ask agrees with the journal
  (`JournalAgrees`).
- `SlotsAccounted`: `activeAsks` is the number of busy actors and within the
  limit, though it is incremented in `pumpActor` and decremented in
  `finishLiveNode`, on the far side of an `await`.
- `WorkConserving`: no wake-up is lost, though only some handlers pump all actors.
- `NothingLeftBehind`: every turn in progress is that of a live, dispatched ask
  (`NoOrphanTurns`), and a run that completed or stopped leaves no node open on
  its event log (`NoDanglingNodes`).
- `ReplaySound`: an actor's rows are numbered 0, 1, ... over all lives
  (`SeqsDense`), the hash check never fails for scripts each of whose sites is
  used by one branch (`ReplayNeverMismatches`), and the same past gets the same
  answer in every life (`ReplayFaithful`).
- `SettledRowsFrozen`: no step changes a settled row, nor whose row one is.
- `AskedInOrderOnce`: an actor's asks start in order (`StartsInOrder`), and none
  whose answer was told is run again (`NothingRedone`).
- `ImplementsLedger`: refinement. `EveryLifeEnds`: liveness.

Of the governor:

- `TicketsAccounted`: what is counted as in flight are the unsettled tickets.
- `LinesMatchQueues` (proved): the map holds the runs that wait, each once.
- `DemandKnown`: between handlers the controller knows how many wait.
- `ProvedCapStands`: the cap is not below `lastGood`.
- `BatchCutOnce`: an attempt that lowers the cap was admitted under no higher
  one, which is what epochs are for.
- `NoLostWakeup`: whoever waits has an attempt in flight or an alarm to wait for.
- `EveryRunServed`: a run that waits is served.

Of the link: `NoGap`; `ForgottenOnlyWhenSeen`; `OncePerSocket`;
`SaturationTracksBuffer` (the byte counter is right, and so are the signal and
the limit that are computed from it); `EverythingArrives` (and a saturated sender
is drained); and the refinement `ImplementsLink`.

Of the pool: `ItemsAccounted` (proved) joins `EveryItemOnce`,
`TimeoutClassified` (timed out exactly if the deadline fired, also during a
back-off) and `OneLateLaunch`; `PoolReturns`.

Of the run service, both proved: `RowsBacked` (`NoZombieRows`: a row says
running only if an engine runs it); `RecordsStand` joins
`LiveRunsStayRegistered` and `SupersededFinal`, the latter with two exceptions
that the code makes: a resume that tested the run before it was superseded, and
an engine that a close of its service left running. Only model-checked:
`ServiceAnswers` (`CallsReturn`, `CloseFinishes`).

Of the channels: `NoStrayAfterHandshake` (`NoStraySubscription`, for a steady
connection); `TablesSound` (`BookMatchesWork`, `CancelReaches`); `CallsEndOnce`:
`RejectedNeverSent`, and `CallsSettle`, by which a call settles while its
connection stays or once its client is disposed. Of a call on a lost connection
whose client nobody disposes (`Stranded`) it says nothing, and such a call stays
pending for ever: see Fairness.

Of amended runs:

- `ModelSeesItsHistory` (proved): a turn has before it exactly the exchanges that gave the
  answers its subagent gave so far, imported or not.
- `BoundariesAddressTheSource` (proved): a boundary cuts the session that the
  chain leads to right behind its ask.
- `ImportSound` (proved): rebuilt at any time, the import is the one first given
  (`ImportReproducible`), and a resumed engine departs from it where the life
  that crashed did (`DecisionsRebuilt`).
- `NoStaleImport` (proved): no answer that looked at the workspace is imported once this
  run has changed it.
- `AnswersFinal` (proved): what is recorded is never replaced nor done again.

Of the input queue:

- `LeaseAccounted` (proved): the lease belongs to a promotion under way, a marked
  input meets an idle runtime, no notification waits in a runtime that is
  neither running nor leased.
- `InputsSettleOnce` (proved): an accepted input is queued, was handed to a turn or
  deleted; handed over once, and not after its deletion, unless a command of the
  user had read it while it was being consumed (`overlapped`, see Findings);
  reserved only while its promotion lasts.
- `PromotionsCommit` (proved): behind the stop barrier a promotion starts its input or
  meets a notification, and once it is started the input leaves the queue.
- `QueueAnswers`: notifications are handed over and promotions end, if the user
  does not rearrange the queue for ever.

The other properties of the modules are those of the findings.

### Fairness

`EngineStep` is weakly fair because the event loop runs what is queued and a
loop runs to its end. `SessionSettles` because `createActorSession` is a promise
of the driver that resolves or rejects. `Dispatching` because a continuation of
a settled promise runs. `Reporting` because a turn ends: the runtime bounds it
by the model's turn limit, and the model allows at most the repair and nudge
budgets' worth of reports that do not settle an ask. Nobody is assumed to stop,
crash or resume a run.

In the governor, `GrantNext` and `DrainEnds` are weakly fair because a handler
runs to its end. `WakeFires`, `Tick` and `Release` are strongly fair: a drain
disables them for the time it takes and the zero-delay alarm of the findings can
start one again and again, but the event loop comes to every timer and callback
that is ready, time passes, and the runner bounds an attempt and releases its
ticket in a `finally` block. Nobody is assumed to make a request.

On the link, `Read` and `KeepAlive` are weakly fair (arrived frames are read, the
heartbeat is an interval timer), and so is `Reconnect`: the owner of a connection
replaces it when it is lost. Messages are handed over at the latest by a
connection that stays, of which there is one since sockets are bounded. In the
pool timers fire; a child need not answer. In the run service a settled engine is
booked, promises of the journal return and `Closed` follows when all engines have
settled; it assumes no engine to end by itself, as `close` stops them. In the
channels messages arrive, timers fire and a call on the server ends; the fairness
is over the variables other than `start`. Nobody is assumed to dispose of a client
when its connection is lost. `IPCServer` does (`packages/rpc/src/ipc.ts:136`), but
`connectViaProtocol` (`packages/client/src/websocket.ts:102`) makes a client of
which it keeps nothing to dispose, the web entry point passes an empty `onClose`
(`packages/web/src/main.tsx:446`), and the remote link gives up reconnecting
without telling the client (`packages/rpc/src/remote.ts:303`). What was asked over
such a link before it was lost is never answered.

In the input queue `Turn` is weakly fair (a turn ends or records the guide it
took), and so are the steps behind an `await` of the store or of a timer:
`CmdWrite`, `AutoPick`, `AutoLease`, `LeaseAndStop` and `PromoterStep`. Nothing is
assumed of the user, of notifications, or of when a turn takes a guide.
`AmendedRuns` states safety only.

## Findings

`runs_double`, `queue_deleted` and `queue_notice` are runs of `PROJECT.json`,
where the sources they contradict are quoted. The others have the name of their
configuration (see Runs).

`pipeline`: ordinals of a site are given out in the order its calls reach the
engine (`engine.ts:614`). When two branches run the same two-ask pipeline, the
second asks reach it in the order in which the first ones settle, which differs
between the first execution (completion order) and a replay (the order in which
cached rows are released). A resume after a crash can therefore look up one
branch's second ask under the other's row; the input hash differs, and the run
is settled `errored`, which no resume accepts. The file's header claims that
ordinals and actorSeqs make both executions the same word for word. The answer
is never wrong (`replay`): the run fails loudly.

`stranded`: `onAbort` tells the controller the new demand, and the idle reset in
that signal may forget the cooldown; `armCooldownWake` then cancels the alarm
and, as there is no cooldown, sets none, and nobody drains. The remaining
waiters stand before an open gate until another request happens to use the key.
It needs a request that together with its Retry-After lasts longer than the five
minutes of the idle reset.

`retryafter`: `lastRequestAt` is the time of an admission, so a key whose only
request runs for five minutes counts as idle when it ends. If it ends with a
Retry-After, the drain in the same handler forgets that at once.

`judged`: `succeeded` raises the cap and stays in its epoch, so a request
admitted before the raise is taken to have been sent under the raised cap. The
comments say that a refusal judges the cap it was sent under. What epochs must
prevent, a second cut for one batch, they do prevent (`BatchCutOnce`, proved).

`alarm`: a cooldown that has passed is not cleared. From the first Retry-After
of a key until its idle reset, each drain that leaves waiters behind a full gate
sets an alarm with delay 0, which drains, and so on without a pause.

`RoundRobin` (`MCConcurrencyGovernor_fair` with `MainAgent` true): `grant` notes
the main agent as the run served last. It has no queue, so the rotation starts
from the first run again. If the main agent makes a request between any two
grants, the first run can starve the others. Without it the rotation is fair
(`served`). TLC needs some minutes for the lasso.

`bounded`: beyond the limit of the replay buffer `abandonSession` fires
`onClose` and goes on buffering; the owner listens to `onSocketClose` only.

`throttle`: all workers read the launch counter before their sleeps and
launch together after it.

`orphan`, `runs_double`: `amend` and `resume` test the registry before an
await and launch after it: into a service that has closed meanwhile, or a second
time for the same run.

`lineage`: a predecessor names its successor before that exists; after a
crash or a refused import it stays superseded by nothing and cannot be resumed.

`evict`: a run that settles twice is in the eviction list twice, and its
older place evicts its newer entry.

`stray`, `deaf`: a listener removed before Initialize leaves a
subscription, and an event listened to again after its last listener left has no
handler.

`repeats`: the cursors of repeated world commands are not rebuilt by a
resume; rows that are replayed do not move them. A second call may get the first
record.

`remnant`, `pipelined`: an ask is pure if its tool counter is zero at the
end of its turn. A resume starts the counter at zero although the stored
transcript holds what the ask saw before the crash; the answer is imported after a
write. And the start of the next ask resets it while the turn of the last one still
runs, which takes two typed asks of one subagent made at once: the row says pure of
an ask that looked. That row is not imported, because for the same reason it never
gets its boundary, and one missing boundary makes the whole run unfit to be amended.

`deploy`: the first live command closes the import also for commands whose
effect the predecessor recorded, and these are executed again.

`torn`: the row of a live ask and the event that tells a resume that it was
live are two writes. After a crash between them an ask that departed because the
import was closed is taken for imported, and the copied transcript contains the
predecessor's exchange for it.

`queue_deleted`: a deletion reads the position of a guide, awaits the store and
cuts that position out of the memory. If the turn takes a guide meanwhile, the
deleted one stays, or another one goes, and the turn takes what was deleted.

`queue_notice`: the promoted prompt is admitted only if the command queue is
empty. A notification that comes while the lease is held makes the admission
fail, runs first, and pauses the queue if the drain was automatic.

`gates`: after a cancellation the runtime pauses its queue if the turn's memory
holds guides (`turn.ts:757`), the projection if anything is queued; the two flags,
which the comment there wants in step, differ.

Seen while modelling the queue, and the reason for `overlapped`: a deletion that
races a turn taking the guide, or the automatic drain, is accepted although the
input is executed; an edit or a reorder that races them brings the input back and
it runs twice. An input queued while a turn of notifications runs is promoted
only when something else in the queue changes.

Seen while modelling the rest and refuted by no sentence of the sources: the
tokens of `CancellationTokenSource` never set `isCancellationRequested`; a
collected request that was refused by its timer is executed by a later flush; a
cancel does not find a collected request; a call on a lost connection whose client
nobody disposes stays pending for ever (see Fairness).

## Proofs

`AskSchedulerProofs` proves, for every script, every number of actors and
branches and every limit, from the assumptions `ScriptAssumption`,
`LimitAssumption`, `ResultAssumption` and `NoInstanceAssumption` alone:

- `TypeCorrect`: `Spec => []TypeOK`
- `JournalAlwaysAgrees`: `Spec => []JournalAgrees`, and with the types
  `JournalAlwaysSound`: `Spec => []JournalSound`
- `ConcurrencyBounded`: `Spec => []SlotsAccounted`
- `SettledRowsStayFrozen`: `Spec => SettledRowsFrozen`
- `WorkConserved`, `NothingIsLeftBehind`: `Spec => []WorkConserving`,
  `Spec => []NothingLeftBehind`
- `RowsDense`, `TurnsStartInOrder`: `Spec => []SeqsDense`, `Spec => StartsInOrder`

and, for scripts no two branches of which share a site (`SitesUnshared`):

- `ReplayAlwaysSound`: `Spec => []ReplaySound`
- `TurnsAskedInOrderOnce`: `Spec => AskedInOrderOnce`
- `RunImplementsLedger`: `Spec => ImplementsLedger`

Types, journal and slots come first: `IInv == TypeOK /\ JournalAgrees /\ SlotsAccounted`.
None of the three is inductive alone. Types need the journal (releasing a held
ask reads its row, which must exist) and the counter (`activeAsks` stays a
natural number because it is decremented only by an actor that was counted).
The journal part needs each row's actor to be the one its question belongs to,
`RowsOfScript`, so that running a recorded ask again leaves the row's identity
as it was; and it needs fresh asks to have instances of their own, which follows
from the ordinals. Every action has a lemma per conjunct, `NextIInv` collects
them, and the theorems follow by temporal reasoning.

On it rests `OInv`, about the scheduling. No wake-up is lost because of
`PumpDue`: whatever actor could be served and is not, the loop under way comes to
it. Rows are dense because an actor numbers its rows by a counter of the recorded
ones, which a resume sets, and of those admitted since (`RowsNumbered`), and a
held ask is numbered only when the loop releases it. Turns start in order because
each live node is in one place, the queue of its actor or its hands
(`NodesPlaced`), and the queues are sorted (`QueueInOrder`). No turn is orphaned
because the dispatched nodes are the hands (`CurrentIsLive`, `AwaitedIsCurrent`).

On both rests `RInv`, about replay. An ask is known by its branch and what the
branch had seen (`hash`), the engine knows it by site and ordinal; with sites of
their own the counter of a site is the number of calls the branch made there, so
that `InstanceOf` takes one to the other (`RowsKeyed`, `MessagesAreNext`). Of one
branch at most one ask is in anybody's hands, its latest (`InHandIsLatest`), so
that what a branch has seen grows and all recorded pasts are beginnings of one
(`PastsAgree`), made of answers that were told (`PastsTold`), which stand in rows
(`ToldFromRows`). A replay that finds a row therefore finds the row of this very
ask. The refinement needs the same facts: an ask whose row stands repeats the
entry, and every other step enters, settles or tells one entry or stutters.

`SitesUnshared` holds of the script of `shared`, two of whose branches share a
subagent but no site. `pipeline` shows what comes of a script in which it fails:
`ReplayNeverMismatches` and `NothingRedone` are false for some of these, so that
the hypothesis is needed.

Of the ledger itself, `LedgerTellsOneStory`: in a ledger one question has one
answer, since what was told stands in the ledger and no question is entered twice
(`ToldFromLedger`). With `RunImplementsLedger` it gives `OneStoryTold`, the same of
the run: whatever crashes and resumes, to one question the script gets one answer.
That is why `ReplayFaithful` holds.

`ConcurrencyGovernorProofs` proves, for every ceiling, threshold, idle time,
finite set of runs, set of Retry-After values and number of requests, from
`ControllerAssumption` and `GovernorAssumption`:

- `GovernorTypeCorrect`, `TicketsAlwaysAccounted`, `ProvedCapAlwaysStands`,
  `DemandAlwaysKnown`: the invariants of `gate`
- `LinesAlwaysMatch`: `Spec => []LinesMatchQueues`
- `BatchAlwaysCutOnce`: its action property
- `NobodyForgotten`: `Spec => []NoLostWakeup`, if no waiting request is aborted

Its inductive invariant adds two facts to the invariants. `RoomForWaiters`: the
bound on requests keeps a ticket for each that waits, so that `GrantNext` finds
one. `CurrentTicketsFit`: an attempt of the current epoch was admitted under no
higher cap than the present one. That is why epochs work: a raise keeps it, a cut
ends the epoch, and an idle reset finds no attempt. `BatchAlwaysCutOnce` follows,
as only a verdict of the current epoch lowers the cap. `NobodyForgotten` is
inductive with `IInv`: a drain that leaves someone behind met a full gate or a
cooldown, and the second reset, before the alarm is set, cannot clear a cooldown
that the first one left. `stranded` shows that an abort can. The controller's operators
have lemmas on what they do to each field, the queues have lemmas on counting
(`WaiterJoins`, `WaiterLeaves`) and on the map, and every action has one lemma.

`PersistentProtocolProofs` proves, for any two peers, sizes, marks, numbers of
messages and of sockets:

- `LinkInvariant`: the inductive invariant
- `NothingSkipped`, `NothingFreedEarly`: `NoGap` and `ForgottenOnlyWhenSeen`
- `Implementation`: `Spec => ImplementsLink`, the refinement of `ReplayLink`
- `SignalTracksBuffer`: `Spec => []SaturationTracksBuffer`
- `HandedOncePerSocket`: `Spec => []OncePerSocket`
- `TypesKept`: `Spec => []TypeOK`

Of each side the inductive invariant says that the buffer holds the latest
messages, one after the other, that what was handed to it is an initial part of
the messages, that what is no longer held was handed over, and that every
acknowledgement it gives or keeps is of a message it was handed (`PeerInv`); of
the frames on a socket that each follows one its reader has or finds ahead of it
(`WireSound`). The last is what makes two sockets harmless, of which the reader
may still be at the older: everything the buffer holds is written again on the
newer one, and what it no longer holds has been seen.

The byte counter is a sum over the buffer (`BInv`). That the sum of a sequence is
the sum of its parts is induction over its length. The library's induction
theorems cannot be used here, but the natural numbers are well-founded, which is
a fact about a set: a set of numbers that misses one misses a least one
(`LeastNumber`), so a set with 0 and with the successor of each member has them
all (`AllNumbers`). `SizeIsSum`, `SizeSplits` and `SizeAppended` follow.
`CInv` is about repetition: no message was handed over more often than either
end has opened sockets, one that is on the wire of the t-th socket is there once
and was handed over fewer than t times, and the sockets an end has left behind
carry nothing more for it.

`InputQueueProofs` proves, for all sets of inputs and notifications, from
`NoneAssumption`:

- `LeaseAlwaysAccounted`: `Spec => []LeaseAccounted`
- `InputsAlwaysSettleOnce`: `Spec => []InputsSettleOnce`
- `PromotionsAlwaysCommit`: `Spec => PromotionsCommit`

With the types of `exec`, `lease` and `pc` the lease is inductive (`IInv`): that
it has one owner at a certain place of the promotion excludes the other promoter,
and whoever gives it back dequeues what waited behind it (`GiveUpKeepsIInv`).
`QInv` rests on it. The memory is the running turn's and gone with it
(`MemoryOfTurn`), so a promoter that owns the lease and meets an idle runtime
meets no guide that could still be taken. A reservation names a promotion of the
same input (`ReservedInPromotion`), a marked input keeps its reservation
(`ReservationHeld`), and an input that was started is not in the memory of the
turn it started (`StartedOutOfMemory`). For an input no command had read while
it was consumed, `Undisturbed` says that it was not handed over while it is in
the memory or marked, that it is in the queue after that only while somebody is
about to take it off, and that a command in flight still finds it where it read
it (`CutInPlace`). Whether something has started is thus a matter of where the
input is, and no step can start it from two places. What remains in a queue is a
recursive function of it (`Only`); that it keeps the members asked for, in their
order and as often as before (`OnlySet`), rests on `AllNumbers`.

`RunAndPoolProofs` proves, in its part on the pool, `ItemsAlwaysAccounted`,
`PoolSpec => []ItemsAccounted`, for any items, concurrency, launch limit and
retries from `PoolAssumption`. The property needs four facts more.
`LaunchesCounted`: the launches and the workers asleep in the throttle add up to
the items taken, which bounds the counter of launches by the items although it is
read before the sleep and written after it. `TimerFollows`: the timer of an item is
unset until its worker wakes, armed while its child runs, and armed or fired in a
back-off. `EnteredInOrder` and `LateSettles`: a worker takes its first item when it
is entered, and a launch after the deadline has a result. Whenever an item settles
its worker takes the next one in the same step, so that `TakeNextKeepsPoolInv`
stands under all of those actions.

`RunAndPoolProofs` proves, in its part on the run service, for any runs, callers,
eviction limit and ends of a service, from `RunServiceAssumption`:

- `RowsAlwaysBacked`: `Spec => []RowsBacked`
- `RecordsAlwaysStand`: `Spec => RecordsStand`

Beside the types and `NoZombieRows` the invariant says what an overlapping call
may rely on when it goes on after its await. `CallsHeld`: it still has its run
and its service. `MintedRunsFresh`: a run minted for an amendment has no row and
no engine, and no other call has it. Hence the launch that ends an amendment
cannot overwrite a row, superseded or not, and only a resume that tested its run
before the wait can, which is the exception that `SupersededFinal` makes. That
entries stand rests on the test of `rememberTerminal` for a run that is live
again (`EvictionStands`).

`ChannelRpcProofs` proves, for any calls, events, numbers of listeners and ways
to begin, from `ChannelRpcAssumption`:

- `TablesStaySound`: `Spec => []TablesSound`
- `NoStray`: `Spec => []NoStrayAfterHandshake`
- `NeverSentOnceRejected`: `Spec => RejectedNeverSent`

Its invariant follows a request on its way. `CallsOnce`: the request of a call is
in one place, waiting at the client, on the wire, collected or running, and there
once; so what the server takes up is new to its book, and `CallsBooked` holds. On
a connection that began with the handshake done, the messages about one event
take turns between listen and dispose, the first telling what the server's book
says and the last whether somebody listens (`ListensInTurn`); with none on the
way both agree, and no event is subscribed twice (`Subscribed`). The cancel of a
call follows its request (`CancelFollows`). What Initialize sends is a recursive
function of what waited, so its facts (`SentIsDrawn`) rest on `AllNumbers` too.

`AmendedRunsProofs` and, for the last two, `AmendedHistoryProofs` prove for every
number of runs, scripts, subagents and commands:

- `TypesAlwaysOK`: `Spec => []TypeOK`, for any plans
- `AnswersAlwaysFinal`: `Spec => AnswersFinal`, for any plans
- `NoStaleImportUnlessRemnant`: `Spec => []NoStaleImport`, if every plan is
  `NoRemnant`
- `ImportAlwaysSound`: `Spec => []ImportSound`, if every plan is `Rebuildable`
- `BoundariesAlwaysAddressTheSource`: `Spec => []BoundariesAddressTheSource`, if
  every plan is `Rebuildable`
- `ModelAlwaysSeesItsHistory`: `Spec => []ModelSeesItsHistory`, if every plan is
  `Rebuildable`

The last four have a hypothesis about the plans, because the code does not keep the
property without it; the configurations `remnant` and `torn` are plans outside the
hypothesis, with the behaviour that goes wrong, and both plans of the run `chains`
are inside both. `NoRemnant`: a run that may crash has no ask that works in the
workspace, unless it is the last of its chain, which nobody amends.
`Rebuildable`: no process dies between the row of an ask and its event, or no script
has anything that shuts the import.

What all of them rest on is `IInv`: the types, and who is at work on what. A busy
subagent is at an open ask of its own and the asks that wait are open (`AsksOpen`);
in a session a turn that is not accepted is the last one and that of the ask the
session is at, an accepted one belongs to a settled row without a boundary, and only
the present run has turns (`TurnsFit`). Hence a turn that ends late, also after its
run, writes into a row that is settled, and changes neither its status nor its
answer. One lemma per action says what it leaves alone (`...Frame`), and a few say
all there is to say of one variable (`RowsAre`: the ways in which a row can change;
`CursorsAre`, `EnginesAre`).

`GateInv` is for the import after a write. The gate is shut before the first change
and the event of it is written, so that a resume shuts it again (`GateShut`); what
passes a shut gate is pure; and what is pure looked at nothing (`PureEntries`,
`PureRows`). The last must be carried from the tool counter of a session
(`CountsRight`) to the row, which an accepted turn completes after its ask was
settled, and from there to the import of the next run: who has looked is settled or
in its turn (`TouchedAsked`), an answer that came from an earlier run cannot be
looked at any more (`RowOrigins`, `EntryOrigins`), and a row without a boundary is
not imported, since a run that was amended has none (`Bounded`).

`ImportInv` is for what a resume rebuilds. Where a subagent departed from its import
is stored nowhere; the resumed engine infers it from rows and events. That the
inference is right is `SplitsRight`: a row before the departure is that of the
entry, the row at the departure has an event or matches no entry. Only the last row
of a subagent may lack both (`TornLast`). What a life knows of it is `CursorRight`
(with `RowsDense`: rows are those of a first part of the script) and `WasLiveRight`.
That the import itself is the same needs the predecessor's rows, which a turn of it
may still complete (`AcceptedLast`, `SettledFirst`, from `OpenAll`), and that the
transcript it points to is still long enough: boundaries grow along the rows of a
subagent (`Monotone`), its answers are in a transcript that has at least that length
(`LiveRows`), and a session begun by a copy is as deep as the import was followed
(`SessionsSeeded`), whoever of the chain holds the session by now (`SourceHolds`).

`StoryInv` is for what transcripts say. A transcript begins with the copy, whole or
cut short by a crash, and the copy says what the session says that the chain led to
before (`Copied`). That session may change: one that a crash left half copied opens
when its run is over, and the chain then leads to it instead; the two agree as far
as anything is offered from them (`LateAgrees`), so an engine that holds the old one
may go on copying from it (`SourceKept`, `Rooted`). Beyond the copy stand exchanges
of the run's own, of asks made after the departure, in the order of the script and
each after what came before it was settled (`AddedRight`); an answer that is not
imported is that of an exchange there, within its boundary, and nothing of a later
ask stands within it (`LiveAnswers`). These four are inductive with `ImportInv`.

The two properties follow from them without another step of the system, by going
back along the chain: if run `r - 1` is told in order, so is run `r` (`Ordered`,
`AllOrdered`), and the messages up to a boundary are, as a set, the answers up to it
(`Told`, `AllTold`): those of the copy by the run before (`CopyTells`), the others
by `AddedRight` and `LiveAnswers` (`OwnTold`). That the sets, each in its order, make
the same sequence is a fact about `InOrder` and `Exchanges` alone (`ExchangesAre`,
from `OrderFollows`).

Only model-checked of amended runs: nothing that is a safety property of a passing
run. The five configurations of the table above show what the code does not keep.

## Plan

1. Done: scheduler and ledger, quota governor, link, pool, run service, channels,
   amended runs, input queue; proofs of the safety of all of them, with what the
   transcripts of amended runs contain.
2. Left: background tasks and permission races, session pool.

## Not modelled

The workflow compiler, adapters, contracts, telemetry and user interfaces are
transformations of data or input and output, without state that two actors
share. The web client and the services around the agent make up most of the
lines of the repository; they are storage, transport and rendering, and only
their RPC layer is modelled. The tool executor and the rest of the session
protocol have concurrency of their own and are left for later.
