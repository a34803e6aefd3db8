# CodeKanban in TLA+

CodeKanban is a Go server that runs coding agents (Codex, Claude, Pi, Devin) for a browser, an
SDK and a command line, next to terminals, Git worktrees and a file manager.  This directory
holds TLA+ models of its concurrent parts, the TLC configurations that check them and TLAPS
proofs of the most important properties.

`tlc -config <run>.cfg <module>` runs a configuration (the module is named in the table of
runs), `tlapm <module>.tla` checks the proofs of a module.

Contents: [the system](#the-system) · [the pending queue](#the-pending-input-queue) ·
[scheduled inputs](#the-scheduled-inputs) · [the event log](#the-event-log) ·
[hydration](#hydration) · [a Codex run](#a-codex-run) ·
[automatic retry](#the-automatic-retry) · [the scan coordinator](#the-git-scan-coordinator) ·
[runs](#runs-and-bounds) ·
[disagreements found](#disagreements-found) · [proofs](#proofs) · [limits](#what-is-not-covered) ·
[plan](#plan)

## The system

| Component | Source | State | Operations |
| --- | --- | --- | --- |
| Pending input queue | `service/websession/pending.go` | in-memory queue, delivered ids, version, timer, the flags `pendingProcessing` and `pendingDirty` per session | send, remove, update, reorder, clear; trigger, claim, put back, mark, finish |
| Run lifecycle | `manager.go`, `active_run.go` | `runs`, dispatch locks, status of the stored session | start under the lock, abort, end, release, archive |
| Automatic retry | `manager.go` | a timer per session, attempt and next time in the database | arm, execute, give up, settings, recover after a restart |
| Scheduled inputs | `scheduled.go` | database rows, a timer per row, the idle monitor | create, update, remove, send now, fire, idle sweep, wake dependents, recover after a restart |
| Event log | `text_delta_buffer.go`, `store.go`, `history_*.go` | event rows and projections, a buffered delta, retries of projections | append, buffer, flush, project, archive, clean up |
| Revision and catch-up | `revision.go`, `catch_up.go`, `history_transport.go` | revision, history epoch, event cursor, attention | snapshot, catch-up, reconcile |
| Browser store | `ui/src/stores/webSession*.ts` | hydrated timeline, cursors, pending list | apply frames, hydrate, reconcile |
| SDK and CLI | `packages/` | requests in flight, follow-up frame, event stream | command, acknowledgement, stream |
| Codex runtime | `codex_app_server.go`, `active_run.go` | a process, its pipes, requests in flight, the open question, the drain | request, steer, answer, complete, drain, kill |
| Other agent runtimes | `devin_*.go`, `pi_*.go`, `claude_*.go` | external processes and their sessions | start, steer, approve, interrupt, decode |
| Git scan coordinator | `utils/git/git_scan_coordinator.go` | caches, flights, generations, gates, slots | status, stats, worktree status, invalidate |
| File manager, worktrees, branches | `service/filemanager`, `service/worktree_service.go`, `service/branch_service.go` | files, database rows | mutations followed by invalidation, refresh |
| Terminals | `service/terminal` | sessions, subscribers, scrollback, rows to restore | create, close, move, subscribe, restore |
| Rest | `utils`, `model`, `api`, `ui` | configuration, instance lock, schema, presentation | |

How they meet:

- A command handler (WebSocket or HTTP) either starts a run itself, under the session's dispatch
  lock, or puts the message in the **pending queue**.  The end of a run, timers, settings, the
  answer to a question and commands *trigger* the queue; one goroutine then steers the run, hands
  a message to the agent's own queue, or starts the next run.  A run that failed may wait for its
  **automatic retry**, which defers the queue.
- **Scheduled inputs** and retries enter through the same two doors.
- A run drives its agent; a **Codex run** answers, steers and stops through the app-server's
  pipes, and leaves the session's place before its server has gone (the drain).
- A run writes the **event log**; browsers see events, a revision for summaries and, apart from
  both, the pending list under a version of its own.
- File manager and worktree mutations *invalidate* the **scan coordinator**, which serves the
  status that the browser asks for.

What is hard, and what makes each part correct:

| Component | Hard | Correct when |
| --- | --- | --- |
| Pending queue | triggers race with the end of the processor; the head changes between peek and claim; calls fail after the agent accepted | one processor; nothing lost, taken twice, reordered or stranded; clients converge |
| Runs | several paths check and start | no run is replaced by another |
| Automatic retry | timers that were replaced still fire; senders, settings and archiving stop them in between; the row survives a restart, the timer does not | a stored retry is taken up or dropped (a failed session may go on deferring its queue without one, see [below](#disagreements-found)) |
| Scheduled inputs | replaced timers, restarts, stale rows, dependencies | every due input is sent once, also after a restart |
| Event log | text is buffered while other events come; an append or a projection fails; the server stops between the file and the row; deletion, cleanup and synchronisation in between | the file holds what was accepted, in order; every event is projected once; cursors and news are kept |
| Codex run | the server may crash, hang or stop reading at any time; completion, abort, drain timers and answers race | recorded once, answered once, no steer past a question that its last look could see, and it ends |
| Catch-up and browser store | frames, pages and snapshots of different revisions and epochs cross; loads fail; the stream is lost | nothing removed comes back; what the page lacks lies behind its cursor; a wanted load ends |
| Scan coordinator | shared flights, cached answers, mutations in between, deadlines | answers are not older than an announced mutation; nothing leaks; everybody is answered |
| Terminals | subscribers leave while output is sent; rows written from an old list | no send on a closed channel; closed terminals stay closed |

`PROJECT.json` lists the hazards at their lines, those without a property too.

## The pending input queue

`PendingInputs.tla` models one web session.  `Manager.mu` guards all maps, so an action is one
critical section, or one call made between two of them.

| State | Code |
| --- | --- |
| `queue`, `delivered`, `processing`, `dirty`, `timer` | `pendingInputs`, `pendingDeliveredOrder`, `pendingProcessing`, `pendingDirty`, `pendingInputTimers` |
| `fresh`, `shown` | the version was bumped since the last snapshot; what a client shows that keeps the newest version |
| `wpc`, `held` | goroutines of `runPendingProcessor`; `Workers` are slots, the code starts one per accepted trigger |
| `cl` | command handlers between their critical sections |
| `wakes` | goroutines about to call `triggerPendingProcessing` |
| `run`, `retryRun` | `runs[session]`: none, live, blocked by a question, aborting, or done and not yet released |
| `agent` | the agent of the session: whether its runs are steered, have a queue of their own, or neither |
| `deferring`, `retryArmed` | `autoRetryDefersPending` of the stored session, which holds for a failed one whether or not a retry is scheduled; whether `autoRetryTimers` has a timer or its callback is on its way |
| `archived`, `dlock` | `archived_at`, the dispatch lock |
| `accepted`, `handed`, `gone`, `moved`, `parked`, `passed` | history for the properties |

An input keeps its id, mode, whether it is paused, whether its `ReadyAt` has passed and whether
it carries the receipt of an accepted steer (`codexSteerReceipt`).  Texts, attachments, attempt
counts and errors are left out: no step depends on them other than through these.

| Actions | Code |
| --- | --- |
| `Send`, `Choose`, `SendDirect`, `Enqueue`, `ClientDispatch`, `ClientDispatched` | `sendMessageWithModeResult`, which reads the record (`Send`) and then `m.runs` (`Choose`), or without a mode neither asks for a run nor for a deferral (`SendDirect`); `queuePendingInput`, `sendMessageInternal` |
| `RemovePending`, `Update`, `Reorder`, `Move`, `Clear` with `Cancel`, `CancelOnly` | the four commands; timer, broadcast and trigger follow in steps of their own |
| `Abort`, `ExpireHeadRedirect`, `Archive*` | `AbortSessionForUser`, `ArchiveSession` |
| `Peek`, `Arm`, `ReadRun`, `GetSession`, `Claim`, `Persist`, `Steer`, `PiSend`, `Dispatch`, `Dispatched`, `Mark`, `Prepend` | the body of `runPendingProcessor` |
| `Finish`, `Restart` | `finishPendingProcessing` |
| `FireWake`, `TimerFires`, `Elapse` | `triggerPendingProcessing`, the timer's callback, time |
| `RunBlocks`, `RunUnblocks`, `ToolEnds`, `RunDone`, `ReleaseRun` | the life of a run, `maybeInterruptForRedirect`, `runSession`, `releaseActiveRun` |
| `AutoRetry`, `UpdateRetry`, `OtherRun` | `executeAutoRetry`, the retry's settings, runs started for other reasons |

A call to the agent or the database answers with any outcome that the code tells apart; the
constant `Faults` names those a run enables.  A steer that finds its run `done` may still have
been accepted.

Properties:

- `OneProcessor`: one processor loop at a time, and the flag says so.
- `NoRunReplaced`: who decided under the lock to start a run finds none when it starts.
- `NothingLost`: an acknowledged input is queued, in hand, taken or removed.
- `HandedOnce`: the agent takes an input once (when clients send an id once; see below).
- `QueueOrder`: unmoved queue-mode inputs are taken in order.
- `NoStranded`: an input that could be sent is never left with nobody to look at it, except those
  of `parked` and `passed`.
- `ClientsConverge`: after all broadcasts clients show the server's list.
- `ReceiptKept`: a receipt is never dropped while its input is queued.
- `EventuallyHanded`: under fairness every input is taken, removed, or behind a paused one, unless
  the session goes on deferring with no retry to come.

`parked` marks inputs whose dispatch failed: the code puts them back without a retry.  `passed`
marks inputs that were left for the retry of a failed run when a run started past them: a message
without a mode, a hidden run or a compaction, or a handler that read the record before the failure.  That
start wakes nobody, and a redirect among them waits for the next tool call or the end of the run.
`NoStranded` is stated for the others.  It leaves out an archived session, to which a dispatch is
refused: an input put back after the clearing by `ArchiveSession` waits there for a command.

A failed session defers its queue whether or not a retry is scheduled (`manager.go:3139`): the
failure may not qualify, the attempts may be used up (3171), or `executeAutoRetry` gives the retry
up (3215, 3227, 3231) and only clears its time.  `RunDone`, `AutoRetry`, `UpdateRetry` and the senders, which stop
the retry's timer, therefore treat `deferring` and `retryArmed` apart.  Settings that begin a
deferral of a session that failed earlier are left out; they would only add to the exception.

## The scheduled inputs

`ScheduledInputs.tla` models the rows of one session.  A row waits for a time or for the project
to be idle, and perhaps for another row (its parent).  Rows survive a restart, timers do not.

| State | Code |
| --- | --- |
| `row`, `archived` | `web_session_scheduled_inputs`, `archived_at` |
| `armed`, `reg` | timers that have not fired; `scheduledInputTimers` with their times |
| `monitor`, `busy` | `scheduledIdleTimer`; what `evaluateScheduledIdleConditions` finds |
| `lock` | `scheduledInputLocks`, one per row |
| `proc` | command handlers, callbacks of timers, the idle sweep |
| `rewake` | parents whose dependents could not be read |
| `sent`, `unmarked`, `robbed` | history for the properties |

| Actions | Code |
| --- | --- |
| `Schedule`, `Create`, `Update`, `WriteUpdate`, `Arm`, `Registered` | `scheduleInput`, `UpdateScheduledInput`, `setScheduledInputTimer` |
| `DispatchNow`, `Remove`, `Removed`, `Archive`, `CancelActive`, `CancelTimers` | the other commands, `cancelActiveScheduledInputs` |
| `Fire`, `Fired`, `Execute` | a timer's callback: from `Fire` on, `Stop` comes too late |
| `Check`, `Call`, `Mark`, `Wake`, `WakeArm`, `WakeRegister`, `Woken`, `Rewake` | `dispatchScheduledInputRecord`, `markScheduledInputDispatched`, `wakeScheduledDependents` |
| `FireMonitor`, `Look`, `Evaluate`, `Apply`, `SweepEnds`, `Stabilize` | `runScheduledIdleSweep`, `processScheduledIdleInput` |
| `Crash` | a restart with `recoverPendingScheduledInputs` |

Times are points of a clock of three; an idle period is not begun, begun or stable.

Properties:

- `SentOnce`: timer, sweep, parent and user may all want a row; it goes once, unless the record
  of the first time was lost (`unmarked`).
- `ParentFirst`: a row goes after its parent went, not after its parent failed or was removed.
- `OnTime`: a callback and the sweep act on the row as it is stored, not as they read it.
- `NoneForgotten`: a row that may go is always looked after by a timer, a goroutine or the sweep,
  except a row whose timer somebody without its lock has stopped (`robbed`).  `TimersKept` is the
  same without this exception, and the code violates it (see below).
- `EventuallyDecided`: under fairness such a row is handed over, fails or is refused.

Two kinds of failing calls are left out: reads at the start of an execution (`scheduled.go:1977`,
and of the parent at 2011), and the stores of `failScheduledInputByID` whose errors its callers
ignore (2027 to 2074).  Either leaves the row scheduled after its timer has fired, until a command or a
restart; `NoneForgotten` and `EventuallyDecided` hold apart from them.

## The event log

`EventLog.tla` models the log of one session: the file `history.jsonl`, the row in the database
and the event state between them, an object with a mutex that is looked up first and locked
later.

| State | Code |
| --- | --- |
| `file`, `torn` | lines with their sequence numbers; the last line may be incomplete after a crash |
| `log`, `cur` | objects of `eventStates`: closed, the last number, the buffered text with its timer, the projections to repeat with theirs |
| `holder`, `proc` | the mutexes; goroutines that emit, the two timers' callbacks, the keeper |
| `row`, `cursor`, `unread`, `attention`, `running` | the session's row |
| `view` | the attention revision that a browser has loaded |
| `said`, `projected`, `skipped`, `missed` | history for the properties |

| Actions | Code |
| --- | --- |
| `Emit`, `Enter`, `Buffer`, `Write` | `enqueueTextDelta`, `appendAndBroadcast` |
| `Flush`, `FlushTimer` | `flushPendingTextDeltaLocked` and its timer |
| `Project`, `Retry`, `RetryTimer` | `projectPersistedEvent`, `flushEventProjectionRetriesLocked` |
| `Start`, `EnterKeeper`, `DropRow`, `Clear`, `RemoveFile`, `Reset` | `DeleteSession`, `RunHistoryCleanup`, `syncSessionFromThreadSource` |
| `Crash`, `Restart`, `Recovered`, `RecoveryFails` | a restart with `recoverInterruptedSessions` |
| `BeginRun`, `EndRun`, `Load`, `MarkRead` | the row's status, a browser, `MarkSessionRead` |

`file` also counts a line that was written behind a torn one: its bytes are in the file, but
`readEvents` (`store.go:100`) skips a glued line, so `LogComplete` says that nothing is missing
from the file, not that every reader gets it back.

A piece is a chunk of a message or an event; it is known by its number, so that order and
completeness can be stated; `said` is the set of the numbers accepted.  An append fails before or after it took a number, with or without
a part of a line.

Properties:

- `LogComplete`: file and buffer together hold what was accepted, once and in order, and numbers
  only grow.
- `ProjectedInOrder`: every stored event is projected once, in the order of the file; `skipped`
  holds what was stored when the server stopped before its projection.
- `NewsKept`: a "read" for an older view does not erase news.
- `DeletedStaysQuiet`: nobody who waited for the mutex writes for a deleted session.
- `EventuallyKept`: nothing stays in the buffers for ever.

## Hydration

`Hydration.tla` models one browser page that shows one session: how its items get there from the
rows that `EventLog` ends with.

| State | Code |
| --- | --- |
| `server` | the session's `snapshot_revision`, `history_epoch`, last event, and the rows of its items |
| `unsent`, `notes`, `due` | an item projected and not broadcast; a frame whose row was read and that is not sent; a rewrite whose `resync_required` is to come |
| `stream` | the event socket: open, `focusedSID` on the server, the heartbeat that sets it, frames under way |
| `page` | the clocks `observed`, `applied`, `hydrated`; the revision of the summary (`known`); epoch, cursor and items; `pending`, `attempts` and the timer of `WebSessionSync`; the loads of the sync and of the panel |
| `reply` | an answer to a reconciliation or to `goal_get` |

| Actions | Code |
| --- | --- |
| `Project`, `Broadcast`, `Touch`, `Rewrite`, `Note`, `SendNote` | `projectPersistedEvent`, `broadcast`, `replaceSessionHistoryCache`, `reconcileSessionHistoryCache`, `broadcastResyncRequired`, `broadcastSessionSummary` |
| `AnswerCatchUp`; `ReadRecord`, `ReadRows` | `CatchUpSession`; `SnapshotIfChanged` and `loadSnapshotLocal`, which read the row and the items apart |
| `Respond`, `Fail` with `CaughtUp`, `Snapshotted` | `catchUpSessionInternal`, `loadSessionSnapshot` |
| `Deliver` with `Framed` | `applyFrame` |
| `Request`, `Start`, `Ended`, `Schedule`, `MarkHydrated`, `Cancelled`; `Fire`, `Elapse`, `Age` | the methods of `WebSessionSync`; its timer, `retryAfter` and the window of attempts |
| `Focus`, `Leave`, `Refresh`, `Ask`, `Answered` | focus, `refreshWebSessionCatchUp`, `reconcileRecentSessions`, `refreshGoal` |
| `Heartbeat`, `Disconnect`, `Reconnect` | the event socket |

The content of an item is the epoch and the event that wrote it, so that old and new content
differ.  Frames and answers cross in any order; both loads may be under way, and two snapshots
with the same minimum share one request.

`Rewrite` is the rewrite by the synchronisation with Codex and Claude, which holds the mutex of the events
(`sync.go:615`), so that no event is between its projection and its broadcast.  Left out are the
rewrites that do not: those of Pi's history (`reconcileLivePiHistory`, `syncImportedPiSession` in
`pi_sync.go`), and `ensureCompactGroupHistorySourceKeyDB` (`cache.go:409`), which deletes rows and
begins an epoch inside a projection.  The properties say nothing of these.

Properties:

- `TypeOK` holds the order of the clocks: hydrated, applied, observed, and the server's revision.
- `NoGhosts`: what a rewrite removed or replaced does not come back to a page that shows the new
  epoch, though older pages, snapshots and frames arrive.
- `OnlyFramesSkip`: what the page lacks of its epoch lies behind its cursor (`Recoverable`), and
  no load, failure or rewrite ends this.  A frame may (see [below](#disagreements-found)).
- `HydrationSettles`: under fairness a wanted load succeeds, is cancelled, or uses up its attempts.

## A Codex run

`CodexRun.tla` models the goroutine of a run, the app-server with its two pipes, the read loop,
`cmd.Wait`, and who else uses the run: answers of several browsers, a steered input, an abort or
a forced termination, the next send.

| State | Code |
| --- | --- |
| `current`, `drain`, `lock` | `m.runs`, `m.codexRunDrains`, the dispatch lock |
| `run` | per run: where its goroutine stands, the state of its request, `turnCompleted`, the drain's timers, the open request, the barrier `userInputResponsePending`, the outcomes recorded |
| `srv` | per run: the process, both pipes, `client.incoming`, who holds the write lock, what the server is doing |
| `steer`, `answer`, `stop` | goroutines that steer, answer and stop; `steer.late` is history: a question was recorded after the steer's last look |

| Actions | Code |
| --- | --- |
| `SendWaits`, `SendStarts` | `waitForCodexRunDrain`, `sendMessageInternal` |
| `RunRequests`, `RunProceeds`, `RunRefused`, `RunGivesUp`, `RunTearsDown` | `request`, `startOrResumeCodexThread`, `waitAndFailCodexAppServer` |
| `Loop*`, `GraceEnds`, `LimitEnds`, `RunEnds` | the loop of `runCodexAppServerSession`, its timers and its end |
| `Reader*`, `WaiterReturns` | `readLoop`, the goroutine of `cmd.Wait`, which drops output nobody has read |
| `Server*` | the app-server: it reads, answers, asks, ends its turn or leaves whenever it likes |
| `SteerPasses`, `SteerSends`, `SteerGivesUp` | `steerActiveCodexTurn` |
| `Answer*` | `respondToUserInput`, `respondToApproval` |
| `StopFinds`, `StopKills` | `AbortSession`, `ForceTerminateCodexAppServer` |

After `turn/start` a run may set its goal and read its configuration (`codex_app_server.go:784`);
these requests are one, `"goal"`, which may fail while the turn is already active and can be steered.

A message in the set `Big` is longer than the pipe: its writer keeps the write lock until the
server has read it.

Properties:

- `OneOutcome`: an ended run is recorded once, as done, failed or aborted; aborted only if
  somebody aborted it.  An abort before `releaseActiveRun` still finds a run whose turn completed;
  the check for an abort and the record are one step.
- `AnsweredOnce`: one answer for one request, whoever answers at once.
- `SteerBarrier`: `turn/steer` is not written past an open question, nor past an answer that no
  event has followed, with two exceptions: the question was recorded after the steer's last
  look at the barrier (`codex_app_server.go:1660`; the write at 1668 may wait long for the write
  lock), or it was removed by the end of an earlier answer.
- `Settles`: requests end, and a completed, crashed or aborted run ends, if writes to the server
  do.  Without this condition the code violates it (see below).

## The automatic retry

`AutoRetry.tla` models what `PendingInputs` takes in few steps: a run of one session that fails, the
retry that is stored for it and the timers that carry it out.

| State | Code |
| --- | --- |
| `row` | status, `auto_retry_enabled`, `auto_retry_attempt`, `auto_retry_next_at`, `archived_at` of the session, and whether its error qualifies |
| `mapped`, `armed` | `autoRetryTimers[session]`; timers that neither fired nor were stopped |
| `pc`, `plan` | the runner, command handlers and callbacks of timers, and what each is about to store or to register |
| `dlock`, `aborted` | the dispatch lock, `abortRequested` |
| `lost` | history for the property |

| Actions | Code |
| --- | --- |
| `Reconcile`, `Drop*`, `Arm*` | `reconcileAutoRetry`, `scheduleAutoRetry`, `setAutoRetryTimer` |
| `Fire`, `Fired`, `Execute`, `ClearCancel`, `ClearStore` | the callback of a timer, `executeAutoRetry`, `clearAutoRetryNextAt` |
| `SendLock` to `SendStart` | `sendMessageInternal`, for a client and for a callback |
| `RunEnds`, `RunEnded`, `RunFails`, `RunCloses`, `RunReleased` | `runSession`, `finishAbortedRun`, `handleRunFailureWithCode`, `releaseActiveRun` |
| `Send`, `Set`, `SetCancel`, `Abort`, `Archive*`, `Unarchive` | the commands |
| `Restart` | `recoverInterruptedSessions`, `recoverPendingAutoRetrySessions` |

Every step that stops a timer stops whatever timer the map holds, also one that another goroutine
has just set.  Nevertheless:

- `RetryAttended`: while the row promises a retry there is a timer, a callback, or somebody who has
  yet to schedule, to send or to say that the retry is left.
- `EventuallyDecided`: a session that waits for its retry does not wait for ever.  `PendingInputs`
  assumes as much of a retry that is armed, and lets the senders stop it.

`TypeOK` and `OneRun` (a retry and a message of the user never start two runs) are proved, and have
no run of their own.  The exceptions of the two properties, `lost`, are cases in which the code leaves the retry
without a timer: a sender stops it and is then refused, archiving and unarchiving meet a failing
run, or a failing call to the database is ignored (see [below](#disagreements-found)).

## The Git scan coordinator

`FileScans.tla` says what callers rely on: an answer shows the repository at some version not
older than the last one *announced* when the call was made, and not newer than the present.
`FileScanCoordinator.tla` is the coordinator.  Repository contents are version numbers; a key
stands for a kind of scan (status, diff stats, worktree status), its root and its options.  The
three kinds have the same code over maps of their own.

| Actions | Code |
| --- | --- |
| `Scan` | the critical section of `status`, `stats`, `worktreeStatus`: hit, join or start |
| `Return`, `Cancel` | `waitFor*Flight` |
| `AcquireGate`, `AcquireSlot`, `Expire` | `acquire` |
| `Execute`, `ReleaseGate` | the runner and `release` |
| `Finish` | `finish*Flight` with `removeExpiredLocked` |
| `Age` | an entry reaches its time to live |
| `Mutate`, `Invalidate`, `Edit` | a mutation of the file manager or worktree service, its `InvalidateFileScans`, an edit by anybody else |

A mutation and its announcement are two steps: a caller in between may be told the old state.  A
runner that is cancelled may return late, with what it saw or with an error.

Properties: `ReadsAnnounced`, `CacheAdvances`, `OneScanPerRoot`,
`EveryCallAnswered`, the slot limit as a part of `TypeOK`, and `Implements`: with the calls mapped
to `asked`, the coordinator is an implementation of `FileScans`.

## Runs and bounds

Bounds are constants in the guards; `MaxCommands`, `MaxFaults`, `MaxWakes`, `MaxVersion` and
`MaxGeneration` exist only for TLC.  Model values are symmetric except in the liveness runs.

| Run | Module | Instance | Shows |
| --- | --- | --- | --- |
| `pending_codex` | `MCPendingInputs` | 3 ids, 1 handler, 4 commands, sends without a mode among them, 1 of 5 faults, 1 delivered id remembered | all safety properties of a steerable run but `NoRunReplaced` |
| `pending_agents` | `MCPendingInputs` | Pi and an agent without steering; 2 ids, 2 handlers, 4 commands, 1 of 5 faults, sends without a mode, clearing, archiving, hidden runs | starts and wakeups with a native queue, and when redirects and handlers stop and start runs |
| `pending_live` | `MCPendingInputs` | 2 ids, 3 commands with reorder, sends without a mode and the retry's settings, 1 of 4 faults | `EventuallyHanded` |
| `scheduled` | `MCScheduledInputs` | 2 rows, 2 commands, 2 callbacks, a clock of 2, 1 of 5 faults with a restart | all properties of the scheduled inputs |
| `eventlog` | `MCEventLog` | 2 messages, 3 pieces, a buffer of 2, 1 command, 2 of 4 faults with crashes | all properties of the event log |
| `codex_run` | `MCCodexRun` | 1 run, 2 browsers, two questions or approvals, one steer, requests after the start of the turn, channels of 1 | all properties of a run |
| `autoretry` | `MCAutoRetry` | 2 handlers with 2 commands, 2 timers, 1 attempt, 1 failing call or restart | `RetryAttended`, `EventuallyDecided` |
| `hydration` | `MCHydration` | 2 items, 3 events, 2 epochs, 3 revisions, pages of 1 item, 2 attempts, 1 frame under way, 1 of 8 faults | all properties of hydration |
| `scans_reads` | `MCFileScanCoordinator` | 1 key, 2 callers, 2 changes, 2 invalidations | answers, cache, gate and refinement |
| `scans_live` | `MCFileScanCoordinator` | 3 keys of 2 roots, 1 slot | types, slot limit, `EveryCallAnswered` |
| `pending_resend`, `scheduled_timer` | | | disagreements, see below |

Why these are enough.  A queue of three holds a claimed head, one to overtake it and one behind;
two worker slots are one more than may ever be active; two wakes are one that starts a processor
and one that leaves the note.  One fault with three ids reaches every error path with traffic
around it, and with two ids and two handlers their meeting with starts of runs.  `MaxDelivered = 1` makes the delivered
list overflow.  For scans, two generations are an overtaken flight and its successor and a third
may follow; two keys of a root compete for its gate with a free slot, and two roots compete for
one slot with a gate held.

For scheduled inputs two rows are a parent and its dependent, two callbacks are the old and the
new timer of a row, and one fault is a restart or one failing call at any point.  For the log,
three pieces are text, text of another message and an event behind it, in each order, with the
buffer filling up; two faults are an append or a projection that fails and then fails again, or a
crash after one.  For a Codex run, channels of one message block as those of 64 do; the prompt,
a steered input and an answer may be longer than the pipe, the shorter requests are not.  Two
requests are one that is asked while the answer to the other is being recorded; one run keeps the
run exhaustive, and what a second one shows is told below.  For the
retry two timers are an old and a new one, two handlers race each other and the run, and one
attempt is a retry followed by a failure that is given up.

For hydration two events after the first load fill two catch-up pages, and an event with a rewrite
leaves rows of both epochs under way; the faults are a failing request, a lost stream, leaving the
session, the end of the window of attempts, a change of the row alone, its summary frame, a
reconciliation and a `goal_get`, one of them at any point.

Deadlock checking is off: a session with an empty queue and no commands left rests, and so does
a repository nobody asks about, a schedule whose rows are decided, a run that has ended, and a
page that shows everything.

**Fairness.**  In `PendingInputs`: goroutines that have begun run on, timers expire, a run ends
and is released, a retry that is armed happens (weak fairness); `FireWake` is strongly fair, because it
waits for a slot of `Workers` where the code starts a goroutine.  Not assumed: that users send
commands, that settings change, that a run asks or answers questions.  In `FileScanCoordinator`:
each flight makes progress, strongly, since Go serves the goroutines blocked in a channel send in
their order; no deadline or cancellation needs to happen.

In `ScheduledInputs`: time passes, due timers fire, goroutines run on, and an idle period that
lasts becomes stable; the project need not become idle.  In `EventLog`: goroutines run on, the two
timers fire, and somebody starts the server again.  In `CodexRun`: the goroutines of the server's
side of CodeKanban run on and the drain's timers expire; the app-server itself need not read,
answer or leave, and nobody need abort.  In `AutoRetry`: goroutines run on, timers fire and a run
ends, as it does in `PendingInputs`; no command, failure or restart need happen.  In
`Hydration`: requests are answered, `retryAfter` passes and the timer fires; frames need not arrive.
All of these are weak.

`EventuallyHanded` is checked for the steerable agent, without failing dispatches, which park an input; without failing
lookups and archiving, which remove inputs; and without clearing, because of the
race of `clear` below.  Runs that fail may defer for ever there, with no retry or with one that was given up or
stopped; that is the last exception of the property.

## Disagreements found

| Run | Property | What happens |
| --- | --- | --- |
| `pending_resend` | `HandedOnce` | `docs/web-session-hydration-protocol.md:244` calls a resend after a lost acknowledgement idempotent.  An id that the processor holds between claim and mark, or that was dispatched directly, is not recognised, and the agent takes it twice. |
| `scheduled_timer` | `TimersKept` | A timer's callback stops whatever timer is registered for its row and compares its own time only then.  If an update replaces the timer of a row whose old callback is just starting, the new timer is stopped and the row stays scheduled with none.  `scheduled_test.go:579` promises that the updated message is dispatched. |

Seen with TLC in variants of the runs, which are not kept as runs; documents promise otherwise in
the first two cases:

- `docs/web-session-hydration-protocol.md:70` calls appended items "recoverable by cursor".  A frame
  moves the page's cursor behind its own item (`webSession.ts:5757`), although an earlier item may
  have been missed: the stream was down, the server did not know the focus yet, or a
  reconciliation had marked a newer revision as applied.  The next catch-up starts behind the
  missed item and marks the revision as hydrated, so the item stays away until a snapshot
  (`hydration` with `Recoverable` as invariant: 10 steps, with no fault at all).
- `codex_app_server.go:410` says an RPC never keeps a session running for ever.  The deadline covers
  the wait for the response only; a prompt longer than the pipe, written to a server that no longer
  reads, blocks in the write (`codex_run` with `Settles` without its condition).
- When the attempts are used up, the wanted revision stays pending without a timer, and
  `refreshWebSessionCatchUp` leaves it to the sync; only a later notice tries again.
- Two snapshots of the same revision may show different rows, because the row and the items are
  read apart; the one that arrives last wins until the next load.

- `reorderPendingInput` tests the delivery lock in one critical section and moves the item in
  another; a mode change in the second erases a receipt that arrived in between, and the message
  is steered again (`pending_codex` with `reorder`, `ReceiptKept`).
- Clearing an empty queue cancels the timer after its critical section.  A failed steer put back
  in between loses its retry (`pending_codex` with `clear`, `NoStranded`).
- `sendMessageInternal` starts a run without waking the queue.  A message without a mode
  (`pending.go:508`, `524`), a hidden run, or a handler that read the record before the failure starts one while the
  queue is deferred; a queued redirect that was left for the retry then waits for the next
  tool call or the end of the run.  One client is enough (`pending_codex` with `NoStranded` without its
  exception `passed`).
- `autoRetryDefersPending` (`manager.go:3139`) looks at the status and the settings, not whether a retry is
  scheduled.  After a failure that does not qualify, after the last attempt, after a retry that was
  given up, and when a sender stopped the timer and was then refused, the queue stays deferred until a
  user sends, changes a setting or archives (`pending_live` with `EventuallyHanded` without its last
  exception).
- Between the last look of a steer at the barrier (`codex_app_server.go:1660`) and its write
  (1668), which waits for the write lock, the loop may record a question; the steer is then written past
  it (`codex_run` with `SteerBarrier` without its exception `late`).
- `AbortSessionForUser` brings the redirect at the head forward after it has asked the run to stop.
  If by then the next run is there and has refused to be steered by a redirect, that one's retry timer
  is stopped, and nobody is woken because there is a run (`pending_codex` with `abort` and
  `NoStranded`).
- `scheduleInput` writes its row and arms the timer without the row's lock.  An update in between
  registers its timer first, and the older call then replaces it by a timer for a time that is no
  longer stored (`scheduled` with two clients; such a row counts as `robbed`).  A parent that wakes
  its dependents does the same.
- Two updates at once may make two scheduled rows wait for each other (`scheduled` with two
  clients).
- An answer forgets whatever request is open when it has been written (`clearPendingServerRequest`,
  `active_run.go:541`, compares no id; `clearPendingControlRequest` next to it does), also a
  question that arrived since: the question is lost and steers pass it (`codex_run` with
  `SteerBarrier` without its exception `lost`).
- A send reads the drain and the active run one after the other; a run that completes in between
  lets a second one start while the first still drains (`codex_run` with `MaxRuns = 2`).
- A sender stops the retry timer before it looks for an active run.  If a failed run has stored
  its retry and is not yet released, the sender is refused and the retry has no timer: the session
  waits, and defers its pending inputs, until a command or a restart (`autoretry` without the
  exception `lost`; likewise the next two).
- `executeAutoRetry` returns when the session cannot be read, and ignores a failure to clear the
  time of the retry; either leaves a stored retry with no timer.  So does a failing read at the
  start of `reconcileAutoRetry`.
- Archiving stores its row and stops the timer in two steps, between which `UpdateAutoRetry` may
  store a retry that unarchiving then shows with nobody to carry it out.
- Two of `scheduleAutoRetry` at once, from a failing run and `UpdateAutoRetry`, each arm a timer;
  the one that is not in the map can no longer be stopped.
- When both drain timers are due, the loop may take the hard limit first and leave the server
  running without anybody to stop it.

The passing runs keep the resend and the first two of these out (`Resend = FALSE`; no reorder where
`ReceiptKept` is checked, and clear only with agents that have no timed retries), and
`pending_codex` has no `abort`, so that they say what holds apart from all this.  Its one client is a
matter of size: with two clients and failing runs TLC finds no violation either.

## Proofs

All theorems hold for any sets of ids, clients, workers, roots, keys and callers and any bounds,
from `ConstantsAssumption`, `ScanAssumption`, `ScheduleAssumption`, `EventLogAssumption`,
`CodexRunAssumption`, `RetryAssumption` and `HydrationAssumption` alone, except five of
`PendingInputs` that the findings above limit.  Their hypotheses say which commands or failing
calls do not happen.  `pending_codex` meets all of them, `pending_agents` the last:

- `HandedOnceCorrect`, `QueueOrderCorrect`: `~Resend` (`pending_resend` shows what happens
  otherwise).
- `HandedOnceCorrect`, `ReceiptKeptCorrect`: no `reorder`, whose lock check comes too early.
- `ReceiptKeptCorrect`, `ClientsConvergeCorrect`: no failing session lookup, and for the second no
  `archive`: both drop the queue, receipts included, and broadcast nothing.
- `NoStrandedCorrect`: if there is a Codex session, no `abort` and no `clear`, each of which may
  strand an input that waits for a timer (see above).  Pi and agents without steering have no such
  timer, and for them it holds with all commands and faults.

| Theorem | Module | Argument |
| --- | --- | --- |
| `TypeCorrect` | `PendingInputs_types` | `TypeInv` splits `TypeOK` by variable and adds that a handler or worker with an input in its program counter has one; one lemma per action |
| `ProcessorCorrect` | `PendingInputs_proofs` | `ProcessorInv` is `OneProcessor` itself, inductive: a loop begins only when the flag is down and raises it in the same step |
| `StartCorrect` | `PendingInputs_proofs` | `NoRunReplaced` with `TypeInv`: between check and start the dispatch lock is held, and all who start hold it or need it free |
| `LostCorrect` | `PendingInputs_proofs` | `NothingLost` alone is not inductive: `Enqueue` acknowledges without queueing an id that is `delivered`, and `Persist` lets go of an item because it was taken.  `Safe` adds that receipts in the queue and in hand belong to ids already taken |
| `QueueOrderCorrect` | `PendingInputs_proofs` | `DeliveryInv`: an id is in one place (`PlacesInv`: once in the queue, or in hand, or still with the one handler that brings it), and for two unmoved inputs `OrderInv` follows the later one: in the queue the earlier is before it, in hand or taken; in hand, and among the taken, the earlier was taken before.  A claim takes the head, so nothing was before it; a prepend puts the hand before everything that waited for it |
| `HandedOnceCorrect` | `PendingInputs_proofs` | `DeliveryInv` with `OnceInv`: an id that was taken is queued again only with its receipt, which sends it to the local write, and what the processor is about to hand over has not been taken |
| `ReceiptKeptCorrect` | `PendingInputs_proofs` | a step property, from `ReceiptInv`: no handler is about to move, and a queue is cleared for an archive only once the session is archived |
| `ClientsConvergeCorrect` | `PendingInputs_proofs` | `ShownInv`: a bumped version that was not broadcast has a handler at `cancel`, every other mutation broadcasts in its own step |
| `NoStrandedCorrect` | `PendingInputs_proofs` | `StrandInv`: `NoStranded` with what each goroutine relies on.  A head that promises work has somebody who attends to it, or nobody is at rest who left it so (`Left`); what the processor peeked is still so or somebody attends to the change (`Peeked`, `Offered`, `PutAway`); a note is left only with a processor that will read it (`Noted`); only Codex sessions have timers and receipts (`Untimed`), and there nobody cancels a timer without a trigger (`NoCancels`); a queue is deferred only while no run is under way (`Settled`), so that a run that starts with a deferred queue has put all of it among `passed` |
| `ReadsCorrect`, `CacheCorrect` | `FileScanCoordinator_proofs` | `ScanInv`: a flight of the current generation that has started sees no less than what is announced and what is cached, there is none of a later generation, and a waiting caller's floor is met by the flight it joined |
| `GatesCorrect`, `ScanTypesCorrect` | `FileScanCoordinator_proofs` | `OneScanPerRoot` with `SlotsCounted`: `slots` is the number of flights that run, so it never goes below zero or above the limit |
| `CoordinatorImplements` | `FileScanCoordinator_proofs` | `ScanInv` makes every `Scan` an `Ask`, every `Return` an `Answer` or `GiveUp`, every `Invalidate` an `Announce`, the rest stutters |
| `OutcomeCorrect` | `CodexRun_proofs` | `RunsGood`: a run that has not ended has recorded `done` if and only if its turn completed, and waits for a response only while it makes a request; the failure path therefore starts with nothing recorded, and the last step appends at most one outcome |
| `RunTypesCorrect`, `AnsweredOnceCorrect`, `SteerBarrierCorrect` | `CodexRun_proofs` | `IInv`: a turn exists once (asked for, running, or its end on its way) and not at all once the run is completed (`OneTurn`); a request exists once (on its way, open, or as the answer on its way back) (`OneQuestion`); who answers holds the lock, so its request is still open when it writes (`Held`); a run keeps `req = "input"` or `responding` until an event after the answer (`Walled`); what a steer found free at its last look stays free until a question is recorded, since who writes an answer finds its request open, and so not the free run's (`Barred`).  Counting messages in the pipes by kind makes each step of the reader, the writer and the server an equation |
| `ScheduleTypesCorrect`, `SentOnceCorrect`, `ParentFirstCorrect` | `ScheduledInputs_proofs` | `IInv`: whoever is past its check holds the lock of its row, and the row is open until its result is recorded; a row that was sent is decided, in the hands of its sender, or `unmarked`.  A second sender gets the lock only after the record and finds the row decided |
| `OnTimeCorrect` | `ScheduledInputs_proofs` | a step property, from `IInv`: what a callback or the sweep compares under the lock is the stored row, not the one it read before |
| `NoneForgottenCorrect` | `ScheduledInputs_proofs` | `NoneForgotten` speaks of the moment nobody has a row in hand; `KInv` speaks of every moment: who holds a row's lock has it in hand (`Owned`), who is about to arm, delete or stop says so in its program counter (`Stores`, `Removes`, `Clean`), and `Kept` says that whoever lets go of an open row has armed its timer, asked for a sweep, listed it among the rows to wake, or decided it, so that only `robbed` rows are left |
| `EventLogTypesCorrect` | `EventLog_proofs` | `Control`: whoever is past its lookup holds the mutex of the object in the map, of a session whose row exists (only the deletion goes on after both are gone), so one goroutine works at a time; objects before the one in the map are closed, those behind it unused |
| `LogCompleteCorrect` | `EventLog_proofs` | `Complete` with `Buffered`: whoever writes or projects a line has found no buffered text, and the timer, a cap or another event stores all of it, so the buffer is always newer than the file; a new number exceeds the last one of the file and of the row |
| `ProjectedInOrderCorrect` | `EventLog_proofs` | `Projected`: what was projected, what waits to be projected again, the line in hand and the buffer are four stretches of one increasing sequence, and a step moves the front of one to the end of the one before it |
| `NewsKeptCorrect`, `DeletedStaysQuietCorrect` | `EventLog_proofs` | step properties, from `IInv`: while news were missed the loaded revision is behind (`News`); without a row only the deletion is at work (`Mutexes`) |
| `PageTypesCorrect`, `NoGhostsCorrect` | `Hydration_proofs` | `IInv`: the rows are of the current epoch, a frame's item and an answer's items are no older than the epoch they name, and neither names a revision or an epoch that the server has not reached.  The page takes a frame or a catch-up page only in the epoch it names, and a snapshot replaces all it shows.  Every helper of the page keeps `WellFormed` and leaves items and epoch alone |
| `OnlyFramesSkipCorrect` | `Hydration_proofs` | `IInv` with `CInv`: no item on its way, in an answer or on the page is newer than the row of its epoch; whoever read a record has its number of events and, ordered by revision, no smaller number than an earlier read, frame or the page's cursor.  A catch-up page then covers all behind the cursor up to its own, a snapshot all but later events, and the helpers that show nothing leave the page's clocks alone (`Follow`) |
| `RetryAttendedCorrect`, `OneRunCorrect`, `RetryTypesCorrect` | `AutoRetry_proofs` | `IInv`: who is past the lock of `sendMessageInternal` holds it and finds no run where it starts one (`OneRun`), so that from storing a run to its outcome no error is stored (`Lively`): a sender that starts, and a run that ends, stop the timer of a row that waits for nothing.  Who stops a timer to schedule another attends to the row until that one runs; who gives a retry up has decided to store that (`GivesUp`) |

`PendingInputs_types` also states what the sequence operators return and preserve;
`PendingInputs_proofs` says with `Without` what inserting, removing, claiming and prepending one item
do to the places of the others, so that ids, receipts and order follow from one lemma each.  In
`ScheduledInputs_proofs` `OthersSure`, `OwnersKept`, `Onward`, `Drops` and their neighbours say once
what a step leaves alone, so that the lemma of an action proves only what the action changes.

Checked by TLC only: liveness, which is out of the prover's reach: `EventuallyHanded`,
`EveryCallAnswered`, `EventuallyDecided` of both modules, `EventuallyKept`, `Settles` and
`HydrationSettles`.  Of these `NoStranded`, `NoneForgotten`, `RetryAttended` and `OneScanPerRoot` with
the slot count are the safety part, that somebody is always there to go on, and are proved.
Pieces and lines of the event log are compared as sets of numbers, with the order between them stated apart, because what a
recursive definition like a concatenation of many sequences yields cannot be proved here.

## What is not covered

- Values: texts, attachments, titles, event payloads, Git output, wire formats.
- Agent processes: in `PendingInputs` a steer, a native send or a dispatch answers with one of the
  outcomes the code distinguishes; in `CodexRun` the app-server is any program that keeps to the
  protocol's order of requests and responses.  Devin, Pi and Claude are not modelled in detail,
  nor are sub-agents and the rollout tail of a Codex run.
- The database, except that a write or a read may fail where the code handles it.
- Restarts of the pending queue and of runs: both live in memory and are gone after one.
- Several sessions: sessions share no state but the 64 dispatch locks, which another session may
  hold for a while, and the idle conditions of a project, which `Busy` stands for.
- Pi's shadow of its native queue (`piNativeQueuedInputs`), and Claude's resume, beyond the run
  each leads to.
- Of the browser: conditional snapshots, malformed answers and the limits against them, archived
  previews, the paging of older history, rendering.
- The components marked not modelled in `PROJECT.json`, with the reason there.

## Plan

Written: 1. `PendingInputs`; 2. `FileScans`, `FileScanCoordinator`; 3. `ScheduledInputs`;
4. `EventLog`; 5. `CodexRun`; 6. `AutoRetry`; 7. `Hydration`.  Next, in this order:

8. `TerminalSessions` (`service/terminal`): subscribers, closing, rows to restore.
9. `CommandChannel` (`packages/node-sdk`): requests, acknowledgements, follow-up frames.
10. `DevinRun` (`devin_acp.go`), with the same properties as `CodexRun` where they apply.

Every safety property of the passing runs is proved.  A proof still worth having: that the steps
`RunDone`, `AutoRetry` and `UpdateRetry` of `PendingInputs` are what the module `AutoRetry` does.
