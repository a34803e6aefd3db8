--------------------------- MODULE PendingInputs ---------------------------
(***************************************************************************)
(* The pending input queue of one web session: service/websession/         *)
(* pending.go, with the parts of manager.go that start, end and interrupt  *)
(* runs.                                                                   *)
(*                                                                         *)
(* Command handlers (Clients) put follow-up messages in an in-memory queue *)
(* while an agent run is active; one background goroutine at a time        *)
(* (runPendingProcessor, a slot of Workers) peeks the head, claims it and  *)
(* steers the run, starts a new run, or schedules a retry.  Every access   *)
(* to the shared maps is one critical section of Manager.mu, so an action  *)
(* below is one critical section, or one call that the goroutine makes     *)
(* between two of them.                                                    *)
(*                                                                         *)
(* An item keeps its id, its mode, whether it is paused, whether its       *)
(* ReadyAt has passed (due) and whether the agent already accepted it and  *)
(* only the local write is missing (receipt).  Text, attachments, attempt  *)
(* counts and error strings are abstracted away.                           *)
(*                                                                         *)
(* Definitions marked "variant" are plausible wrong versions of the one    *)
(* they precede; mutation runs put them in its place.                      *)
(***************************************************************************)
EXTENDS Naturals, Sequences, SequencesExt, FiniteSets

CONSTANTS
  Ids,           \* pending ids the clients use
  Clients,       \* command handler goroutines
  Workers,       \* goroutine slots of runPendingProcessor
  NoOne,         \* nobody holds the dispatch lock
  Agents,        \* what the session may run: "codex" (steerable), "pi" (native queue), "cli"
  Ops,           \* the commands the clients issue
  Faults,        \* the calls that may fail
  Resend,        \* may a client send an id again?
  MaxDelivered,  \* maxDeliveredPendingInputs
  MaxCommands,   \* bound: commands issued
  MaxFaults,     \* bound: failing calls
  MaxWakes       \* bound: goroutines about to call triggerPendingProcessing, further ones merge

ASSUME ConstantsAssumption ==
  /\ Agents \subseteq {"codex", "pi", "cli"}
  /\ Resend \in BOOLEAN
  /\ MaxDelivered \in Nat \ {0}
  /\ MaxCommands \in Nat
  /\ MaxFaults \in Nat
  /\ MaxWakes \in Nat \ {0}
  /\ Clients \cap Workers = {}
  /\ NoOne \notin Clients \cup Workers
  /\ Ids \cap {"off", "recheck"} = {}    \* the other values of timer

VARIABLES
  agent,       \* the agent of the session, chosen when it was created
  queue,       \* pendingInputs[session]
  delivered,   \* pendingDeliveredOrder[session]
  processing,  \* pendingProcessing[session]
  dirty,       \* pendingDirty[session]
  timer,       \* pendingInputTimers[session]: what its deadline was taken from
  wpc, held,   \* the processor goroutines: program counter, item in hand
  cl,          \* the command handlers: program counter and arguments
  wakes,       \* goroutines that changed state and have yet to trigger
  run,         \* runs[session]: "done" when run.done is closed, not yet released
  retryRun,    \* that run's fromAutoRetry
  deferring,   \* autoRetryDefersPending of the stored session
  retryArmed,  \* autoRetryTimers[session] has a timer, or its callback is on its way
  archived,    \* the session's archived_at is set
  dlock,       \* holder of the session dispatch lock
  fresh,       \* pendingVersion was bumped since the last snapshot
  shown,       \* what a client that applies the newest version displays
  cmds, faults,\* commands issued, calls failed (bounds)
  accepted,    \* history: inputs acknowledged as pending, in order
  handed,      \* history: ids the agent took, in order
  gone,        \* history: ids removed by a command or cleared with the session
  moved,       \* history: ids whose place or mode a command changed
  parked,      \* history: ids whose dispatch failed and is not retried
  passed       \* history: ids left for a retry when another run started

procVars == <<processing, dirty, wpc, held>>
queueVars == <<queue, fresh, shown>>
runVars == <<run, retryRun, deferring, retryArmed, archived, dlock>>
bounds == <<cmds, faults>>
history == <<accepted, handed, gone, moved, parked, passed>>
state == <<queueVars, delivered, timer, procVars, cl, wakes, runVars, bounds, history>>
vars == <<agent, state>>

Modes == {"redirect", "queue"}
Item == [id : Ids, mode : Modes, paused : BOOLEAN, due : BOOLEAN, receipt : BOOLEAN]
NoItem == [id |-> NoOne, mode |-> "queue", paused |-> FALSE, due |-> TRUE, receipt |-> FALSE]
NewItem(i, mode) ==
  [id |-> i, mode |-> mode, paused |-> FALSE, due |-> TRUE, receipt |-> FALSE]

ClaimPCs == {"claimReceipt", "claimSteer", "claimPi", "claimDispatch"}
CallPCs == {"persist", "steer", "markSteer", "piSend", "markPi", "dispatch",
            "dispatching", "markDispatch"}
PrependPCs == {"prependArm", "prependPeek", "prependStop"}
ActivePCs == {"peek", "arm", "readRun", "getSession", "finish"}
               \cup ClaimPCs \cup CallPCs \cup PrependPCs
WorkerPCs == ActivePCs \cup {"idle", "restart"}
ClientPCs == {"idle", "choose", "chooseDeferred", "enqueue", "dispatch", "direct", "dispatching",
              "move", "cancel", "cancelOnly", "expire", "archiveStop", "archiveMark", "archiveClear"}
RunStates == {"none", "live", "blocked", "aborting", "done"}

Due(item) == [item EXCEPT !.due = TRUE]
Accepted(item) == [item EXCEPT !.receipt = TRUE]
Edited(item, p) == [item EXCEPT !.paused = p, !.due = TRUE]

AcceptedIds == {accepted[k].id : k \in 1..Len(accepted)}
IdsIn(q) == {q[k].id : k \in 1..Len(q)}
View(q) == [k \in 1..Len(q) |-> <<q[k].id, q[k].mode, q[k].paused>>]
FirstWith(q, i) == {k \in 1..Len(q) : q[k].id = i /\ \A j \in 1..(k - 1) : q[j].id # i}
NeverLocked(item) == FALSE                                     \* variant
Locked(item) == item.receipt

\* insertPendingInput: redirects go before the first queue-mode item
Redirects(q) == Cardinality({k \in 1..Len(q) : \A j \in 1..k : q[j].mode = "redirect"})
InsertPending(q, item) ==
  IF item.mode = "redirect" THEN InsertAt(q, Redirects(q) + 1, item)
                            ELSE Append(q, item)

RememberAll(d, i) == IF i \in ToSet(d) THEN d ELSE Append(d, i)  \* variant

\* markPendingInputDelivered: a FIFO of bounded length
Remember(d, i) ==
  IF i \in ToSet(d) THEN d ELSE IF Len(d) < MaxDelivered THEN Append(d, i) ELSE Append(Tail(d), i)

Init ==
  /\ agent \in Agents
  /\ queue = <<>> /\ fresh = FALSE /\ shown = <<>>
  /\ delivered = <<>> /\ timer = "off" /\ wakes = 0
  /\ processing = FALSE /\ dirty = FALSE
  /\ wpc = [w \in Workers |-> "idle"] /\ held = [w \in Workers |-> NoItem]
  /\ cl = [c \in Clients |-> [pc |-> "idle", id |-> NoOne, mode |-> "queue"]]
  /\ run = "none" /\ retryRun = FALSE /\ deferring = FALSE /\ retryArmed = FALSE
  /\ archived = FALSE /\ dlock = NoOne
  /\ cmds = 0 /\ faults = 0
  /\ accepted = <<>> /\ handed = <<>> /\ gone = {} /\ moved = {}
  /\ parked = {} /\ passed = {}

-----------------------------------------------------------------------------
(* Shared pieces of the handlers.                                          *)

\* a mutation of pendingInputs together with bumpPendingVersionLocked
Mutate(q) == queue' = q /\ fresh' = TRUE /\ UNCHANGED shown

\* variant: claiming and putting back do not bump the version
ShowUnbumped(q, bumped) ==
  queue' = q /\ shown' = (IF fresh THEN View(q) ELSE shown) /\ fresh' = FALSE

\* broadcastPendingInputs of the list q: a client ignores a version it already applied
Show(q, bumped) ==
  /\ queue' = q
  /\ shown' = IF fresh \/ bumped THEN View(q) ELSE shown
  /\ fresh' = FALSE

\* variant: the processing flag is not looked at
TriggerAlways(Free) ==
  \E w \in Free :
    /\ processing' = TRUE /\ dirty' = FALSE
    /\ wpc' = [wpc EXCEPT ![w] = "peek"] /\ held' = [held EXCEPT ![w] = NoItem]

\* triggerPendingProcessing: start a processor in a slot of Free or leave a note
Trigger(Free) ==
  IF processing
    THEN dirty' = TRUE /\ UNCHANGED <<processing, wpc, held>>
    ELSE \E w \in Free :
           /\ processing' = TRUE /\ dirty' = FALSE
           /\ wpc' = [wpc EXCEPT ![w] = "peek"]
           /\ held' = [held EXCEPT ![w] = NoItem]

Go(w, pc) == wpc' = [wpc EXCEPT ![w] = pc]
Hold(w, item) == held' = [held EXCEPT ![w] = item]
IdleWorkers == {w \in Workers : wpc[w] = "idle"}
Fail(f) == f \in Faults /\ faults < MaxFaults /\ faults' = faults + 1 /\ UNCHANGED cmds
Command(op) == op \in Ops /\ cmds < MaxCommands /\ cmds' = cmds + 1 /\ UNCHANGED faults
Client(c, pc, i, mode) == cl' = [cl EXCEPT ![c] = [pc |-> pc, id |-> i, mode |-> mode]]
Return(c) == Client(c, "idle", NoOne, "queue")
Wake == wakes' = IF wakes < MaxWakes THEN wakes + 1 ELSE wakes
AnyTime == TRUE                                                \* variant
LockFree == dlock = NoOne
StartRun(retry) ==
  run' = "live" /\ retryRun' = retry /\ deferring' = FALSE /\ retryArmed' = FALSE
PassQueue == passed' = IF deferring THEN passed \cup IdsIn(queue) ELSE passed

\* clearPendingInputs: archive and lookup failure drop everything, with no broadcast
DropAll ==
  /\ queue' = <<>> /\ fresh' = (fresh \/ queue # <<>>) /\ UNCHANGED shown
  /\ timer' = "off" /\ dirty' = FALSE
  /\ gone' = gone \cup IdsIn(queue)

-----------------------------------------------------------------------------
(* Command handlers.                                                       *)

Unused(i) ==
  i \notin AcceptedIds \cup ToSet(handed) \cup {cl[d].id : d \in Clients}

\* sendMessageWithModeResult with a mode: first the stored session is read ...
Send(c, i, mode) ==
  /\ cl[c].pc = "idle" /\ Command("send") /\ ~archived /\ (Resend \/ Unused(i))
  /\ Client(c, IF deferring THEN "chooseDeferred" ELSE "choose", i, mode)
  /\ UNCHANGED <<queueVars, delivered, timer, procVars, wakes, runVars, history>>

\* ... then m.runs: the queue, or a new run
Choose(c) ==
  /\ cl[c].pc \in {"choose", "chooseDeferred"}
  /\ Client(c, IF run # "none" \/ cl[c].pc = "chooseDeferred" THEN "enqueue" ELSE "dispatch",
            cl[c].id, cl[c].mode)
  /\ UNCHANGED <<queueVars, delivered, timer, procVars, wakes, runVars, bounds, history>>

\* without a mode the queue is no choice, neither a run nor a deferral is looked at
SendDirect(c, i) ==
  /\ cl[c].pc = "idle" /\ Command("direct") /\ ~archived /\ (Resend \/ Unused(i))
  /\ Client(c, "direct", i, "queue")
  /\ UNCHANGED <<queueVars, delivered, timer, procVars, wakes, runVars, history>>

\* queuePendingInput: an id that is queued or delivered is acknowledged again
Enqueue(c) ==
  LET i == cl[c].id IN
  /\ cl[c].pc = "enqueue"
  /\ IF i \in IdsIn(queue) \cup ToSet(delivered)
       THEN Return(c) /\ UNCHANGED <<queueVars, history>>
       ELSE /\ Mutate(InsertPending(queue, NewItem(i, cl[c].mode)))
            /\ accepted' = Append(accepted, [id |-> i, mode |-> cl[c].mode])
            /\ Client(c, "cancel", i, cl[c].mode)
            /\ UNCHANGED <<handed, gone, moved, parked, passed>>
  /\ UNCHANGED <<delivered, timer, procVars, wakes, runVars, bounds>>

\* sendMessageInternal under the dispatch lock: the checks, which stop the retry's timer ...
StopsRetry == retryArmed' \in {FALSE, retryArmed}
ClientDispatch(c) ==
  /\ cl[c].pc \in {"dispatch", "direct"} /\ LockFree
  /\ \/ archived /\ Return(c) /\ UNCHANGED <<retryArmed, dlock>>
     \/ /\ ~archived /\ run # "none" /\ StopsRetry /\ UNCHANGED dlock
        /\ IF cl[c].pc = "direct" THEN Return(c) ELSE Client(c, "enqueue", cl[c].id, cl[c].mode)
     \/ /\ ~archived /\ run = "none" /\ StopsRetry /\ dlock' = c
        /\ Client(c, "dispatching", cl[c].id, cl[c].mode)
  /\ UNCHANGED <<queueVars, delivered, timer, procVars, wakes, run, retryRun, deferring, archived,
                 bounds, history>>

\* ... and the persisted message and run, or an error answer
ClientDispatched(c) ==
  /\ cl[c].pc = "dispatching" /\ dlock' = NoOne /\ Return(c)
  /\ \/ StartRun(FALSE) /\ PassQueue /\ handed' = Append(handed, cl[c].id) /\ UNCHANGED bounds
     \/ Fail("dispatch") /\ UNCHANGED <<run, retryRun, deferring, retryArmed, handed, passed>>
  /\ UNCHANGED <<queueVars, delivered, timer, procVars, wakes, archived,
                 accepted, gone, moved, parked>>

RemovePending(c, i) ==
  /\ cl[c].pc = "idle" /\ Command("remove")
  /\ \E k \in FirstWith(queue, i) : ~Locked(queue[k]) /\ Mutate(RemoveAt(queue, k))
  /\ gone' = gone \cup {i} /\ Client(c, "cancel", i, "queue")
  /\ UNCHANGED <<delivered, timer, procVars, wakes, runVars, accepted, handed, moved, parked, passed>>

\* updatePendingInput: a new text or "resume" unpauses, "pause" pauses
Update(c, i, paused) ==
  /\ cl[c].pc = "idle" /\ Command("update")
  /\ \E k \in FirstWith(queue, i) :
       ~Locked(queue[k]) /\ Mutate([queue EXCEPT ![k] = Edited(queue[k], paused)])
  /\ Client(c, "cancel", i, "queue")
  /\ UNCHANGED <<delivered, timer, procVars, wakes, runVars, history>>

\* reorderPendingInput: the delivery lock is read in a critical section of its own
Reorder(c, i, mode) ==
  /\ cl[c].pc = "idle" /\ Command("reorder")
  /\ \E k \in FirstWith(queue, i) : ~Locked(queue[k])
  /\ Client(c, "move", i, mode)
  /\ UNCHANGED <<queueVars, delivered, timer, procVars, wakes, runVars, history>>

\* where an index puts the item: before one of its partition, or behind the partition
Places(rest, item) ==
  {InsertAt(rest, p, item) : p \in {k \in 1..Len(rest) : rest[k].mode = item.mode}}
    \cup {InsertPending(rest, item)}

Move(c) ==
  LET i == cl[c].id
      mode == cl[c].mode
  IN
  /\ cl[c].pc = "move"
  /\ IF i \notin IdsIn(queue)
       THEN Return(c) /\ UNCHANGED <<queueVars, moved>>
       ELSE /\ \E k \in FirstWith(queue, i) :
              \E q \in Places(RemoveAt(queue, k),
                              IF queue[k].mode = mode THEN queue[k] ELSE NewItem(i, mode)) :
                Mutate(q)
            /\ moved' = moved \cup {i}
            /\ Client(c, "cancel", i, mode)
  /\ UNCHANGED <<delivered, timer, procVars, wakes, runVars, bounds,
                 accepted, handed, gone, parked, passed>>

\* clearPendingInputsForSession: inputs the agent already took are kept, in their order
Kept(q) ==
  LET K == {k \in 1..Len(q) : Locked(q[k])}
      n == Cardinality(K)
  IN  {[j \in 1..n |-> q[f[j]]] :
         f \in {g \in [1..n -> K] : \A i, j \in 1..n : i < j => g[i] < g[j]}}

Clear(c) ==
  /\ cl[c].pc = "idle" /\ Command("clear")
  /\ \/ /\ queue = <<>> /\ Client(c, "cancelOnly", NoOne, "queue")
        /\ UNCHANGED <<queueVars, dirty, gone>>
     \/ /\ queue # <<>> /\ dirty' = FALSE
        /\ IF queue \in Kept(queue)
             THEN Return(c) /\ UNCHANGED <<queueVars, gone>>
             ELSE /\ \E q \in Kept(queue) :
                       Mutate(q) /\ gone' = gone \cup (IdsIn(queue) \ IdsIn(q))
                  /\ Client(c, "cancel", NoOne, "queue")
  /\ UNCHANGED <<delivered, timer, processing, wpc, held, wakes, runVars,
                 accepted, handed, moved, parked, passed>>

\* cancelPendingInputTimer, broadcastPendingInputs, then the trigger is on its way
Cancel(c) ==
  /\ cl[c].pc = "cancel"
  /\ timer' = "off" /\ Show(queue, FALSE) /\ Wake /\ Return(c)
  /\ UNCHANGED <<delivered, procVars, runVars, bounds, history>>

\* the timer is cancelled for an empty list, and nobody is triggered
CancelOnly(c) ==
  /\ cl[c].pc = "cancelOnly"
  /\ timer' = "off" /\ Return(c)
  /\ UNCHANGED <<queueVars, delivered, procVars, wakes, runVars, bounds, history>>

Aborted == IF run \in {"live", "blocked"} THEN "aborting" ELSE run

\* AbortSessionForUser: stop the run, then let the first redirect go at once
Abort(c) ==
  /\ cl[c].pc = "idle" /\ Command("abort")
  /\ run' = Aborted /\ Client(c, "expire", NoOne, "queue")
  /\ UNCHANGED <<queueVars, delivered, timer, procVars, wakes, retryRun, deferring, retryArmed,
                 archived, dlock, history>>

ExpireHeadRedirect(c) ==
  /\ cl[c].pc = "expire" /\ Return(c)
  /\ IF queue # <<>> /\ Head(queue).mode = "redirect" /\ ~Head(queue).paused
       THEN /\ Show(<<Due(Head(queue))>> \o Tail(queue), TRUE)
            /\ timer' = "off"
            /\ IF run = "none" THEN Wake ELSE UNCHANGED wakes
       ELSE UNCHANGED <<queueVars, timer, wakes>>
  /\ UNCHANGED <<delivered, procVars, runVars, bounds, history>>

\* ArchiveSession: stop the run and wait until it is done (RunDone) or the wait times out,
\* store archived_at, drop the queue
Archive(c) ==
  /\ cl[c].pc = "idle" /\ Command("archive") /\ ~archived
  /\ run' = Aborted
  /\ Client(c, IF run \in {"none", "done"} THEN "archiveMark" ELSE "archiveStop", NoOne, "queue")
  /\ UNCHANGED <<queueVars, delivered, timer, procVars, wakes, retryRun, deferring, retryArmed,
                 archived, dlock, history>>
ArchiveTimesOut(c) ==
  /\ cl[c].pc = "archiveStop" /\ Fail("stop") /\ Return(c)
  /\ UNCHANGED <<queueVars, delivered, timer, procVars, wakes, runVars, history>>
ArchiveMark(c) ==
  /\ cl[c].pc = "archiveMark" /\ archived' = TRUE
  /\ deferring' \in {FALSE, deferring} /\ retryArmed' = FALSE
  /\ Client(c, "archiveClear", NoOne, "queue")
  /\ UNCHANGED <<queueVars, delivered, timer, procVars, wakes, run, retryRun, dlock, bounds, history>>
ArchiveClear(c) ==
  /\ cl[c].pc = "archiveClear" /\ DropAll /\ Return(c)
  /\ UNCHANGED <<delivered, processing, wpc, held, wakes, runVars, bounds,
                 accepted, handed, moved, parked, passed>>

-----------------------------------------------------------------------------
(* Runs, timers and the goroutines that trigger the processor.             *)

\* the goroutine behind a wake reaches triggerPendingProcessing
FireWake ==
  /\ wakes > 0 /\ wakes' = wakes - 1
  /\ Trigger(IdleWorkers)
  /\ UNCHANGED <<queueVars, delivered, timer, cl, runVars, bounds, history>>

\* time reaches the ReadyAt of an item
Elapse(i) ==
  /\ \E k \in 1..Len(queue) :
       /\ queue[k].id = i /\ ~queue[k].due
       /\ queue' = [queue EXCEPT ![k] = Due(queue[k])]
  /\ UNCHANGED <<fresh, shown, delivered, timer, procVars, cl, wakes, runVars, bounds, history>>

\* the callback of setPendingInputTimer, once its deadline has passed
TimerFires ==
  /\ timer # "off"
  /\ \A k \in 1..Len(queue) : queue[k].id = timer => queue[k].due
  /\ timer' = "off" /\ Wake
  /\ UNCHANGED <<queueVars, delivered, procVars, cl, runVars, bounds, history>>

\* a run asks the user a question, and gets its answer
RunBlocks ==
  /\ run = "live" /\ agent # "cli" /\ run' = "blocked"
  /\ UNCHANGED <<queueVars, delivered, timer, procVars, cl, wakes, retryRun, deferring, retryArmed,
                 archived, dlock, bounds, history>>
RunUnblocks ==
  /\ run = "blocked" /\ run' = "live" /\ Wake
  /\ UNCHANGED <<queueVars, delivered, timer, procVars, cl, retryRun, deferring, retryArmed,
                 archived, dlock, bounds, history>>

\* runSession stores the outcome and closes run.done.  A failure may defer pending inputs, also
\* when it does not qualify for a retry, or the attempts are used up, and none is scheduled.
RunDone ==
  /\ run \in {"live", "blocked", "aborting"} /\ run' = "done"
  /\ \/ deferring' = FALSE /\ retryArmed' = FALSE /\ UNCHANGED bounds
     \/ run # "aborting" /\ Fail("run") /\ deferring' = TRUE /\ retryArmed' \in {FALSE, ~archived}
  /\ cl' = [c \in Clients |-> IF cl[c].pc = "archiveStop"
                               THEN [cl[c] EXCEPT !.pc = "archiveMark"] ELSE cl[c]]
  /\ UNCHANGED <<queueVars, delivered, timer, procVars, wakes, retryRun, archived, dlock, history>>

\* variant: a released run triggers nobody
ReleaseSilently ==
  /\ run = "done" /\ run' = "none" /\ passed' = {}
  /\ UNCHANGED <<queueVars, delivered, timer, procVars, cl, wakes, retryRun, deferring, retryArmed,
                 archived, dlock, bounds, accepted, handed, gone, moved, parked>>

\* releaseActiveRun, which triggers
ReleaseRun ==
  /\ run = "done" /\ run' = "none" /\ Wake /\ passed' = {}
  /\ UNCHANGED <<queueVars, delivered, timer, procVars, cl, retryRun, deferring, retryArmed,
                 archived, dlock, bounds, accepted, handed, gone, moved, parked>>

\* maybeInterruptForRedirect after a tool call: an app-server run is to be steered, a
\* command-line run is stopped; abortRunForRedirect does nothing to a later run
ToolEnds ==
  /\ run = "live" /\ ~retryRun
  /\ queue # <<>> /\ Head(queue).mode = "redirect" /\ ~Head(queue).paused
  /\ IF agent = "cli" THEN run' = "aborting" /\ UNCHANGED wakes ELSE Wake /\ UNCHANGED run
  /\ UNCHANGED <<queueVars, delivered, timer, procVars, cl, retryRun, deferring, retryArmed, archived,
                 dlock, bounds, history>>

\* executeAutoRetry: continue the failed run, or give up and trigger.  A retry given up leaves
\* the failed session deferring, unless the user lets a failure dispatch pending inputs.
GiveUpRetry == retryArmed' = FALSE /\ deferring' \in {FALSE, deferring} /\ Wake
AutoRetry ==
  /\ retryArmed /\ LockFree
  /\ \/ run = "none" /\ ~archived /\ StartRun(TRUE) /\ UNCHANGED <<wakes, bounds>>
     \/ run # "none" /\ GiveUpRetry /\ UNCHANGED <<run, retryRun, bounds>>
     \/ Fail("dispatch") /\ GiveUpRetry /\ UNCHANGED <<run, retryRun>>
  /\ UNCHANGED <<queueVars, delivered, timer, procVars, cl, archived, dlock, history>>

\* UpdateAutoRetry and UpdateAutoRetryDispatchPendingOnFailure, for a session that defers: the
\* deferral ends, or goes on with a retry or without
UpdateRetry ==
  /\ deferring /\ Wake
  /\ \/ deferring' = FALSE /\ retryArmed' = FALSE /\ UNCHANGED bounds
     \/ Command("retry") /\ retryArmed' \in {FALSE, ~archived} /\ UNCHANGED deferring
  /\ UNCHANGED <<queueVars, delivered, timer, procVars, cl, run, retryRun, archived, dlock,
                 history>>

\* a compaction, a hidden run or the deferred resume of a Claude run that waited for an
\* answer: checked and started under the dispatch lock
OtherRun ==
  /\ Command("other") /\ LockFree /\ run = "none" /\ ~archived
  /\ StartRun(FALSE) /\ PassQueue
  /\ UNCHANGED <<queueVars, delivered, timer, procVars, cl, wakes, archived, dlock,
                 accepted, handed, gone, moved, parked>>

-----------------------------------------------------------------------------
(* runPendingProcessor.                                                    *)

LaterFresh(item) == [item EXCEPT !.due = FALSE, !.paused = FALSE, !.receipt = FALSE]  \* variant
Later(item) == [item EXCEPT !.due = FALSE, !.paused = FALSE]   \* pendingInputRetry
Failed(item) == [item EXCEPT !.due = TRUE, !.paused = TRUE]    \* failedPendingInput

Peek(w) ==
  /\ wpc[w] = "peek"
  /\ \/ /\ queue # <<>> => Head(queue).paused
        /\ timer' = "off" /\ Go(w, "finish") /\ UNCHANGED held
     \/ /\ queue # <<>> /\ ~Head(queue).paused /\ ~Head(queue).due
        /\ Hold(w, Head(queue)) /\ Go(w, "arm") /\ UNCHANGED timer
     \/ /\ queue # <<>> /\ ~Head(queue).paused /\ Head(queue).due
        /\ timer' = "off" /\ Hold(w, Head(queue))
        /\ Go(w, IF Head(queue).receipt THEN "claimReceipt" ELSE "readRun")
  /\ UNCHANGED <<queueVars, delivered, processing, dirty, cl, wakes, runVars, bounds, history>>

\* variant: a deadline already passed is dropped
ArmFuture(w) ==
  /\ wpc[w] = "arm" /\ Go(w, "finish")
  /\ timer' = held[w].id \/ UNCHANGED timer
  /\ UNCHANGED <<queueVars, delivered, processing, dirty, held, cl, wakes, runVars, bounds, history>>

\* setPendingInputTimer: a deadline already passed triggers instead
Arm(w) ==
  /\ wpc[w] = "arm" /\ Go(w, "finish")
  /\ \/ timer' = held[w].id /\ UNCHANGED dirty
     \/ dirty' = TRUE /\ UNCHANGED timer
  /\ UNCHANGED <<queueVars, delivered, processing, held, cl, wakes, runVars, bounds, history>>

\* the choice that an active run, or its absence, makes for the head
ReadRun(w) ==
  LET steers == agent = "codex" /\ held[w].mode = "redirect"
      open == run \notin {"none", "blocked"}
  IN
  /\ wpc[w] = "readRun"
  /\ \/ run = "none" /\ Go(w, "getSession") /\ UNCHANGED timer
     \/ open /\ agent = "pi" /\ Go(w, "claimPi") /\ UNCHANGED timer
     \/ open /\ steers /\ Go(w, "claimSteer") /\ UNCHANGED timer
     \/ open /\ agent # "pi" /\ ~steers /\ Go(w, "finish") /\ UNCHANGED timer
     \/ run = "blocked" /\ Go(w, "finish") /\ timer' = IF steers THEN "recheck" ELSE timer
  /\ UNCHANGED <<queueVars, delivered, processing, dirty, held, cl, wakes, runVars, bounds,
                 history>>

\* without a run: the session is looked up; a failing lookup drops the whole queue
GetSession(w) ==
  /\ wpc[w] = "getSession"
  /\ \/ /\ archived \/ Fail("session")
        /\ archived => UNCHANGED bounds
        /\ DropAll /\ Go(w, "finish")
     \/ /\ ~archived /\ Go(w, IF deferring THEN "finish" ELSE "claimDispatch")
        /\ UNCHANGED <<queueVars, timer, dirty, gone, bounds>>
  /\ UNCHANGED <<delivered, processing, held, cl, wakes, runVars,
                 accepted, handed, moved, parked, passed>>

\* claimPendingInput: the head may have changed since the peek
AfterClaim == [claimReceipt |-> "persist", claimSteer |-> "steer", claimPi |-> "piSend",
               claimDispatch |-> "dispatch"]
Claim(w) ==
  /\ wpc[w] \in ClaimPCs
  /\ IF /\ queue # <<>> /\ Head(queue).id = held[w].id /\ Head(queue).mode = held[w].mode
        /\ ~Head(queue).paused /\ Head(queue).due
       THEN /\ Hold(w, Head(queue)) /\ Show(Tail(queue), TRUE) /\ timer' = "off"
            /\ parked' = parked \ {held[w].id} /\ passed' = passed \ {held[w].id}
            /\ Go(w, AfterClaim[wpc[w]])
       ELSE Go(w, "peek") /\ UNCHANGED <<queueVars, timer, held, parked, passed>>
  /\ UNCHANGED <<delivered, processing, dirty, cl, wakes, runVars, bounds,
                 accepted, handed, gone, moved>>

\* the write of a message the agent has accepted: done, or retried later
Persist(w) ==
  /\ wpc[w] = "persist"
  /\ \/ Go(w, "peek") /\ UNCHANGED <<held, bounds>>
     \/ Fail("persist") /\ Hold(w, Later(held[w])) /\ Go(w, "prependArm")
  /\ UNCHANGED <<queueVars, delivered, timer, processing, dirty, cl, wakes, runVars, history>>

\* steerActiveCodexTurn and the verdict on its answer
Steer(w) ==
  /\ wpc[w] = "steer"
  /\ \/ /\ run \in {"live", "aborting", "done"}                    \* accepted
        /\ handed' = Append(handed, held[w].id) /\ Go(w, "markSteer")
        /\ UNCHANGED <<held, bounds>>
     \/ /\ run = "none" /\ Hold(w, Due(held[w]))  \* no run left
        /\ Go(w, "prependPeek") /\ UNCHANGED <<handed, bounds>>
     \/ /\ run \in {"blocked", "done"} /\ Hold(w, Later(held[w]))  \* not handled
        /\ Go(w, "prependArm") /\ UNCHANGED <<handed, bounds>>
     \/ /\ Fail("steer") /\ Hold(w, Later(held[w]))                \* retryable
        /\ Go(w, "prependArm") /\ UNCHANGED handed
     \/ /\ Fail("reject") /\ Hold(w, Failed(held[w]))              \* refused
        /\ Go(w, "prependStop") /\ UNCHANGED handed
  /\ UNCHANGED <<queueVars, delivered, timer, processing, dirty, cl, wakes, runVars,
                 accepted, gone, moved, parked, passed>>

\* sendActivePiPendingInput: taken, not handled, or refused
PiSend(w) ==
  /\ wpc[w] = "piSend"
  /\ \/ /\ run \in {"live", "aborting", "done"}
        /\ handed' = Append(handed, held[w].id) /\ Go(w, "markPi") /\ UNCHANGED <<held, bounds>>
     \/ Go(w, "prependStop") /\ UNCHANGED <<held, handed, bounds>>
     \/ Fail("reject") /\ Hold(w, Failed(held[w])) /\ Go(w, "prependStop") /\ UNCHANGED handed
  /\ UNCHANGED <<queueVars, delivered, timer, processing, dirty, cl, wakes, runVars,
                 accepted, gone, moved, parked, passed>>

\* sendMessageInternal by the processor: the checks under the dispatch lock ...
Dispatch(w) ==
  /\ wpc[w] = "dispatch" /\ LockFree
  /\ \/ /\ archived /\ Go(w, "prependStop") /\ parked' = parked \cup {held[w].id}
        /\ UNCHANGED <<retryArmed, dlock>>
     \/ /\ ~archived /\ run # "none" /\ Go(w, "prependPeek") /\ StopsRetry
        /\ UNCHANGED <<parked, dlock>>
     \/ ~archived /\ run = "none" /\ Go(w, "dispatching") /\ StopsRetry /\ dlock' = w /\ UNCHANGED parked
  /\ UNCHANGED <<queueVars, delivered, timer, processing, dirty, held, cl, wakes, run, retryRun,
                 deferring, archived, bounds, accepted, handed, gone, moved, passed>>

\* ... and the stored message and run; an error leaves the input without a retry
Dispatched(w) ==
  /\ wpc[w] = "dispatching" /\ dlock' = NoOne
  /\ \/ /\ StartRun(FALSE) /\ handed' = Append(handed, held[w].id) /\ Go(w, "markDispatch")
        /\ UNCHANGED <<bounds, parked>>
     \/ /\ Fail("dispatch") /\ Go(w, "prependStop") /\ parked' = parked \cup {held[w].id}
        /\ UNCHANGED <<run, retryRun, deferring, retryArmed, handed>>
  /\ UNCHANGED <<queueVars, delivered, timer, processing, dirty, held, cl, wakes, archived,
                 accepted, gone, moved, passed>>

\* markPendingInputDelivered; a steered input then waits for its local write
Mark(w) ==
  /\ wpc[w] \in {"markSteer", "markPi", "markDispatch"}
  /\ delivered' = Remember(delivered, held[w].id)
  /\ IF wpc[w] = "markSteer"
       THEN Hold(w, Accepted(held[w])) /\ Go(w, "persist")
       ELSE Go(w, "peek") /\ UNCHANGED held
  /\ UNCHANGED <<queueVars, timer, processing, dirty, cl, wakes, runVars, bounds, history>>

Forget(item) == queue                                          \* variant
PutLast(item) == Append(queue, item)                           \* variant
PutBack(item) == <<item>> \o queue

\* prependPendingInput and broadcastPendingInputs
AfterPrepend == [prependArm |-> "arm", prependPeek |-> "peek", prependStop |-> "finish"]
Prepend(w) ==
  /\ wpc[w] \in PrependPCs /\ Show(PutBack(held[w]), TRUE)
  /\ Go(w, AfterPrepend[wpc[w]])
  /\ UNCHANGED <<delivered, timer, processing, dirty, held, cl, wakes, runVars, bounds, history>>

\* variant: the note left by a trigger is not read
FinishAnyway(w) ==
  /\ wpc[w] = "finish" /\ processing' = FALSE /\ dirty' = FALSE
  /\ Go(w, "idle") /\ Hold(w, NoItem)
  /\ UNCHANGED <<queueVars, delivered, timer, cl, wakes, runVars, bounds, history>>

\* finishPendingProcessing
Finish(w) ==
  /\ wpc[w] = "finish" /\ processing' = FALSE /\ dirty' = FALSE
  /\ Go(w, IF dirty THEN "restart" ELSE "idle") /\ Hold(w, NoItem)
  /\ UNCHANGED <<queueVars, delivered, timer, cl, wakes, runVars, bounds, history>>
Restart(w) ==
  /\ wpc[w] = "restart"
  /\ IF processing
       THEN dirty' = TRUE /\ Go(w, "idle") /\ UNCHANGED <<processing, held>>
       ELSE processing' = TRUE /\ dirty' = FALSE /\ Go(w, "peek") /\ UNCHANGED held
  /\ UNCHANGED <<queueVars, delivered, timer, cl, wakes, runVars, bounds, history>>

-----------------------------------------------------------------------------
ClientCommand(c) ==
  \/ \E i \in Ids, mode \in Modes : Send(c, i, mode) \/ Reorder(c, i, mode)
  \/ \E i \in Ids : SendDirect(c, i) \/ RemovePending(c, i) \/ \E p \in BOOLEAN : Update(c, i, p)
  \/ Clear(c) \/ Abort(c) \/ Archive(c)
ClientStep(c) ==
  \/ Choose(c) \/ Enqueue(c) \/ ClientDispatch(c) \/ ClientDispatched(c) \/ Move(c)
  \/ Cancel(c) \/ CancelOnly(c) \/ ExpireHeadRedirect(c)
  \/ ArchiveTimesOut(c) \/ ArchiveMark(c) \/ ArchiveClear(c)
Processor(w) ==
  \/ Peek(w) \/ Arm(w) \/ ReadRun(w) \/ GetSession(w) \/ Claim(w) \/ Persist(w)
  \/ Steer(w) \/ PiSend(w) \/ Dispatch(w) \/ Dispatched(w) \/ Mark(w) \/ Prepend(w)
  \/ Finish(w) \/ Restart(w)

Next ==
  /\ UNCHANGED agent
  /\ \/ \E c \in Clients : ClientCommand(c) \/ ClientStep(c)
     \/ \E w \in Workers : Processor(w)
     \/ \E i \in Ids : Elapse(i)
     \/ FireWake \/ TimerFires \/ AutoRetry \/ UpdateRetry \/ OtherRun
     \/ RunBlocks \/ RunUnblocks \/ ToolEnds \/ RunDone \/ ReleaseRun

Spec == Init /\ [][Next]_vars

\* Goroutines that have started run on, timers expire, a run ends.  Strong for FireWake,
\* which waits for a slot of Workers where the code starts a goroutine.
Fairness ==
  /\ \A c \in Clients : WF_state(ClientStep(c))
  /\ \A w \in Workers : WF_state(Processor(w))
  /\ \A i \in Ids : WF_state(Elapse(i))
  /\ SF_state(FireWake) /\ WF_state(TimerFires) /\ WF_state(AutoRetry)
  /\ WF_state(RunDone) /\ WF_state(ReleaseRun)
FairSpec == Spec /\ Fairness

-----------------------------------------------------------------------------
(* Properties.                                                             *)

\* Types of the variables.
TypeOK ==
  /\ agent \in Agents
  /\ queue \in Seq(Item) /\ fresh \in BOOLEAN /\ shown \in Seq(Ids \X Modes \X BOOLEAN)
  /\ delivered \in Seq(Ids) /\ Len(delivered) <= MaxDelivered
  /\ timer \in {"off", "recheck"} \cup Ids /\ wakes \in 0..MaxWakes
  /\ processing \in BOOLEAN /\ dirty \in BOOLEAN
  /\ wpc \in [Workers -> WorkerPCs] /\ held \in [Workers -> Item \cup {NoItem}]
  /\ cl \in [Clients -> [pc : ClientPCs, id : Ids \cup {NoOne}, mode : Modes]]
  /\ run \in RunStates /\ retryRun \in BOOLEAN /\ deferring \in BOOLEAN
  /\ retryArmed \in BOOLEAN /\ archived \in BOOLEAN
  /\ dlock \in Clients \cup Workers \cup {NoOne}
  /\ cmds \in 0..MaxCommands /\ faults \in 0..MaxFaults
  /\ accepted \in Seq([id : Ids, mode : Modes]) /\ handed \in Seq(Ids)
  /\ gone \subseteq Ids /\ moved \subseteq Ids /\ parked \subseteq Ids /\ passed \subseteq Ids

\* processing is true exactly while one goroutine runs the processor loop: two loops
\* would claim and send different heads at the same time.
OneProcessor ==
  /\ \A v, w \in Workers : wpc[v] \in ActivePCs /\ wpc[w] \in ActivePCs => v = w
  /\ processing <=> \E w \in Workers : wpc[w] \in ActivePCs

\* Whoever found the session without a run and is about to start one is not overtaken: no
\* other run starts in between, or one of the two would replace the other.
NoRunReplaced ==
  /\ \A c \in Clients : cl[c].pc = "dispatching" => dlock = c /\ run = "none"
  /\ \A w \in Workers : wpc[w] = "dispatching" => dlock = w /\ run = "none"

\* An acknowledged input is queued, in the processor's hand, taken by the agent, or was
\* removed by a command: none of the processor's exits forgets the item it claimed.
NothingLost ==
  AcceptedIds \subseteq
    IdsIn(queue) \cup ToSet(handed) \cup gone
      \cup {held[w].id : w \in {x \in Workers : wpc[x] \in CallPCs \cup PrependPCs}}

\* The agent takes an input at most once, whatever retries and wakeups happen.
HandedOnce == \A j, k \in 1..Len(handed) : handed[j] = handed[k] => j = k

\* Two queue-mode inputs that no command moved reach the agent in the order in which
\* they were acknowledged, also when a claimed one had to be put back.
QueueOrder ==
  \A j, k \in 1..Len(accepted) :
    LET a == accepted[j]
        b == accepted[k]
    IN  /\ j < k /\ a.mode = "queue" /\ b.mode = "queue" /\ {a.id, b.id} \cap moved = {}
        /\ b.id \in ToSet(handed)
        => \/ a.id \in gone
           \/ \E m, n \in 1..Len(handed) : m <= n /\ handed[m] = a.id /\ handed[n] = b.id

\* Nobody is left to look at the queue: no processor, no goroutine about to trigger
\* one, no armed timer, no run about to be released, no handler between its mutation and
\* its trigger.
Unattended ==
  /\ ~processing /\ wakes = 0 /\ timer = "off" /\ run \notin {"aborting", "done"}
  /\ \A w \in Workers : wpc[w] = "idle"
  /\ \A c \in Clients : cl[c].pc \notin {"cancel", "archiveClear"}

\* The processor would do something with the head, or wait for its ReadyAt.
Actionable ==
  /\ queue # <<>> /\ ~Head(queue).paused /\ Head(queue).id \notin parked
  /\ \/ Head(queue).receipt
     \/ run = "none" /\ ~deferring /\ ~archived
     \/ /\ run = "live" /\ ~retryRun /\ agent = "codex" /\ Head(queue).mode = "redirect"
        /\ Head(queue).id \notin passed

\* No lost wakeup: an input that could be sent is never left without a processor, a
\* trigger or a timer that will get to it.  Two kinds of input are: one whose dispatch failed
\* (parked), and one that was left for the retry of a failed run when a message without a
\* mode or a handler that had read the session before started a run (passed): the start wakes
\* nobody, and the input waits for the next tool call or the end of that run.
NoStranded == Actionable => ~Unattended

\* Once every handler has broadcast, clients that keep the highest pendingVersion show
\* the list the server holds.
ClientsConverge ==
  (\A c \in Clients : cl[c].pc \notin {"cancel", "archiveClear"}) => shown = View(queue)

\* An input the agent has accepted leaves the queue only into the processor's hand, with
\* its receipt: no command drops the receipt, or the next pass would send it again.
ReceiptKept ==
  [][\A k \in 1..Len(queue) : queue[k].receipt =>
        \/ \E j \in 1..Len(queue') : queue'[j].id = queue[k].id /\ queue'[j].receipt
        \/ \E w \in Workers : held'[w].id = queue[k].id /\ held'[w].receipt
        \/ archived]_queue

\* Every acknowledged input is eventually taken, unless a command removed it, it waits behind
\* a paused head, or a failed session goes on deferring with no retry to come: the failure did
\* not qualify, the attempts are used up, or the retry was given up or lost its timer.
EventuallyHanded ==
  \A i \in Ids : i \in IdsIn(queue) ~>
    \/ i \in ToSet(handed) \/ i \in gone
    \/ queue # <<>> /\ Head(queue).paused
    \/ [](deferring /\ ~retryArmed)

=============================================================================
