-------------------------- MODULE ScheduledInputs --------------------------
(***************************************************************************)
(* The scheduled inputs of one web session: service/websession/            *)
(* scheduled.go.                                                           *)
(*                                                                         *)
(* An input is a database row that waits for a time or for the project to  *)
(* be idle, and perhaps for another input.  Rows survive a restart; timers *)
(* do not.  Whoever decides about a row holds its lock: a command handler  *)
(* (Clients), the callback of a timer (a slot of Callbacks), or the idle   *)
(* sweep.  Timers, the wake-up of dependents and archiving work without    *)
(* that lock.  An action is one access to the database, one critical       *)
(* section of Manager.mu, or one call made between two of them.            *)
(*                                                                         *)
(* Times are points of a small clock.  Messages and plan executions differ *)
(* in what a refusal is called (canceled or expired); both are "refused"   *)
(* here, because both are final and neither satisfies a dependent.  The    *)
(* snapshot broadcast after a change is read under a lock of its own and   *)
(* is left out.                                                            *)
(***************************************************************************)
EXTENDS Naturals, FiniteSets

CONSTANTS
  Inputs,        \* ids of scheduled inputs
  Clients,       \* command handler goroutines
  Callbacks,     \* goroutine slots of fired timers
  Sweep,         \* the goroutine of the idle sweep
  None,          \* no input, no holder
  Ops,           \* the commands the clients issue
  Faults,        \* the calls that may fail
  MaxTime,       \* bound: the clock
  MaxCommands,   \* bound: commands issued
  MaxFaults      \* bound: failing calls and restarts of the server

Procs == Clients \cup Callbacks \cup {Sweep}

ASSUME ScheduleAssumption ==
  /\ Clients \cap Callbacks = {} /\ Sweep \notin Clients \cup Callbacks
  /\ None \notin Inputs \cup Procs
  /\ MaxTime \in Nat /\ MaxCommands \in Nat /\ MaxFaults \in Nat

VARIABLES
  row,        \* the table web_session_scheduled_inputs
  archived,   \* archived_at of the session is set
  busy,       \* evaluateScheduledIdleConditions finds a reason to wait
  now,        \* the clock
  armed,      \* timers that have not fired: <<input, time>>
  reg,        \* scheduledInputTimers: the time of the registered timer, 0 for none
  monitor,    \* scheduledIdleTimer is set
  lock,       \* holders of scheduledInputLocks
  proc,       \* goroutines: program counter, input, and what they carry along
  rewake,     \* inputs whose dependents could not be read and are woken later
  cmds, faults,
  sent,       \* history: how often an input was handed over
  unmarked,   \* history: inputs handed over without a record of it
  robbed      \* history: inputs whose timer somebody without their lock has stopped

bounds == <<cmds, faults>>
timerVars == <<armed, reg, robbed>>
vars == <<row, archived, busy, now, timerVars, monitor, lock, proc, rewake, bounds, sent, unmarked>>

Stored == {"scheduled", "dispatched", "failed", "refused"}
Statuses == Stored \cup {"none", "deleted"}
Open == {"scheduled", "failed"}
Row == [status : Statuses, kind : {"time", "idle"}, at : 0..MaxTime, dep : Inputs \cup {None},
        idle : {"no", "since", "stable"}]
NoRow == [status |-> "none", kind |-> "time", at |-> 0, dep |-> None, idle |-> "no"]
Scheduled(kind, at, dep) ==
  [status |-> "scheduled", kind |-> kind, at |-> at, dep |-> dep, idle |-> "no"]

Dispatching == {"check", "call", "mark", "wake", "wakeArm", "wakeRegister"}
PCs == Dispatching \cup {"idle", "create", "write", "removed", "archive", "cancelTimers", "arm",
                         "register", "fired", "execute", "sweep", "evaluate",
                         "reset", "since", "refuse", "quiet"}
Rest == [pc |-> "idle", i |-> None, row |-> NoRow, list |-> {}, wakes |-> {}, arming |-> {}]

\* variant: a parent that is over for whatever reason satisfies
Over(dep) == dep # None => row[dep].status \in {"dispatched", "failed", "refused"}

\* scheduledInputDependencySatisfied: a row without a parent, or a dispatched parent
Satisfied(dep) == dep # None => row[dep].status = "dispatched"

Init ==
  /\ row = [i \in Inputs |-> NoRow] /\ archived = FALSE /\ busy \in BOOLEAN /\ now = 0
  /\ armed = {} /\ reg = [i \in Inputs |-> 0] /\ monitor = FALSE
  /\ lock = [i \in Inputs |-> None] /\ proc = [p \in Procs |-> Rest] /\ rewake = {}
  /\ cmds = 0 /\ faults = 0
  /\ sent = [i \in Inputs |-> 0] /\ unmarked = {} /\ robbed = {}

-----------------------------------------------------------------------------
(* Shared pieces.                                                          *)

Go(p, pc) == proc' = [proc EXCEPT ![p].pc = pc]
Command(op) == op \in Ops /\ cmds < MaxCommands /\ cmds' = cmds + 1 /\ UNCHANGED faults
Fail(f) == f \in Faults /\ faults < MaxFaults /\ faults' = faults + 1 /\ UNCHANGED cmds
Write(i, r) == row' = [row EXCEPT ![i] = r]
Status(i, s) == row' = [row EXCEPT ![i].status = s]
NeverFree(i, p) == lock' = [lock EXCEPT ![i] = p]               \* variant: nobody waits
Take(i, p) == lock[i] = None /\ lock' = [lock EXCEPT ![i] = p]
Drop(i, p) == lock' = IF lock[i] = p THEN [lock EXCEPT ![i] = None] ELSE lock

\* what becomes of p when its input is decided: the sweep goes on with its list
Finish(p) ==
  proc' = [proc EXCEPT ![p] = IF p = Sweep THEN [Rest EXCEPT !.pc = "sweep", !.list = proc[p].list]
                                           ELSE Rest]

\* history: a timer for the stored time of an input is stopped
Robbed(gone) == robbed' = robbed \cup {i \in Inputs : <<i, row[i].at>> \in gone}

\* cancelScheduledInputTimer, also by the holder of the row's lock
StopTimer(i) == armed' = armed \ {<<i, reg[i]>>} /\ reg' = [reg EXCEPT ![i] = 0]
CancelTimer(i) == StopTimer(i) /\ UNCHANGED robbed

\* setScheduledInputTimer up to time.AfterFunc; the timer is registered in a later step
SetTimer(i, t) ==
  /\ armed' = (armed \ {<<i, reg[i]>>}) \cup {<<i, t>>} /\ reg' = [reg EXCEPT ![i] = 0]
Register(i, t) == reg' = [reg EXCEPT ![i] = t] /\ UNCHANGED <<armed, robbed>>

AnyParent(i, dep) == dep # None => row[dep].status \in Open \cup {"dispatched"}   \* variant

\* validateScheduledInputDependency: an open or dispatched parent, whose ancestors exist and
\* do not include the input
ValidParent(i, dep) ==
  dep # None =>
    /\ row[dep].status \in Open \cup {"dispatched"}
    /\ \E up \in SUBSET (Inputs \ {i}) :
         dep \in up /\ \A j \in up : row[j].status \in Stored /\ row[j].dep \in up \cup {None}

-----------------------------------------------------------------------------
(* Commands.                                                               *)

AskedPast(kind, at) == IF kind = "time" THEN at >= now ELSE at = 0               \* variant
\* what a command asks for: an absolute time in the future, or the next idle period
Asked(kind, at) == IF kind = "time" THEN at > now ELSE at = 0

\* scheduleInput and schedulePlanExecution: the checks, the insert, the timer
Schedule(c, i, kind, at, dep) ==
  /\ proc[c].pc = "idle" /\ Command("schedule") /\ ~archived /\ Asked(kind, at)
  /\ row[i].status = "none" /\ \A d \in Clients : proc[d].i # i
  /\ ValidParent(i, dep)
  /\ proc' = [proc EXCEPT ![c] = [Rest EXCEPT !.pc = "create", !.i = i,
                                              !.row = Scheduled(kind, at, dep)]]
  /\ UNCHANGED <<row, archived, busy, now, timerVars, monitor, lock, rewake, sent, unmarked>>
Create(c) ==
  /\ proc[c].pc = "create" /\ Write(proc[c].i, proc[c].row) /\ Go(c, "arm")
  /\ UNCHANGED <<archived, busy, now, timerVars, monitor, lock, rewake, bounds, sent, unmarked>>

\* the end of UpdateScheduledInput, and of scheduleInput, which does not hold the lock:
\* setScheduledInputTimer, or ensureScheduledIdleMonitor
Arm(c) ==
  LET i == proc[c].i IN
  /\ proc[c].pc = "arm"
  /\ IF proc[c].row.kind = "time"
       THEN SetTimer(i, proc[c].row.at) /\ Go(c, "register") /\ UNCHANGED <<monitor, lock>>
       ELSE StopTimer(i) /\ monitor' = TRUE /\ Drop(i, c) /\ Finish(c)
  /\ IF lock[i] = c THEN UNCHANGED robbed ELSE Robbed(armed \ armed')
  /\ UNCHANGED <<row, archived, busy, now, rewake, bounds, sent, unmarked>>
Registered(c) ==
  /\ proc[c].pc = "register" /\ Register(proc[c].i, proc[c].row.at)
  /\ Drop(proc[c].i, c) /\ Finish(c)
  /\ UNCHANGED <<row, archived, busy, now, monitor, rewake, bounds, sent, unmarked>>

\* UpdateScheduledInput: the checks under the input's lock ...
Update(c, i, kind, at, dep) ==
  /\ proc[c].pc = "idle" /\ Command("update") /\ Take(i, c)
  /\ row[i].status \in Open /\ ~archived /\ Asked(kind, at)
  /\ dep # row[i].dep => ValidParent(i, dep)
  /\ proc' = [proc EXCEPT ![c] = [Rest EXCEPT !.pc = "write", !.i = i,
                                              !.row = Scheduled(kind, at, dep)]]
  /\ UNCHANGED <<row, archived, busy, now, timerVars, monitor, rewake, sent, unmarked>>

\* ... and the conditional update, which archiving may have made void
WriteUpdate(c) ==
  LET i == proc[c].i IN
  /\ proc[c].pc = "write"
  /\ IF row[i].status \in Open
       THEN Write(i, proc[c].row) /\ Go(c, "arm") /\ UNCHANGED lock
       ELSE Drop(i, c) /\ Finish(c) /\ UNCHANGED row
  /\ UNCHANGED <<archived, busy, now, timerVars, monitor, rewake, bounds, sent, unmarked>>

\* dispatchScheduledInputNow; bypassing an unsatisfied dependency drops it
DispatchNow(c, i, bypass) ==
  /\ proc[c].pc = "idle" /\ Command("now") /\ Take(i, c)
  /\ row[i].status \in Open
  /\ \/ Satisfied(row[i].dep) /\ ~bypass /\ UNCHANGED row
     \/ ~Satisfied(row[i].dep) /\ bypass /\ Write(i, [row[i] EXCEPT !.dep = None])
  /\ CancelTimer(i)
  /\ proc' = [proc EXCEPT ![c] = [Rest EXCEPT !.pc = "check", !.i = i]]
  /\ UNCHANGED <<archived, busy, now, monitor, rewake, sent, unmarked>>

\* RemoveScheduledInput
Remove(c, i) ==
  /\ proc[c].pc = "idle" /\ Command("remove") /\ Take(i, c)
  /\ row[i].status \in Open /\ Status(i, "refused")
  /\ proc' = [proc EXCEPT ![c] = [Rest EXCEPT !.pc = "removed", !.i = i]]
  /\ UNCHANGED <<archived, busy, now, timerVars, monitor, rewake, sent, unmarked>>
Removed(c) ==
  /\ proc[c].pc = "removed" /\ CancelTimer(proc[c].i) /\ Drop(proc[c].i, c) /\ Finish(c)
  /\ UNCHANGED <<row, archived, busy, now, monitor, rewake, bounds, sent, unmarked>>

\* ArchiveSession stores archived_at; cancelActiveScheduledInputs then refuses what is open
\* and stops the registered timers, without any input's lock
Archive(c) ==
  /\ proc[c].pc = "idle" /\ Command("archive") /\ ~archived /\ archived' = TRUE
  /\ Go(c, "archive")
  /\ UNCHANGED <<row, busy, now, timerVars, monitor, lock, rewake, sent, unmarked>>
CancelActive(c) ==
  /\ proc[c].pc = "archive"
  /\ row' = [i \in Inputs |-> IF row[i].status \in Open THEN [row[i] EXCEPT !.status = "refused"]
                                                        ELSE row[i]]
  /\ Go(c, "cancelTimers")
  /\ UNCHANGED <<archived, busy, now, timerVars, monitor, lock, rewake, bounds, sent, unmarked>>
CancelTimers(c) ==
  /\ proc[c].pc = "cancelTimers" /\ Finish(c)
  /\ armed' = armed \ {<<i, reg[i]>> : i \in Inputs} /\ reg' = [i \in Inputs |-> 0]
  /\ Robbed(armed \ armed')
  /\ UNCHANGED <<row, archived, busy, now, monitor, lock, rewake, bounds, sent, unmarked>>
Unarchive(c) ==
  /\ proc[c].pc = "idle" /\ Command("archive") /\ archived /\ archived' = FALSE
  /\ UNCHANGED <<row, busy, now, timerVars, monitor, lock, proc, rewake, sent, unmarked>>

-----------------------------------------------------------------------------
(* Timers.                                                                 *)

Tick ==
  /\ now < MaxTime /\ now' = now + 1
  /\ UNCHANGED <<row, archived, busy, timerVars, monitor, lock, proc, rewake, bounds, sent, unmarked>>

\* a due timer starts its callback: from here on, stopping the timer has no effect
Fire(k, i, t) ==
  /\ proc[k].pc = "idle" /\ <<i, t>> \in armed /\ t <= now
  /\ armed' = armed \ {<<i, t>>}
  /\ proc' = [proc EXCEPT ![k] = [Rest EXCEPT !.pc = "fired", !.i = i, !.row.at = t]]
  /\ UNCHANGED <<row, archived, busy, now, reg, robbed, monitor, lock, rewake, bounds, sent, unmarked>>

\* the callback first stops whatever timer is registered for its input by then
Fired(k) ==
  LET i == proc[k].i IN
  /\ proc[k].pc = "fired" /\ Go(k, "execute")
  /\ armed' = armed \ {<<i, reg[i]>>} /\ reg' = [reg EXCEPT ![i] = 0] /\ Robbed(armed \ armed')
  /\ UNCHANGED <<row, archived, busy, now, monitor, lock, rewake, bounds, sent, unmarked>>

\* variant: the time of the callback is not compared
ExecuteAnyTime(k) ==
  LET i == proc[k].i IN
  /\ proc[k].pc = "execute"
  /\ IF row[i].status = "scheduled" /\ row[i].kind = "time" /\ Satisfied(row[i].dep)
       THEN Take(i, k) /\ Go(k, "check")
       ELSE lock[i] = None /\ Finish(k) /\ UNCHANGED lock
  /\ UNCHANGED <<row, archived, busy, now, timerVars, monitor, rewake, bounds, sent, unmarked>>

\* executeScheduledInput: only a row that is still scheduled for the callback's time.  The reads of
\* the row and of its parent succeed here; in the code one that fails returns with the timer gone
\* and the row still scheduled, until a command or a restart.
Execute(k) ==
  LET i == proc[k].i IN
  /\ proc[k].pc = "execute"
  /\ IF /\ row[i].status = "scheduled" /\ row[i].kind = "time" /\ row[i].at = proc[k].row.at
        /\ Satisfied(row[i].dep)
       THEN Take(i, k) /\ Go(k, "check")
       ELSE lock[i] = None /\ Finish(k) /\ UNCHANGED lock
  /\ UNCHANGED <<row, archived, busy, now, timerVars, monitor, rewake, bounds, sent, unmarked>>

-----------------------------------------------------------------------------
(* dispatchScheduledInputRecord, by the holder of the row's lock.          *)

\* a session that cannot be read, for whatever reason, deletes the row
Check(p) ==
  LET i == proc[p].i IN
  /\ proc[p].pc = "check"
  /\ \/ /\ archived /\ Status(i, "refused") /\ Drop(i, p) /\ Finish(p)
        /\ UNCHANGED <<timerVars, bounds>>
     \/ /\ ~archived /\ Go(p, "call") /\ UNCHANGED <<row, timerVars, lock, bounds>>
     \/ /\ Fail("session") /\ Status(i, "deleted") /\ CancelTimer(i) /\ Drop(i, p) /\ Finish(p)
  /\ UNCHANGED <<archived, busy, now, monitor, rewake, sent, unmarked>>

\* dispatchScheduledInput, dispatchScheduledPlanExecution: the session takes it, or a refusal or
\* a failure is stored; a store that fails here, ignored in the code, would leave the row scheduled
\* with no timer, and is left out
Call(p) ==
  LET i == proc[p].i IN
  /\ proc[p].pc = "call"
  /\ \/ /\ ~archived /\ sent' = [sent EXCEPT ![i] = @ + 1] /\ Go(p, "mark")
        /\ UNCHANGED <<row, lock, bounds>>
     \/ /\ archived /\ Status(i, "refused") /\ Drop(i, p) /\ Finish(p) /\ UNCHANGED <<sent, bounds>>
     \/ /\ Fail("send") /\ Status(i, "failed") /\ Drop(i, p) /\ Finish(p) /\ UNCHANGED sent
  /\ UNCHANGED <<archived, busy, now, timerVars, monitor, rewake, unmarked>>

\* markScheduledInputDispatched
Mark(p) ==
  LET i == proc[p].i IN
  /\ proc[p].pc = "mark"
  /\ \/ /\ Status(i, "dispatched") /\ Go(p, "wake") /\ UNCHANGED <<lock, bounds, unmarked>>
     \/ /\ Fail("mark") /\ unmarked' = unmarked \cup {i} /\ Drop(i, p) /\ Finish(p) /\ UNCHANGED row
  /\ UNCHANGED <<archived, busy, now, timerVars, monitor, rewake, sent>>

\* variant: dependents are left to their own timers
WakeNobody(p) ==
  /\ proc[p].pc = "wake" /\ Drop(proc[p].i, p) /\ Finish(p)
  /\ UNCHANGED <<row, archived, busy, now, timerVars, monitor, rewake, bounds, sent, unmarked>>

\* triggerScheduledDependents and wakeScheduledDependents: read the dependents, restart the idle
\* period of those that wait for one; the timers of the others are set one after the other
Wake(p) ==
  LET i == proc[p].i
      due == {j \in Inputs : row[j].dep = i /\ row[j].status = "scheduled"}
      idle == {j \in due : row[j].kind = "idle"} IN
  /\ proc[p].pc = "wake"
  /\ \/ /\ proc' = [proc EXCEPT ![p].pc = "wakeArm", ![p].wakes = {<<j, row[j].at>> : j \in due \ idle}]
        /\ row' = [j \in Inputs |-> IF j \in idle THEN [row[j] EXCEPT !.idle = "no"] ELSE row[j]]
        /\ monitor' = (monitor \/ idle # {})
        /\ UNCHANGED <<lock, rewake, bounds>>
     \/ /\ Fail("wake") /\ rewake' = rewake \cup {i} /\ Drop(i, p) /\ Finish(p)
        /\ UNCHANGED <<row, monitor>>
  /\ UNCHANGED <<archived, busy, now, timerVars, sent, unmarked>>
WakeArm(p, w) ==
  /\ proc[p].pc = "wakeArm" /\ w \in proc[p].wakes
  /\ SetTimer(w[1], w[2]) /\ Robbed(armed \ armed')
  /\ proc' = [proc EXCEPT ![p].pc = "wakeRegister", ![p].wakes = @ \ {w}, ![p].arming = {w}]
  /\ UNCHANGED <<row, archived, busy, now, monitor, lock, rewake, bounds, sent, unmarked>>
WakeRegister(p, w) ==
  /\ proc[p].pc = "wakeRegister" /\ w \in proc[p].arming /\ Register(w[1], w[2])
  /\ proc' = [proc EXCEPT ![p].pc = "wakeArm", ![p].arming = {}]
  /\ UNCHANGED <<row, archived, busy, now, monitor, lock, rewake, bounds, sent, unmarked>>
Woken(p) ==
  /\ proc[p].pc = "wakeArm" /\ proc[p].wakes = {} /\ Drop(proc[p].i, p) /\ Finish(p)
  /\ UNCHANGED <<row, archived, busy, now, timerVars, monitor, rewake, bounds, sent, unmarked>>

\* the timer that tries a failed wake-up again
Rewake(k, i) ==
  /\ proc[k].pc = "idle" /\ i \in rewake /\ rewake' = rewake \ {i}
  /\ proc' = [proc EXCEPT ![k] = [Rest EXCEPT !.pc = "wake", !.i = i]]
  /\ UNCHANGED <<row, archived, busy, now, timerVars, monitor, lock, bounds, sent, unmarked>>

-----------------------------------------------------------------------------
(* The idle sweep.                                                         *)

\* others begin or end their work in the project; nobody looks while no row waits for idleness
Busy ==
  /\ \E i \in Inputs : row[i].status = "scheduled" /\ row[i].kind = "idle"
  /\ busy' = ~busy
  /\ UNCHANGED <<row, archived, now, timerVars, monitor, lock, proc, rewake, bounds, sent, unmarked>>

\* scheduledIdleStablePeriod has passed since idle_since
Stabilize(i) ==
  /\ row[i].idle = "since" /\ Write(i, [row[i] EXCEPT !.idle = "stable"])
  /\ UNCHANGED <<archived, busy, now, timerVars, monitor, lock, proc, rewake, bounds, sent, unmarked>>

\* the monitor's timer, runScheduledIdleSweep and the list of processScheduledIdleInputs
FireMonitor ==
  /\ monitor /\ proc[Sweep].pc = "idle" /\ monitor' = FALSE
  /\ LET list == {i \in Inputs : row[i].status = "scheduled" /\ row[i].kind = "idle"} IN
     proc' = [proc EXCEPT ![Sweep] = IF list = {} THEN Rest ELSE [Rest EXCEPT !.pc = "sweep", !.list = list]]
  /\ UNCHANGED <<row, archived, busy, now, timerVars, lock, rewake, bounds, sent, unmarked>>

\* processScheduledIdleInput: load a row of the list, look at its dependency, validate its session
Look(i) ==
  /\ proc[Sweep].pc = "sweep" /\ i \in proc[Sweep].list
  /\ LET skip == proc' = [proc EXCEPT ![Sweep].list = @ \ {i}]
         take(pc) == proc' = [proc EXCEPT ![Sweep] = [proc[Sweep] EXCEPT !.pc = pc, !.i = i,
                                                        !.row = row[i], !.list = @ \ {i}]] IN
     IF row[i].status # "scheduled" \/ row[i].kind # "idle" THEN skip /\ UNCHANGED bounds
     ELSE IF ~Satisfied(row[i].dep)
       THEN (IF row[i].idle = "no" THEN skip ELSE take("reset")) /\ UNCHANGED bounds
     ELSE \/ take("evaluate") /\ UNCHANGED bounds
          \/ Fail("session") /\ take("reset")
  /\ UNCHANGED <<row, archived, busy, now, timerVars, monitor, lock, rewake, sent, unmarked>>

\* evaluateScheduledIdleConditions
Evaluate ==
  LET r == proc[Sweep].row IN
  /\ proc[Sweep].pc = "evaluate"
  /\ Go(Sweep, CASE archived -> "refuse"
                 [] ~archived /\ busy -> "reset"
                 [] ~archived /\ ~busy /\ r.idle = "no" -> "since"
                 [] ~archived /\ ~busy /\ r.idle = "since" -> "sweep"
                 [] ~archived /\ ~busy /\ r.idle = "stable" -> "quiet")
  /\ UNCHANGED <<row, archived, busy, now, timerVars, monitor, lock, rewake, bounds, sent, unmarked>>

AnyVersion(r, s) == s.status = "scheduled" /\ s.kind = "idle"                    \* variant
\* scheduledIdleRecordVersionMatches and loadActiveScheduledIdleInput
SameVersion(r, s) == s.status = "scheduled" /\ s.kind = "idle" /\ r = s

\* mutateCurrentScheduledIdleInput: under the row's lock, and only if the row is the one looked at
Apply ==
  LET i == proc[Sweep].i IN
  /\ proc[Sweep].pc \in {"reset", "since", "refuse", "quiet"}
  /\ IF ~SameVersion(proc[Sweep].row, row[i])
       THEN lock[i] = None /\ Finish(Sweep) /\ UNCHANGED <<row, lock>>
       ELSE CASE proc[Sweep].pc = "quiet" -> Take(i, Sweep) /\ Go(Sweep, "check") /\ UNCHANGED row
              [] proc[Sweep].pc = "refuse" -> Status(i, "refused") /\ lock[i] = None /\ Finish(Sweep) /\ UNCHANGED lock
              [] OTHER -> /\ Write(i, [row[i] EXCEPT !.idle = IF proc[Sweep].pc = "since" THEN "since" ELSE "no"])
                          /\ lock[i] = None /\ Finish(Sweep) /\ UNCHANGED lock
  /\ UNCHANGED <<archived, busy, now, timerVars, monitor, rewake, bounds, sent, unmarked>>

StopSweep == UNCHANGED monitor                                                   \* variant
\* a sweep that found rows is followed by another one
Again == monitor' = TRUE
SweepEnds ==
  /\ proc[Sweep].pc = "sweep" /\ proc[Sweep].list = {} /\ Again
  /\ proc' = [proc EXCEPT ![Sweep] = Rest]
  /\ UNCHANGED <<row, archived, busy, now, timerVars, lock, rewake, bounds, sent, unmarked>>

-----------------------------------------------------------------------------
(* The server stops and starts again; recoverPendingScheduledInputs.       *)

Waiting(i) == row[i].status = "scheduled" /\ ~archived
Recover ==
  LET timed == {i \in Inputs : Waiting(i) /\ row[i].kind = "time"}
      idle == {i \in Inputs : Waiting(i) /\ row[i].kind = "idle"} IN
  /\ armed' = {<<i, row[i].at>> : i \in timed}
  /\ reg' = [i \in Inputs |-> IF i \in timed THEN row[i].at ELSE 0]
  /\ row' = [i \in Inputs |-> IF i \in idle THEN [row[i] EXCEPT !.idle = "no"] ELSE row[i]]
  /\ monitor' = (idle # {})
Crash ==
  /\ Fail("crash") /\ Recover
  /\ proc' = [p \in Procs |-> Rest] /\ lock' = [i \in Inputs |-> None] /\ rewake' = {}
  /\ unmarked' = unmarked \cup {proc[p].i : p \in {q \in Procs : proc[q].pc = "mark"}}
  /\ robbed' = robbed \cup {i \in Inputs : row[i].status = "scheduled" /\ archived}
  /\ UNCHANGED <<archived, busy, now, sent>>

-----------------------------------------------------------------------------
(* The system.                                                             *)

Ask(c) ==
  \/ \E i \in Inputs : \E kind \in {"time", "idle"} : \E at \in 0..MaxTime : \E dep \in Inputs \cup {None} :
       dep # i /\ (Schedule(c, i, kind, at, dep) \/ Update(c, i, kind, at, dep))
  \/ \E i \in Inputs : Remove(c, i) \/ \E bypass \in BOOLEAN : DispatchNow(c, i, bypass)
  \/ Archive(c) \/ Unarchive(c)
Handle(c) ==
  Create(c) \/ Arm(c) \/ Registered(c) \/ WriteUpdate(c) \/ Removed(c) \/ CancelActive(c) \/ CancelTimers(c)
Dispatch(p) ==
  \/ Check(p) \/ Call(p) \/ Mark(p) \/ Wake(p) \/ Woken(p)
  \/ \E w \in proc[p].wakes : WakeArm(p, w)
  \/ \E w \in proc[p].arming : WakeRegister(p, w)
Callback(k) == Fired(k) \/ Execute(k)
SweepStep == Evaluate \/ Apply \/ SweepEnds \/ \E i \in Inputs : Look(i)

Next ==
  \/ \E c \in Clients : Ask(c) \/ Handle(c)
  \/ \E k \in Callbacks : \E i \in Inputs : Rewake(k, i) \/ \E t \in 1..MaxTime : Fire(k, i, t)
  \/ \E k \in Callbacks : Callback(k)
  \/ \E p \in Procs : Dispatch(p)
  \/ Tick \/ Busy \/ FireMonitor \/ SweepStep \/ Crash
  \/ \E i \in Inputs : Stabilize(i)

Spec == Init /\ [][Next]_vars

\* goroutines run, mutexes are granted, time passes and timers fire; nobody has to ask for
\* anything, the project need not become idle, and nothing has to fail
Step(p) ==
  \/ Dispatch(p)
  \/ p \in Clients /\ Handle(p)
  \/ p \in Callbacks /\ Callback(p)
  \/ p = Sweep /\ SweepStep
FairSpec ==
  /\ Spec
  /\ WF_vars(Tick) /\ WF_vars(FireMonitor) /\ \A p \in Procs : WF_vars(Step(p))
  /\ \A i \in Inputs : /\ WF_vars(Stabilize(i)) /\ WF_vars(\E k \in Callbacks : Rewake(k, i))
                       /\ \A t \in 1..MaxTime : WF_vars(\E k \in Callbacks : Fire(k, i, t))

-----------------------------------------------------------------------------
(* Properties.                                                             *)

TypeOK ==
  /\ row \in [Inputs -> Row] /\ archived \in BOOLEAN /\ busy \in BOOLEAN /\ now \in 0..MaxTime
  /\ armed \subseteq Inputs \X (1..MaxTime) /\ reg \in [Inputs -> 0..MaxTime] /\ monitor \in BOOLEAN
  /\ lock \in [Inputs -> Procs \cup {None}] /\ rewake \subseteq Inputs
  /\ proc \in [Procs -> [pc : PCs, i : Inputs \cup {None}, row : Row, list : SUBSET Inputs,
                        wakes : SUBSET (Inputs \X (1..MaxTime)),
                        arming : SUBSET (Inputs \X (1..MaxTime))]]
  /\ cmds \in 0..MaxCommands /\ faults \in 0..MaxFaults
  /\ sent \in [Inputs -> Nat] /\ unmarked \subseteq Inputs /\ robbed \subseteq Inputs

\* An input is handed to its session at most once, whichever of the timer, the sweep, a waking
\* parent and the user's "now" compete for it - unless the record of the first hand-over was lost
\* (the store failed, or the server stopped, between the send and its mark).
SentOnce == \A i \in Inputs : sent[i] > 1 => i \in unmarked

\* Whatever decides on its own account to hand an input over does so when the stored row says: a
\* callback not before the row's time, the sweep not before the row's own stable idle period -
\* although both read the row before they hold its lock.
Takes(p) == proc[p].pc # "check" /\ proc'[p].pc = "check"
OnTime ==
  [][/\ \A k \in Callbacks : Takes(k) => LET r == row[proc[k].i] IN r.kind = "time" /\ r.at <= now
     /\ Takes(Sweep) => LET r == row[proc[Sweep].i] IN r.kind = "idle" /\ r.idle = "stable"]_vars

\* A child is handed over only after its parent was: not when the parent failed, was canceled
\* or was deleted.
ParentFirst ==
  \A p \in Procs : LET dep == row[proc[p].i].dep IN proc[p].pc = "call" => dep = None \/ sent[dep] > 0

\* Somebody still looks after every input that may go: its timer is armed, or a goroutine has
\* it in hand, or its parent is about to wake it; a sweep is due or running for an idle row.
Attended(i) ==
  \/ IF row[i].kind = "idle" THEN monitor \/ proc[Sweep].pc # "idle" ELSE <<i, row[i].at>> \in armed
  \/ lock[i] # None
  \/ \E c \in Clients : proc[c].i = i
  \/ \E k \in Callbacks : proc[k].i = i /\ proc[k].pc \in {"fired", "execute"} /\ proc[k].row.at = row[i].at
  \/ \E p \in Procs : proc[p].pc = "wake" /\ proc[p].i = row[i].dep
  \/ \E p \in Procs : <<i, row[i].at>> \in proc[p].wakes
  \/ row[i].dep \in rewake
Due(i) == Waiting(i) /\ Satisfied(row[i].dep)

\* No input that may go is forgotten, after any interleaving of commands, timers, wake-ups,
\* archiving and restarts - except one whose timer was stopped by somebody who does not hold its
\* lock (robbed), and one that was sent but not recorded.  Reads of rows and records of a failure
\* do not fail here: see Execute and Call.
NoneForgotten == \A i \in Inputs \ (robbed \cup unmarked) : Due(i) => Attended(i)

\* The same, without the first exception: a timer is stopped only by whoever decides about its
\* input.
TimersKept == \A i \in Inputs \ unmarked : Due(i) => Attended(i)

\* An input that may go does not wait for ever: it is handed over, fails or is refused, unless the
\* project stays busy (for an idle row) or the input is one of the two exceptions above.
EventuallyDecided ==
  \A i \in Inputs : []<>(\/ ~Due(i) \/ i \in robbed \cup unmarked
                         \/ row[i].kind = "idle" /\ busy)
=============================================================================
