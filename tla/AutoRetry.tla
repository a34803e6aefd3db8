----------------------------- MODULE AutoRetry -----------------------------
(***************************************************************************)
(* The automatic retry of a failed run of one web session: the retry parts *)
(* of service/websession/manager.go.                                       *)
(*                                                                         *)
(* A run that fails stores its error and, where the settings allow, the    *)
(* time of a retry; a timer then sends "continue".  The row survives a     *)
(* restart, the timer does not.  The runner of a run, command handlers     *)
(* (Clients) and the callbacks of timers (Timers, one identity per         *)
(* time.AfterFunc) work on the row and on the map of timers without a      *)
(* common lock; only sending holds the dispatch lock.  An action is one    *)
(* access to the database or one critical section of Manager.mu.           *)
(*                                                                         *)
(* Delays, presets and scopes are abstracted: a timer fires at any time, a *)
(* failure either qualifies for a retry or not, and the preset with its    *)
(* limit is MaxAttempts.  The pending inputs, which wait while a retry is  *)
(* stored, are the module PendingInputs: its AutoRetry is this module.     *)
(***************************************************************************)
EXTENDS Naturals

CONSTANTS
  Clients,       \* command handler goroutines
  Timers,        \* identities of timers; one is used again when it is over
  Runner,        \* the goroutine of the run (runSession)
  None,          \* no timer, no holder
  Ops,           \* the commands the clients issue
  Faults,        \* the calls that may fail
  MaxAttempts,   \* the attempt after which autoRetryDelayForFailureWithMax gives up
  MaxCommands,   \* bound: commands issued
  MaxFaults      \* bound: failing calls and restarts of the server

ASSUME RetryAssumption ==
  /\ Clients \cap Timers = {} /\ Runner \notin Clients \cup Timers
  /\ None \notin Clients \cup Timers \cup {Runner} /\ Timers # {}
  /\ MaxAttempts \in Nat /\ MaxCommands \in Nat /\ MaxFaults \in Nat

VARIABLES
  row,        \* the session's row
  aborted,    \* abortRequested of the run
  mapped,     \* autoRetryTimers[session]
  armed,      \* timers that are running: neither stopped nor fired
  dlock,      \* holder of the session dispatch lock
  pc,         \* where each goroutine is
  plan,       \* per goroutine: what it will store, and the timer it has made
  cmds, faults,
  lost        \* history: the retry was left without a timer, by a sender that stopped it and
              \* then was refused, by archiving, or by a failing call to the database

bounds == <<cmds, faults>>
timerVars == <<mapped, armed>>
vars == <<row, aborted, timerVars, dlock, pc, plan, bounds, lost>>

Procs == Clients \cup Timers \cup {Runner}
Row == [status : {"idle", "running", "error"}, enabled : BOOLEAN, retryable : BOOLEAN,
        attempt : Nat, next : BOOLEAN, archived : BOOLEAN]

NoPlan == [attempt |-> 0, next |-> FALSE, timer |-> None]

SchedulePCs == {"reconcile", "dropCancel", "dropStore", "armStore", "armCancel", "armCreate",
                "armAssign"}
SendPCs == {"lock", "cancel", "check", "store", "start"}
RunnerPCs == SchedulePCs \cup {"idle", "live", "ended", "close", "release"}
ClientPCs == SchedulePCs \cup SendPCs \cup {"idle", "setCancel", "archiveStop", "archiveStore",
                                            "archiveStoreIdle", "archiveCancel"}
TimerPCs == SendPCs \cup {"idle", "fired", "execute", "clearCancel", "clearStore"}

Running == pc[Runner] # "idle"                                       \* hasActiveRun
Waiting(r) == r.status = "error" /\ r.enabled /\ r.next /\ ~r.archived

\* a session at rest, or with a run that a message of the user has started
Init ==
  /\ \E live \in BOOLEAN :
       /\ row = [status |-> IF live THEN "running" ELSE "idle", enabled |-> TRUE,
                 retryable |-> TRUE, attempt |-> 0, next |-> FALSE, archived |-> FALSE]
       /\ pc = [p \in Procs |-> IF live /\ p = Runner THEN "live" ELSE "idle"]
  /\ aborted = FALSE /\ mapped = None /\ armed = {} /\ dlock = None
  /\ plan = [p \in Procs |-> NoPlan]
  /\ cmds = 0 /\ faults = 0 /\ lost = FALSE

-----------------------------------------------------------------------------
(* Shared pieces.                                                          *)

Go(p, where) == pc' = [pc EXCEPT ![p] = where]
Command(op) == op \in Ops /\ cmds < MaxCommands /\ cmds' = cmds + 1 /\ UNCHANGED faults
Fail(f) == f \in Faults /\ faults < MaxFaults /\ faults' = faults + 1 /\ UNCHANGED cmds

\* whether an error qualifies under a new scope or without its code; without an error it
\* makes no difference
Qualifies == IF row.status = "error" THEN BOOLEAN ELSE {row.retryable}
\* an update of the row
Store(r) ==
  /\ row' = r /\ lost' = (lost /\ r.next)
\* an update whose error is ignored
TryStore(r) ==
  \/ Store(r) /\ UNCHANGED bounds
  \/ Fail("db") /\ UNCHANGED <<row, lost>>

\* identities that no timer has: which one a new timer gets makes no difference
FreeTimers == {t \in Timers \ (armed \cup {mapped}) :
                 pc[t] = "idle" /\ \A p \in Procs : plan[p].timer # t}

\* cancelAutoRetryTimer: whatever timer the map holds
CancelTimer == armed' = armed \ {mapped} /\ mapped' = None

\* history: with these timers left and no callback under way, nothing comes of the retry
\* that row r waits for
Abandoned(r, timers) ==
  lost' = (lost \/ (Waiting(r) /\ timers = {} /\ \A t \in Timers : pc[t] = "idle"))

\* where a goroutine goes after scheduleAutoRetry
Return(p) == IF p = Runner THEN "close" ELSE "idle"

-----------------------------------------------------------------------------
(* reconcileAutoRetry and scheduleAutoRetry, called by the runner of a     *)
(* failed run and by UpdateAutoRetry.                                      *)

\* the decision on the row that was read: p keeps what it will store
Decide(p, r) ==
  LET try == r.enabled /\ ~r.archived /\ r.retryable
      again == try /\ r.attempt < MaxAttempts
  IN  /\ plan' = [plan EXCEPT ![p] = [attempt |-> IF try THEN r.attempt + 1 ELSE 0,
                                      next |-> again, timer |-> None]]
      /\ Go(p, IF again THEN "armStore" ELSE "dropCancel")

Reconcile(p) ==
  /\ pc[p] = "reconcile"
  /\ UNCHANGED <<row, aborted, timerVars, dlock>>
  /\ \/ Fail("db") /\ Go(p, Return(p)) /\ Abandoned(row, armed) /\ UNCHANGED plan
     \/ row.status # "error" /\ Go(p, Return(p)) /\ UNCHANGED <<plan, bounds, lost>>
     \/ row.status = "error" /\ Decide(p, row) /\ UNCHANGED <<bounds, lost>>

\* no retry, or none any more: stop the timer, then store that
DropCancel(p) ==
  /\ pc[p] = "dropCancel" /\ CancelTimer /\ Go(p, "dropStore")
  /\ UNCHANGED <<row, aborted, dlock, plan, bounds, lost>>
Planned(p) == [row EXCEPT !.attempt = plan[p].attempt, !.next = plan[p].next]
DropStore(p) ==
  /\ pc[p] = "dropStore" /\ Go(p, Return(p)) /\ plan' = [plan EXCEPT ![p] = NoPlan]
  /\ \/ Store(Planned(p)) /\ UNCHANGED bounds
     \/ Fail("db") /\ lost' = TRUE /\ UNCHANGED row
  /\ UNCHANGED <<aborted, timerVars, dlock>>

\* a retry: store it, then setAutoRetryTimer
ArmStore(p) ==
  /\ pc[p] = "armStore" /\ Go(p, "armCancel")
  /\ TryStore(Planned(p))
  /\ UNCHANGED <<aborted, timerVars, dlock, plan>>
ArmCancel(p) ==
  /\ pc[p] = "armCancel" /\ CancelTimer /\ Go(p, "armCreate")
  /\ UNCHANGED <<row, aborted, dlock, plan, bounds, lost>>
ArmCreate(p) ==
  /\ pc[p] = "armCreate" /\ Go(p, "armAssign")
  /\ FreeTimers # {}
  /\ LET t == CHOOSE t \in FreeTimers : TRUE
     IN  armed' = armed \cup {t} /\ plan' = [plan EXCEPT ![p].timer = t]
  /\ UNCHANGED <<row, aborted, mapped, dlock, bounds, lost>>
ArmAssign(p) ==
  /\ pc[p] = "armAssign" /\ Go(p, Return(p))
  /\ mapped' = plan[p].timer /\ plan' = [plan EXCEPT ![p] = NoPlan]
  /\ lost' = (lost /\ plan[p].timer \notin armed)
  /\ UNCHANGED <<row, aborted, armed, dlock, bounds>>

Schedule(p) ==
  \/ Reconcile(p) \/ DropCancel(p) \/ DropStore(p)
  \/ ArmStore(p) \/ ArmCancel(p) \/ ArmCreate(p) \/ ArmAssign(p)

-----------------------------------------------------------------------------
(* sendMessageInternal, for a client or for the callback of a timer.       *)

\* a sender that is refused; a client leaves the retry without the timer it stopped
Refused(p) ==
  /\ dlock' = None
  /\ IF p \in Timers
       THEN Go(p, "clearCancel") /\ UNCHANGED lost
       ELSE Go(p, "idle") /\ Abandoned(row, armed)

SendLock(p) ==
  /\ pc[p] = "lock" /\ dlock = None
  /\ \/ Fail("db") /\ Refused(p)
     \/ row.archived /\ Refused(p) /\ UNCHANGED bounds
     \/ ~row.archived /\ dlock' = p /\ Go(p, "cancel") /\ UNCHANGED <<bounds, lost>>
  /\ UNCHANGED <<row, aborted, timerVars, plan>>
SendCancel(p) ==
  /\ pc[p] = "cancel" /\ CancelTimer /\ Go(p, "check")
  /\ UNCHANGED <<row, aborted, dlock, plan, bounds, lost>>
SendCheck(p) ==
  /\ pc[p] = "check"
  /\ IF Running THEN Refused(p) ELSE Go(p, "store") /\ UNCHANGED <<dlock, lost>>
  /\ UNCHANGED <<row, aborted, timerVars, plan, bounds>>
\* the messages and the row; only a message of the user resets the counter
SendStore(p) ==
  /\ pc[p] = "store"
  /\ \/ /\ Store([row EXCEPT !.status = "running", !.next = FALSE,
                             !.attempt = IF p \in Timers THEN @ ELSE 0, !.retryable = TRUE])
        /\ Go(p, "start") /\ UNCHANGED <<dlock, bounds>>
     \/ Fail("db") /\ Refused(p) /\ UNCHANGED row
  /\ UNCHANGED <<aborted, timerVars, plan>>
SendStart(p) ==
  /\ pc[p] = "start" /\ dlock' = None
  /\ pc' = [pc EXCEPT ![p] = "idle", ![Runner] = "live"]
  /\ UNCHANGED <<row, aborted, timerVars, plan, bounds, lost>>

Sending(p) == SendLock(p) \/ SendCancel(p) \/ SendCheck(p) \/ SendStore(p) \/ SendStart(p)

-----------------------------------------------------------------------------
(* The callback of a timer.                                                *)

\* the timer expires
Fire(t) ==
  /\ t \in armed /\ armed' = armed \ {t} /\ Go(t, "fired")
  /\ UNCHANGED <<row, aborted, mapped, dlock, plan, bounds, lost>>
Fired(t) ==
  /\ pc[t] = "fired" /\ CancelTimer /\ Go(t, "execute")
  /\ UNCHANGED <<row, aborted, dlock, plan, bounds, lost>>
\* a variant for the checks: a retry that is not due any more stays stored
ExecuteSilently(t) ==
  /\ pc[t] = "execute"
  /\ \/ Fail("db") /\ Go(t, "idle") /\ lost' = TRUE
     \/ /\ Go(t, IF row.archived \/ ~row.enabled \/ row.status # "error" \/ ~row.retryable
                 THEN "idle" ELSE "lock")
        /\ UNCHANGED <<bounds, lost>>
  /\ UNCHANGED <<row, aborted, timerVars, dlock, plan>>
\* executeAutoRetry: a session that cannot be read is left alone
Execute(t) ==
  /\ pc[t] = "execute"
  /\ \/ Fail("db") /\ Go(t, "idle") /\ lost' = TRUE
     \/ /\ Go(t, IF row.archived \/ ~row.enabled \/ row.status # "error" \/ ~row.retryable
                 THEN "clearCancel" ELSE "lock")
        /\ UNCHANGED <<bounds, lost>>
  /\ UNCHANGED <<row, aborted, timerVars, dlock, plan>>
\* clearAutoRetryNextAt
ClearCancel(t) ==
  /\ pc[t] = "clearCancel" /\ CancelTimer /\ Go(t, "clearStore")
  /\ UNCHANGED <<row, aborted, dlock, plan, bounds, lost>>
ClearStore(t) ==
  /\ pc[t] = "clearStore" /\ Go(t, "idle")
  /\ \/ Store([row EXCEPT !.next = FALSE]) /\ UNCHANGED bounds
     \/ Fail("db") /\ lost' = TRUE /\ UNCHANGED row
  /\ UNCHANGED <<aborted, timerVars, dlock, plan>>

Callback(t) == Fired(t) \/ Execute(t) \/ Sending(t) \/ ClearCancel(t) \/ ClearStore(t)

-----------------------------------------------------------------------------
(* The run.                                                                *)

\* it completes or was aborted: the outcome is stored, then the timer is stopped
RunEnds ==
  /\ pc[Runner] = "live" /\ Go(Runner, "ended")
  /\ TryStore([row EXCEPT !.status = "idle", !.attempt = 0, !.next = FALSE])
  /\ UNCHANGED <<aborted, timerVars, dlock, plan>>
RunEnded ==
  /\ pc[Runner] = "ended" /\ CancelTimer /\ Go(Runner, "close")
  /\ UNCHANGED <<row, aborted, dlock, plan, bounds, lost>>
\* it fails, with an error that qualifies for a retry or not (handleRunFailureWithCode)
RunFails ==
  /\ pc[Runner] = "live" /\ ~aborted /\ "run" \in Faults /\ Go(Runner, "reconcile")
  /\ \E again \in BOOLEAN : TryStore([row EXCEPT !.status = "error", !.retryable = again])
  /\ UNCHANGED <<aborted, timerVars, dlock, plan>>
\* run.done is closed, which an archiving handler waits for, and the run is released
RunCloses ==
  /\ pc[Runner] = "close"
  /\ pc' = [p \in Procs |-> IF p = Runner THEN "release"
                            ELSE IF pc[p] = "archiveStop" THEN "archiveStoreIdle" ELSE pc[p]]
  /\ UNCHANGED <<row, aborted, timerVars, dlock, plan, bounds, lost>>
RunReleased ==
  /\ pc[Runner] = "release" /\ Go(Runner, "idle") /\ aborted' = FALSE
  /\ UNCHANGED <<row, timerVars, dlock, plan, bounds, lost>>

Run == RunEnds \/ RunEnded \/ RunFails \/ RunCloses \/ RunReleased

-----------------------------------------------------------------------------
(* Commands.                                                               *)

\* every path to sendMessageInternal but the retry's: a command, the pending queue, ...
Send(c) ==
  /\ pc[c] = "idle" /\ Command("send") /\ Go(c, "lock")
  /\ UNCHANGED <<row, aborted, timerVars, dlock, plan, lost>>

\* UpdateAutoRetry: store, stop the timer, schedule again; under another scope the error of
\* the session may qualify that did not before, or the other way round
Set(c, enabled) ==
  /\ pc[c] = "idle" /\ Command("set") /\ Go(c, "setCancel")
  /\ \E again \in Qualifies :
       Store([row EXCEPT !.enabled = enabled, !.retryable = again, !.attempt = 0,
                         !.next = FALSE])
  /\ UNCHANGED <<aborted, timerVars, dlock, plan>>
SetCancel(c) ==
  /\ pc[c] = "setCancel" /\ CancelTimer /\ Go(c, "reconcile")
  /\ UNCHANGED <<row, aborted, dlock, plan, bounds, lost>>

\* AbortSession: the run only, not the timer
Abort(c) ==
  /\ pc[c] = "idle" /\ Command("abort") /\ Running /\ aborted' = TRUE
  /\ UNCHANGED <<row, timerVars, dlock, pc, plan, lost>>

\* ArchiveSession: stop the run, or give up when it does not stop; store; stop the timer
Archive(c) ==
  /\ pc[c] = "idle" /\ Command("archive") /\ ~row.archived
  /\ IF Running THEN aborted' = TRUE /\ Go(c, "archiveStop")
                ELSE Go(c, "archiveStore") /\ UNCHANGED aborted
  /\ UNCHANGED <<row, timerVars, dlock, plan, lost>>
ArchiveTimesOut(c) ==
  /\ pc[c] = "archiveStop" /\ Go(c, "idle")
  /\ UNCHANGED <<row, aborted, timerVars, dlock, plan, bounds, lost>>
ArchiveStore(c) ==
  /\ pc[c] \in {"archiveStore", "archiveStoreIdle"}
  /\ \/ /\ \E again \in Qualifies :
             Store([row EXCEPT !.archived = TRUE, !.attempt = 0, !.next = FALSE,
                               !.retryable = again,
                               !.status = IF pc[c] = "archiveStoreIdle" THEN "idle" ELSE @])
        /\ Go(c, "archiveCancel") /\ UNCHANGED bounds
     \/ Fail("db") /\ Go(c, "idle") /\ UNCHANGED <<row, lost>>
  /\ UNCHANGED <<aborted, timerVars, dlock, plan>>
ArchiveCancel(c) ==
  /\ pc[c] = "archiveCancel" /\ CancelTimer /\ Go(c, "idle")
  /\ Abandoned(row, armed \ {mapped})
  /\ UNCHANGED <<row, aborted, dlock, plan, bounds>>
Unarchive(c) ==
  /\ pc[c] = "idle" /\ Command("archive") /\ row.archived
  /\ row' = [row EXCEPT !.archived = FALSE] /\ Abandoned(row', armed)
  /\ UNCHANGED <<aborted, timerVars, dlock, pc, plan>>

ClientCommand(c) ==
  \/ Send(c) \/ Abort(c) \/ Archive(c) \/ Unarchive(c) \/ \E b \in BOOLEAN : Set(c, b)
ClientStep(c) ==
  \/ SetCancel(c) \/ ArchiveTimesOut(c) \/ ArchiveStore(c) \/ ArchiveCancel(c)
  \/ Sending(c) \/ Schedule(c)

\* a variant for the checks: only interrupted sessions get a timer
RearmedIfRunning(r) == r.enabled /\ r.next /\ ~r.archived /\ r.status = "running"
\* the rows that recoverPendingAutoRetrySessions selects
Rearmed(r) == r.enabled /\ r.next /\ ~r.archived
\* recoverInterruptedSessions, then recoverPendingAutoRetrySessions
Recovered ==
  IF row.status = "running"
    THEN [row EXCEPT !.status = "idle", !.attempt = 0, !.next = FALSE] ELSE row
Restart ==
  /\ Fail("crash") /\ Store(Recovered)
  /\ LET t == CHOOSE t \in Timers : TRUE
     IN  IF Rearmed(row')
           THEN mapped' = t /\ armed' = {t} ELSE mapped' = None /\ armed' = {}
  /\ aborted' = FALSE /\ dlock' = None
  /\ pc' = [p \in Procs |-> "idle"]
  /\ plan' = [p \in Procs |-> NoPlan]

Next ==
  \/ \E c \in Clients : ClientCommand(c) \/ ClientStep(c)
  \/ \E t \in Timers : Fire(t) \/ Callback(t)
  \/ Run \/ Schedule(Runner) \/ Restart

Spec == Init /\ [][Next]_vars
Fairness ==
  /\ \A c \in Clients : WF_vars(ClientStep(c))
  /\ \A t \in Timers : WF_vars(Fire(t)) /\ WF_vars(Callback(t))
  /\ WF_vars(Run \/ Schedule(Runner))
FairSpec == Spec /\ Fairness

-----------------------------------------------------------------------------
(* Properties.                                                             *)

\* Types of the variables.
TypeOK ==
  /\ row \in Row /\ aborted \in BOOLEAN
  /\ mapped \in Timers \cup {None} /\ armed \subseteq Timers
  /\ dlock \in Clients \cup Timers \cup {None}
  /\ DOMAIN pc = Procs /\ pc[Runner] \in RunnerPCs
  /\ \A c \in Clients : pc[c] \in ClientPCs
  /\ \A t \in Timers : pc[t] \in TimerPCs
  /\ plan \in [Procs -> [attempt : Nat, next : BOOLEAN,
                         timer : Timers \cup {None}]]
  /\ cmds \in 0..MaxCommands /\ faults \in 0..MaxFaults /\ lost \in BOOLEAN

\* Somebody will still look at the stored retry: a timer that runs, a callback, whoever has
\* scheduling before it, or a sender that will start the run or say that it did not.
Attended ==
  \/ armed # {} \/ \E t \in Timers : pc[t] # "idle"
  \/ \E p \in Clients \cup {Runner} : pc[p] \in (SchedulePCs \ {"armAssign"}) \cup {"check", "store"}

\* A retry that the row promises is never forgotten: cancelAutoRetryTimer stops whatever
\* timer the map holds, perhaps the one another goroutine has just set, and yet a timer or
\* somebody on the way to set one, send or clear the row remains, after a restart too.
\* Excepted is a retry that was left without a timer as `lost` says.
RetryAttended == Waiting(row) => lost \/ Attended

\* A stored retry is taken up, given up or replaced in the end, whatever timers it was given
\* and lost meanwhile: the row never promises "next" for ever.  Excepted is a retry that was
\* left without a timer as `lost` says.  This is what the fairness of AutoRetry in
\* PendingInputs rests on: executeAutoRetry, clearAutoRetryNextAt, scheduleAutoRetry,
\* setAutoRetryTimer and recoverPendingAutoRetrySessions together keep it.
EventuallyDecided == Waiting(row) ~> (~Waiting(row) \/ lost)

=============================================================================
