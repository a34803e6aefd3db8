--------------------------- MODULE AutoRetry_proofs ---------------------------
(* AutoRetry for every set of clients and timers and every bound: types, one    *)
(* run per session, and RetryAttended.                                          *)
EXTENDS AutoRetry, TLAPS

-----------------------------------------------------------------------------
(* The inductive invariant.                                                 *)

PCs == RunnerPCs \cup ClientPCs \cup TimerPCs
Plan == [attempt : Nat, next : BOOLEAN, timer : Timers \cup {None}]

\* Everybody is at a place of its own code.
Fits(p, where) ==
  \/ p = Runner /\ where \in RunnerPCs
  \/ p \in Clients /\ where \in ClientPCs
  \/ p \in Timers /\ where \in TimerPCs

Data ==
  /\ row \in Row /\ aborted \in BOOLEAN
  /\ mapped \in Timers \cup {None} /\ armed \subseteq Timers
  /\ dlock \in Clients \cup Timers \cup {None}
  /\ cmds \in 0..MaxCommands /\ faults \in 0..MaxFaults /\ lost \in BOOLEAN
Places == pc \in [Procs -> PCs] /\ \A p \in Procs : Fits(p, pc[p])
Types == Data /\ Places /\ plan \in [Procs -> Plan]

\* Whoever is past the lock holds it, and finds no run where it starts one.
Locked == {"cancel", "check", "store", "start"}
OneRun ==
  \A p \in Clients \cup Timers :
    /\ pc[p] \in Locked => dlock = p
    /\ pc[p] \in {"store", "start"} => pc[Runner] = "idle"

\* From the row of a run that starts to its outcome nothing is stored as an error: only the
\* run itself fails.
Lively ==
  /\ \A p \in Clients \cup Timers : pc[p] = "start" => row.status # "error"
  /\ pc[Runner] \in {"live", "ended"} => row.status # "error"

\* Who gives the retry up stores that.
Dropping == {"dropCancel", "dropStore"}
GivesUp == \A p \in Procs : pc[p] \in Dropping => ~plan[p].next

Shape == OneRun /\ Lively /\ GivesUp
IInv == Types /\ Shape /\ RetryAttended

-----------------------------------------------------------------------------
(* How a step moves one goroutine.                                          *)

\* p goes where it may go, everybody else stays; ...
Moved(p, where) ==
  Places' /\ pc'[p] = where /\ \A q \in Procs \ {p} : pc'[q] = pc[q]
\* ... it changes no plan but its own.
OwnPlan(p) == plan' \in [Procs -> Plan] /\ \A q \in Procs \ {p} : plan'[q] = plan[q]

LEMMA Kinds ==
  /\ Runner \in Procs /\ Runner \notin Clients /\ Runner \notin Timers
  /\ Clients \subseteq Procs /\ Timers \subseteq Procs
  /\ \A p \in Procs : p \in Clients \/ p \in Timers \/ p = Runner
  /\ \A p \in Clients : p \notin Timers /\ p # Runner
  /\ \A p \in Timers : p \notin Clients /\ p # Runner
  BY RetryAssumption DEF Procs

LEMMA Moves ==
  ASSUME Types, NEW p \in Procs, NEW w, Go(p, w), Fits(p, w)
  PROVE  Moved(p, w)
<1>1. w \in PCs
  BY DEF Fits, PCs
<1>2. /\ pc' \in [Procs -> PCs] /\ pc'[p] = w
      /\ \A q \in Procs \ {p} : pc'[q] = pc[q]
  BY <1>1 DEF Go, Types, Places
<1>3. \A q \in Procs : Fits(q, pc'[q])
  BY <1>2 DEF Types, Places
<1>4. QED
  BY <1>2, <1>3 DEF Moved, Places

\* A plan that stays.
LEMMA SamePlan ==
  ASSUME Types, NEW p \in Procs, UNCHANGED plan
  PROVE  OwnPlan(p)
  BY DEF Types, OwnPlan

LEMMA NewPlan ==
  ASSUME Types, NEW p \in Procs, NEW x \in Plan, plan' = [plan EXCEPT ![p] = x]
  PROVE  OwnPlan(p) /\ plan'[p] = x
  BY DEF Types, OwnPlan

\* A goroutine that moves to a place of no significance to the rest.
LEMMA Usual ==
  ASSUME Types, Shape, NEW p \in Procs, NEW w, Moved(p, w), OwnPlan(p), UNCHANGED dlock,
         p = Runner \/ row'.status = row.status \/ row'.status # "error",
         w \in {"live", "ended"} => row'.status # "error",
         w \notin Locked, w \in Dropping => ~plan'[p].next,
         p = Runner => pc[Runner] # "idle"
  PROVE  Shape'
<1>1. OneRun'
  <2>1. SUFFICES ASSUME NEW q \in Clients \cup Timers
                 PROVE  /\ pc'[q] \in Locked => dlock' = q
                        /\ pc'[q] \in {"store", "start"} => pc'[Runner] = "idle"
    BY DEF OneRun
  <2>2. q \in Procs /\ Runner \in Procs /\ q # Runner
    BY Kinds
  <2>3. CASE q = p
    BY <2>2, <2>3 DEF Moved, Locked
  <2>4. CASE q # p
    <3>1. pc'[q] = pc[q]
      BY <2>2, <2>4 DEF Moved
    <3>2. /\ pc[q] \in Locked => dlock = q
          /\ pc[q] \in {"store", "start"} => pc[Runner] = "idle"
      BY DEF Shape, OneRun
    <3>3. CASE p = Runner
      BY <3>1, <3>2, <3>3
    <3>4. CASE p # Runner
      <4>1. pc'[Runner] = pc[Runner]
        BY <2>2, <3>4 DEF Moved
      <4>2. QED
        BY <3>1, <3>2, <4>1
    <3>5. QED
      BY <3>3, <3>4
  <2>5. QED
    BY <2>3, <2>4
<1>2. Lively'
  <2>1. \A q \in Clients \cup Timers : pc'[q] = "start" => row'.status # "error"
    <3>1. SUFFICES ASSUME NEW q \in Clients \cup Timers, pc'[q] = "start"
                   PROVE  row'.status # "error"
      OBVIOUS
    <3>2. q \in Procs /\ q # p
      BY <3>1, Kinds DEF Moved, Locked
    <3>3. pc[q] = "start"
      BY <3>1, <3>2 DEF Moved
    <3>4. pc[Runner] = "idle" /\ row.status # "error"
      BY <3>3 DEF Shape, Lively, OneRun
    <3>5. QED
      BY <3>4
  <2>2. pc'[Runner] \in {"live", "ended"} => row'.status # "error"
    <3>1. CASE p = Runner
      BY <3>1 DEF Moved
    <3>2. CASE p # Runner
      <4>1. pc'[Runner] = pc[Runner]
        BY <3>2, Kinds DEF Moved
      <4>2. QED
        BY <3>2, <4>1 DEF Shape, Lively
    <3>3. QED
      BY <3>1, <3>2
  <2>3. QED
    BY <2>1, <2>2 DEF Lively
<1>3. GivesUp'
  <2>1. SUFFICES ASSUME NEW q \in Procs, pc'[q] \in Dropping
                 PROVE  ~plan'[q].next
    BY DEF GivesUp
  <2>2. CASE q = p
    BY <2>1, <2>2 DEF Moved
  <2>3. CASE q # p
    BY <2>1, <2>3 DEF Moved, OwnPlan, Shape, GivesUp
  <2>4. QED
    BY <2>2, <2>3
<1>4. QED
  BY <1>1, <1>2, <1>3 DEF Shape

-----------------------------------------------------------------------------
(* What a step must do for the stored retry.                                *)

Heeds == (SchedulePCs \ {"armAssign"}) \cup {"check", "store"}
Attends(p, where) == IF p \in Timers THEN where # "idle" ELSE where \in Heeds

LEMMA AttendedBy ==
  Attended <=> armed # {} \/ \E p \in Procs : Attends(p, pc[p])
  BY Kinds DEF Attended, Attends, Heeds

LEMMA AttendedNext ==
  Attended' <=> armed' # {} \/ \E p \in Procs : Attends(p, pc'[p])
  BY Kinds DEF Attended, Attends, Heeds

\* The goroutine that moves attends to it.
LEMMA Attending ==
  ASSUME NEW p \in Procs, NEW w, Moved(p, w), Attends(p, w)
  PROVE  RetryAttended'
  BY AttendedNext DEF RetryAttended, Moved

\* Nobody who attended to it leaves.
Keeping == \A p \in Procs : Attends(p, pc[p]) => Attends(p, pc'[p])
LEMMA Kept ==
  ASSUME RetryAttended, Keeping, Waiting(row') => Waiting(row), lost => lost',
         armed # {} => armed' # {}
  PROVE  RetryAttended'
<1>1. Attended => Attended'
  BY AttendedBy, AttendedNext DEF Keeping
<1>2. QED
  BY <1>1 DEF RetryAttended

LEMMA KeptBy ==
  ASSUME NEW p \in Procs, NEW w, Moved(p, w), Attends(p, pc[p]) => Attends(p, w)
  PROVE  Keeping
  BY DEF Keeping, Moved

\* The step says so when nothing is left.
LEMMA Told ==
  ASSUME \A t \in Timers : pc'[t] = pc[t],
         Waiting(row') /\ armed' = {} /\ (\A t \in Timers : pc[t] = "idle") => lost'
  PROVE  RetryAttended'
<1>1. SUFFICES ASSUME Waiting(row'), ~lost'
               PROVE  Attended'
  BY DEF RetryAttended
<1>2. armed' # {} \/ \E t \in Timers : pc'[t] # "idle"
  BY <1>1
<1>3. QED
  BY <1>2 DEF Attended

-----------------------------------------------------------------------------
(* The steps of scheduleAutoRetry.                                          *)

\* A quiet step of p: what has to be shown of it.
LEMMA Quiet ==
  ASSUME IInv, NEW p \in Procs, NEW w, Moved(p, w), OwnPlan(p), UNCHANGED dlock, Data',
         p = Runner \/ row'.status = row.status \/ row'.status # "error",
         w \in {"live", "ended"} => row'.status # "error",
         w \notin Locked, w \in Dropping => ~plan'[p].next,
         p = Runner => pc[Runner] # "idle",
         RetryAttended'
  PROVE  IInv'
<1>1. Shape'
  BY Usual DEF IInv
<1>2. Types'
  BY DEF Types, Moved, OwnPlan
<1>3. QED
  BY <1>1, <1>2 DEF IInv

LEMMA Bounded ==
  ASSUME Data
  PROVE  /\ UNCHANGED bounds => cmds' \in 0..MaxCommands /\ faults' \in 0..MaxFaults
         /\ \A f : Fail(f) => cmds' \in 0..MaxCommands /\ faults' \in 0..MaxFaults
         /\ \A op : Command(op) => cmds' \in 0..MaxCommands /\ faults' \in 0..MaxFaults
  BY RetryAssumption DEF Data, bounds, Fail, Command

LEMMA Stored ==
  ASSUME Data, NEW r \in Row, Store(r)
  PROVE  row' = r /\ row' \in Row /\ lost' \in BOOLEAN
  BY DEF Store

LEMMA AbandonedType ==
  ASSUME NEW r, NEW s, Abandoned(r, s)
  PROVE  /\ lost' \in BOOLEAN /\ (lost => lost')
         /\ Waiting(r) /\ s = {} /\ (\A t \in Timers : pc[t] = "idle") => lost'
  BY DEF Abandoned

LEMMA PlannedType ==
  ASSUME Types, NEW p \in Procs
  PROVE  Planned(p) \in Row /\ Planned(p).status = row.status /\ Planned(p).next = plan[p].next
<1>1. plan[p] \in Plan /\ row \in Row
  BY DEF Types, Data
<1>2. QED
  BY <1>1 DEF Planned, Plan, Row

LEMMA Schedulers ==
  ASSUME NEW p \in Clients \cup {Runner}
  PROVE  /\ p \in Procs /\ p \notin Timers
         /\ \A w \in SchedulePCs : Fits(p, w)
         /\ Fits(p, Return(p)) /\ Return(p) \notin Locked \cup Dropping \cup {"live", "ended"}
  BY Kinds DEF Fits, RunnerPCs, ClientPCs, SchedulePCs, Return, Locked, Dropping

LEMMA ReconcileStep ==
  ASSUME IInv, NEW p \in Clients \cup {Runner}, Reconcile(p)
  PROVE  IInv'
<1>0. /\ Types /\ Data /\ p \in Procs /\ p \notin Timers /\ pc[p] = "reconcile"
      /\ UNCHANGED <<row, aborted, timerVars, dlock>>
  BY Schedulers DEF IInv, Types, Reconcile
<1>1. CASE Fail("db") /\ Go(p, Return(p)) /\ Abandoned(row, armed) /\ UNCHANGED plan
  <2>1. Moved(p, Return(p)) /\ OwnPlan(p)
    BY <1>0, <1>1, Moves, SamePlan, Schedulers
  <2>2. Data'
    BY <1>0, <1>1, Bounded, AbandonedType DEF Data, timerVars
  <2>3. \A t \in Timers : pc'[t] = pc[t]
    BY <1>0, <2>1, Kinds DEF Moved
  <2>4. Waiting(row') /\ armed' = {} /\ (\A t \in Timers : pc[t] = "idle") => lost'
    BY <1>0, <1>1, AbandonedType DEF timerVars
  <2>5. RetryAttended'
    BY <2>3, <2>4, Told
  <2>6. QED
    BY <1>0, <2>1, <2>2, <2>5, Quiet, Schedulers
<1>2. CASE row.status # "error" /\ Go(p, Return(p)) /\ UNCHANGED <<plan, bounds, lost>>
  <2>1. Moved(p, Return(p)) /\ OwnPlan(p)
    BY <1>0, <1>2, Moves, SamePlan, Schedulers
  <2>2. Data'
    BY <1>0, <1>2, Bounded DEF Data, timerVars
  <2>3. RetryAttended'
    BY <1>0, <1>2 DEF RetryAttended, Waiting
  <2>4. QED
    BY <1>0, <2>1, <2>2, <2>3, Quiet, Schedulers
<1>3. CASE row.status = "error" /\ Decide(p, row) /\ UNCHANGED <<bounds, lost>>
  <2>1. PICK try \in BOOLEAN : try = (row.enabled /\ ~row.archived /\ row.retryable)
    OBVIOUS
  <2>2. PICK again \in BOOLEAN : again = (try /\ row.attempt < MaxAttempts)
    OBVIOUS
  <2>3. PICK x : x = [attempt |-> IF try THEN row.attempt + 1 ELSE 0, next |-> again,
                      timer |-> None]
    OBVIOUS
  <2>4. PICK w : w = IF again THEN "armStore" ELSE "dropCancel"
    OBVIOUS
  <2>5. plan' = [plan EXCEPT ![p] = x] /\ Go(p, w)
    BY <1>3, <2>1, <2>2, <2>3, <2>4 DEF Decide
  <2>6. x \in Plan /\ x.next = again
    BY <1>0, <2>3 DEF Data, Row, Plan
  <2>7. w \in SchedulePCs /\ w # "armAssign" /\ w \notin Locked \cup {"live", "ended"}
    BY <2>4 DEF SchedulePCs, Locked
  <2>8. Moved(p, w) /\ OwnPlan(p) /\ plan'[p] = x
    BY <1>0, <2>5, <2>6, <2>7, Moves, NewPlan, Schedulers
  <2>9. Data'
    BY <1>0, <1>3, Bounded DEF Data, timerVars
  <2>10. RetryAttended'
    BY <1>0, <2>7, <2>8, Attending DEF Attends, Heeds
  <2>11. w \in Dropping => ~plan'[p].next
    BY <2>4, <2>6, <2>8 DEF Dropping
  <2>12. QED
    BY <1>0, <2>7, <2>8, <2>9, <2>10, <2>11, Quiet
<1>4. QED
  BY <1>1, <1>2, <1>3 DEF Reconcile

LEMMA DropCancelStep ==
  ASSUME IInv, NEW p \in Clients \cup {Runner}, DropCancel(p)
  PROVE  IInv'
<1>0. /\ Types /\ Data /\ p \in Procs /\ p \notin Timers /\ pc[p] = "dropCancel"
      /\ UNCHANGED <<row, aborted, dlock, plan, bounds, lost>>
      /\ CancelTimer /\ Go(p, "dropStore")
  BY Schedulers DEF IInv, Types, DropCancel
<1>1. Moved(p, "dropStore") /\ OwnPlan(p)
  BY <1>0, Moves, SamePlan, Schedulers DEF SchedulePCs
<1>2. Data'
  BY <1>0, Bounded DEF Data, CancelTimer
<1>3. RetryAttended'
  BY <1>0, <1>1, Attending DEF Attends, Heeds, SchedulePCs
<1>4. ~plan'[p].next
  BY <1>0 DEF IInv, Shape, GivesUp, Dropping
<1>5. QED
  BY <1>0, <1>1, <1>2, <1>3, <1>4, Quiet DEF Locked

LEMMA DropStoreStep ==
  ASSUME IInv, NEW p \in Clients \cup {Runner}, DropStore(p)
  PROVE  IInv'
<1>0. /\ Types /\ Data /\ p \in Procs /\ p \notin Timers /\ pc[p] = "dropStore"
      /\ UNCHANGED <<aborted, timerVars, dlock>>
      /\ Go(p, Return(p)) /\ plan' = [plan EXCEPT ![p] = NoPlan]
  BY Schedulers DEF IInv, Types, DropStore
<1>1. NoPlan \in Plan
  BY DEF NoPlan, Plan
<1>2. Moved(p, Return(p)) /\ OwnPlan(p)
  BY <1>0, <1>1, Moves, NewPlan, Schedulers
<1>3. PICK r : r = Planned(p)
  OBVIOUS
<1>4. r \in Row /\ r.status = row.status /\ ~r.next
  BY <1>0, <1>3, PlannedType DEF IInv, Shape, GivesUp, Dropping
<1>5. CASE Store(r) /\ UNCHANGED bounds
  <2>1. row' = r /\ Data'
    BY <1>0, <1>4, <1>5, Bounded, Stored DEF Data, timerVars
  <2>2. RetryAttended'
    BY <2>1, <1>4 DEF RetryAttended, Waiting
  <2>3. QED
    BY <1>0, <1>2, <1>4, <2>1, <2>2, Quiet, Schedulers
<1>6. CASE Fail("db") /\ lost' = TRUE /\ UNCHANGED row
  <2>1. Data'
    BY <1>0, <1>6, Bounded DEF Data, timerVars
  <2>2. RetryAttended'
    BY <1>6 DEF RetryAttended
  <2>3. QED
    BY <1>0, <1>2, <1>6, <2>1, <2>2, Quiet, Schedulers
<1>7. QED
  BY <1>3, <1>5, <1>6 DEF DropStore

LEMMA ArmStoreStep ==
  ASSUME IInv, NEW p \in Clients \cup {Runner}, ArmStore(p)
  PROVE  IInv'
<1>0. /\ Types /\ Data /\ p \in Procs /\ p \notin Timers /\ pc[p] = "armStore"
      /\ UNCHANGED <<aborted, timerVars, dlock, plan>>
      /\ Go(p, "armCancel") /\ TryStore(Planned(p))
  BY Schedulers DEF IInv, Types, ArmStore
<1>1. Moved(p, "armCancel") /\ OwnPlan(p)
  BY <1>0, Moves, SamePlan, Schedulers DEF SchedulePCs
<1>2. PICK r : r = Planned(p)
  OBVIOUS
<1>3. r \in Row /\ r.status = row.status
  BY <1>0, <1>2, PlannedType
<1>4. Data' /\ row'.status = row.status
  <2>1. CASE Store(r) /\ UNCHANGED bounds
    BY <1>0, <1>3, <2>1, Bounded, Stored DEF Data, timerVars
  <2>2. CASE Fail("db") /\ UNCHANGED <<row, lost>>
    BY <1>0, <2>2, Bounded DEF Data, timerVars
  <2>3. QED
    BY <1>0, <1>2, <2>1, <2>2 DEF TryStore
<1>5. RetryAttended'
  BY <1>0, <1>1, Attending DEF Attends, Heeds, SchedulePCs
<1>6. QED
  BY <1>0, <1>1, <1>4, <1>5, Quiet DEF Locked, Dropping

LEMMA ArmCancelStep ==
  ASSUME IInv, NEW p \in Clients \cup {Runner}, ArmCancel(p)
  PROVE  IInv'
<1>0. /\ Types /\ Data /\ p \in Procs /\ p \notin Timers /\ pc[p] = "armCancel"
      /\ UNCHANGED <<row, aborted, dlock, plan, bounds, lost>>
      /\ CancelTimer /\ Go(p, "armCreate")
  BY Schedulers DEF IInv, Types, ArmCancel
<1>1. Moved(p, "armCreate") /\ OwnPlan(p)
  BY <1>0, Moves, SamePlan, Schedulers DEF SchedulePCs
<1>2. Data'
  BY <1>0, Bounded DEF Data, CancelTimer
<1>3. RetryAttended'
  BY <1>0, <1>1, Attending DEF Attends, Heeds, SchedulePCs
<1>4. QED
  BY <1>0, <1>1, <1>2, <1>3, Quiet DEF Locked, Dropping

LEMMA ArmCreateStep ==
  ASSUME IInv, NEW p \in Clients \cup {Runner}, ArmCreate(p)
  PROVE  IInv'
<1>0. /\ Types /\ Data /\ p \in Procs /\ p \notin Timers /\ pc[p] = "armCreate"
      /\ UNCHANGED <<row, aborted, mapped, dlock, bounds, lost>>
      /\ Go(p, "armAssign")
  BY Schedulers DEF IInv, Types, ArmCreate
<1>1. PICK t \in Timers : armed' = armed \cup {t} /\ plan' = [plan EXCEPT ![p].timer = t]
  <2>1. FreeTimers # {} /\ FreeTimers \subseteq Timers
    BY DEF ArmCreate, FreeTimers
  <2>2. (CHOOSE t \in FreeTimers : TRUE) \in Timers
    BY <2>1
  <2>3. QED
    BY <2>2 DEF ArmCreate
<1>2. PICK x : x = [plan[p] EXCEPT !.timer = t]
  OBVIOUS
<1>3. x \in Plan /\ plan' = [plan EXCEPT ![p] = x]
  BY <1>0, <1>1, <1>2 DEF Types, Plan
<1>4. Moved(p, "armAssign") /\ OwnPlan(p)
  BY <1>0, <1>3, Moves, NewPlan, Schedulers DEF SchedulePCs
<1>5. Data'
  BY <1>0, <1>1, Bounded DEF Data
<1>6. RetryAttended'
  BY <1>1 DEF RetryAttended, Attended
<1>7. QED
  BY <1>0, <1>4, <1>5, <1>6, Quiet DEF Locked, Dropping

LEMMA ArmAssignStep ==
  ASSUME IInv, NEW p \in Clients \cup {Runner}, ArmAssign(p)
  PROVE  IInv'
<1>0. /\ Types /\ Data /\ p \in Procs /\ p \notin Timers /\ pc[p] = "armAssign"
      /\ UNCHANGED <<row, aborted, armed, dlock, bounds>>
      /\ Go(p, Return(p)) /\ plan' = [plan EXCEPT ![p] = NoPlan]
      /\ mapped' = plan[p].timer /\ lost' = (lost /\ plan[p].timer \notin armed)
  BY Schedulers DEF IInv, Types, ArmAssign
<1>1. NoPlan \in Plan
  BY DEF NoPlan, Plan
<1>2. Moved(p, Return(p)) /\ OwnPlan(p)
  BY <1>0, <1>1, Moves, NewPlan, Schedulers
<1>3. Data'
  <2>1. plan[p] \in Plan
    BY <1>0 DEF Types
  <2>2. mapped' \in Timers \cup {None}
    BY <1>0, <2>1 DEF Plan
  <2>3. lost' \in BOOLEAN
    BY <1>0
  <2>4. QED
    BY <1>0, <2>2, <2>3, Bounded DEF Data
<1>4. RetryAttended'
  <2>1. CASE plan[p].timer \in armed
    BY <1>0, <2>1 DEF RetryAttended, Attended
  <2>2. CASE plan[p].timer \notin armed
    <3>1. lost => lost'
      BY <1>0, <2>2
    <3>2. Keeping
      BY <1>0, <1>2, KeptBy DEF Attends, Heeds, SchedulePCs
    <3>3. QED
      BY <1>0, <3>1, <3>2, Kept DEF IInv
  <2>3. QED
    BY <2>1, <2>2
<1>5. QED
  BY <1>0, <1>2, <1>3, <1>4, Quiet, Schedulers

LEMMA ScheduleStep ==
  ASSUME IInv, NEW p \in Clients \cup {Runner}, Schedule(p)
  PROVE  IInv'
  BY ReconcileStep, DropCancelStep, DropStoreStep, ArmStoreStep, ArmCancelStep, ArmCreateStep,
     ArmAssignStep DEF Schedule

-----------------------------------------------------------------------------
(* The steps of sendMessageInternal.                                        *)

LEMMA Senders ==
  ASSUME NEW p \in Clients \cup Timers
  PROVE  /\ p \in Procs /\ p # Runner /\ p # None
         /\ \A w \in SendPCs \cup {"idle"} : Fits(p, w)
         /\ p \in Timers => Fits(p, "clearCancel")
         /\ p \in Clients <=> p \notin Timers
  BY Kinds, RetryAssumption DEF Fits, ClientPCs, TimerPCs

\* A sender that takes, holds or gives back the lock.
LEMMA Locking ==
  ASSUME IInv, NEW p \in Clients \cup Timers, NEW w, Moved(p, w), OwnPlan(p), Data',
         dlock \in {p, None}, w \in Locked => dlock' = p,
         w \in {"store", "start"} => pc[Runner] = "idle",
         w = "start" => row'.status # "error", w \notin Dropping,
         row'.status = row.status \/ row'.status # "error",
         RetryAttended'
  PROVE  IInv'
<1>0. p \in Procs /\ p # Runner /\ Types /\ Shape /\ Runner \in Procs
  BY Senders, Kinds DEF IInv
<1>1. pc'[Runner] = pc[Runner]
  BY <1>0 DEF Moved
<1>2. \A q \in (Clients \cup Timers) \ {p} : pc'[q] = pc[q] /\ pc[q] \notin Locked
  <2>1. SUFFICES ASSUME NEW q \in Clients \cup Timers, q # p
                 PROVE  pc'[q] = pc[q] /\ pc[q] \notin Locked
    OBVIOUS
  <2>2. q \in Procs /\ q # None
    BY Senders
  <2>3. dlock # q
    BY <2>1, <2>2
  <2>4. QED
    BY <1>0, <2>1, <2>2, <2>3 DEF Moved, Shape, OneRun
<1>3. OneRun'
  <2>1. SUFFICES ASSUME NEW q \in Clients \cup Timers
                 PROVE  /\ pc'[q] \in Locked => dlock' = q
                        /\ pc'[q] \in {"store", "start"} => pc'[Runner] = "idle"
    BY DEF OneRun
  <2>2. CASE q = p
    BY <1>1, <2>2 DEF Moved
  <2>3. CASE q # p
    BY <1>2, <2>3 DEF Locked
  <2>4. QED
    BY <2>2, <2>3
<1>4. Lively'
  <2>1. \A q \in Clients \cup Timers : pc'[q] = "start" => row'.status # "error"
    BY <1>2 DEF Locked, Moved
  <2>2. pc'[Runner] \in {"live", "ended"} => row'.status # "error"
    BY <1>0, <1>1 DEF Shape, Lively
  <2>3. QED
    BY <2>1, <2>2 DEF Lively
<1>5. GivesUp'
  <2>1. SUFFICES ASSUME NEW q \in Procs, pc'[q] \in Dropping
                 PROVE  ~plan'[q].next
    BY DEF GivesUp
  <2>2. q # p
    BY <2>1 DEF Moved
  <2>3. QED
    BY <1>0, <2>1, <2>2 DEF Moved, OwnPlan, Shape, GivesUp
<1>6. Types'
  BY DEF Types, Moved, OwnPlan
<1>7. QED
  BY <1>3, <1>4, <1>5, <1>6 DEF IInv, Shape

LEMMA Refusal ==
  ASSUME IInv, NEW p \in Clients \cup Timers, Refused(p), dlock \in {p, None},
         UNCHANGED <<row, aborted, timerVars, plan>>,
         cmds' \in 0..MaxCommands, faults' \in 0..MaxFaults
  PROVE  IInv'
<1>0. p \in Procs /\ Types /\ Data /\ dlock' = None
  BY Senders DEF IInv, Types, Refused
<1>1. CASE p \in Timers
  <2>1. Moved(p, "clearCancel") /\ OwnPlan(p) /\ UNCHANGED lost
    BY <1>0, <1>1, Moves, SamePlan, Senders DEF Refused
  <2>2. Data'
    BY <1>0, <2>1 DEF Data, timerVars
  <2>3. RetryAttended'
    BY <1>0, <1>1, <2>1, Attending DEF Attends
  <2>4. QED
    BY <1>0, <2>1, <2>2, <2>3, Locking DEF Locked, Dropping
<1>2. CASE p \notin Timers
  <2>1. Moved(p, "idle") /\ OwnPlan(p) /\ Abandoned(row, armed)
    BY <1>0, <1>2, Moves, SamePlan, Senders DEF Refused
  <2>2. Data'
    BY <1>0, <2>1, AbandonedType DEF Data, timerVars
  <2>3. \A t \in Timers : pc'[t] = pc[t]
    BY <1>0, <1>2, <2>1, Kinds DEF Moved
  <2>4. Waiting(row') /\ armed' = {} /\ (\A t \in Timers : pc[t] = "idle") => lost'
    BY <2>1, AbandonedType DEF timerVars
  <2>5. RetryAttended'
    BY <2>3, <2>4, Told
  <2>6. QED
    BY <1>0, <2>1, <2>2, <2>5, Locking DEF Locked, Dropping
<1>3. QED
  BY <1>1, <1>2

LEMMA SendLockStep ==
  ASSUME IInv, NEW p \in Clients \cup Timers, SendLock(p)
  PROVE  IInv'
<1>0. /\ Types /\ Data /\ p \in Procs /\ pc[p] = "lock" /\ dlock = None
      /\ UNCHANGED <<row, aborted, timerVars, plan>>
  BY Senders DEF IInv, Types, SendLock
<1>1. CASE Fail("db") /\ Refused(p)
  BY <1>0, <1>1, Bounded, Refusal
<1>2. CASE row.archived /\ Refused(p) /\ UNCHANGED bounds
  BY <1>0, <1>2, Bounded, Refusal
<1>3. CASE ~row.archived /\ dlock' = p /\ Go(p, "cancel") /\ UNCHANGED <<bounds, lost>>
  <2>1. Moved(p, "cancel") /\ OwnPlan(p)
    BY <1>0, <1>3, Moves, SamePlan, Senders DEF SendPCs
  <2>2. Data'
    BY <1>0, <1>3, Bounded DEF Data, timerVars
  <2>3. Keeping
    BY <1>0, <2>1, KeptBy DEF Attends, Heeds, SchedulePCs
  <2>4. RetryAttended'
    BY <1>0, <1>3, <2>3, Kept DEF IInv, timerVars
  <2>5. QED
    BY <1>0, <1>3, <2>1, <2>2, <2>4, Locking DEF Dropping
<1>4. QED
  BY <1>1, <1>2, <1>3 DEF SendLock

LEMMA SendCancelStep ==
  ASSUME IInv, NEW p \in Clients \cup Timers, SendCancel(p)
  PROVE  IInv'
<1>0. /\ Types /\ Data /\ p \in Procs /\ pc[p] = "cancel"
      /\ UNCHANGED <<row, aborted, dlock, plan, bounds, lost>>
      /\ CancelTimer /\ Go(p, "check")
  BY Senders DEF IInv, Types, SendCancel
<1>1. dlock = p
  BY <1>0 DEF IInv, Shape, OneRun, Locked
<1>2. Moved(p, "check") /\ OwnPlan(p)
  BY <1>0, Moves, SamePlan, Senders DEF SendPCs
<1>3. Data'
  BY <1>0, Bounded DEF Data, CancelTimer
<1>4. RetryAttended'
  BY <1>0, <1>2, Attending DEF Attends, Heeds
<1>5. QED
  BY <1>0, <1>1, <1>2, <1>3, <1>4, Locking DEF Dropping

LEMMA SendCheckStep ==
  ASSUME IInv, NEW p \in Clients \cup Timers, SendCheck(p)
  PROVE  IInv'
<1>0. /\ Types /\ Data /\ p \in Procs /\ pc[p] = "check"
      /\ UNCHANGED <<row, aborted, timerVars, plan, bounds>>
  BY Senders DEF IInv, Types, SendCheck
<1>1. dlock = p
  BY <1>0 DEF IInv, Shape, OneRun, Locked
<1>2. CASE Running
  BY <1>0, <1>1, <1>2, Bounded, Refusal DEF SendCheck
<1>3. CASE ~Running
  <2>1. Go(p, "store") /\ UNCHANGED <<dlock, lost>>
    BY <1>3 DEF SendCheck
  <2>2. Moved(p, "store") /\ OwnPlan(p)
    BY <1>0, <2>1, Moves, SamePlan, Senders DEF SendPCs
  <2>3. Data'
    BY <1>0, <2>1, Bounded DEF Data, timerVars
  <2>4. RetryAttended'
    BY <1>0, <2>2, Attending DEF Attends, Heeds
  <2>5. QED
    BY <1>0, <1>1, <1>3, <2>1, <2>2, <2>3, <2>4, Locking DEF Dropping, Running
<1>4. QED
  BY <1>2, <1>3

LEMMA SendStoreStep ==
  ASSUME IInv, NEW p \in Clients \cup Timers, SendStore(p)
  PROVE  IInv'
<1>0. /\ Types /\ Data /\ p \in Procs /\ pc[p] = "store"
      /\ UNCHANGED <<aborted, timerVars, plan>>
  BY Senders DEF IInv, Types, SendStore
<1>1. dlock = p /\ pc[Runner] = "idle"
  BY <1>0 DEF IInv, Shape, OneRun, Locked
<1>2. PICK r : r = [row EXCEPT !.status = "running", !.next = FALSE,
                    !.attempt = IF p \in Timers THEN @ ELSE 0, !.retryable = TRUE]
  OBVIOUS
<1>3. r \in Row /\ r.status = "running"
  BY <1>0, <1>2 DEF Data, Row
<1>4. CASE Store(r) /\ Go(p, "start") /\ UNCHANGED <<dlock, bounds>>
  <2>1. Moved(p, "start") /\ OwnPlan(p)
    BY <1>0, <1>4, Moves, SamePlan, Senders DEF SendPCs
  <2>2. row' = r /\ Data'
    BY <1>0, <1>3, <1>4, Bounded, Stored DEF Data, timerVars
  <2>3. RetryAttended'
    BY <1>3, <2>2 DEF RetryAttended, Waiting
  <2>4. QED
    BY <1>0, <1>1, <1>3, <1>4, <2>1, <2>2, <2>3, Locking DEF Dropping
<1>5. CASE Fail("db") /\ Refused(p) /\ UNCHANGED row
  BY <1>0, <1>1, <1>5, Bounded, Refusal
<1>6. QED
  BY <1>2, <1>4, <1>5 DEF SendStore

LEMMA SendStartStep ==
  ASSUME IInv, NEW p \in Clients \cup Timers, SendStart(p)
  PROVE  IInv'
<1>0. /\ Types /\ Data /\ p \in Procs /\ p # Runner /\ Runner \in Procs /\ pc[p] = "start"
      /\ dlock' = None /\ UNCHANGED <<row, aborted, timerVars, plan, bounds, lost>>
  BY Senders, Kinds DEF IInv, Types, SendStart
<1>1. dlock = p /\ row.status # "error"
  BY <1>0 DEF IInv, Shape, OneRun, Lively, Locked
<1>2. /\ pc' \in [Procs -> PCs] /\ pc'[p] = "idle" /\ pc'[Runner] = "live"
      /\ \A q \in Procs \ {p, Runner} : pc'[q] = pc[q]
  BY <1>0 DEF SendStart, Types, Places, PCs, RunnerPCs
<1>3. Places'
  <2>1. Fits(p, "idle") /\ Fits(Runner, "live")
    BY Senders DEF Fits, RunnerPCs
  <2>2. \A q \in Procs : Fits(q, pc'[q])
    BY <1>0, <1>2, <2>1 DEF Types, Places
  <2>3. QED
    BY <1>2, <2>2 DEF Places
<1>4. Data'
  BY <1>0, Bounded DEF Data, timerVars
<1>5. \A q \in Clients \cup Timers : pc'[q] \notin Locked
  <2>1. SUFFICES ASSUME NEW q \in Clients \cup Timers
                 PROVE  pc'[q] \notin Locked
    OBVIOUS
  <2>2. q \in Procs /\ q # Runner
    BY Senders
  <2>3. CASE q = p
    BY <1>2, <2>3 DEF Locked
  <2>4. CASE q # p
    BY <1>1, <1>2, <2>2, <2>4 DEF IInv, Shape, OneRun
  <2>5. QED
    BY <2>3, <2>4
<1>6. OneRun' /\ Lively'
  BY <1>0, <1>1, <1>5 DEF OneRun, Lively, Locked
<1>7. GivesUp'
  BY <1>0, <1>2 DEF IInv, Shape, GivesUp, Dropping
<1>8. RetryAttended'
  BY <1>0, <1>1 DEF RetryAttended, Waiting
<1>9. QED
  BY <1>0, <1>3, <1>4, <1>6, <1>7, <1>8 DEF IInv, Types, Shape

LEMMA SendingStep ==
  ASSUME IInv, NEW p \in Clients \cup Timers, Sending(p)
  PROVE  IInv'
  BY SendLockStep, SendCancelStep, SendCheckStep, SendStoreStep, SendStartStep DEF Sending

-----------------------------------------------------------------------------
(* The steps of a timer and its callback.                                   *)

LEMMA TimerPlaces ==
  ASSUME NEW t \in Timers
  PROVE  /\ t \in Procs /\ t # Runner /\ t \in Clients \cup Timers
         /\ \A w \in TimerPCs : Fits(t, w)
  BY Kinds DEF Fits

\* A callback that goes on looks at the retry.
LEMMA CallbackGoes ==
  ASSUME IInv, NEW t \in Timers, NEW w, Go(t, w),
         w \in TimerPCs \ (Locked \cup {"idle"}),
         UNCHANGED <<row, dlock, plan>>, Data'
  PROVE  IInv'
<1>1. Moved(t, w) /\ OwnPlan(t)
  BY Moves, SamePlan, TimerPlaces DEF IInv
<1>2. RetryAttended'
  BY <1>1, Attending, TimerPlaces DEF Attends
<1>3. w \notin Locked \cup Dropping \cup {"live", "ended"}
  BY DEF TimerPCs, SendPCs, Dropping
<1>4. QED
  BY <1>1, <1>2, <1>3, Quiet, TimerPlaces

\* A callback that is over has cleared the retry, or could not.
LEMMA CallbackEnds ==
  ASSUME IInv, NEW t \in Timers, Go(t, "idle"), UNCHANGED <<dlock, plan>>, Data',
         row'.status = row.status, ~row'.next \/ lost'
  PROVE  IInv'
<1>1. Moved(t, "idle") /\ OwnPlan(t)
  BY Moves, SamePlan, TimerPlaces DEF IInv, TimerPCs
<1>2. RetryAttended'
  BY DEF RetryAttended, Waiting
<1>3. QED
  BY <1>1, <1>2, Quiet, TimerPlaces DEF Locked, Dropping

LEMMA TimerStep ==
  ASSUME IInv, NEW t \in Timers, Fire(t) \/ Callback(t)
  PROVE  IInv'
<1>0. Data
  BY DEF IInv, Types
<1>1. CASE Fire(t)
  <2>1. Data'
    BY <1>0, <1>1, Bounded DEF Fire, Data
  <2>2. QED
    BY <1>1, <2>1, CallbackGoes DEF Fire, TimerPCs, Locked
<1>2. CASE Fired(t) \/ ClearCancel(t)
  <2>1. PICK w \in {"execute", "clearStore"} : Go(t, w)
    BY <1>2 DEF Fired, ClearCancel
  <2>2. UNCHANGED <<row, aborted, dlock, plan, bounds, lost>> /\ CancelTimer
    BY <1>2 DEF Fired, ClearCancel
  <2>3. Data'
    BY <1>0, <2>2, Bounded DEF CancelTimer, Data
  <2>4. w \in TimerPCs \ (Locked \cup {"idle"})
    BY <2>1 DEF TimerPCs, Locked
  <2>5. QED
    BY <2>1, <2>2, <2>3, <2>4, CallbackGoes
<1>3. CASE Execute(t)
  <2>0. UNCHANGED <<row, aborted, timerVars, dlock, plan>>
    BY <1>3 DEF Execute
  <2>1. CASE Fail("db") /\ Go(t, "idle") /\ lost' = TRUE
    <3>1. Data'
      BY <1>0, <2>0, <2>1, Bounded DEF Data, timerVars
    <3>2. QED
      BY <2>0, <2>1, <3>1, CallbackEnds
  <2>2. CASE UNCHANGED <<bounds, lost>> /\ \E w \in {"clearCancel", "lock"} : Go(t, w)
    <3>1. Data'
      BY <1>0, <2>0, <2>2, Bounded DEF Data, timerVars
    <3>2. PICK w \in {"clearCancel", "lock"} : Go(t, w)
      BY <2>2
    <3>3. w \in TimerPCs \ (Locked \cup {"idle"})
      BY <3>2 DEF TimerPCs, SendPCs, Locked
    <3>4. QED
      BY <2>0, <3>1, <3>2, <3>3, CallbackGoes
  <2>3. QED
    BY <1>3, <2>1, <2>2 DEF Execute
<1>4. CASE ClearStore(t)
  <2>0. Go(t, "idle") /\ UNCHANGED <<aborted, timerVars, dlock, plan>>
    BY <1>4 DEF ClearStore
  <2>1. PICK r : r = [row EXCEPT !.next = FALSE]
    OBVIOUS
  <2>2. r \in Row /\ r.status = row.status /\ ~r.next
    BY <1>0, <2>1 DEF Data, Row
  <2>3. CASE Store(r) /\ UNCHANGED bounds
    <3>1. row' = r /\ Data'
      BY <1>0, <2>0, <2>2, <2>3, Bounded, Stored DEF Data, timerVars
    <3>2. QED
      BY <2>0, <2>2, <3>1, CallbackEnds
  <2>4. CASE Fail("db") /\ lost' = TRUE /\ UNCHANGED row
    <3>1. Data'
      BY <1>0, <2>0, <2>4, Bounded DEF Data, timerVars
    <3>2. QED
      BY <2>0, <2>4, <3>1, CallbackEnds
  <2>5. QED
    BY <1>4, <2>1, <2>3, <2>4 DEF ClearStore
<1>5. CASE Sending(t)
  BY <1>5, SendingStep
<1>6. QED
  BY <1>1, <1>2, <1>3, <1>4, <1>5 DEF Callback

-----------------------------------------------------------------------------
(* The steps of the run.                                                    *)

LEMMA RunnerPlaces ==
  Runner \in Procs /\ Runner \notin Timers /\ \A w \in RunnerPCs : Fits(Runner, w)
  BY Kinds DEF Fits

LEMMA TriedType ==
  ASSUME Data, NEW r \in Row, TryStore(r)
  PROVE  /\ row' \in Row /\ row' \in {r, row} /\ lost' \in BOOLEAN
         /\ cmds' \in 0..MaxCommands /\ faults' \in 0..MaxFaults
<1>1. CASE Store(r) /\ UNCHANGED bounds
  BY <1>1, Stored, Bounded
<1>2. CASE Fail("db") /\ UNCHANGED <<row, lost>>
  BY <1>2, Bounded DEF Data
<1>3. QED
  BY <1>1, <1>2 DEF TryStore

LEMMA RunStep ==
  ASSUME IInv, Run
  PROVE  IInv'
<1>0. Types /\ Data /\ Shape /\ RetryAttended
  BY DEF IInv, Types
<1>1. CASE RunEnds
  <2>0. /\ pc[Runner] = "live" /\ Go(Runner, "ended")
        /\ UNCHANGED <<aborted, timerVars, dlock, plan>>
    BY <1>1 DEF RunEnds
  <2>1. PICK r : r = [row EXCEPT !.status = "idle", !.attempt = 0, !.next = FALSE]
    OBVIOUS
  <2>2. r \in Row /\ r.status = "idle"
    BY <1>0, <2>1 DEF Data, Row
  <2>3. TryStore(r)
    BY <1>1, <2>1 DEF RunEnds
  <2>4. row' \in {r, row} /\ row'.status # "error"
    BY <1>0, <2>0, <2>2, <2>3, TriedType DEF Shape, Lively
  <2>5. Data'
    BY <1>0, <2>0, <2>2, <2>3, TriedType DEF Data, timerVars
  <2>6. Moved(Runner, "ended") /\ OwnPlan(Runner)
    BY <1>0, <2>0, Moves, SamePlan, RunnerPlaces DEF RunnerPCs
  <2>7. RetryAttended'
    BY <2>4 DEF RetryAttended, Waiting
  <2>8. QED
    BY <2>0, <2>4, <2>5, <2>6, <2>7, Quiet, RunnerPlaces DEF Locked, Dropping
<1>2. CASE RunEnded
  <2>0. /\ pc[Runner] = "ended" /\ Go(Runner, "close") /\ CancelTimer
        /\ UNCHANGED <<row, aborted, dlock, plan, bounds, lost>>
    BY <1>2 DEF RunEnded
  <2>1. row.status # "error"
    BY <1>0, <2>0 DEF Shape, Lively
  <2>2. Data'
    BY <1>0, <2>0, Bounded DEF Data, CancelTimer
  <2>3. Moved(Runner, "close") /\ OwnPlan(Runner)
    BY <1>0, <2>0, Moves, SamePlan, RunnerPlaces DEF RunnerPCs
  <2>4. RetryAttended'
    BY <2>0, <2>1 DEF RetryAttended, Waiting
  <2>5. QED
    BY <2>0, <2>2, <2>3, <2>4, Quiet, RunnerPlaces DEF Locked, Dropping
<1>3. CASE RunFails
  <2>0. /\ pc[Runner] = "live" /\ Go(Runner, "reconcile")
        /\ UNCHANGED <<aborted, timerVars, dlock, plan>>
    BY <1>3 DEF RunFails
  <2>1. PICK again \in BOOLEAN : TryStore([row EXCEPT !.status = "error", !.retryable = again])
    BY <1>3 DEF RunFails
  <2>2. PICK r : r = [row EXCEPT !.status = "error", !.retryable = again]
    OBVIOUS
  <2>3. r \in Row
    BY <1>0, <2>2 DEF Data, Row
  <2>4. Data'
    BY <1>0, <2>0, <2>1, <2>2, <2>3, TriedType DEF Data, timerVars
  <2>5. Moved(Runner, "reconcile") /\ OwnPlan(Runner)
    BY <1>0, <2>0, Moves, SamePlan, RunnerPlaces DEF RunnerPCs, SchedulePCs
  <2>6. RetryAttended'
    BY <2>5, Attending, RunnerPlaces DEF Attends, Heeds, SchedulePCs
  <2>7. QED
    BY <2>0, <2>4, <2>5, <2>6, Quiet, RunnerPlaces DEF Locked, Dropping
<1>4. CASE RunCloses
  <2>0. /\ pc[Runner] = "close" /\ UNCHANGED <<row, aborted, timerVars, dlock, plan, bounds, lost>>
        /\ pc' = [p \in Procs |-> IF p = Runner THEN "release"
                                  ELSE IF pc[p] = "archiveStop" THEN "archiveStoreIdle" ELSE pc[p]]
    BY <1>4 DEF RunCloses
  <2>1. \A p \in Procs :
          pc'[p] \in {"release", "archiveStoreIdle"} \/ (p # Runner /\ pc'[p] = pc[p])
    BY <2>0
  <2>2. pc'[Runner] = "release"
    BY <2>0, RunnerPlaces
  <2>3. Places'
    <3>1. \A p \in Procs : Fits(p, pc'[p])
      BY <1>0, <2>0 DEF Types, Places, Fits, RunnerPCs, ClientPCs, TimerPCs, SendPCs
    <3>2. pc' \in [Procs -> PCs]
      BY <1>0, <2>0 DEF Types, Places, PCs, RunnerPCs, ClientPCs
    <3>3. QED
      BY <3>1, <3>2 DEF Places
  <2>4. Types'
    BY <1>0, <2>0, <2>3, Bounded DEF Types, Data, timerVars
  <2>5. OneRun'
    <3>1. SUFFICES ASSUME NEW p \in Clients \cup Timers
                   PROVE  /\ pc'[p] \in Locked => dlock' = p
                          /\ pc'[p] \in {"store", "start"} => pc'[Runner] = "idle"
      BY DEF OneRun
    <3>2. p \in Procs
      BY Senders
    <3>3. QED
      BY <1>0, <2>0, <2>1, <3>2 DEF Shape, OneRun, Locked
  <2>6. Lively'
    BY <1>0, <2>0, <2>1, <2>2, Kinds DEF Shape, Lively
  <2>7. GivesUp'
    BY <1>0, <2>0, <2>1 DEF Shape, GivesUp, Dropping
  <2>8. Keeping
    <3>1. SUFFICES ASSUME NEW p \in Procs, Attends(p, pc[p])
                   PROVE  Attends(p, pc'[p])
      BY DEF Keeping
    <3>2. CASE p \in Timers
      BY <2>1, <3>1, <3>2 DEF Attends
    <3>3. CASE p \notin Timers
      BY <2>0, <3>1, <3>3 DEF Attends, Heeds, SchedulePCs
    <3>4. QED
      BY <3>2, <3>3
  <2>9. RetryAttended'
    BY <1>0, <2>0, <2>8, Kept DEF timerVars
  <2>10. QED
    BY <2>4, <2>5, <2>6, <2>7, <2>9 DEF IInv, Shape
<1>5. CASE RunReleased
  <2>0. /\ pc[Runner] = "release" /\ Go(Runner, "idle") /\ aborted' = FALSE
        /\ UNCHANGED <<row, timerVars, dlock, plan, bounds, lost>>
    BY <1>5 DEF RunReleased
  <2>1. Data'
    BY <1>0, <2>0, Bounded DEF Data, timerVars
  <2>2. Moved(Runner, "idle") /\ OwnPlan(Runner)
    BY <1>0, <2>0, Moves, SamePlan, RunnerPlaces DEF RunnerPCs
  <2>3. Keeping
    BY <2>0, <2>2, KeptBy, RunnerPlaces DEF Attends, Heeds, SchedulePCs
  <2>4. RetryAttended'
    BY <1>0, <2>0, <2>3, Kept DEF timerVars
  <2>5. QED
    BY <2>0, <2>1, <2>2, <2>4, Quiet, RunnerPlaces DEF Locked, Dropping
<1>6. QED
  BY <1>1, <1>2, <1>3, <1>4, <1>5 DEF Run

-----------------------------------------------------------------------------
(* The commands.                                                            *)

LEMMA ClientPlaces ==
  ASSUME NEW c \in Clients
  PROVE  /\ c \in Procs /\ c # Runner /\ c \notin Timers /\ c \in Clients \cup {Runner}
         /\ c \in Clients \cup Timers /\ \A w \in ClientPCs : Fits(c, w)
  BY Kinds DEF Fits

\* A handler that goes somewhere outside sending and scheduling.
Plain == {"idle", "lock", "setCancel", "reconcile", "archiveStop", "archiveStore",
          "archiveCancel"}
LEMMA ClientGoes ==
  ASSUME IInv, NEW c \in Clients, NEW w \in Plain, Go(c, w), UNCHANGED <<dlock, plan>>, Data',
         row'.status = row.status \/ row'.status # "error", RetryAttended'
  PROVE  IInv'
<1>1. w \in ClientPCs /\ w \notin Locked \cup Dropping \cup {"live", "ended"}
  BY DEF Plain, ClientPCs, SchedulePCs, SendPCs, Locked, Dropping
<1>2. Moved(c, w) /\ OwnPlan(c)
  BY <1>1, Moves, SamePlan, ClientPlaces DEF IInv
<1>3. QED
  BY <1>1, <1>2, Quiet, ClientPlaces

\* The retry, its timers and whoever heeds it stay as they are.
LEMMA Leaves ==
  ASSUME IInv, NEW c \in Clients, NEW w, Go(c, w), w \in ClientPCs, pc[c] \notin Heeds,
         UNCHANGED <<row, timerVars>>, lost => lost'
  PROVE  RetryAttended'
<1>1. Moved(c, w)
  BY Moves, ClientPlaces DEF IInv
<1>2. Keeping
  BY <1>1, KeptBy, ClientPlaces DEF Attends
<1>3. QED
  BY <1>2, Kept DEF IInv, timerVars

\* The handler says so when nothing is left of it.
LEMMA Tells ==
  ASSUME NEW c \in Clients, NEW w, Types, Go(c, w), w \in ClientPCs, Abandoned(row', armed')
  PROVE  RetryAttended'
<1>1. Moved(c, w)
  BY Moves, ClientPlaces
<1>2. \A t \in Timers : pc'[t] = pc[t]
  BY <1>1, ClientPlaces, Kinds DEF Moved
<1>3. Waiting(row') /\ armed' = {} /\ (\A t \in Timers : pc[t] = "idle") => lost'
  BY DEF Abandoned
<1>4. QED
  BY <1>2, <1>3, Told

LEMMA CommandStep ==
  ASSUME IInv, NEW c \in Clients, ClientCommand(c)
  PROVE  IInv'
<1>0. Types /\ Data
  BY DEF IInv, Types
<1>1. CASE Send(c)
  <2>0. pc[c] = "idle" /\ Command("send") /\ Go(c, "lock")
        /\ UNCHANGED <<row, aborted, timerVars, dlock, plan, lost>>
    BY <1>1 DEF Send
  <2>1. Data'
    BY <1>0, <2>0, Bounded DEF Data, timerVars
  <2>2. RetryAttended'
    BY <2>0, Leaves DEF Heeds, SchedulePCs, ClientPCs, SendPCs
  <2>3. QED
    BY <2>0, <2>1, <2>2, ClientGoes DEF Plain
<1>2. CASE Abort(c)
  <2>0. pc[c] = "idle" /\ Command("abort") /\ aborted' = TRUE
        /\ UNCHANGED <<row, timerVars, dlock, pc, plan, lost>>
    BY <1>2 DEF Abort
  <2>1. Go(c, "idle")
    BY <1>0, <2>0, ClientPlaces DEF Types, Places, Go
  <2>2. Data'
    BY <1>0, <2>0, Bounded DEF Data, timerVars
  <2>3. RetryAttended'
    BY <2>0, <2>1, Leaves DEF Heeds, SchedulePCs, ClientPCs
  <2>4. QED
    BY <2>0, <2>1, <2>2, <2>3, ClientGoes DEF Plain
<1>3. CASE Archive(c)
  <2>0. pc[c] = "idle" /\ Command("archive")
        /\ UNCHANGED <<row, timerVars, dlock, plan, lost>> /\ aborted' \in BOOLEAN
    BY <1>0, <1>3 DEF Archive, Data
  <2>1. PICK w \in {"archiveStop", "archiveStore"} : Go(c, w)
    BY <1>3 DEF Archive
  <2>2. Data'
    BY <1>0, <2>0, Bounded DEF Data, timerVars
  <2>3. RetryAttended'
    BY <2>0, <2>1, Leaves DEF Heeds, SchedulePCs, ClientPCs
  <2>4. QED
    BY <2>0, <2>1, <2>2, <2>3, ClientGoes DEF Plain
<1>4. CASE Unarchive(c)
  <2>0. pc[c] = "idle" /\ Command("archive") /\ Abandoned(row', armed)
        /\ UNCHANGED <<aborted, timerVars, dlock, pc, plan>>
    BY <1>4 DEF Unarchive
  <2>1. row' \in Row /\ row'.status = row.status
    BY <1>0, <1>4 DEF Unarchive, Data, Row
  <2>2. Go(c, "idle") /\ armed' = armed
    BY <1>0, <2>0, ClientPlaces DEF Types, Places, Go, timerVars
  <2>3. Data'
    BY <1>0, <2>0, <2>1, Bounded, AbandonedType DEF Data, timerVars
  <2>4. RetryAttended'
    BY <1>0, <2>0, <2>2, Tells DEF ClientPCs
  <2>5. QED
    BY <2>0, <2>1, <2>2, <2>3, <2>4, ClientGoes DEF Plain
<1>5. ASSUME NEW b \in BOOLEAN, Set(c, b)
      PROVE  IInv'
  <2>0. pc[c] = "idle" /\ Command("set") /\ Go(c, "setCancel")
        /\ UNCHANGED <<aborted, timerVars, dlock, plan>>
    BY <1>5 DEF Set
  <2>1. Qualifies \subseteq BOOLEAN
    BY <1>0 DEF Qualifies, Data, Row
  <2>2. PICK again \in BOOLEAN :
          Store([row EXCEPT !.enabled = b, !.retryable = again, !.attempt = 0, !.next = FALSE])
    BY <1>5, <2>1 DEF Set
  <2>3. PICK r : r = [row EXCEPT !.enabled = b, !.retryable = again, !.attempt = 0,
                                 !.next = FALSE]
    OBVIOUS
  <2>4. r \in Row /\ r.status = row.status /\ ~r.next
    BY <1>0, <2>3 DEF Data, Row
  <2>5. row' = r /\ Data'
    BY <1>0, <2>0, <2>2, <2>3, <2>4, Bounded, Stored DEF Data, timerVars
  <2>6. RetryAttended'
    BY <2>4, <2>5 DEF RetryAttended, Waiting
  <2>7. QED
    BY <2>0, <2>4, <2>5, <2>6, ClientGoes DEF Plain
<1>6. QED
  BY <1>1, <1>2, <1>3, <1>4, <1>5 DEF ClientCommand

LEMMA HandlerStep ==
  ASSUME IInv, NEW c \in Clients, ClientStep(c)
  PROVE  IInv'
<1>0. Types /\ Data
  BY DEF IInv, Types
<1>1. CASE SetCancel(c)
  <2>0. /\ Go(c, "reconcile") /\ CancelTimer
        /\ UNCHANGED <<row, aborted, dlock, plan, bounds, lost>>
    BY <1>1 DEF SetCancel
  <2>1. Data'
    BY <1>0, <2>0, Bounded DEF Data, CancelTimer
  <2>2. Moved(c, "reconcile")
    BY <1>0, <2>0, Moves, ClientPlaces DEF ClientPCs, SchedulePCs
  <2>3. RetryAttended'
    BY <2>2, Attending, ClientPlaces DEF Attends, Heeds, SchedulePCs
  <2>4. QED
    BY <2>0, <2>1, <2>3, ClientGoes DEF Plain
<1>2. CASE ArchiveTimesOut(c)
  <2>0. /\ pc[c] = "archiveStop" /\ Go(c, "idle")
        /\ UNCHANGED <<row, aborted, timerVars, dlock, plan, bounds, lost>>
    BY <1>2 DEF ArchiveTimesOut
  <2>1. Data'
    BY <1>0, <2>0, Bounded DEF Data, timerVars
  <2>2. RetryAttended'
    BY <2>0, Leaves DEF Heeds, SchedulePCs, ClientPCs
  <2>3. QED
    BY <2>0, <2>1, <2>2, ClientGoes DEF Plain
<1>3. CASE ArchiveStore(c)
  <2>0. /\ pc[c] \in {"archiveStore", "archiveStoreIdle"}
        /\ UNCHANGED <<aborted, timerVars, dlock, plan>>
    BY <1>3 DEF ArchiveStore
  <2>1. CASE Fail("db") /\ Go(c, "idle") /\ UNCHANGED <<row, lost>>
    <3>1. Data'
      BY <1>0, <2>0, <2>1, Bounded DEF Data, timerVars
    <3>2. RetryAttended'
      BY <2>0, <2>1, Leaves DEF Heeds, SchedulePCs, ClientPCs
    <3>3. QED
      BY <2>0, <2>1, <3>1, <3>2, ClientGoes DEF Plain
  <2>2. CASE /\ Go(c, "archiveCancel") /\ UNCHANGED bounds
             /\ \E again \in Qualifies :
                  Store([row EXCEPT !.archived = TRUE, !.attempt = 0, !.next = FALSE,
                                    !.retryable = again,
                                    !.status = IF pc[c] = "archiveStoreIdle" THEN "idle" ELSE @])
    <3>1. Qualifies \subseteq BOOLEAN
      BY <1>0 DEF Qualifies, Data, Row
    <3>2. PICK again \in BOOLEAN :
            Store([row EXCEPT !.archived = TRUE, !.attempt = 0, !.next = FALSE,
                              !.retryable = again,
                              !.status = IF pc[c] = "archiveStoreIdle" THEN "idle" ELSE @])
      BY <2>2, <3>1
    <3>3. PICK r : r = [row EXCEPT !.archived = TRUE, !.attempt = 0, !.next = FALSE,
                                   !.retryable = again,
                                   !.status = IF pc[c] = "archiveStoreIdle" THEN "idle" ELSE @]
      OBVIOUS
    <3>4. r \in Row /\ (r.status = row.status \/ r.status # "error") /\ ~r.next
      BY <1>0, <3>3 DEF Data, Row
    <3>5. row' = r /\ Data'
      BY <1>0, <2>0, <2>2, <3>2, <3>3, <3>4, Bounded, Stored DEF Data, timerVars
    <3>6. RetryAttended'
      BY <3>4, <3>5 DEF RetryAttended, Waiting
    <3>7. QED
      BY <2>0, <2>2, <3>4, <3>5, <3>6, ClientGoes DEF Plain
  <2>3. QED
    BY <1>3, <2>1, <2>2 DEF ArchiveStore
<1>4. CASE ArchiveCancel(c)
  <2>0. /\ Go(c, "idle") /\ CancelTimer /\ Abandoned(row, armed \ {mapped})
        /\ UNCHANGED <<row, aborted, dlock, plan, bounds>>
    BY <1>4 DEF ArchiveCancel
  <2>1. Data'
    BY <1>0, <2>0, Bounded, AbandonedType DEF Data, CancelTimer
  <2>2. Abandoned(row', armed')
    BY <2>0 DEF CancelTimer
  <2>3. RetryAttended'
    BY <1>0, <2>0, <2>2, Tells DEF ClientPCs
  <2>4. QED
    BY <2>0, <2>1, <2>3, ClientGoes DEF Plain
<1>5. CASE Sending(c)
  BY <1>5, SendingStep, ClientPlaces
<1>6. CASE Schedule(c)
  BY <1>6, ScheduleStep, ClientPlaces
<1>7. QED
  BY <1>1, <1>2, <1>3, <1>4, <1>5, <1>6 DEF ClientStep

-----------------------------------------------------------------------------
(* Restart, and the theorems.                                               *)

LEMMA AtRest ==
  /\ \A p \in Procs : Fits(p, "idle")
  /\ [p \in Procs |-> "idle"] \in [Procs -> PCs] /\ NoPlan \in Plan
  BY DEF Procs, Fits, RunnerPCs, ClientPCs, TimerPCs, PCs, NoPlan, Plan

LEMMA RestartStep ==
  ASSUME IInv, Restart
  PROVE  IInv'
<1>0. /\ Data /\ Fail("crash") /\ Store(Recovered) /\ aborted' = FALSE /\ dlock' = None
      /\ pc' = [p \in Procs |-> "idle"] /\ plan' = [p \in Procs |-> NoPlan]
  BY DEF IInv, Types, Restart
<1>1. PICK r : r = Recovered
  OBVIOUS
<1>2. r \in Row /\ (r = row \/ r.status = "idle")
  BY <1>0, <1>1 DEF Recovered, Data, Row
<1>3. row' = r /\ lost' \in BOOLEAN
  BY <1>0, <1>1, <1>2, Stored
<1>4. /\ mapped' \in Timers \cup {None} /\ armed' \subseteq Timers
      /\ Rearmed(row') => armed' # {}
  <2>1. (CHOOSE t \in Timers : TRUE) \in Timers
    BY RetryAssumption
  <2>2. QED
    BY <2>1 DEF Restart
<1>5. Data'
  BY <1>0, <1>2, <1>3, <1>4, Bounded DEF Data
<1>6. Types'
  BY <1>0, <1>5, AtRest DEF Types, Places
<1>7. Shape'
  BY <1>0, Kinds DEF Shape, OneRun, Lively, GivesUp, Locked, Dropping
<1>8. RetryAttended'
  BY <1>4 DEF RetryAttended, Attended, Waiting, Rearmed
<1>9. QED
  BY <1>6, <1>7, <1>8 DEF IInv

LEMMA InitStep ==
  ASSUME Init
  PROVE  IInv
<1>1. PICK live \in BOOLEAN :
       /\ row = [status |-> IF live THEN "running" ELSE "idle", enabled |-> TRUE,
                 retryable |-> TRUE, attempt |-> 0, next |-> FALSE, archived |-> FALSE]
       /\ pc = [p \in Procs |-> IF live /\ p = Runner THEN "live" ELSE "idle"]
  BY DEF Init
<1>2. /\ row \in Row /\ row.status # "error" /\ ~row.next
  BY <1>1 DEF Row
<1>3. Data
  <2>1. cmds \in 0..MaxCommands /\ faults \in 0..MaxFaults
    BY RetryAssumption DEF Init
  <2>2. QED
    BY <1>2, <2>1 DEF Init, Data
<1>4. Places
  <2>1. \A p \in Procs : Fits(p, pc[p])
    BY <1>1, AtRest DEF Fits, RunnerPCs
  <2>2. pc \in [Procs -> PCs]
    BY <1>1 DEF PCs, RunnerPCs
  <2>3. QED
    BY <2>1, <2>2 DEF Places
<1>5. plan \in [Procs -> Plan]
  BY AtRest DEF Init
<1>6. \A p \in Clients \cup Timers : pc[p] = "idle"
  BY <1>1, Kinds
<1>7. \A p \in Procs : pc[p] \in {"idle", "live"}
  BY <1>1
<1>8. Shape
  BY <1>2, <1>6, <1>7 DEF Shape, OneRun, Lively, GivesUp, Locked, Dropping
<1>9. RetryAttended
  BY <1>2 DEF RetryAttended, Waiting
<1>10. QED
  BY <1>3, <1>4, <1>5, <1>8, <1>9 DEF IInv, Types

LEMMA NextStep ==
  ASSUME IInv, [Next]_vars
  PROVE  IInv'
<1>1. CASE Next
  BY <1>1, CommandStep, HandlerStep, TimerStep, RunStep, ScheduleStep, RestartStep DEF Next
<1>2. CASE UNCHANGED vars
  <2>1. UNCHANGED <<row, aborted, mapped, armed, dlock, pc, plan, cmds, faults, lost>>
    BY <1>2 DEF vars, timerVars, bounds
  <2>2. Types' /\ Shape'
    BY <2>1 DEF IInv, Types, Data, Places, Shape, OneRun, Lively, GivesUp
  <2>3. RetryAttended'
    BY <2>1 DEF IInv, RetryAttended, Waiting, Attended
  <2>4. QED
    BY <2>2, <2>3 DEF IInv
<1>3. QED
  BY <1>1, <1>2

LEMMA InductiveRetry == Spec => []IInv
<1>1. Init => IInv
  BY InitStep
<1>2. IInv /\ [Next]_vars => IInv'
  BY NextStep
<1>3. QED
  BY <1>1, <1>2, PTL DEF Spec

\* Every variable of the retry keeps its type, and every goroutine is at a place of its own
\* code: the runner, the handlers and the callbacks share scheduleAutoRetry, sendMessageInternal
\* and cancelAutoRetryTimer, but none ever returns into the code of another.
THEOREM RetryTypesCorrect == Spec => []TypeOK
<1>1. IInv => TypeOK
  <2>1. SUFFICES ASSUME IInv
                 PROVE  TypeOK
    OBVIOUS
  <2>2. /\ Data /\ pc \in [Procs -> PCs] /\ plan \in [Procs -> Plan]
        /\ \A p \in Procs : Fits(p, pc[p])
    BY <2>1 DEF IInv, Types, Places
  <2>3. \A c \in Clients : pc[c] \in ClientPCs
    BY <2>2, Kinds DEF Fits
  <2>4. \A t \in Timers : pc[t] \in TimerPCs
    BY <2>2, Kinds DEF Fits
  <2>5. pc[Runner] \in RunnerPCs
    BY <2>2, Kinds DEF Fits
  <2>6. DOMAIN pc = Procs
    BY <2>2
  <2>7. QED
    BY <2>2, <2>3, <2>4, <2>5, <2>6 DEF Data, Plan, TypeOK
<1>2. QED
  BY <1>1, InductiveRetry, PTL

\* While a handler or a callback is between the check for an active run and the start of its
\* own in sendMessageInternal, no run is there: the dispatch lock is held from before the check
\* until the run is registered, by one sender at a time, so that a retry and a message of the
\* user never start two runs.
THEOREM OneRunCorrect == Spec => []OneRun
<1>1. IInv => OneRun
  BY DEF IInv, Shape
<1>2. QED
  BY <1>1, InductiveRetry, PTL

\* A retry that the row promises is never forgotten, with any number of handlers, timers,
\* failures and restarts: a timer runs for it, or a callback or somebody who will decide about
\* it is on the way, unless it was left without a timer as `lost` says.
THEOREM RetryAttendedCorrect == Spec => []RetryAttended
<1>1. IInv => RetryAttended
  BY DEF IInv
<1>2. QED
  BY <1>1, InductiveRetry, PTL

=============================================================================
