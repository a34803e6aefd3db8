----------------------- MODULE ScheduledInputs_proofs -----------------------
(* ScheduledInputs for every set of inputs and goroutines and every bound:  *)
(* types, SentOnce, ParentFirst, OnTime and NoneForgotten.                  *)
EXTENDS ScheduledInputs, TLAPS

-----------------------------------------------------------------------------
(* The inductive invariant.                                                 *)

\* A stored row that waits for a time has one.
GoodRow == {r \in Row : r.status # "none" /\ r.kind = "time" => r.at # 0}

Storing == {"create", "write", "arm", "register"}
Free == {"idle", "sweep", "archive", "cancelTimers"}

\* A goroutine that is about to store a row carries one that is scheduled, and all
\* but a few have an input in hand.
GoodProc ==
  {x \in [pc : PCs, i : Inputs \cup {None}, row : GoodRow, list : SUBSET Inputs,
          wakes : SUBSET (Inputs \X (1..MaxTime)), arming : SUBSET (Inputs \X (1..MaxTime))] :
     /\ x.pc \in Storing => x.row.status = "scheduled"
     /\ x.pc \notin Free => x.i \in Inputs}

Timers ==
  /\ armed \subseteq Inputs \X (1..MaxTime) /\ reg \in [Inputs -> 0..MaxTime]
  /\ robbed \subseteq Inputs

Flags ==
  /\ archived \in BOOLEAN /\ busy \in BOOLEAN /\ monitor \in BOOLEAN /\ now \in 0..MaxTime
  /\ rewake \subseteq Inputs /\ unmarked \subseteq Inputs
  /\ cmds \in 0..MaxCommands /\ faults \in 0..MaxFaults

TypeInv ==
  /\ row \in [Inputs -> GoodRow] /\ proc \in [Procs -> GoodProc]
  /\ lock \in [Inputs -> Procs \cup {None}] /\ sent \in [Inputs -> Nat]
  /\ Timers /\ Flags

\* The parent was handed over.
ParentSent(dep) == dep # None => sent[dep] > 0

\* What p may rely on where it stands, although others go on:
\* its lock keeps the row it decides about, ...
Holds(p) ==
  proc[p].pc \in {"write", "check", "call", "mark"} =>
    lock[proc[p].i] = p /\ row[proc[p].i].status # "none"
\* ... which nobody else hands over, and whose parent stays the one it looked at, ...
Decided(p) ==
  proc[p].pc \in {"check", "call"} =>
    /\ proc[p].i \notin unmarked => sent[proc[p].i] = 0
    /\ ParentSent(row[proc[p].i].dep)
Handed(p) == proc[p].pc = "mark" => sent[proc[p].i] > 0
\* ... what a row looked like when it was read, ...
Looked(p) ==
  /\ proc[p].pc \in {"evaluate", "quiet"} => ParentSent(proc[p].row.dep)
  /\ proc[p].pc = "quiet" => proc[p].row.idle = "stable"
  /\ proc[p].pc \in {"fired", "execute"} => proc[p].row.at <= now
\* ... and that nobody stores a new row before it does.
Fresh(p) == proc[p].pc = "create" => p \in Clients /\ row[proc[p].i].status = "none"

Fit(p) == Holds(p) /\ Decided(p) /\ Handed(p) /\ Looked(p) /\ Fresh(p)

\* Two clients do not create the same row.
OneCreates ==
  \A c, d \in Clients :
    proc[c].pc = "create" /\ proc[d].pc = "create" /\ proc[c].i = proc[d].i => c = d

\* A dispatched row was handed over; an input that was handed over is recorded as
\* decided, or its sender is about to record it, or the record was lost.
Recorded(i) ==
  /\ row[i].status = "dispatched" => sent[i] > 0
  /\ i \notin unmarked /\ sent[i] > 0 =>
       /\ sent[i] = 1
       /\ row[i].status \notin Open \cup {"none"}
            \/ \E p \in Procs : proc[p].pc = "mark" /\ proc[p].i = i

IInv ==
  /\ TypeInv /\ (\A p \in Procs : Fit(p)) /\ OneCreates /\ (\A i \in Inputs : Recorded(i))

-----------------------------------------------------------------------------
(* Rows, goroutines, locks and timers keep their types.                     *)

LEMMA RowRestatus ==
  ASSUME NEW r \in GoodRow, r.status # "none", NEW s \in Statuses
  PROVE  /\ [r EXCEPT !.status = s] \in GoodRow
         /\ [r EXCEPT !.status = s].status = s
BY DEF GoodRow, Row

LEMMA RowReidled ==
  ASSUME NEW r \in GoodRow, NEW v \in {"no", "since", "stable"}
  PROVE  [r EXCEPT !.idle = v] \in GoodRow
BY DEF GoodRow, Row

LEMMA RowFreed ==
  ASSUME NEW r \in GoodRow
  PROVE  [r EXCEPT !.dep = None] \in GoodRow
BY DEF GoodRow, Row

LEMMA RowAsked ==
  ASSUME TypeInv, NEW kind \in {"time", "idle"}, NEW at \in 0..MaxTime,
         NEW dep \in Inputs \cup {None}, Asked(kind, at)
  PROVE  Scheduled(kind, at, dep) \in GoodRow
<1>1. now \in 0..MaxTime BY DEF TypeInv, Flags
<1>2. kind = "time" => at # 0 BY <1>1, ScheduleAssumption DEF Asked
<1> QED BY <1>2 DEF Scheduled, GoodRow, Row, Statuses, Stored

LEMMA RestGood == Rest \in GoodProc
<1>1. NoRow \in GoodRow BY ScheduleAssumption DEF NoRow, GoodRow, Row, Statuses, Stored
<1> QED BY <1>1 DEF Rest, GoodProc, PCs, Storing, Free, Dispatching

LEMMA ProcMoved ==
  ASSUME NEW x \in GoodProc, NEW pc \in PCs,
         pc \in Storing => x.row.status = "scheduled", pc \notin Free => x.i \in Inputs
  PROVE  [x EXCEPT !.pc = pc] \in GoodProc
BY DEF GoodProc

\* One goroutine moves.
LEMMA OneMoves ==
  ASSUME TypeInv, NEW p \in Procs, NEW x \in GoodProc, proc' = [proc EXCEPT ![p] = x]
  PROVE  /\ proc' \in [Procs -> GoodProc] /\ proc'[p] = x
         /\ \A q \in Procs \ {p} : proc'[q] = proc[q]
BY DEF TypeInv

LEMMA GoMoves ==
  ASSUME TypeInv, NEW p \in Procs, NEW pc \in PCs, Go(p, pc),
         pc \in Storing => proc[p].row.status = "scheduled", pc \notin Free => proc[p].i \in Inputs
  PROVE  /\ proc' \in [Procs -> GoodProc] /\ proc'[p] = [proc[p] EXCEPT !.pc = pc]
         /\ \A q \in Procs \ {p} : proc'[q] = proc[q]
<1> DEFINE x == [proc[p] EXCEPT !.pc = pc]
<1>1. proc[p] \in GoodProc BY DEF TypeInv
<1>2. x \in GoodProc BY <1>1, ProcMoved
<1>3. proc' = [proc EXCEPT ![p] = x] BY DEF Go
<1> HIDE DEF x
<1>4. /\ proc' \in [Procs -> GoodProc] /\ proc'[p] = x
      /\ \A q \in Procs \ {p} : proc'[q] = proc[q]
  BY <1>2, <1>3, OneMoves
<1> QED BY <1>4 DEF x

LEMMA FinishMoves ==
  ASSUME TypeInv, NEW p \in Procs, Finish(p)
  PROVE  /\ proc' \in [Procs -> GoodProc] /\ proc'[p].pc \in {"idle", "sweep"}
         /\ \A q \in Procs \ {p} : proc'[q] = proc[q]
<1> DEFINE y == [Rest EXCEPT !.pc = "sweep", !.list = proc[p].list]
           x == IF p = Sweep THEN y ELSE Rest
<1>1. proc[p] \in GoodProc BY DEF TypeInv
<1>2. y \in GoodProc /\ y.pc = "sweep"
  <2>1. proc[p].list \in SUBSET Inputs BY <1>1 DEF GoodProc
  <2> QED BY <2>1, RestGood DEF GoodProc, Rest, PCs, Storing, Free
<1>3. x \in GoodProc /\ x.pc \in {"idle", "sweep"} BY <1>2, RestGood DEF Rest
<1>4. proc' = [proc EXCEPT ![p] = x] BY DEF Finish
<1> HIDE DEF x
<1>5. /\ proc' \in [Procs -> GoodProc] /\ proc'[p] = x
      /\ \A q \in Procs \ {p} : proc'[q] = proc[q]
  BY <1>3, <1>4, OneMoves
<1> QED BY <1>3, <1>5

LEMMA WriteTypes ==
  ASSUME TypeInv, NEW i \in Inputs, NEW r \in GoodRow, Write(i, r)
  PROVE  /\ row' \in [Inputs -> GoodRow] /\ row'[i] = r
         /\ \A j \in Inputs \ {i} : row'[j] = row[j]
BY DEF TypeInv, Write

LEMMA StatusTypes ==
  ASSUME TypeInv, NEW i \in Inputs, NEW s \in Statuses, row[i].status # "none", Status(i, s)
  PROVE  /\ row' \in [Inputs -> GoodRow] /\ row'[i].status = s /\ row'[i].dep = row[i].dep
         /\ \A j \in Inputs \ {i} : row'[j] = row[j]
<1> DEFINE r == [row[i] EXCEPT !.status = s]
<1>1. row[i] \in GoodRow BY DEF TypeInv
<1>2. r \in GoodRow /\ r.status = s BY <1>1, RowRestatus
<1>3. r.dep = row[i].dep BY <1>1 DEF GoodRow, Row
<1>4. Write(i, r) BY DEF Status, Write
<1> HIDE DEF r
<1> QED BY <1>2, <1>3, <1>4, WriteTypes

LEMMA TakeTypes ==
  ASSUME TypeInv, NEW i \in Inputs, NEW p \in Procs, Take(i, p)
  PROVE  /\ lock' \in [Inputs -> Procs \cup {None}] /\ lock[i] = None /\ lock'[i] = p
         /\ \A j \in Inputs \ {i} : lock'[j] = lock[j]
BY DEF TypeInv, Take

LEMMA DropTypes ==
  ASSUME TypeInv, NEW i \in Inputs, NEW p \in Procs, Drop(i, p)
  PROVE  /\ lock' \in [Inputs -> Procs \cup {None}]
         /\ \A j \in Inputs : lock[j] # p => lock'[j] = lock[j]
BY DEF TypeInv, Drop

LEMMA CancelTimerTypes ==
  ASSUME TypeInv, NEW i \in Inputs, CancelTimer(i)
  PROVE  Timers'
BY ScheduleAssumption DEF TypeInv, Timers, CancelTimer, StopTimer

LEMMA SetTimerTypes ==
  ASSUME TypeInv, NEW i \in Inputs, NEW t \in 1..MaxTime, SetTimer(i, t), robbed' \subseteq Inputs
  PROVE  Timers'
BY ScheduleAssumption DEF TypeInv, Timers, SetTimer

LEMMA RegisterTypes ==
  ASSUME TypeInv, NEW i \in Inputs, NEW t \in 1..MaxTime, Register(i, t)
  PROVE  Timers'
BY ScheduleAssumption DEF TypeInv, Timers, Register

LEMMA CommandTypes ==
  ASSUME TypeInv, NEW op, Command(op)
  PROVE  cmds' \in 0..MaxCommands /\ faults' \in 0..MaxFaults
BY ScheduleAssumption DEF TypeInv, Flags, Command

LEMMA FailTypes ==
  ASSUME TypeInv, NEW f, Fail(f)
  PROVE  cmds' \in 0..MaxCommands /\ faults' \in 0..MaxFaults
BY ScheduleAssumption DEF TypeInv, Flags, Fail

-----------------------------------------------------------------------------
(* What a step of one goroutine leaves to the others.                       *)

\* p (nobody, if p is None) moves alone: it changes what others hold in no way that
\* matters to them, stores a new row only where it was about to, and hands over only
\* what it holds.
Alone(p) ==
  /\ \A q \in Procs \ {p} : proc'[q] = proc[q]
  /\ \A j \in Inputs :
       /\ lock[j] \notin {p, None} =>
            lock'[j] = lock[j] /\ (row[j].status # "none" => row'[j].dep = row[j].dep)
       /\ row[j].status # "none" => row'[j].status # "none"
       /\ row[j].status = "none" /\ row'[j].status # "none" =>
            p \in Clients /\ proc[p].pc = "create" /\ proc[p].i = j
       /\ sent'[j] = sent[j] \/ (lock[j] = p /\ sent'[j] > sent[j])
  /\ unmarked \subseteq unmarked' /\ now <= now'

\* Nothing that was handed over is opened again, and nothing becomes dispatched.
Closing ==
  \A j \in Inputs :
    /\ row'[j].status = "dispatched" => row[j].status = "dispatched"
    /\ /\ j \notin unmarked
       /\ row'[j].status \in Open \cup {"none"} /\ row[j].status \notin Open \cup {"none"}
       => sent[j] = 0

Relying == {"create", "write", "check", "call", "mark", "evaluate", "quiet", "fired", "execute"}

LEMMA RowParts ==
  ASSUME TypeInv, NEW i \in Inputs
  PROVE  /\ row[i] \in GoodRow /\ row[i].dep \in Inputs \cup {None} /\ row[i].status \in Statuses
         /\ sent[i] \in Nat /\ lock[i] \in Procs \cup {None}
BY DEF TypeInv, GoodRow, Row

LEMMA ProcParts ==
  ASSUME TypeInv, NEW p \in Procs
  PROVE  /\ proc[p] \in GoodProc /\ proc[p].pc \in PCs /\ proc[p].row \in GoodRow
         /\ proc[p].list \in SUBSET Inputs /\ proc[p].wakes \in SUBSET (Inputs \X (1..MaxTime))
         /\ proc[p].arming \in SUBSET (Inputs \X (1..MaxTime))
         /\ proc[p].row.dep \in Inputs \cup {None} /\ proc[p].row.at \in 0..MaxTime
         /\ proc[p].pc \notin Free => proc[p].i \in Inputs
         /\ proc[p].pc \in Storing => proc[p].row.status = "scheduled"
BY DEF TypeInv, GoodProc, GoodRow, Row

\* A parent that was handed over stays so.
LEMMA ParentStaysSent ==
  ASSUME TypeInv, \A j \in Inputs : sent'[j] = sent[j] \/ sent'[j] > sent[j],
         TypeInv', NEW dep \in Inputs \cup {None}, ParentSent(dep)
  PROVE  dep # None => sent'[dep] > 0
<1>1. SUFFICES ASSUME dep # None PROVE sent'[dep] > 0 OBVIOUS
<1>2. sent[dep] \in Nat /\ sent'[dep] \in Nat BY <1>1 DEF TypeInv
<1> QED BY <1>1, <1>2 DEF ParentSent

LEMMA OthersFit ==
  ASSUME IInv, TypeInv', NEW p \in Procs \cup {None}, Alone(p), NEW q \in Procs \ {p}
  PROVE  Fit(q)'
<1> DEFINE i == proc[q].i
<1>0. TypeInv /\ Fit(q) BY DEF IInv
<1>1. proc'[q] = proc[q] BY DEF Alone
<1>2. q # None BY ScheduleAssumption
<1>3. proc[q].pc \notin Free => i \in Inputs BY <1>0, ProcParts
<1>4. Holds(q)'
  <2>1. SUFFICES ASSUME proc[q].pc \in {"write", "check", "call", "mark"}
                 PROVE  lock'[i] = q /\ row'[i].status # "none"
    BY <1>1 DEF Holds
  <2>2. i \in Inputs BY <1>3, <2>1 DEF Free
  <2>3. lock[i] = q /\ row[i].status # "none" BY <1>0, <2>1 DEF Fit, Holds
  <2> QED BY <1>2, <2>2, <2>3 DEF Alone
<1>5. Decided(q)'
  <2>1. SUFFICES ASSUME proc[q].pc \in {"check", "call"}
                 PROVE  /\ i \notin unmarked' => sent'[i] = 0
                        /\ row'[i].dep # None => sent'[row'[i].dep] > 0
    BY <1>1 DEF Decided, ParentSent
  <2>2. i \in Inputs BY <1>3, <2>1 DEF Free
  <2>3. lock[i] = q /\ row[i].status # "none" BY <1>0, <2>1 DEF Fit, Holds
  <2>4. row'[i].dep = row[i].dep /\ sent'[i] = sent[i] BY <1>2, <2>2, <2>3 DEF Alone
  <2>5. /\ i \notin unmarked => sent[i] = 0
        /\ ParentSent(row[i].dep)
    BY <1>0, <2>1 DEF Fit, Decided
  <2>6. i \notin unmarked' => sent'[i] = 0 BY <2>4, <2>5 DEF Alone
  <2>7. row[i].dep \in Inputs \cup {None} BY <1>0, <2>2, RowParts
  <2>8. row[i].dep # None => sent'[row[i].dep] > 0 BY <1>0, <2>5, <2>7, ParentStaysSent DEF Alone
  <2> QED BY <2>4, <2>6, <2>8
<1>6. Handed(q)'
  <2>1. SUFFICES ASSUME proc[q].pc = "mark" PROVE sent'[i] > 0
    BY <1>1 DEF Handed
  <2>2. i \in Inputs BY <1>3, <2>1 DEF Free
  <2>3. sent[i] > 0 /\ lock[i] = q BY <1>0, <2>1 DEF Fit, Handed, Holds
  <2>4. sent'[i] = sent[i] BY <2>2, <2>3 DEF Alone
  <2> QED BY <2>3, <2>4
<1>7. Looked(q)'
  <2> DEFINE dep == proc[q].row.dep
  <2>1. ASSUME proc[q].pc \in {"evaluate", "quiet"} PROVE dep # None => sent'[dep] > 0
    <3>1. ParentSent(dep) BY <1>0, <2>1 DEF Fit, Looked
    <3>2. dep \in Inputs \cup {None} BY <1>0, ProcParts
    <3>3. \A j \in Inputs : sent'[j] = sent[j] \/ sent'[j] > sent[j] BY DEF Alone
    <3> HIDE DEF dep
    <3> QED BY <1>0, <3>1, <3>2, <3>3, ParentStaysSent
  <2>2. proc[q].row.at <= now => proc[q].row.at <= now'
    <3>1. proc[q].row.at \in Nat /\ now \in Nat /\ now' \in Nat
      BY <1>0, ProcParts, ScheduleAssumption DEF TypeInv, Flags
    <3> QED BY <3>1 DEF Alone
  <2> QED BY <1>0, <1>1, <2>1, <2>2 DEF Fit, Looked, ParentSent
<1>8. Fresh(q)'
  <2>1. SUFFICES ASSUME proc[q].pc = "create"
                 PROVE  q \in Clients /\ row'[i].status = "none"
    BY <1>1 DEF Fresh
  <2>2. i \in Inputs BY <1>3, <2>1 DEF Free
  <2>3. q \in Clients /\ row[i].status = "none" BY <1>0, <2>1 DEF Fit, Fresh
  <2>4. ~ (p \in Clients /\ proc[p].pc = "create" /\ proc[p].i = i)
    BY <2>1, <2>3 DEF IInv, OneCreates
  <2> QED BY <2>2, <2>3, <2>4 DEF Alone
<1> QED BY <1>4, <1>5, <1>6, <1>7, <1>8 DEF Fit

LEMMA IdleFit ==
  ASSUME NEW p \in Procs, proc'[p].pc \notin Relying
  PROVE  Fit(p)'
BY DEF Relying, Fit, Holds, Decided, Handed, Looked, Fresh

\* Whoever moves alone and does not begin to create keeps creators apart.
LEMMA CreatesKept ==
  ASSUME IInv, NEW p \in Procs \cup {None}, Alone(p), p \in Procs => proc'[p].pc # "create"
  PROVE  OneCreates'
<1> SUFFICES ASSUME NEW c \in Clients, NEW d \in Clients, proc'[c].pc = "create",
                    proc'[d].pc = "create", proc'[c].i = proc'[d].i
             PROVE  c = d
  BY DEF OneCreates
<1>1. c \in Procs /\ d \in Procs BY DEF Procs
<1>2. c # p /\ d # p BY <1>1
<1>3. proc'[c] = proc[c] /\ proc'[d] = proc[d] BY <1>1, <1>2 DEF Alone
<1> QED BY <1>3 DEF IInv, OneCreates

\* Without a hand-over, the records stay true while no status is reopened and nobody
\* leaves a record out.
LEMMA RecordsKept ==
  ASSUME IInv, NEW p \in Procs \cup {None}, Alone(p), sent' = sent, unmarked' = unmarked,
         p \in Procs => proc[p].pc # "mark", Closing
  PROVE  \A i \in Inputs : Recorded(i)'
<1> SUFFICES ASSUME NEW i \in Inputs PROVE Recorded(i)' OBVIOUS
<1>1. Recorded(i) BY DEF IInv
<1>2. row'[i].status = "dispatched" => sent'[i] > 0 BY <1>1 DEF Recorded, Closing
<1>3. ASSUME i \notin unmarked', sent'[i] > 0
      PROVE  /\ sent'[i] = 1
             /\ row'[i].status \notin Open \cup {"none"}
                  \/ \E q \in Procs : proc'[q].pc = "mark" /\ proc'[q].i = i
  <2>1. sent'[i] = 1 BY <1>1, <1>3 DEF Recorded
  <2>2. CASE row[i].status \notin Open \cup {"none"} BY <1>3, <2>1, <2>2 DEF Closing
  <2>3. CASE \E q \in Procs : proc[q].pc = "mark" /\ proc[q].i = i
    <3>1. PICK q \in Procs : proc[q].pc = "mark" /\ proc[q].i = i BY <2>3
    <3>2. q # p BY <3>1
    <3>3. proc'[q] = proc[q] BY <3>2 DEF Alone
    <3> QED BY <2>1, <3>1, <3>3
  <2> QED BY <1>1, <1>3, <2>2, <2>3 DEF Recorded
<1> QED BY <1>2, <1>3 DEF Recorded

\* The shape of most steps: nothing is handed over.
LEMMA QuietStep ==
  ASSUME IInv, TypeInv', NEW p \in Procs \cup {None}, Alone(p), sent' = sent,
         unmarked' = unmarked, Closing,
         p \in Procs => proc[p].pc # "mark" /\ proc'[p].pc # "create" /\ Fit(p)'
  PROVE  IInv'
<1>1. \A q \in Procs : Fit(q)'
  <2>1. ASSUME NEW q \in Procs PROVE Fit(q)'
    <3>1. CASE q = p BY <3>1
    <3>2. CASE q # p BY <3>2, OthersFit
    <3> QED BY <3>1, <3>2
  <2> QED BY <2>1
<1>2. OneCreates' BY CreatesKept
<1>3. \A i \in Inputs : Recorded(i)' BY RecordsKept
<1> QED BY <1>1, <1>2, <1>3 DEF IInv

\* A step that moves p to where it relies on nothing and leaves the rows alone.
LEMMA RestingStep ==
  ASSUME IInv, TypeInv', NEW p \in Procs, proc[p].pc # "mark", proc'[p].pc \notin Relying,
         UNCHANGED <<row, now, sent, unmarked>>,
         \A q \in Procs \ {p} : proc'[q] = proc[q],
         \A j \in Inputs : lock[j] # p => lock'[j] = lock[j]
  PROVE  IInv'
<1>1. now <= now' BY ScheduleAssumption DEF IInv, TypeInv, Flags
<1>2. Alone(p) BY <1>1 DEF Alone
<1>3. Fit(p)' BY IdleFit
<1> QED BY <1>2, <1>3, QuietStep DEF Relying, Closing

\* Who takes the lock of an open row finds an input that nobody has handed over ...
LEMMA OpenUnsent ==
  ASSUME IInv, NEW i \in Inputs, lock[i] = None, row[i].status \in Open, i \notin unmarked
  PROVE  sent[i] = 0
<1>1. SUFFICES ASSUME sent[i] > 0 PROVE FALSE BY RowParts DEF IInv
<1>2. \E p \in Procs : proc[p].pc = "mark" /\ proc[p].i = i BY <1>1 DEF IInv, Recorded
<1>3. PICK p \in Procs : proc[p].pc = "mark" /\ proc[p].i = i BY <1>2
<1>4. lock[i] = p BY <1>3 DEF IInv, Fit, Holds
<1> QED BY <1>4, ScheduleAssumption

\* ... and a dispatched parent was handed over.
LEMMA SatisfiedSent ==
  ASSUME IInv, NEW dep \in Inputs \cup {None}, Satisfied(dep)
  PROVE  ParentSent(dep)
BY DEF IInv, Recorded, Satisfied, ParentSent

-----------------------------------------------------------------------------
(* Commands.                                                                *)

LEMMA ScheduleStep ==
  ASSUME IInv, NEW c \in Clients, NEW i \in Inputs, NEW kind \in {"time", "idle"},
         NEW at \in 0..MaxTime, NEW dep \in Inputs \cup {None}, Schedule(c, i, kind, at, dep)
  PROVE  IInv'
<1> USE DEF Schedule
<1> DEFINE x == [Rest EXCEPT !.pc = "create", !.i = i, !.row = Scheduled(kind, at, dep)]
<1>0. TypeInv /\ c \in Procs BY DEF IInv, Procs
<1>1. x \in GoodProc /\ x.pc = "create" /\ x.i = i
  <2>1. Scheduled(kind, at, dep) \in GoodRow BY <1>0, RowAsked
  <2> QED BY <2>1, RestGood DEF Scheduled, GoodProc, Rest, PCs, Storing, Free
<1> HIDE DEF x
<1>2. /\ proc' \in [Procs -> GoodProc] /\ proc'[c] = x
      /\ \A q \in Procs \ {c} : proc'[q] = proc[q]
  <2>1. proc' = [proc EXCEPT ![c] = x] BY DEF x
  <2> QED BY <1>0, <1>1, <2>1, OneMoves
<1>3. TypeInv'
  <2>1. cmds' \in 0..MaxCommands /\ faults' \in 0..MaxFaults BY <1>0, CommandTypes
  <2> QED BY <1>0, <1>2, <2>1 DEF TypeInv, Timers, Flags, timerVars
<1>4. Alone(c)
  <2>1. now <= now' BY <1>0, ScheduleAssumption DEF TypeInv, Flags
  <2> QED BY <1>2, <2>1 DEF Alone
<1>5. Fit(c)' BY <1>1, <1>2 DEF Fit, Holds, Decided, Handed, Looked, Fresh
<1>6. \A q \in Procs : Fit(q)'
  <2>1. ASSUME NEW q \in Procs PROVE Fit(q)'
    <3>1. CASE q = c BY <3>1, <1>5
    <3>2. CASE q # c BY <1>0, <1>3, <1>4, <3>2, OthersFit
    <3> QED BY <3>1, <3>2
  <2> QED BY <2>1
<1>7. OneCreates'
  <2> SUFFICES ASSUME NEW a \in Clients, NEW b \in Clients, proc'[a].pc = "create",
                      proc'[b].pc = "create", proc'[a].i = proc'[b].i
               PROVE  a = b
    BY DEF OneCreates
  <2>1. \A d \in Clients \ {c} : proc'[d] = proc[d] /\ proc[d].i # i BY <1>2 DEF Procs
  <2>2. proc'[c].i = i BY <1>1, <1>2
  <2> QED BY <2>1, <2>2 DEF IInv, OneCreates
<1>8. \A j \in Inputs : Recorded(j)'
  <2>1. Closing /\ proc[c].pc # "mark" BY DEF Closing
  <2> QED BY <1>0, <1>4, <2>1, RecordsKept
<1> QED BY <1>3, <1>6, <1>7, <1>8 DEF IInv

LEMMA CreateStep ==
  ASSUME IInv, NEW c \in Clients, Create(c)
  PROVE  IInv'
<1> USE DEF Create
<1> DEFINE i == proc[c].i
<1>0. TypeInv /\ c \in Procs BY DEF IInv, Procs
<1>1. /\ i \in Inputs /\ proc[c].row \in GoodRow /\ proc[c].row.status = "scheduled"
      /\ row[i].status = "none"
  BY <1>0, ProcParts DEF IInv, Fit, Fresh, Free, Storing
<1>2. /\ row' \in [Inputs -> GoodRow] /\ row'[i].status = "scheduled"
      /\ \A j \in Inputs \ {i} : row'[j] = row[j]
  BY <1>0, <1>1, WriteTypes
<1>3. /\ proc' \in [Procs -> GoodProc] /\ proc'[c] = [proc[c] EXCEPT !.pc = "arm"]
      /\ \A q \in Procs \ {c} : proc'[q] = proc[q]
  BY <1>0, <1>1, GoMoves DEF PCs, Storing, Free
<1>4. proc'[c].pc = "arm" BY <1>0, <1>3, ProcParts DEF GoodProc
<1>5. TypeInv' BY <1>0, <1>2, <1>3 DEF TypeInv, Timers, Flags, timerVars, bounds
<1>6. Alone(c)
  <2>1. now <= now' BY <1>0, ScheduleAssumption DEF TypeInv, Flags
  <2> QED BY <1>1, <1>2, <1>3, <2>1 DEF Alone
<1>7. Closing BY <1>1, <1>2 DEF Closing, Open
<1>8. Fit(c)' BY <1>0, <1>4, IdleFit DEF Relying
<1> QED BY <1>0, <1>4, <1>5, <1>6, <1>7, <1>8, QuietStep

LEMMA ArmStep ==
  ASSUME IInv, NEW c \in Clients, Arm(c)
  PROVE  IInv'
<1> USE DEF Arm
<1> DEFINE i == proc[c].i
           t == proc[c].row.at
<1>0. TypeInv /\ c \in Procs BY DEF IInv, Procs
<1>1. i \in Inputs /\ proc[c].row \in GoodRow /\ proc[c].row.status = "scheduled"
  BY <1>0, ProcParts DEF Free, Storing
<1>4. robbed' \subseteq Inputs BY <1>0 DEF Robbed, TypeInv, Timers
<1>2. CASE proc[c].row.kind = "time"
  <2>1. t \in 1..MaxTime BY <1>1, <1>2, ScheduleAssumption DEF GoodRow, Row
  <2>3. SetTimer(i, t) /\ Go(c, "register") BY <1>2
  <2>4. Timers' BY <1>0, <1>1, <1>4, <2>1, <2>3, SetTimerTypes
  <2>5. /\ proc' \in [Procs -> GoodProc] /\ proc'[c] = [proc[c] EXCEPT !.pc = "register"]
        /\ \A q \in Procs \ {c} : proc'[q] = proc[q]
    BY <1>0, <1>1, <2>3, GoMoves DEF PCs, Storing, Free
  <2>6. proc'[c].pc = "register" BY <1>0, <2>5, ProcParts DEF GoodProc
  <2>7. TypeInv' BY <1>0, <1>2, <2>4, <2>5 DEF TypeInv, Flags, bounds
  <2> QED BY <1>0, <1>2, <2>5, <2>6, <2>7, RestingStep DEF Relying
<1>3. CASE proc[c].row.kind # "time"
  <2>1. StopTimer(i) /\ Drop(i, c) /\ Finish(c) /\ monitor' = TRUE BY <1>3
  <2>2. Timers' BY <1>0, <1>1, <1>4, <2>1, ScheduleAssumption DEF StopTimer, TypeInv, Timers
  <2>3. /\ lock' \in [Inputs -> Procs \cup {None}]
        /\ \A j \in Inputs : lock[j] # c => lock'[j] = lock[j]
    BY <1>0, <1>1, <2>1, DropTypes
  <2>4. /\ proc' \in [Procs -> GoodProc] /\ proc'[c].pc \in {"idle", "sweep"}
        /\ \A q \in Procs \ {c} : proc'[q] = proc[q]
    BY <1>0, <2>1, FinishMoves
  <2>5. TypeInv' BY <1>0, <2>1, <2>2, <2>3, <2>4 DEF TypeInv, Flags, bounds
  <2> QED BY <1>0, <2>3, <2>4, <2>5, RestingStep DEF Relying
<1> QED BY <1>2, <1>3

LEMMA RegisteredStep ==
  ASSUME IInv, NEW c \in Clients, Registered(c)
  PROVE  IInv'
<1> USE DEF Registered
<1> DEFINE i == proc[c].i
           t == proc[c].row.at
<1>0. TypeInv /\ c \in Procs BY DEF IInv, Procs
<1>1. i \in Inputs /\ t \in 0..MaxTime BY <1>0, ProcParts DEF Free
<1>2. Timers' BY <1>0, <1>1 DEF Register, TypeInv, Timers
<1>3. /\ lock' \in [Inputs -> Procs \cup {None}]
      /\ \A j \in Inputs : lock[j] # c => lock'[j] = lock[j]
  BY <1>0, <1>1, DropTypes
<1>4. /\ proc' \in [Procs -> GoodProc] /\ proc'[c].pc \in {"idle", "sweep"}
      /\ \A q \in Procs \ {c} : proc'[q] = proc[q]
  BY <1>0, FinishMoves
<1>5. TypeInv' BY <1>0, <1>2, <1>3, <1>4 DEF TypeInv, Flags, bounds
<1> QED BY <1>0, <1>3, <1>4, <1>5, RestingStep DEF Relying

LEMMA UpdateStep ==
  ASSUME IInv, NEW c \in Clients, NEW i \in Inputs, NEW kind \in {"time", "idle"},
         NEW at \in 0..MaxTime, NEW dep \in Inputs \cup {None}, Update(c, i, kind, at, dep)
  PROVE  IInv'
<1> USE DEF Update
<1> DEFINE x == [Rest EXCEPT !.pc = "write", !.i = i, !.row = Scheduled(kind, at, dep)]
<1>0. TypeInv /\ c \in Procs BY DEF IInv, Procs
<1>1. x \in GoodProc /\ x.pc = "write" /\ x.i = i
  <2>1. Scheduled(kind, at, dep) \in GoodRow BY <1>0, RowAsked
  <2> QED BY <2>1, RestGood DEF Scheduled, GoodProc, Rest, PCs, Storing, Free
<1> HIDE DEF x
<1>2. /\ proc' \in [Procs -> GoodProc] /\ proc'[c] = x
      /\ \A q \in Procs \ {c} : proc'[q] = proc[q]
  <2>1. proc' = [proc EXCEPT ![c] = x] BY DEF x
  <2> QED BY <1>0, <1>1, <2>1, OneMoves
<1>3. /\ lock' \in [Inputs -> Procs \cup {None}] /\ lock[i] = None /\ lock'[i] = c
      /\ \A j \in Inputs \ {i} : lock'[j] = lock[j]
  BY <1>0, TakeTypes
<1>4. TypeInv'
  <2>1. cmds' \in 0..MaxCommands /\ faults' \in 0..MaxFaults BY <1>0, CommandTypes
  <2> QED BY <1>0, <1>2, <1>3, <2>1 DEF TypeInv, Timers, Flags, timerVars
<1>5. Alone(c)
  <2>1. now <= now' BY <1>0, ScheduleAssumption DEF TypeInv, Flags
  <2> QED BY <1>2, <1>3, <2>1 DEF Alone
<1>6. Fit(c)'
  <2>1. Holds(c)' BY <1>1, <1>2, <1>3 DEF Holds, Open
  <2> QED BY <1>1, <1>2, <2>1 DEF Fit, Decided, Handed, Looked, Fresh
<1>7. Closing /\ proc[c].pc # "mark" /\ proc'[c].pc # "create" BY <1>1, <1>2 DEF Closing
<1> QED BY <1>0, <1>4, <1>5, <1>6, <1>7, QuietStep

LEMMA WriteUpdateStep ==
  ASSUME IInv, NEW c \in Clients, WriteUpdate(c)
  PROVE  IInv'
<1> USE DEF WriteUpdate
<1> DEFINE i == proc[c].i
<1>0. TypeInv /\ c \in Procs BY DEF IInv, Procs
<1>1. i \in Inputs /\ proc[c].row \in GoodRow /\ proc[c].row.status = "scheduled"
  BY <1>0, ProcParts DEF Free, Storing
<1>2. lock[i] = c BY <1>0 DEF IInv, Fit, Holds
<1>3. CASE row[i].status \in Open
  <2>1. Write(i, proc[c].row) /\ Go(c, "arm") BY <1>3
  <2>2. /\ row' \in [Inputs -> GoodRow] /\ row'[i].status = "scheduled"
        /\ \A j \in Inputs \ {i} : row'[j] = row[j]
    BY <1>0, <1>1, <2>1, WriteTypes
  <2>3. /\ proc' \in [Procs -> GoodProc] /\ proc'[c] = [proc[c] EXCEPT !.pc = "arm"]
        /\ \A q \in Procs \ {c} : proc'[q] = proc[q]
    BY <1>0, <1>1, <2>1, GoMoves DEF PCs, Storing, Free
  <2>4. proc'[c].pc = "arm" BY <1>0, <2>3, ProcParts DEF GoodProc
  <2>5. TypeInv' BY <1>0, <1>3, <2>2, <2>3 DEF TypeInv, Timers, Flags, timerVars, bounds
  <2>6. Alone(c)
    <3>1. now <= now' BY <1>0, ScheduleAssumption DEF TypeInv, Flags
    <3> QED BY <1>1, <1>2, <1>3, <2>2, <2>3, <3>1 DEF Alone, Open
  <2>7. Closing BY <1>1, <1>3, <2>2 DEF Closing, Open
  <2>8. Fit(c)' BY <1>0, <2>4, IdleFit DEF Relying
  <2> QED BY <1>0, <2>4, <2>5, <2>6, <2>7, <2>8, QuietStep
<1>4. CASE row[i].status \notin Open
  <2>1. Drop(i, c) /\ Finish(c) BY <1>4
  <2>2. /\ lock' \in [Inputs -> Procs \cup {None}]
        /\ \A j \in Inputs : lock[j] # c => lock'[j] = lock[j]
    BY <1>0, <1>1, <2>1, DropTypes
  <2>3. /\ proc' \in [Procs -> GoodProc] /\ proc'[c].pc \in {"idle", "sweep"}
        /\ \A q \in Procs \ {c} : proc'[q] = proc[q]
    BY <1>0, <2>1, FinishMoves
  <2>4. TypeInv' BY <1>0, <1>4, <2>2, <2>3 DEF TypeInv, Timers, Flags, timerVars, bounds
  <2> QED BY <1>0, <1>4, <2>2, <2>3, <2>4, RestingStep DEF Relying
<1> QED BY <1>3, <1>4

\* Who takes an open row whose parent was handed over may decide about it.
LEMMA TakenFit ==
  ASSUME IInv, TypeInv', NEW p \in Procs, NEW i \in Inputs, lock[i] = None, row[i].status \in Open,
         proc'[p].pc = "check", proc'[p].i = i, lock'[i] = p, row'[i].status # "none",
         sent' = sent, unmarked' = unmarked,
         row'[i].dep = None \/ (row'[i].dep = row[i].dep /\ Satisfied(row[i].dep))
  PROVE  Fit(p)'
<1>1. Holds(p)' BY DEF Holds
<1>2. i \notin unmarked => sent[i] = 0 BY OpenUnsent
<1>3. row'[i].dep # None => sent'[row'[i].dep] > 0
  <2>1. row[i].dep \in Inputs \cup {None} BY RowParts DEF IInv
  <2> QED BY <2>1, SatisfiedSent DEF ParentSent
<1>4. Decided(p)' BY <1>2, <1>3 DEF Decided, ParentSent
<1> QED BY <1>1, <1>4 DEF Fit, Handed, Looked, Fresh

LEMMA DispatchNowStep ==
  ASSUME IInv, NEW c \in Clients, NEW i \in Inputs, NEW bypass \in BOOLEAN,
         DispatchNow(c, i, bypass)
  PROVE  IInv'
<1> USE DEF DispatchNow
<1> DEFINE x == [Rest EXCEPT !.pc = "check", !.i = i]
<1>0. TypeInv /\ c \in Procs BY DEF IInv, Procs
<1>1. x \in GoodProc /\ x.pc = "check" /\ x.i = i
  BY RestGood DEF GoodProc, Rest, PCs, Storing, Free, Dispatching
<1> HIDE DEF x
<1>2. /\ proc' \in [Procs -> GoodProc] /\ proc'[c] = x
      /\ \A q \in Procs \ {c} : proc'[q] = proc[q]
  <2>1. proc' = [proc EXCEPT ![c] = x] BY DEF x
  <2> QED BY <1>0, <1>1, <2>1, OneMoves
<1>3. /\ lock' \in [Inputs -> Procs \cup {None}] /\ lock[i] = None /\ lock'[i] = c
      /\ \A j \in Inputs \ {i} : lock'[j] = lock[j]
  BY <1>0, TakeTypes
<1>4. /\ row' \in [Inputs -> GoodRow] /\ row'[i].status = row[i].status
      /\ row'[i].dep = None \/ (row'[i].dep = row[i].dep /\ Satisfied(row[i].dep))
      /\ \A j \in Inputs \ {i} : row'[j] = row[j]
  <2> DEFINE r == [row[i] EXCEPT !.dep = None]
  <2>1. row[i] \in GoodRow BY <1>0, RowParts
  <2>2. r \in GoodRow /\ r.dep = None /\ r.status = row[i].status
    BY <2>1, RowFreed DEF GoodRow, Row
  <2>3. CASE Write(i, r)
    <3> HIDE DEF r
    <3> QED BY <1>0, <2>2, <2>3, WriteTypes
  <2>4. CASE Satisfied(row[i].dep) /\ UNCHANGED row BY <1>0, <2>4 DEF TypeInv
  <2> QED BY <2>3, <2>4
<1>5. TypeInv'
  <2>1. cmds' \in 0..MaxCommands /\ faults' \in 0..MaxFaults BY <1>0, CommandTypes
  <2>2. Timers' BY <1>0, CancelTimerTypes
  <2> QED BY <1>0, <1>2, <1>3, <1>4, <2>1, <2>2 DEF TypeInv, Flags
<1>6. Alone(c)
  <2>1. now <= now' BY <1>0, ScheduleAssumption DEF TypeInv, Flags
  <2> QED BY <1>2, <1>3, <1>4, <2>1 DEF Alone
<1>7. Fit(c)' BY <1>0, <1>1, <1>2, <1>3, <1>4, <1>5, TakenFit DEF Open
<1>8. Closing /\ proc[c].pc # "mark" /\ proc'[c].pc # "create"
  BY <1>1, <1>2, <1>4 DEF Closing, Open
<1> QED BY <1>0, <1>5, <1>6, <1>7, <1>8, QuietStep

LEMMA RemoveStep ==
  ASSUME IInv, NEW c \in Clients, NEW i \in Inputs, Remove(c, i)
  PROVE  IInv'
<1> USE DEF Remove
<1> DEFINE x == [Rest EXCEPT !.pc = "removed", !.i = i]
<1>0. TypeInv /\ c \in Procs BY DEF IInv, Procs
<1>1. x \in GoodProc /\ x.pc = "removed" BY RestGood DEF GoodProc, Rest, PCs, Storing, Free
<1> HIDE DEF x
<1>2. /\ proc' \in [Procs -> GoodProc] /\ proc'[c] = x
      /\ \A q \in Procs \ {c} : proc'[q] = proc[q]
  <2>1. proc' = [proc EXCEPT ![c] = x] BY DEF x
  <2> QED BY <1>0, <1>1, <2>1, OneMoves
<1>3. /\ lock' \in [Inputs -> Procs \cup {None}] /\ lock[i] = None
      /\ \A j \in Inputs \ {i} : lock'[j] = lock[j]
  BY <1>0, TakeTypes
<1>4. /\ row' \in [Inputs -> GoodRow] /\ row'[i].status = "refused" /\ row'[i].dep = row[i].dep
      /\ \A j \in Inputs \ {i} : row'[j] = row[j]
  BY <1>0, StatusTypes DEF Statuses, Stored, Open
<1>5. TypeInv'
  <2>1. cmds' \in 0..MaxCommands /\ faults' \in 0..MaxFaults BY <1>0, CommandTypes
  <2> QED BY <1>0, <1>2, <1>3, <1>4, <2>1 DEF TypeInv, Timers, Flags, timerVars
<1>6. Alone(c)
  <2>1. now <= now' BY <1>0, ScheduleAssumption DEF TypeInv, Flags
  <2> QED BY <1>2, <1>3, <1>4, <2>1 DEF Alone, Open
<1>7. Closing BY <1>4 DEF Closing, Open
<1>8. Fit(c)' /\ proc[c].pc # "mark" /\ proc'[c].pc # "create"
  BY <1>0, <1>1, <1>2, IdleFit DEF Relying
<1> QED BY <1>0, <1>5, <1>6, <1>7, <1>8, QuietStep

LEMMA RemovedStep ==
  ASSUME IInv, NEW c \in Clients, Removed(c)
  PROVE  IInv'
<1> USE DEF Removed
<1> DEFINE i == proc[c].i
<1>0. TypeInv /\ c \in Procs BY DEF IInv, Procs
<1>1. i \in Inputs BY <1>0, ProcParts DEF Free
<1>2. Timers' BY <1>0, <1>1, CancelTimerTypes
<1>3. /\ lock' \in [Inputs -> Procs \cup {None}]
      /\ \A j \in Inputs : lock[j] # c => lock'[j] = lock[j]
  BY <1>0, <1>1, DropTypes
<1>4. /\ proc' \in [Procs -> GoodProc] /\ proc'[c].pc \in {"idle", "sweep"}
      /\ \A q \in Procs \ {c} : proc'[q] = proc[q]
  BY <1>0, FinishMoves
<1>5. TypeInv' BY <1>0, <1>2, <1>3, <1>4 DEF TypeInv, Flags, bounds
<1> QED BY <1>0, <1>3, <1>4, <1>5, RestingStep DEF Relying

LEMMA ArchiveStep ==
  ASSUME IInv, NEW c \in Clients, Archive(c)
  PROVE  IInv'
<1> USE DEF Archive
<1>0. TypeInv /\ c \in Procs BY DEF IInv, Procs
<1>1. /\ proc' \in [Procs -> GoodProc] /\ proc'[c] = [proc[c] EXCEPT !.pc = "archive"]
      /\ \A q \in Procs \ {c} : proc'[q] = proc[q]
  BY <1>0, GoMoves DEF PCs, Storing, Free
<1>2. proc'[c].pc = "archive" BY <1>0, <1>1, ProcParts DEF GoodProc
<1>3. cmds' \in 0..MaxCommands /\ faults' \in 0..MaxFaults BY <1>0, CommandTypes
<1>4. TypeInv' BY <1>0, <1>1, <1>3 DEF TypeInv, Timers, Flags, timerVars
<1> QED BY <1>0, <1>1, <1>2, <1>4, RestingStep DEF Relying

LEMMA CancelActiveStep ==
  ASSUME IInv, NEW c \in Clients, CancelActive(c)
  PROVE  IInv'
<1> USE DEF CancelActive
<1>0. TypeInv /\ c \in Procs BY DEF IInv, Procs
<1>1. /\ proc' \in [Procs -> GoodProc] /\ proc'[c] = [proc[c] EXCEPT !.pc = "cancelTimers"]
      /\ \A q \in Procs \ {c} : proc'[q] = proc[q]
  BY <1>0, GoMoves DEF PCs, Storing, Free
<1>2. proc'[c].pc = "cancelTimers" BY <1>0, <1>1, ProcParts DEF GoodProc
<1>3. ASSUME NEW j \in Inputs
      PROVE  /\ row'[j] \in GoodRow /\ row'[j].dep = row[j].dep
             /\ row'[j].status = (IF row[j].status \in Open THEN "refused" ELSE row[j].status)
  <2>1. row[j] \in GoodRow BY <1>0, RowParts
  <2>2. CASE row[j].status \in Open
    <3>1. row'[j] = [row[j] EXCEPT !.status = "refused"] BY <2>2
    <3>2. row'[j] \in GoodRow /\ row'[j].status = "refused"
      BY <2>1, <2>2, <3>1, RowRestatus DEF Open, Statuses, Stored
    <3>3. row'[j].dep = row[j].dep BY <2>1, <3>1 DEF GoodRow, Row
    <3> QED BY <2>2, <3>2, <3>3
  <2>3. CASE row[j].status \notin Open BY <2>1, <2>3
  <2> QED BY <2>2, <2>3
<1>4. row' \in [Inputs -> GoodRow] BY <1>3
<1>5. TypeInv' BY <1>0, <1>1, <1>4 DEF TypeInv, Timers, Flags, timerVars, bounds
<1>6. Alone(c)
  <2>1. now <= now' BY <1>0, ScheduleAssumption DEF TypeInv, Flags
  <2> QED BY <1>1, <1>3, <2>1 DEF Alone, Open
<1>7. Closing BY <1>3 DEF Closing, Open
<1>8. Fit(c)' /\ proc[c].pc # "mark" /\ proc'[c].pc # "create"
  BY <1>0, <1>2, IdleFit DEF Relying
<1> QED BY <1>0, <1>5, <1>6, <1>7, <1>8, QuietStep

LEMMA CancelTimersStep ==
  ASSUME IInv, NEW c \in Clients, CancelTimers(c)
  PROVE  IInv'
<1> USE DEF CancelTimers
<1>0. TypeInv /\ c \in Procs BY DEF IInv, Procs
<1>1. /\ proc' \in [Procs -> GoodProc] /\ proc'[c].pc \in {"idle", "sweep"}
      /\ \A q \in Procs \ {c} : proc'[q] = proc[q]
  BY <1>0, FinishMoves
<1>2. Timers'
  <2>1. armed' \subseteq armed BY DEF CancelTimers
  <2>2. reg' \in [Inputs -> 0..MaxTime] BY ScheduleAssumption
  <2>3. robbed' \subseteq Inputs BY <1>0 DEF Robbed, TypeInv, Timers
  <2> QED BY <1>0, <2>1, <2>2, <2>3 DEF TypeInv, Timers
<1>3. TypeInv' BY <1>0, <1>1, <1>2 DEF TypeInv, Flags, bounds
<1> QED BY <1>0, <1>1, <1>3, RestingStep DEF Relying

\* Nobody moves, and neither do locks and records.
LEMMA NobodyMoves ==
  ASSUME IInv, TypeInv', UNCHANGED <<proc, lock, sent, unmarked>>, now <= now',
         \A j \in Inputs : row'[j].status = row[j].status /\ row'[j].dep = row[j].dep
  PROVE  IInv'
<1>1. Alone(None) BY ScheduleAssumption DEF Alone
<1>2. Closing BY DEF Closing
<1>3. None \notin Procs BY ScheduleAssumption
<1> QED BY <1>1, <1>2, <1>3, QuietStep

LEMMA UnarchiveStep ==
  ASSUME IInv, NEW c \in Clients, Unarchive(c)
  PROVE  IInv'
<1> USE DEF Unarchive
<1>0. TypeInv BY DEF IInv
<1>1. cmds' \in 0..MaxCommands /\ faults' \in 0..MaxFaults BY <1>0, CommandTypes
<1>2. TypeInv' BY <1>0, <1>1 DEF TypeInv, Timers, Flags, timerVars
<1>3. now <= now' BY <1>0, ScheduleAssumption DEF TypeInv, Flags
<1> QED BY <1>2, <1>3, NobodyMoves

-----------------------------------------------------------------------------
(* Timers.                                                                  *)

LEMMA TickStep == ASSUME IInv, Tick PROVE IInv'
<1> USE DEF Tick
<1>0. TypeInv BY DEF IInv
<1>1. now' \in 0..MaxTime /\ now <= now' BY <1>0, ScheduleAssumption DEF TypeInv, Flags
<1>2. TypeInv' BY <1>0, <1>1 DEF TypeInv, Timers, Flags, timerVars, bounds
<1> QED BY <1>1, <1>2, NobodyMoves

LEMMA FireStep ==
  ASSUME IInv, NEW k \in Callbacks, NEW i \in Inputs, NEW t \in 1..MaxTime, Fire(k, i, t)
  PROVE  IInv'
<1> USE DEF Fire
<1> DEFINE x == [Rest EXCEPT !.pc = "fired", !.i = i, !.row.at = t]
<1>0. TypeInv /\ k \in Procs BY DEF IInv, Procs
<1>1. x \in GoodProc /\ x.pc = "fired" /\ x.row.at = t
  <2>1. [NoRow EXCEPT !.at = t] \in GoodRow
    BY ScheduleAssumption DEF NoRow, GoodRow, Row, Statuses, Stored
  <2>2. x = [Rest EXCEPT !.pc = "fired", !.i = i, !.row = [NoRow EXCEPT !.at = t]] BY DEF Rest
  <2> HIDE DEF x
  <2>3. x \in GoodProc BY <2>1, <2>2 DEF GoodProc, Rest, PCs, Storing, Free
  <2>4. x.pc = "fired" /\ x.row = [NoRow EXCEPT !.at = t] BY <2>2 DEF Rest
  <2> QED BY <2>3, <2>4 DEF NoRow
<1> HIDE DEF x
<1>2. /\ proc' \in [Procs -> GoodProc] /\ proc'[k] = x
      /\ \A q \in Procs \ {k} : proc'[q] = proc[q]
  <2>1. proc' = [proc EXCEPT ![k] = x] BY DEF x
  <2> QED BY <1>0, <1>1, <2>1, OneMoves
<1>3. TypeInv' BY <1>0, <1>2 DEF TypeInv, Timers, Flags, bounds
<1>4. Alone(k)
  <2>1. now <= now' BY <1>0, ScheduleAssumption DEF TypeInv, Flags
  <2> QED BY <1>2, <2>1 DEF Alone
<1>5. Fit(k)' BY <1>1, <1>2 DEF Fit, Holds, Decided, Handed, Looked, Fresh
<1>6. Closing /\ proc[k].pc # "mark" /\ proc'[k].pc # "create" BY <1>1, <1>2 DEF Closing
<1> QED BY <1>0, <1>3, <1>4, <1>5, <1>6, QuietStep

LEMMA FiredStep == ASSUME IInv, NEW k \in Callbacks, Fired(k) PROVE IInv'
<1> USE DEF Fired
<1> DEFINE i == proc[k].i
<1>0. TypeInv /\ k \in Procs BY DEF IInv, Procs
<1>1. i \in Inputs BY <1>0, ProcParts DEF Free
<1>2. /\ proc' \in [Procs -> GoodProc] /\ proc'[k] = [proc[k] EXCEPT !.pc = "execute"]
      /\ \A q \in Procs \ {k} : proc'[q] = proc[q]
  BY <1>0, <1>1, GoMoves DEF PCs, Storing, Free
<1>3. proc'[k].pc = "execute" /\ proc'[k].row = proc[k].row
  BY <1>0, <1>2, ProcParts DEF GoodProc
<1>4. Timers'
  <2>1. armed' \subseteq armed BY DEF Fired
  <2>2. reg' \in [Inputs -> 0..MaxTime]
    <3>1. reg \in [Inputs -> 0..MaxTime] /\ 0 \in 0..MaxTime
      BY <1>0, ScheduleAssumption DEF TypeInv, Timers
    <3>2. reg' = [reg EXCEPT ![i] = 0] BY DEF Fired
    <3> QED BY <3>1, <3>2
  <2>3. robbed' \subseteq Inputs BY <1>0 DEF Robbed, TypeInv, Timers
  <2> QED BY <1>0, <2>1, <2>2, <2>3 DEF TypeInv, Timers
<1>5. TypeInv' BY <1>0, <1>2, <1>4 DEF TypeInv, Flags, bounds
<1>6. Alone(k)
  <2>1. now <= now' BY <1>0, ScheduleAssumption DEF TypeInv, Flags
  <2> QED BY <1>2, <2>1 DEF Alone
<1>7. Fit(k)'
  <2>1. proc[k].row.at <= now BY <1>0 DEF IInv, Fit, Looked
  <2>2. Looked(k)' BY <1>3, <2>1 DEF Looked
  <2> QED BY <1>3, <2>2 DEF Fit, Holds, Decided, Handed, Fresh
<1>8. Closing BY DEF Closing
<1> QED BY <1>0, <1>3, <1>5, <1>6, <1>7, <1>8, QuietStep

LEMMA ExecuteStep == ASSUME IInv, NEW k \in Callbacks, Execute(k) PROVE IInv'
<1> USE DEF Execute
<1> DEFINE i == proc[k].i
<1>0. TypeInv /\ k \in Procs BY DEF IInv, Procs
<1>1. i \in Inputs BY <1>0, ProcParts DEF Free
<1>2. CASE Take(i, k) /\ Go(k, "check") /\ row[i].status = "scheduled" /\ Satisfied(row[i].dep)
  <2>1. /\ proc' \in [Procs -> GoodProc] /\ proc'[k] = [proc[k] EXCEPT !.pc = "check"]
        /\ \A q \in Procs \ {k} : proc'[q] = proc[q]
    BY <1>0, <1>1, <1>2, GoMoves DEF PCs, Storing, Free, Dispatching
  <2>2. proc'[k].pc = "check" /\ proc'[k].i = i BY <1>0, <2>1, ProcParts DEF GoodProc
  <2>3. /\ lock' \in [Inputs -> Procs \cup {None}] /\ lock[i] = None /\ lock'[i] = k
        /\ \A j \in Inputs \ {i} : lock'[j] = lock[j]
    BY <1>0, <1>1, <1>2, TakeTypes
  <2>4. TypeInv' BY <1>0, <2>1, <2>3 DEF TypeInv, Timers, Flags, timerVars, bounds
  <2>5. Alone(k)
    <3>1. now <= now' BY <1>0, ScheduleAssumption DEF TypeInv, Flags
    <3> QED BY <1>1, <2>1, <2>3, <3>1 DEF Alone
  <2>6. Fit(k)'
    <3>1. row[i].status \in Open /\ row'[i] = row[i] BY <1>2 DEF Open
    <3>2. row'[i].status # "none" BY <1>2, <3>1
    <3> HIDE DEF i
    <3> QED BY <1>0, <1>1, <1>2, <2>2, <2>3, <2>4, <3>1, <3>2, TakenFit
  <2>7. Closing BY DEF Closing
  <2> QED BY <1>0, <2>2, <2>4, <2>5, <2>6, <2>7, QuietStep
<1>3. CASE Finish(k) /\ UNCHANGED lock
  <2>1. /\ proc' \in [Procs -> GoodProc] /\ proc'[k].pc \in {"idle", "sweep"}
        /\ \A q \in Procs \ {k} : proc'[q] = proc[q]
    BY <1>0, <1>3, FinishMoves
  <2>2. TypeInv' BY <1>0, <1>3, <2>1 DEF TypeInv, Timers, Flags, timerVars, bounds
  <2> QED BY <1>0, <1>3, <2>1, <2>2, RestingStep DEF Relying
<1> QED BY <1>2, <1>3

-----------------------------------------------------------------------------
(* Dispatching.                                                             *)

\* p decides its input with a refusal, a deletion or a failure, and leaves.
LEMMA DecidedStep ==
  ASSUME IInv, NEW p \in Procs, NEW s \in {"refused", "deleted", "failed"},
         proc[p].pc \in {"check", "call"}, Status(proc[p].i, s), Drop(proc[p].i, p), Finish(p),
         Timers', faults' \in 0..MaxFaults, cmds' \in 0..MaxCommands,
         UNCHANGED <<archived, busy, now, monitor, rewake, sent, unmarked>>
  PROVE  IInv'
<1> DEFINE i == proc[p].i
<1>0. TypeInv BY DEF IInv
<1>1. i \in Inputs /\ row[i].status # "none"
  BY <1>0, ProcParts DEF IInv, Fit, Holds, Free
<1>2. /\ row' \in [Inputs -> GoodRow] /\ row'[i].status = s /\ row'[i].dep = row[i].dep
      /\ \A j \in Inputs \ {i} : row'[j] = row[j]
  BY <1>0, <1>1, StatusTypes DEF Statuses, Stored
<1>3. /\ lock' \in [Inputs -> Procs \cup {None}]
      /\ \A j \in Inputs : lock[j] # p => lock'[j] = lock[j]
  BY <1>0, <1>1, DropTypes
<1>4. /\ proc' \in [Procs -> GoodProc] /\ proc'[p].pc \in {"idle", "sweep"}
      /\ \A q \in Procs \ {p} : proc'[q] = proc[q]
  BY <1>0, FinishMoves
<1>5. TypeInv' BY <1>0, <1>2, <1>3, <1>4 DEF TypeInv, Flags
<1>6. Alone(p)
  <2>1. now <= now' BY <1>0, ScheduleAssumption DEF TypeInv, Flags
  <2> QED BY <1>1, <1>2, <1>3, <1>4, <2>1 DEF Alone
<1>7. Closing
  <2>1. i \notin unmarked => sent[i] = 0 BY DEF IInv, Fit, Decided
  <2> QED BY <1>1, <1>2, <2>1 DEF Closing, Open
<1>8. Fit(p)' /\ proc'[p].pc # "create" BY <1>4, IdleFit DEF Relying
<1> QED BY <1>5, <1>6, <1>7, <1>8, QuietStep

LEMMA CheckStep == ASSUME IInv, NEW p \in Procs, Check(p) PROVE IInv'
<1> USE DEF Check
<1> DEFINE i == proc[p].i
<1>0. TypeInv BY DEF IInv
<1>1. i \in Inputs BY <1>0, ProcParts DEF Free
<1>2. CASE Status(i, "refused") /\ Drop(i, p) /\ Finish(p) /\ UNCHANGED <<timerVars, bounds>>
  <2>1. Timers' /\ faults' \in 0..MaxFaults /\ cmds' \in 0..MaxCommands
    BY <1>0, <1>2 DEF TypeInv, Timers, Flags, timerVars, bounds
  <2> QED BY <1>2, <2>1, DecidedStep
<1>3. CASE Go(p, "call") /\ UNCHANGED <<row, timerVars, lock, bounds>>
  <2>1. /\ proc' \in [Procs -> GoodProc] /\ proc'[p] = [proc[p] EXCEPT !.pc = "call"]
        /\ \A q \in Procs \ {p} : proc'[q] = proc[q]
    BY <1>0, <1>1, <1>3, GoMoves DEF PCs, Storing, Free, Dispatching
  <2>2. proc'[p].pc = "call" /\ proc'[p].i = i BY <1>0, <2>1, ProcParts DEF GoodProc
  <2>3. TypeInv' BY <1>0, <1>3, <2>1 DEF TypeInv, Timers, Flags, timerVars, bounds
  <2>4. Alone(p)
    <3>1. now <= now' BY <1>0, ScheduleAssumption DEF TypeInv, Flags
    <3>2. UNCHANGED <<row, lock, sent, unmarked>> BY <1>3
    <3> HIDE DEF Check
    <3> QED BY <2>1, <3>1, <3>2 DEF Alone
  <2>5. Fit(p)'
    <3>1. Holds(p) /\ Decided(p) BY DEF IInv, Fit
    <3>2. Holds(p)' BY <1>3, <2>2, <3>1 DEF Holds
    <3>3. Decided(p)' BY <1>3, <2>2, <3>1 DEF Decided, ParentSent
    <3> QED BY <2>2, <3>2, <3>3 DEF Fit, Handed, Looked, Fresh
  <2>6. Closing BY <1>3 DEF Closing
  <2> QED BY <2>2, <2>3, <2>4, <2>5, <2>6, QuietStep
<1>4. CASE Fail("session") /\ Status(i, "deleted") /\ CancelTimer(i) /\ Drop(i, p) /\ Finish(p)
  <2>1. Timers' BY <1>0, <1>1, <1>4, CancelTimerTypes
  <2>2. faults' \in 0..MaxFaults /\ cmds' \in 0..MaxCommands BY <1>0, <1>4, FailTypes
  <2> QED BY <1>4, <2>1, <2>2, DecidedStep
<1> QED BY <1>2, <1>3, <1>4

\* The input is handed over, and nobody had handed it over before.
LEMMA HandOver ==
  ASSUME IInv, NEW p \in Procs, Call(p), Go(p, "mark"),
         sent' = [sent EXCEPT ![proc[p].i] = @ + 1], UNCHANGED <<row, lock, bounds>>
  PROVE  IInv'
<1> USE DEF Call
<1> DEFINE i == proc[p].i
<1>0. TypeInv BY DEF IInv
<1>1. i \in Inputs BY <1>0, ProcParts DEF Free
<1>2. /\ proc' \in [Procs -> GoodProc] /\ proc'[p] = [proc[p] EXCEPT !.pc = "mark"]
      /\ \A q \in Procs \ {p} : proc'[q] = proc[q]
  BY <1>0, <1>1, GoMoves DEF PCs, Storing, Free, Dispatching
<1>3. proc'[p].pc = "mark" /\ proc'[p].i = i BY <1>0, <1>2, ProcParts DEF GoodProc
<1>4. /\ sent' \in [Inputs -> Nat] /\ sent'[i] = sent[i] + 1 /\ sent[i] \in Nat
      /\ \A j \in Inputs \ {i} : sent'[j] = sent[j]
  BY <1>0, <1>1 DEF TypeInv
<1>5. TypeInv' BY <1>0, <1>2, <1>4 DEF TypeInv, Timers, Flags, timerVars, bounds
<1>6. Holds(p) /\ Decided(p) BY DEF IInv, Fit
<1>7. lock[i] = p /\ row[i].status # "none" /\ (i \notin unmarked => sent[i] = 0)
  BY <1>6 DEF Holds, Decided
<1>8. Alone(p)
  <2>1. now <= now' BY <1>0, ScheduleAssumption DEF TypeInv, Flags
  <2>2. \A j \in Inputs : sent'[j] = sent[j] \/ (lock[j] = p /\ sent'[j] > sent[j])
    BY <1>4, <1>7
  <2> QED BY <1>2, <2>1, <2>2 DEF Alone
<1>9. Fit(p)'
  <2>1. Holds(p)' BY <1>3, <1>7 DEF Holds
  <2>2. Handed(p)' BY <1>3, <1>4 DEF Handed
  <2> QED BY <1>3, <2>1, <2>2 DEF Fit, Decided, Looked, Fresh
<1>10. \A q \in Procs : Fit(q)'
  <2>1. ASSUME NEW q \in Procs PROVE Fit(q)'
    <3>1. CASE q = p BY <3>1, <1>9
    <3>2. CASE q # p BY <1>5, <1>8, <3>2, OthersFit
    <3> QED BY <3>1, <3>2
  <2> QED BY <2>1
<1>11. OneCreates' BY <1>3, <1>8, CreatesKept
<1>12. ASSUME NEW j \in Inputs PROVE Recorded(j)'
  <2>0. Recorded(j) BY DEF IInv
  <2>1. CASE j = i
    <3>1. row'[j].status = "dispatched" => sent'[j] > 0 BY <1>4, <2>1
    <3>2. j \notin unmarked' => sent'[j] = 1 BY <1>4, <1>7, <2>1
    <3> QED BY <1>3, <2>1, <3>1, <3>2 DEF Recorded
  <2>2. CASE j # i
    <3>1. sent'[j] = sent[j] BY <1>4, <2>2
    <3>2. ASSUME NEW q \in Procs, proc[q].pc = "mark", proc[q].i = j
          PROVE  proc'[q].pc = "mark" /\ proc'[q].i = j
      BY <1>2, <3>2
    <3> QED BY <2>0, <3>1, <3>2 DEF Recorded
  <2> QED BY <2>1, <2>2
<1> QED BY <1>5, <1>10, <1>11, <1>12 DEF IInv

LEMMA CallStep == ASSUME IInv, NEW p \in Procs, Call(p) PROVE IInv'
<1> USE DEF Call
<1> DEFINE i == proc[p].i
<1>0. TypeInv BY DEF IInv
<1>1. CASE sent' = [sent EXCEPT ![i] = @ + 1] /\ Go(p, "mark") /\ UNCHANGED <<row, lock, bounds>>
  BY <1>1, HandOver
<1>2. Timers' BY <1>0 DEF TypeInv, Timers, timerVars
<1>3. CASE Status(i, "refused") /\ Drop(i, p) /\ Finish(p) /\ UNCHANGED <<sent, bounds>>
  <2>1. faults' \in 0..MaxFaults /\ cmds' \in 0..MaxCommands
    BY <1>0, <1>3 DEF TypeInv, Flags, bounds
  <2> QED BY <1>2, <1>3, <2>1, DecidedStep
<1>4. CASE Fail("send") /\ Status(i, "failed") /\ Drop(i, p) /\ Finish(p) /\ UNCHANGED sent
  <2>1. faults' \in 0..MaxFaults /\ cmds' \in 0..MaxCommands BY <1>0, <1>4, FailTypes
  <2> QED BY <1>2, <1>4, <2>1, DecidedStep
<1> QED BY <1>1, <1>3, <1>4

\* markScheduledInputDispatched has done its work, or has failed.
LEMMA MarkStep == ASSUME IInv, NEW p \in Procs, Mark(p) PROVE IInv'
<1> USE DEF Mark
<1> DEFINE i == proc[p].i
<1>0. TypeInv BY DEF IInv
<1>1. /\ i \in Inputs /\ lock[i] = p /\ row[i].status # "none" /\ sent[i] > 0
      /\ i \notin unmarked => sent[i] = 1
  BY <1>0, ProcParts DEF IInv, Fit, Holds, Handed, Recorded, Free
<1>2. now <= now' BY <1>0, ScheduleAssumption DEF TypeInv, Flags
<1>3. CASE Status(i, "dispatched") /\ Go(p, "wake") /\ UNCHANGED <<lock, bounds, unmarked>>
  <2>1. /\ row' \in [Inputs -> GoodRow] /\ row'[i].status = "dispatched" /\ row'[i].dep = row[i].dep
        /\ \A j \in Inputs \ {i} : row'[j] = row[j]
    BY <1>0, <1>1, <1>3, StatusTypes DEF Statuses, Stored
  <2>2. /\ proc' \in [Procs -> GoodProc] /\ proc'[p] = [proc[p] EXCEPT !.pc = "wake"]
        /\ \A q \in Procs \ {p} : proc'[q] = proc[q]
    BY <1>0, <1>1, <1>3, GoMoves DEF PCs, Storing, Free, Dispatching
  <2>3. proc'[p].pc = "wake" BY <1>0, <2>2, ProcParts DEF GoodProc
  <2>4. TypeInv' BY <1>0, <1>3, <2>1, <2>2 DEF TypeInv, Timers, Flags, timerVars, bounds
  <2>5. Alone(p) BY <1>1, <1>2, <1>3, <2>1, <2>2 DEF Alone
  <2>6. \A q \in Procs : Fit(q)'
    <3>1. ASSUME NEW q \in Procs PROVE Fit(q)'
      <4>1. CASE q = p BY <2>3, <4>1, IdleFit DEF Relying
      <4>2. CASE q # p BY <2>4, <2>5, <4>2, OthersFit
      <4> QED BY <4>1, <4>2
    <3> QED BY <3>1
  <2>7. OneCreates' BY <2>3, <2>5, CreatesKept
  <2>8. ASSUME NEW j \in Inputs PROVE Recorded(j)'
    <3>0. Recorded(j) BY DEF IInv
    <3>1. CASE j = i BY <1>1, <1>3, <2>1, <3>1 DEF Recorded, Open
    <3>2. CASE j # i
      <4>1. row'[j] = row[j] /\ sent' = sent /\ unmarked' = unmarked BY <1>3, <2>1, <3>2
      <4>2. ASSUME NEW q \in Procs, proc[q].pc = "mark", proc[q].i = j
            PROVE  proc'[q].pc = "mark" /\ proc'[q].i = j
        BY <2>2, <3>2, <4>2
      <4> QED BY <3>0, <4>1, <4>2 DEF Recorded
    <3> QED BY <3>1, <3>2
  <2> QED BY <2>4, <2>6, <2>7, <2>8 DEF IInv
<1>4. CASE Fail("mark") /\ unmarked' = unmarked \cup {i} /\ Drop(i, p) /\ Finish(p) /\ UNCHANGED row
  <2>1. /\ lock' \in [Inputs -> Procs \cup {None}]
        /\ \A j \in Inputs : lock[j] # p => lock'[j] = lock[j]
    BY <1>0, <1>1, <1>4, DropTypes
  <2>2. /\ proc' \in [Procs -> GoodProc] /\ proc'[p].pc \in {"idle", "sweep"}
        /\ \A q \in Procs \ {p} : proc'[q] = proc[q]
    BY <1>0, <1>4, FinishMoves
  <2>3. cmds' \in 0..MaxCommands /\ faults' \in 0..MaxFaults BY <1>0, <1>4, FailTypes
  <2>4. TypeInv' BY <1>0, <1>1, <1>4, <2>1, <2>2, <2>3 DEF TypeInv, Timers, Flags, timerVars
  <2>5. Alone(p) BY <1>2, <1>4, <2>1, <2>2 DEF Alone
  <2>6. \A q \in Procs : Fit(q)'
    <3>1. ASSUME NEW q \in Procs PROVE Fit(q)'
      <4>1. CASE q = p BY <2>2, <4>1, IdleFit DEF Relying
      <4>2. CASE q # p BY <2>4, <2>5, <4>2, OthersFit
      <4> QED BY <4>1, <4>2
    <3> QED BY <3>1
  <2>7. OneCreates' BY <2>2, <2>5, CreatesKept
  <2>8. ASSUME NEW j \in Inputs PROVE Recorded(j)'
    <3>0. Recorded(j) BY DEF IInv
    <3>1. CASE j = i BY <1>1, <1>4, <3>1 DEF Recorded
    <3>2. CASE j # i
      <4>1. row' = row /\ sent' = sent /\ (j \notin unmarked' => j \notin unmarked) BY <1>4
      <4>2. ASSUME NEW q \in Procs, proc[q].pc = "mark", proc[q].i = j
            PROVE  proc'[q].pc = "mark" /\ proc'[q].i = j
        BY <2>2, <3>2, <4>2
      <4> QED BY <3>0, <4>1, <4>2 DEF Recorded
    <3> QED BY <3>1, <3>2
  <2> QED BY <2>4, <2>6, <2>7, <2>8 DEF IInv
<1> QED BY <1>3, <1>4

\* Only the idle state of rows changes.
LEMMA Reidled ==
  ASSUME TypeInv, NEW S \in SUBSET Inputs, NEW v \in {"no", "since", "stable"},
         row' = [j \in Inputs |-> IF j \in S THEN [row[j] EXCEPT !.idle = v] ELSE row[j]]
  PROVE  /\ row' \in [Inputs -> GoodRow]
         /\ \A j \in Inputs : row'[j].status = row[j].status /\ row'[j].dep = row[j].dep
<1>1. ASSUME NEW j \in Inputs
      PROVE  /\ row'[j] \in GoodRow
             /\ row'[j].status = row[j].status /\ row'[j].dep = row[j].dep
  <2> DEFINE r == [row[j] EXCEPT !.idle = v]
  <2>1. row[j] \in GoodRow BY RowParts
  <2>2. r \in GoodRow /\ r.status = row[j].status /\ r.dep = row[j].dep
    BY <2>1, RowReidled DEF GoodRow, Row
  <2>3. row'[j] = IF j \in S THEN r ELSE row[j] OBVIOUS
  <2> HIDE DEF r
  <2> QED BY <2>1, <2>2, <2>3
<1> QED BY <1>1

LEMMA WakeStep == ASSUME IInv, NEW p \in Procs, Wake(p) PROVE IInv'
<1> USE DEF Wake
<1> DEFINE i == proc[p].i
           due == {j \in Inputs : row[j].dep = i /\ row[j].status = "scheduled"}
           idle == {j \in due : row[j].kind = "idle"}
           ws == {<<j, row[j].at>> : j \in due \ idle}
           x == [proc[p] EXCEPT !.pc = "wakeArm", !.wakes = ws]
<1>0. TypeInv BY DEF IInv
<1>1. i \in Inputs BY <1>0, ProcParts DEF Free
<1>2. CASE /\ proc' = [proc EXCEPT ![p].pc = "wakeArm", ![p].wakes = ws]
           /\ row' = [j \in Inputs |-> IF j \in idle THEN [row[j] EXCEPT !.idle = "no"] ELSE row[j]]
           /\ monitor' = (monitor \/ idle # {})
           /\ UNCHANGED <<lock, rewake, bounds>>
  <2>1. ws \subseteq Inputs \X (1..MaxTime)
    <3>1. ASSUME NEW j \in due \ idle PROVE row[j].at \in 1..MaxTime
      <4>1. row[j] \in GoodRow /\ row[j].status = "scheduled" /\ row[j].kind # "idle"
        BY <1>0, RowParts
      <4> QED BY <4>1, ScheduleAssumption DEF GoodRow, Row
    <3> QED BY <3>1
  <2>2. x \in GoodProc /\ x.pc = "wakeArm"
    <3>1. proc[p] \in GoodProc BY <1>0, ProcParts
    <3>2. ws \in SUBSET (Inputs \X (1..MaxTime)) BY <2>1
    <3> HIDE DEF ws
    <3> QED BY <1>1, <3>1, <3>2 DEF GoodProc, PCs, Storing, Free, Dispatching
  <2>3. proc' = [proc EXCEPT ![p] = x]
    <3>1. proc' = [proc EXCEPT ![p].pc = "wakeArm", ![p].wakes = ws] BY <1>2
    <3> HIDE DEF Wake, ws
    <3> QED BY <1>0, <3>1 DEF TypeInv, GoodProc
  <2>4. /\ row' \in [Inputs -> GoodRow]
        /\ \A j \in Inputs : row'[j].status = row[j].status /\ row'[j].dep = row[j].dep
    <3>1. idle \in SUBSET Inputs OBVIOUS
    <3>2. row' = [j \in Inputs |-> IF j \in idle THEN [row[j] EXCEPT !.idle = "no"] ELSE row[j]]
      BY <1>2
    <3> HIDE DEF Wake, idle
    <3> QED BY <1>0, <3>1, <3>2, Reidled
  <2> HIDE DEF x
  <2>5. /\ proc' \in [Procs -> GoodProc] /\ proc'[p] = x
        /\ \A q \in Procs \ {p} : proc'[q] = proc[q]
    BY <1>0, <2>2, <2>3, OneMoves
  <2>6. monitor' \in BOOLEAN BY <1>2
  <2>7. TypeInv' BY <1>0, <1>2, <2>4, <2>5, <2>6 DEF TypeInv, Timers, Flags, timerVars, bounds
  <2>8. UNCHANGED <<lock, now, sent, unmarked>> BY <1>2
  <2>9. proc[p].pc # "mark" OBVIOUS
  <2> HIDE DEF Wake
  <2>10. Alone(p)
    <3>1. now <= now' BY <1>0, <2>8, ScheduleAssumption DEF TypeInv, Flags
    <3> QED BY <2>4, <2>5, <2>8, <3>1 DEF Alone
  <2>11. Closing BY <2>4 DEF Closing
  <2>12. Fit(p)' /\ proc'[p].pc # "create" BY <2>2, <2>5, IdleFit DEF Relying
  <2> QED BY <2>7, <2>8, <2>9, <2>10, <2>11, <2>12, QuietStep
<1>3. CASE /\ Fail("wake") /\ rewake' = rewake \cup {i} /\ Drop(i, p) /\ Finish(p)
           /\ UNCHANGED <<row, monitor>>
  <2>1. /\ lock' \in [Inputs -> Procs \cup {None}]
        /\ \A j \in Inputs : lock[j] # p => lock'[j] = lock[j]
    BY <1>0, <1>1, <1>3, DropTypes
  <2>2. /\ proc' \in [Procs -> GoodProc] /\ proc'[p].pc \in {"idle", "sweep"}
        /\ \A q \in Procs \ {p} : proc'[q] = proc[q]
    BY <1>0, <1>3, FinishMoves
  <2>3. cmds' \in 0..MaxCommands /\ faults' \in 0..MaxFaults BY <1>0, <1>3, FailTypes
  <2>4. TypeInv' BY <1>0, <1>1, <1>3, <2>1, <2>2, <2>3 DEF TypeInv, Timers, Flags, timerVars
  <2>5. UNCHANGED <<row, now, sent, unmarked>> /\ proc[p].pc # "mark" BY <1>3
  <2> HIDE DEF Wake
  <2> QED BY <2>1, <2>2, <2>4, <2>5, RestingStep DEF Relying
<1> QED BY <1>2, <1>3

LEMMA WakeArmStep ==
  ASSUME IInv, NEW p \in Procs, NEW w \in proc[p].wakes, WakeArm(p, w)
  PROVE  IInv'
<1> USE DEF WakeArm
<1> DEFINE ws == proc[p].wakes \ {w}
           x == [proc[p] EXCEPT !.pc = "wakeRegister", !.wakes = ws, !.arming = {w}]
<1>0. TypeInv BY DEF IInv
<1>1. /\ proc[p].i \in Inputs /\ w[1] \in Inputs /\ w[2] \in 1..MaxTime /\ proc[p] \in GoodProc
      /\ ws \in SUBSET (Inputs \X (1..MaxTime)) /\ {w} \in SUBSET (Inputs \X (1..MaxTime))
  BY <1>0, ProcParts DEF Free
<1>2. x \in GoodProc /\ x.pc = "wakeRegister"
  <2> HIDE DEF ws
  <2> QED BY <1>1 DEF GoodProc, PCs, Storing, Free, Dispatching
<1>3. proc' = [proc EXCEPT ![p] = x] BY <1>0 DEF TypeInv, GoodProc
<1> HIDE DEF x
<1>4. /\ proc' \in [Procs -> GoodProc] /\ proc'[p] = x
      /\ \A q \in Procs \ {p} : proc'[q] = proc[q]
  BY <1>0, <1>2, <1>3, OneMoves
<1>5. Timers'
  <2>1. robbed' \subseteq Inputs BY <1>0 DEF Robbed, TypeInv, Timers
  <2> QED BY <1>0, <1>1, <2>1, SetTimerTypes
<1>6. TypeInv' BY <1>0, <1>4, <1>5 DEF TypeInv, Flags, bounds
<1> QED BY <1>2, <1>4, <1>6, RestingStep DEF Relying

LEMMA WakeRegisterStep ==
  ASSUME IInv, NEW p \in Procs, NEW w \in proc[p].arming, WakeRegister(p, w)
  PROVE  IInv'
<1> USE DEF WakeRegister
<1> DEFINE x == [proc[p] EXCEPT !.pc = "wakeArm", !.arming = {}]
<1>0. TypeInv BY DEF IInv
<1>1. /\ proc[p].i \in Inputs /\ w[1] \in Inputs /\ w[2] \in 1..MaxTime /\ proc[p] \in GoodProc
      /\ {} \in SUBSET (Inputs \X (1..MaxTime))
  BY <1>0, ProcParts DEF Free
<1>2. x \in GoodProc /\ x.pc = "wakeArm"
  BY <1>1 DEF GoodProc, PCs, Storing, Free, Dispatching
<1>3. proc' = [proc EXCEPT ![p] = x] BY <1>0 DEF TypeInv, GoodProc
<1> HIDE DEF x
<1>4. /\ proc' \in [Procs -> GoodProc] /\ proc'[p] = x
      /\ \A q \in Procs \ {p} : proc'[q] = proc[q]
  BY <1>0, <1>2, <1>3, OneMoves
<1>5. Timers' BY <1>0, <1>1, RegisterTypes
<1>6. TypeInv' BY <1>0, <1>4, <1>5 DEF TypeInv, Flags, bounds
<1> QED BY <1>2, <1>4, <1>6, RestingStep DEF Relying

LEMMA WokenStep == ASSUME IInv, NEW p \in Procs, Woken(p) PROVE IInv'
<1> USE DEF Woken
<1>0. TypeInv BY DEF IInv
<1>1. proc[p].i \in Inputs BY <1>0, ProcParts DEF Free
<1>2. /\ lock' \in [Inputs -> Procs \cup {None}]
      /\ \A j \in Inputs : lock[j] # p => lock'[j] = lock[j]
  BY <1>0, <1>1, DropTypes
<1>3. /\ proc' \in [Procs -> GoodProc] /\ proc'[p].pc \in {"idle", "sweep"}
      /\ \A q \in Procs \ {p} : proc'[q] = proc[q]
  BY <1>0, FinishMoves
<1>4. TypeInv' BY <1>0, <1>2, <1>3 DEF TypeInv, Timers, Flags, timerVars, bounds
<1> QED BY <1>2, <1>3, <1>4, RestingStep DEF Relying

LEMMA RewakeStep ==
  ASSUME IInv, NEW k \in Callbacks, NEW i \in Inputs, Rewake(k, i)
  PROVE  IInv'
<1> USE DEF Rewake
<1> DEFINE x == [Rest EXCEPT !.pc = "wake", !.i = i]
<1>0. TypeInv /\ k \in Procs BY DEF IInv, Procs
<1>1. x \in GoodProc /\ x.pc = "wake"
  BY RestGood DEF GoodProc, Rest, PCs, Storing, Free, Dispatching
<1> HIDE DEF x
<1>2. /\ proc' \in [Procs -> GoodProc] /\ proc'[k] = x
      /\ \A q \in Procs \ {k} : proc'[q] = proc[q]
  <2>1. proc' = [proc EXCEPT ![k] = x] BY DEF x
  <2> QED BY <1>0, <1>1, <2>1, OneMoves
<1>3. TypeInv' BY <1>0, <1>2 DEF TypeInv, Timers, Flags, timerVars, bounds
<1> QED BY <1>0, <1>1, <1>2, <1>3, RestingStep DEF Relying

-----------------------------------------------------------------------------
(* The idle sweep.                                                          *)

LEMMA BusyStep == ASSUME IInv, Busy PROVE IInv'
<1> USE DEF Busy
<1>0. TypeInv BY DEF IInv
<1>1. busy' \in BOOLEAN BY <1>0 DEF TypeInv, Flags
<1>2. TypeInv' BY <1>0, <1>1 DEF TypeInv, Timers, Flags, timerVars, bounds
<1>3. now <= now' BY <1>0, ScheduleAssumption DEF TypeInv, Flags
<1> QED BY <1>2, <1>3, NobodyMoves

LEMMA StabilizeStep == ASSUME IInv, NEW i \in Inputs, Stabilize(i) PROVE IInv'
<1> USE DEF Stabilize
<1> DEFINE r == [row[i] EXCEPT !.idle = "stable"]
<1>0. TypeInv BY DEF IInv
<1>1. r \in GoodRow /\ r.status = row[i].status /\ r.dep = row[i].dep
  <2>1. row[i] \in GoodRow BY <1>0, RowParts
  <2> QED BY <2>1, RowReidled DEF GoodRow, Row
<1>2. Write(i, r) OBVIOUS
<1> HIDE DEF r
<1>3. /\ row' \in [Inputs -> GoodRow] /\ row'[i] = r
      /\ \A j \in Inputs \ {i} : row'[j] = row[j]
  BY <1>0, <1>1, <1>2, WriteTypes
<1>4. TypeInv' BY <1>0, <1>3 DEF TypeInv, Timers, Flags, timerVars, bounds
<1>5. now <= now' BY <1>0, ScheduleAssumption DEF TypeInv, Flags
<1> QED BY <1>1, <1>3, <1>4, <1>5, NobodyMoves

LEMMA FireMonitorStep == ASSUME IInv, FireMonitor PROVE IInv'
<1> USE DEF FireMonitor
<1> DEFINE list == {i \in Inputs : row[i].status = "scheduled" /\ row[i].kind = "idle"}
           x == IF list = {} THEN Rest ELSE [Rest EXCEPT !.pc = "sweep", !.list = list]
<1>0. TypeInv /\ Sweep \in Procs BY DEF IInv, Procs
<1>1. x \in GoodProc /\ x.pc \in {"idle", "sweep"}
  <2>1. list \in SUBSET Inputs OBVIOUS
  <2> HIDE DEF list
  <2> QED BY <2>1, RestGood DEF GoodProc, Rest, PCs, Storing, Free
<1>2. proc' = [proc EXCEPT ![Sweep] = x] OBVIOUS
<1> HIDE DEF x
<1>3. /\ proc' \in [Procs -> GoodProc] /\ proc'[Sweep] = x
      /\ \A q \in Procs \ {Sweep} : proc'[q] = proc[q]
  BY <1>0, <1>1, <1>2, OneMoves
<1>4. TypeInv' BY <1>0, <1>3 DEF TypeInv, Timers, Flags, timerVars, bounds
<1>5. proc[Sweep].pc # "mark" /\ UNCHANGED <<row, now, sent, unmarked, lock>> OBVIOUS
<1> HIDE DEF FireMonitor
<1> QED BY <1>0, <1>1, <1>3, <1>4, <1>5, RestingStep DEF Relying

LEMMA LookStep == ASSUME IInv, NEW i \in Inputs, Look(i) PROVE IInv'
<1> DEFINE rest == proc[Sweep].list \ {i}
           skip == proc' = [proc EXCEPT ![Sweep].list = @ \ {i}]
           take(pc) == proc' = [proc EXCEPT ![Sweep] = [proc[Sweep] EXCEPT !.pc = pc, !.i = i,
                                                          !.row = row[i], !.list = @ \ {i}]]
<1>0. TypeInv /\ Sweep \in Procs BY DEF IInv, Procs
<1>1. proc[Sweep] \in GoodProc /\ rest \in SUBSET Inputs /\ row[i] \in GoodRow
  BY <1>0, ProcParts, RowParts
<1>2. /\ proc[Sweep].pc = "sweep"
      /\ UNCHANGED <<row, archived, busy, now, timerVars, monitor, lock, rewake, sent, unmarked>>
      /\ skip \/ take("reset") \/ (take("evaluate") /\ Satisfied(row[i].dep))
  BY DEF Look
<1>3. cmds' \in 0..MaxCommands /\ faults' \in 0..MaxFaults
  <2>1. UNCHANGED bounds \/ Fail("session") BY DEF Look
  <2>2. CASE UNCHANGED bounds BY <1>0, <2>2 DEF TypeInv, Flags, bounds
  <2>3. CASE Fail("session") BY <1>0, <2>3, FailTypes
  <2> QED BY <2>1, <2>2, <2>3
<1>4. CASE skip
  <2> DEFINE x == [proc[Sweep] EXCEPT !.list = rest]
  <2>1. x \in GoodProc /\ x.pc = "sweep"
    <3> HIDE DEF rest
    <3> QED BY <1>1, <1>2 DEF GoodProc
  <2>2. proc' = [proc EXCEPT ![Sweep] = x] BY <1>4
  <2> HIDE DEF x
  <2>3. /\ proc' \in [Procs -> GoodProc] /\ proc'[Sweep] = x
        /\ \A q \in Procs \ {Sweep} : proc'[q] = proc[q]
    BY <1>0, <2>1, <2>2, OneMoves
  <2>4. TypeInv' BY <1>0, <1>2, <1>3, <2>3 DEF TypeInv, Timers, Flags, timerVars
  <2> QED BY <1>0, <1>2, <2>1, <2>3, <2>4, RestingStep DEF Relying
<1>5. ASSUME NEW pc \in {"reset", "evaluate"}, take(pc), pc = "evaluate" => Satisfied(row[i].dep)
      PROVE  IInv'
  <2> DEFINE x == [proc[Sweep] EXCEPT !.pc = pc, !.i = i, !.row = row[i], !.list = rest]
  <2>1. x \in GoodProc /\ x.pc = pc /\ x.row = row[i]
    <3> HIDE DEF rest
    <3> QED BY <1>1 DEF GoodProc, PCs, Storing, Free
  <2>2. proc' = [proc EXCEPT ![Sweep] = x] BY <1>5
  <2> HIDE DEF x
  <2>3. /\ proc' \in [Procs -> GoodProc] /\ proc'[Sweep] = x
        /\ \A q \in Procs \ {Sweep} : proc'[q] = proc[q]
    BY <1>0, <2>1, <2>2, OneMoves
  <2>4. TypeInv' BY <1>0, <1>2, <1>3, <2>3 DEF TypeInv, Timers, Flags, timerVars
  <2>5. Alone(Sweep)
    <3>1. now <= now' BY <1>0, <1>2, ScheduleAssumption DEF TypeInv, Flags
    <3> QED BY <1>2, <2>3, <3>1 DEF Alone
  <2>6. Fit(Sweep)'
    <3>1. row[i].dep \in Inputs \cup {None} BY <1>0, RowParts
    <3>2. pc = "evaluate" => ParentSent(row[i].dep) BY <1>5, <3>1, SatisfiedSent
    <3>3. Looked(Sweep)' BY <1>2, <2>1, <2>3, <3>2 DEF Looked, ParentSent
    <3> QED BY <2>1, <2>3, <3>3 DEF Fit, Holds, Decided, Handed, Fresh
  <2>7. Closing BY <1>2 DEF Closing
  <2>8. sent' = sent /\ unmarked' = unmarked /\ proc[Sweep].pc # "mark"
        /\ proc'[Sweep].pc # "create"
    BY <1>2, <2>1, <2>3
  <2> QED BY <1>0, <2>4, <2>5, <2>6, <2>7, <2>8, QuietStep
<1> QED BY <1>2, <1>4, <1>5

LEMMA EvaluateStep == ASSUME IInv, Evaluate PROVE IInv'
<1> DEFINE r == proc[Sweep].row
<1>0. TypeInv /\ Sweep \in Procs BY DEF IInv, Procs
<1>1. /\ proc[Sweep].pc = "evaluate"
      /\ UNCHANGED <<row, archived, busy, now, timerVars, monitor, lock, rewake, bounds, sent,
                     unmarked>>
      /\ \E pc \in {"refuse", "reset", "since", "sweep", "quiet"} :
           Go(Sweep, pc) /\ (pc = "quiet" => r.idle = "stable")
  <2>1. archived \in BOOLEAN /\ busy \in BOOLEAN /\ r.idle \in {"no", "since", "stable"}
    BY <1>0, ProcParts DEF TypeInv, Flags, GoodRow, Row
  <2> QED BY <2>1 DEF Evaluate
<1>2. PICK pc \in {"refuse", "reset", "since", "sweep", "quiet"} :
        Go(Sweep, pc) /\ (pc = "quiet" => r.idle = "stable")
  BY <1>1
<1>3. proc[Sweep].i \in Inputs BY <1>0, <1>1, ProcParts DEF Free
<1>4. /\ proc' \in [Procs -> GoodProc] /\ proc'[Sweep] = [proc[Sweep] EXCEPT !.pc = pc]
      /\ \A q \in Procs \ {Sweep} : proc'[q] = proc[q]
  BY <1>0, <1>2, <1>3, GoMoves DEF PCs, Storing, Free
<1>5. proc'[Sweep].pc = pc /\ proc'[Sweep].row = r BY <1>0, <1>4, ProcParts DEF GoodProc
<1>6. TypeInv' BY <1>0, <1>1, <1>4 DEF TypeInv, Timers, Flags, timerVars, bounds
<1>7. Alone(Sweep)
  <2>1. now <= now' BY <1>0, <1>1, ScheduleAssumption DEF TypeInv, Flags
  <2> QED BY <1>1, <1>4, <2>1 DEF Alone
<1>8. Fit(Sweep)'
  <2>1. ParentSent(r.dep) BY <1>0, <1>1 DEF IInv, Fit, Looked
  <2>2. Looked(Sweep)' BY <1>1, <1>2, <1>5, <2>1 DEF Looked, ParentSent
  <2> QED BY <1>5, <2>2 DEF Fit, Holds, Decided, Handed, Fresh
<1>9. Closing BY <1>1 DEF Closing
<1> QED BY <1>0, <1>1, <1>5, <1>6, <1>7, <1>8, <1>9, QuietStep

\* The sweep changes its row and leaves it.
LEMMA AppliedStep ==
  ASSUME IInv, Apply, NEW r \in GoodRow, Write(proc[Sweep].i, r), Finish(Sweep), UNCHANGED lock,
         row[proc[Sweep].i].status = "scheduled", r.status \in {"scheduled", "refused"},
         r.dep = row[proc[Sweep].i].dep
  PROVE  IInv'
<1> DEFINE i == proc[Sweep].i
<1>0. TypeInv /\ Sweep \in Procs BY DEF IInv, Procs
<1>1. i \in Inputs /\ proc[Sweep].pc # "mark" BY <1>0, ProcParts DEF Apply, Free
<1>2. /\ row' \in [Inputs -> GoodRow] /\ row'[i] = r
      /\ \A j \in Inputs \ {i} : row'[j] = row[j]
  BY <1>0, <1>1, WriteTypes
<1>3. /\ proc' \in [Procs -> GoodProc] /\ proc'[Sweep].pc \in {"idle", "sweep"}
      /\ \A q \in Procs \ {Sweep} : proc'[q] = proc[q]
  BY <1>0, FinishMoves
<1>4. UNCHANGED <<archived, busy, now, timerVars, monitor, rewake, bounds, sent, unmarked>>
  BY DEF Apply
<1>5. TypeInv' BY <1>0, <1>2, <1>3, <1>4 DEF TypeInv, Timers, Flags, timerVars, bounds
<1>6. Alone(Sweep)
  <2>1. now <= now' BY <1>0, <1>4, ScheduleAssumption DEF TypeInv, Flags
  <2> QED BY <1>1, <1>2, <1>3, <1>4, <2>1 DEF Alone
<1>7. Closing BY <1>1, <1>2 DEF Closing, Open
<1>8. Fit(Sweep)' /\ proc'[Sweep].pc # "create" BY <1>0, <1>3, IdleFit DEF Relying
<1> QED BY <1>0, <1>1, <1>4, <1>5, <1>6, <1>7, <1>8, QuietStep

LEMMA ApplyStep == ASSUME IInv, Apply PROVE IInv'
<1> DEFINE i == proc[Sweep].i
           pc == proc[Sweep].pc
<1>0. TypeInv /\ Sweep \in Procs BY DEF IInv, Procs
<1>1. /\ i \in Inputs /\ pc \in {"reset", "since", "refuse", "quiet"}
      /\ UNCHANGED <<archived, busy, now, timerVars, monitor, rewake, bounds, sent, unmarked>>
  BY <1>0, ProcParts DEF Apply, Free
<1>2. row[i] \in GoodRow BY <1>0, <1>1, RowParts
<1>3. CASE ~ SameVersion(proc[Sweep].row, row[i])
  <2>1. Finish(Sweep) /\ UNCHANGED <<row, lock>> BY <1>3 DEF Apply
  <2>2. /\ proc' \in [Procs -> GoodProc] /\ proc'[Sweep].pc \in {"idle", "sweep"}
        /\ \A q \in Procs \ {Sweep} : proc'[q] = proc[q]
    BY <1>0, <2>1, FinishMoves
  <2>3. TypeInv' BY <1>0, <1>1, <2>1, <2>2 DEF TypeInv, Timers, Flags, timerVars, bounds
  <2> QED BY <1>0, <1>1, <2>1, <2>2, <2>3, RestingStep DEF Relying
<1>4. CASE SameVersion(proc[Sweep].row, row[i]) /\ pc = "quiet"
  <2>1. Take(i, Sweep) /\ Go(Sweep, "check") /\ UNCHANGED row BY <1>4 DEF Apply
  <2>2. /\ proc' \in [Procs -> GoodProc] /\ proc'[Sweep] = [proc[Sweep] EXCEPT !.pc = "check"]
        /\ \A q \in Procs \ {Sweep} : proc'[q] = proc[q]
    BY <1>0, <1>1, <2>1, GoMoves DEF PCs, Storing, Free, Dispatching
  <2>3. proc'[Sweep].pc = "check" /\ proc'[Sweep].i = i BY <1>0, <2>2, ProcParts DEF GoodProc
  <2>4. /\ lock' \in [Inputs -> Procs \cup {None}] /\ lock[i] = None /\ lock'[i] = Sweep
        /\ \A j \in Inputs \ {i} : lock'[j] = lock[j]
    BY <1>0, <1>1, <2>1, TakeTypes
  <2>5. TypeInv' BY <1>0, <1>1, <2>1, <2>2, <2>4 DEF TypeInv, Timers, Flags, timerVars, bounds
  <2>6. Alone(Sweep)
    <3>1. now <= now' BY <1>0, <1>1, ScheduleAssumption DEF TypeInv, Flags
    <3> QED BY <1>1, <2>1, <2>2, <2>4, <3>1 DEF Alone
  <2>7. Fit(Sweep)'
    <3>1. row[i].status = "scheduled" /\ row[i] = proc[Sweep].row BY <1>4 DEF SameVersion
    <3>2. ParentSent(row[i].dep) BY <1>0, <1>4, <3>1 DEF IInv, Fit, Looked
    <3>3. i \notin unmarked => sent[i] = 0 BY <1>1, <2>4, <3>1, OpenUnsent DEF Open
    <3>4. Holds(Sweep)' BY <2>1, <2>3, <2>4, <3>1 DEF Holds
    <3>5. Decided(Sweep)' BY <1>1, <2>1, <2>3, <3>2, <3>3 DEF Decided, ParentSent
    <3> QED BY <2>3, <3>4, <3>5 DEF Fit, Handed, Looked, Fresh
  <2>8. Closing BY <2>1 DEF Closing
  <2> QED BY <1>0, <1>1, <2>3, <2>5, <2>6, <2>7, <2>8, QuietStep
<1>5. CASE SameVersion(proc[Sweep].row, row[i]) /\ pc = "refuse"
  <2> DEFINE r == [row[i] EXCEPT !.status = "refused"]
  <2>1. Status(i, "refused") /\ Finish(Sweep) /\ UNCHANGED lock BY <1>5 DEF Apply
  <2>2. row[i].status = "scheduled" BY <1>5 DEF SameVersion
  <2>3. r \in GoodRow /\ r.status = "refused" BY <1>2, <2>2, RowRestatus DEF Statuses, Stored
  <2>4. r.dep = row[i].dep BY <1>2 DEF GoodRow, Row
  <2>5. Write(i, r) BY <2>1 DEF Status, Write
  <2> HIDE DEF r
  <2> QED BY <2>1, <2>2, <2>3, <2>4, <2>5, AppliedStep
<1>6. CASE SameVersion(proc[Sweep].row, row[i]) /\ pc \in {"reset", "since"}
  <2> DEFINE v == IF pc = "since" THEN "since" ELSE "no"
             r == [row[i] EXCEPT !.idle = v]
  <2>1. Write(i, r) /\ Finish(Sweep) /\ UNCHANGED lock BY <1>6 DEF Apply
  <2>2. row[i].status = "scheduled" BY <1>6 DEF SameVersion
  <2>3. v \in {"no", "since", "stable"} OBVIOUS
  <2> HIDE DEF v
  <2>4. r \in GoodRow BY <1>2, <2>3, RowReidled
  <2>5. r.status = "scheduled" /\ r.dep = row[i].dep BY <1>2, <2>2 DEF GoodRow, Row
  <2> HIDE DEF r
  <2> QED BY <2>1, <2>2, <2>4, <2>5, AppliedStep
<1> QED BY <1>1, <1>3, <1>4, <1>5, <1>6

LEMMA SweepEndsStep == ASSUME IInv, SweepEnds PROVE IInv'
<1> USE DEF SweepEnds
<1>0. TypeInv /\ Sweep \in Procs BY DEF IInv, Procs
<1>1. /\ proc' \in [Procs -> GoodProc] /\ proc'[Sweep] = Rest
      /\ \A q \in Procs \ {Sweep} : proc'[q] = proc[q]
  BY <1>0, RestGood, OneMoves
<1>2. monitor' \in BOOLEAN /\ proc'[Sweep].pc = "idle" BY <1>1 DEF Again, Rest
<1>3. TypeInv' BY <1>0, <1>1, <1>2 DEF TypeInv, Timers, Flags, timerVars, bounds
<1>4. UNCHANGED <<row, now, sent, unmarked, lock>> /\ proc[Sweep].pc # "mark" OBVIOUS
<1> HIDE DEF SweepEnds
<1> QED BY <1>0, <1>1, <1>2, <1>3, <1>4, RestingStep DEF Relying

-----------------------------------------------------------------------------
(* The server stops and starts again.                                       *)

LEMMA CrashStep == ASSUME IInv, Crash PROVE IInv'
<1> DEFINE timed == {i \in Inputs : Waiting(i) /\ row[i].kind = "time"}
           idle == {i \in Inputs : Waiting(i) /\ row[i].kind = "idle"}
<1>0. TypeInv BY DEF IInv
<1>1. /\ armed' = {<<i, row[i].at>> : i \in timed}
      /\ reg' = [i \in Inputs |-> IF i \in timed THEN row[i].at ELSE 0]
      /\ row' = [i \in Inputs |-> IF i \in idle THEN [row[i] EXCEPT !.idle = "no"] ELSE row[i]]
      /\ monitor' = (idle # {})
  BY DEF Crash, Recover
<1>2. /\ proc' = [p \in Procs |-> Rest] /\ lock' = [i \in Inputs |-> None] /\ rewake' = {}
      /\ unmarked' = unmarked \cup {proc[p].i : p \in {q \in Procs : proc[q].pc = "mark"}}
      /\ robbed' \subseteq robbed \cup Inputs
      /\ UNCHANGED <<archived, busy, now, sent>>
  BY DEF Crash
<1>3. cmds' \in 0..MaxCommands /\ faults' \in 0..MaxFaults BY <1>0, FailTypes DEF Crash
<1>4. ASSUME NEW i \in timed PROVE row[i].at \in 1..MaxTime
  <2>1. row[i] \in GoodRow /\ row[i].status = "scheduled" /\ row[i].kind = "time"
    BY <1>0, RowParts DEF Waiting
  <2> QED BY <2>1, ScheduleAssumption DEF GoodRow, Row
<1>5. Timers'
  <2>1. armed' \subseteq Inputs \X (1..MaxTime) BY <1>1, <1>4
  <2>2. reg' \in [Inputs -> 0..MaxTime]
    <3>1. 0 \in 0..MaxTime /\ 1..MaxTime \subseteq 0..MaxTime BY ScheduleAssumption
    <3> HIDE DEF timed
    <3> QED BY <1>1, <1>4, <3>1
  <2>3. robbed' \subseteq Inputs BY <1>0, <1>2 DEF TypeInv, Timers
  <2> QED BY <2>1, <2>2, <2>3 DEF Timers
<1>6. /\ row' \in [Inputs -> GoodRow]
      /\ \A j \in Inputs : row'[j].status = row[j].status /\ row'[j].dep = row[j].dep
  <2>1. idle \in SUBSET Inputs OBVIOUS
  <2> HIDE DEF idle
  <2> QED BY <1>0, <1>1, <2>1, Reidled
<1>7. unmarked' \subseteq Inputs
  <2>1. ASSUME NEW p \in Procs, proc[p].pc = "mark" PROVE proc[p].i \in Inputs
    BY <1>0, <2>1, ProcParts DEF Free
  <2> QED BY <1>0, <1>2, <2>1 DEF TypeInv, Flags
<1>8. TypeInv'
  <2>1. proc' \in [Procs -> GoodProc] BY <1>2, RestGood
  <2>2. lock' \in [Inputs -> Procs \cup {None}] BY <1>2
  <2>3. monitor' \in BOOLEAN BY <1>1
  <2> HIDE DEF idle, timed
  <2> QED BY <1>0, <1>2, <1>3, <1>5, <1>6, <1>7, <2>1, <2>2, <2>3 DEF TypeInv, Flags
<1>9. \A p \in Procs : proc'[p].pc = "idle" BY <1>2 DEF Rest
<1>10. \A p \in Procs : Fit(p)' BY <1>9, IdleFit DEF Relying
<1>11. OneCreates' BY <1>9 DEF OneCreates, Procs
<1>12. ASSUME NEW i \in Inputs PROVE Recorded(i)'
  <2>0. Recorded(i) BY DEF IInv
  <2>1. i \notin unmarked' => ~ \E p \in Procs : proc[p].pc = "mark" /\ proc[p].i = i
    BY <1>2
  <2>2. i \notin unmarked' => i \notin unmarked BY <1>2
  <2> HIDE DEF idle, timed
  <2> QED BY <1>2, <1>6, <2>0, <2>1, <2>2 DEF Recorded
<1> QED BY <1>8, <1>10, <1>11, <1>12 DEF IInv

-----------------------------------------------------------------------------
(* The specification.                                                       *)

LEMMA InitInv == ASSUME Init PROVE IInv
<1>1. NoRow \in GoodRow BY ScheduleAssumption DEF NoRow, GoodRow, Row, Statuses, Stored
<1>2. TypeInv
  <2>1. row \in [Inputs -> GoodRow] /\ proc \in [Procs -> GoodProc] BY <1>1, RestGood DEF Init
  <2>2. lock \in [Inputs -> Procs \cup {None}] /\ sent \in [Inputs -> Nat] BY DEF Init
  <2>3. Timers BY ScheduleAssumption DEF Init, Timers
  <2>4. archived \in BOOLEAN /\ busy \in BOOLEAN /\ monitor \in BOOLEAN BY Zenon DEF Init
  <2>5. /\ now \in 0..MaxTime /\ rewake \subseteq Inputs /\ unmarked \subseteq Inputs
        /\ cmds \in 0..MaxCommands /\ faults \in 0..MaxFaults
    BY ScheduleAssumption DEF Init
  <2>6. Flags BY <2>4, <2>5 DEF Flags
  <2> QED BY <2>1, <2>2, <2>3, <2>6 DEF TypeInv
<1>3. \A p \in Procs : proc[p].pc = "idle" BY DEF Init, Rest
<1>4. \A p \in Procs : Fit(p) BY <1>3 DEF Fit, Holds, Decided, Handed, Looked, Fresh
<1>5. OneCreates BY <1>3 DEF OneCreates, Procs
<1>6. \A i \in Inputs : Recorded(i) BY DEF Init, Recorded, NoRow
<1> QED BY <1>2, <1>4, <1>5, <1>6 DEF IInv

LEMMA AskStep == ASSUME IInv, NEW c \in Clients, Ask(c) PROVE IInv'
<1>1. CASE \E i \in Inputs : \E kind \in {"time", "idle"} : \E at \in 0..MaxTime :
             \E dep \in Inputs \cup {None} : Schedule(c, i, kind, at, dep)
  BY <1>1, ScheduleStep
<1>2. CASE \E i \in Inputs : \E kind \in {"time", "idle"} : \E at \in 0..MaxTime :
             \E dep \in Inputs \cup {None} : Update(c, i, kind, at, dep)
  BY <1>2, UpdateStep
<1>3. CASE \E i \in Inputs : Remove(c, i) BY <1>3, RemoveStep
<1>4. CASE \E i \in Inputs : \E bypass \in BOOLEAN : DispatchNow(c, i, bypass)
  BY <1>4, DispatchNowStep
<1>5. CASE Archive(c) BY <1>5, ArchiveStep
<1>6. CASE Unarchive(c) BY <1>6, UnarchiveStep
<1> QED BY <1>1, <1>2, <1>3, <1>4, <1>5, <1>6 DEF Ask

LEMMA HandleStep == ASSUME IInv, NEW c \in Clients, Handle(c) PROVE IInv'
BY CreateStep, ArmStep, RegisteredStep, WriteUpdateStep, RemovedStep, CancelActiveStep,
   CancelTimersStep DEF Handle

LEMMA DispatchStep == ASSUME IInv, NEW p \in Procs, Dispatch(p) PROVE IInv'
BY CheckStep, CallStep, MarkStep, WakeStep, WokenStep, WakeArmStep, WakeRegisterStep DEF Dispatch

LEMMA SweepSteps == ASSUME IInv, SweepStep PROVE IInv'
BY EvaluateStep, ApplyStep, SweepEndsStep, LookStep DEF SweepStep

LEMMA StutterStep == ASSUME IInv, UNCHANGED vars PROVE IInv'
<1> USE DEF vars
<1>0. TypeInv BY DEF IInv
<1>1. TypeInv' BY <1>0 DEF TypeInv, Timers, Flags, timerVars, bounds
<1>2. now <= now' BY <1>0, ScheduleAssumption DEF TypeInv, Flags
<1> QED BY <1>1, <1>2, NobodyMoves

LEMMA NextInv == ASSUME IInv, [Next]_vars PROVE IInv'
<1>1. CASE \E c \in Clients : Ask(c) \/ Handle(c) BY <1>1, AskStep, HandleStep
<1>2. CASE \E k \in Callbacks : \E i \in Inputs : Rewake(k, i) \/ \E t \in 1..MaxTime : Fire(k, i, t)
  BY <1>2, RewakeStep, FireStep
<1>3. CASE \E k \in Callbacks : Callback(k) BY <1>3, FiredStep, ExecuteStep DEF Callback
<1>4. CASE \E p \in Procs : Dispatch(p) BY <1>4, DispatchStep
<1>5. CASE Tick \/ Busy \/ FireMonitor \/ SweepStep \/ Crash
  BY <1>5, TickStep, BusyStep, FireMonitorStep, SweepSteps, CrashStep
<1>6. CASE \E i \in Inputs : Stabilize(i) BY <1>6, StabilizeStep
<1>7. CASE UNCHANGED vars BY <1>7, StutterStep
<1> QED BY <1>1, <1>2, <1>3, <1>4, <1>5, <1>6, <1>7 DEF Next

LEMMA Inductive == Spec => []IInv
BY InitInv, NextInv, PTL DEF Spec

-----------------------------------------------------------------------------
(* What follows.                                                            *)

\* Every variable of the scheduled inputs keeps its type, whatever the inputs, goroutines
\* and bounds.
THEOREM ScheduleTypesCorrect == Spec => []TypeOK
<1>1. TypeInv => TypeOK
  <2>1. GoodRow \subseteq Row BY DEF GoodRow
  <2>2. GoodProc \subseteq [pc : PCs, i : Inputs \cup {None}, row : Row, list : SUBSET Inputs,
                           wakes : SUBSET (Inputs \X (1..MaxTime)),
                           arming : SUBSET (Inputs \X (1..MaxTime))]
    BY <2>1 DEF GoodProc
  <2> QED BY <2>1, <2>2 DEF TypeInv, Timers, Flags, TypeOK
<1>2. IInv => TypeInv BY DEF IInv
<1> QED BY <1>1, <1>2, Inductive, PTL

\* An input is handed to its session at most once, unless the record of the first hand-over
\* was lost: whoever decides about a row holds its lock from the look at its status to the
\* record, so the next one to take the lock finds the row decided.
THEOREM SentOnceCorrect == Spec => []SentOnce
<1>1. IInv => SentOnce
  <2> SUFFICES ASSUME IInv, NEW i \in Inputs, sent[i] > 1, i \notin unmarked PROVE FALSE
    BY DEF SentOnce
  <2>1. sent[i] \in Nat /\ Recorded(i) BY DEF IInv, TypeInv
  <2> QED BY <2>1 DEF Recorded
<1> QED BY <1>1, Inductive, PTL

\* A child is handed over only after its parent was: the dependency cannot change between the
\* look at the parent and the hand-over, because both happen under the child's lock, or the
\* sweep compares the row again.
THEOREM ParentFirstCorrect == Spec => []ParentFirst
<1>1. IInv => ParentFirst
  <2> SUFFICES ASSUME IInv, NEW p \in Procs, proc[p].pc = "call"
               PROVE  LET dep == row[proc[p].i].dep IN dep = None \/ sent[dep] > 0
    BY DEF ParentFirst
  <2> QED BY DEF IInv, Fit, Decided, ParentSent
<1> QED BY <1>1, Inductive, PTL

\* Whoever begins to hand over on its own account is a callback that executes, or the sweep
\* that applies what it found.
LEMMA MovesTake ==
  ASSUME TypeInv, NEW p \in Procs, NEW pc, pc # "check", Go(p, pc), NEW q \in Procs
  PROVE  ~ Takes(q)
<1>1. proc' = [proc EXCEPT ![p] = [@ EXCEPT !.pc = pc]] BY DEF Go
<1>2. proc \in [Procs -> GoodProc] BY DEF TypeInv
<1>3. CASE q # p BY <1>1, <1>2, <1>3 DEF Takes
<1>4. CASE q = p
  <2>1. proc'[q] = [proc[q] EXCEPT !.pc = pc] BY <1>1, <1>2, <1>4
  <2>2. proc'[q].pc = pc BY <1>2, <2>1 DEF GoodProc
  <2> QED BY <2>2 DEF Takes
<1> QED BY <1>3, <1>4

LEMMA FinishTakes ==
  ASSUME TypeInv, NEW p \in Procs, Finish(p), NEW q \in Procs
  PROVE  ~ Takes(q)
<1>1. proc'[p].pc \in {"idle", "sweep"} /\ \A o \in Procs \ {p} : proc'[o] = proc[o]
  BY FinishMoves
<1> QED BY <1>1 DEF Takes

LEMMA ClientsTake ==
  ASSUME TypeInv, NEW c \in Clients, Ask(c) \/ Handle(c), NEW q \in Procs \ Clients
  PROVE  ~ Takes(q)
<1>0. proc \in [Procs -> GoodProc] /\ c \in Procs /\ q # c BY DEF TypeInv, Procs
<1>1. ASSUME Ask(c) PROVE proc'[q] = proc[q]
  <2>1. CASE \E i \in Inputs : \E kind \in {"time", "idle"} : \E at \in 0..MaxTime :
               \E dep \in Inputs \cup {None} : Schedule(c, i, kind, at, dep)
    BY <1>0, <2>1 DEF Schedule
  <2>2. CASE \E i \in Inputs : \E kind \in {"time", "idle"} : \E at \in 0..MaxTime :
               \E dep \in Inputs \cup {None} : Update(c, i, kind, at, dep)
    BY <1>0, <2>2 DEF Update
  <2>3. CASE \E i \in Inputs : Remove(c, i) BY <1>0, <2>3 DEF Remove
  <2>4. CASE \E i \in Inputs : \E bypass \in BOOLEAN : DispatchNow(c, i, bypass)
    BY <1>0, <2>4 DEF DispatchNow
  <2>5. CASE Archive(c) \/ Unarchive(c) BY <1>0, <2>5 DEF Archive, Unarchive, Go
  <2> QED BY <1>1, <2>1, <2>2, <2>3, <2>4, <2>5 DEF Ask
<1>2. ASSUME Handle(c) PROVE proc'[q] = proc[q]
  <2>1. CASE Create(c) \/ Arm(c) \/ Registered(c)
    BY <1>0, <2>1 DEF Create, Arm, Registered, Go, Finish
  <2>2. CASE WriteUpdate(c) \/ Removed(c) BY <1>0, <2>2 DEF WriteUpdate, Removed, Go, Finish
  <2>3. CASE CancelActive(c) \/ CancelTimers(c)
    BY <1>0, <2>3 DEF CancelActive, CancelTimers, Go, Finish
  <2> QED BY <1>2, <2>1, <2>2, <2>3 DEF Handle
<1> QED BY <1>1, <1>2 DEF Takes

LEMMA DispatchTakes ==
  ASSUME TypeInv, NEW p \in Procs, Dispatch(p), NEW q \in Procs
  PROVE  ~ Takes(q)
<1>1. CASE Check(p) BY <1>1, MovesTake, FinishTakes DEF Check
<1>2. CASE Call(p) BY <1>2, MovesTake, FinishTakes DEF Call
<1>3. CASE Mark(p) BY <1>3, MovesTake, FinishTakes DEF Mark
<1>4. CASE Wake(p)
  <2>1. proc[p] \in GoodProc /\ proc \in [Procs -> GoodProc] BY DEF TypeInv
  <2>2. (\E ws : proc' = [proc EXCEPT ![p].pc = "wakeArm", ![p].wakes = ws]) \/ Finish(p)
    BY <1>4 DEF Wake
  <2>3. ASSUME NEW ws, proc' = [proc EXCEPT ![p].pc = "wakeArm", ![p].wakes = ws]
        PROVE  ~ Takes(q)
    <3>1. CASE q # p BY <2>1, <2>3, <3>1 DEF Takes
    <3>2. proc'[p].pc = "wakeArm" BY <2>1, <2>3 DEF GoodProc
    <3> QED BY <3>1, <3>2 DEF Takes
  <2> QED BY <2>2, <2>3, FinishTakes
<1>5. CASE Woken(p) BY <1>5, FinishTakes DEF Woken
<1>6. ASSUME NEW w \in proc[p].wakes, WakeArm(p, w) PROVE ~ Takes(q)
  <2>1. proc[p] \in GoodProc /\ proc \in [Procs -> GoodProc] BY DEF TypeInv
  <2>2. proc' = [proc EXCEPT ![p].pc = "wakeRegister", ![p].wakes = @ \ {w}, ![p].arming = {w}]
    BY <1>6 DEF WakeArm
  <2>3. CASE q # p BY <2>1, <2>2, <2>3 DEF Takes
  <2>4. proc'[p].pc = "wakeRegister" BY <2>1, <2>2 DEF GoodProc
  <2> QED BY <2>3, <2>4 DEF Takes
<1>7. ASSUME NEW w \in proc[p].arming, WakeRegister(p, w) PROVE ~ Takes(q)
  <2>1. proc[p] \in GoodProc /\ proc \in [Procs -> GoodProc] BY DEF TypeInv
  <2>2. proc' = [proc EXCEPT ![p].pc = "wakeArm", ![p].arming = {}]
    BY <1>7 DEF WakeRegister
  <2>3. CASE q # p BY <2>1, <2>2, <2>3 DEF Takes
  <2>4. proc'[p].pc = "wakeArm" BY <2>1, <2>2 DEF GoodProc
  <2> QED BY <2>3, <2>4 DEF Takes
<1> QED BY <1>1, <1>2, <1>3, <1>4, <1>5, <1>6, <1>7 DEF Dispatch

LEMMA SweepTakes ==
  ASSUME TypeInv, SweepStep, NEW q \in Procs, Takes(q)
  PROVE  q = Sweep /\ Apply
<1>0. Sweep \in Procs /\ proc \in [Procs -> GoodProc] BY DEF TypeInv, Procs
<1>1. CASE Evaluate
  <2>1. archived \in BOOLEAN /\ busy \in BOOLEAN /\ proc[Sweep].row.idle \in {"no", "since", "stable"}
    BY <1>0, ProcParts DEF TypeInv, Flags, GoodRow, Row
  <2>2. \E pc \in {"refuse", "reset", "since", "sweep", "quiet"} : Go(Sweep, pc)
    BY <1>1, <2>1 DEF Evaluate
  <2> QED BY <1>0, <2>2, MovesTake
<1>2. CASE SweepEnds
  <2>1. proc' = [proc EXCEPT ![Sweep] = Rest] BY <1>2 DEF SweepEnds
  <2>2. proc'[q] = proc[q] \/ proc'[q] = Rest BY <1>0, <2>1
  <2> QED BY <2>2 DEF Takes, Rest
<1>3. ASSUME NEW i \in Inputs, Look(i) PROVE FALSE
  <2>1. proc[Sweep].pc = "sweep" /\ proc[Sweep] \in GoodProc BY <1>0, <1>3 DEF Look
  <2>2. \/ proc' = [proc EXCEPT ![Sweep].list = @ \ {i}]
        \/ \E pc \in {"reset", "evaluate"} :
             proc' = [proc EXCEPT ![Sweep] = [proc[Sweep] EXCEPT !.pc = pc, !.i = i, !.row = row[i],
                                                                 !.list = @ \ {i}]]
    BY <1>3 DEF Look
  <2>3. proc'[Sweep].pc \in {"sweep", "reset", "evaluate"}
    <3>1. CASE proc' = [proc EXCEPT ![Sweep].list = @ \ {i}]
      BY <1>0, <2>1, <3>1 DEF GoodProc
    <3>2. ASSUME NEW pc \in {"reset", "evaluate"},
                 proc' = [proc EXCEPT ![Sweep] = [proc[Sweep] EXCEPT !.pc = pc, !.i = i, !.row = row[i],
                                                                     !.list = @ \ {i}]]
          PROVE  proc'[Sweep].pc = pc
      BY <1>0, <2>1, <3>2 DEF GoodProc
    <3> QED BY <2>2, <3>1, <3>2
  <2>4. q # Sweep => proc'[q] = proc[q] BY <1>0, <2>2
  <2> QED BY <2>3, <2>4 DEF Takes
<1>4. CASE Apply
  <2>1. proc'[q] = proc[q] \/ q = Sweep BY <1>0, <1>4 DEF Apply, Go, Finish
  <2> QED BY <1>4, <2>1 DEF Takes
<1> QED BY <1>1, <1>2, <1>3, <1>4 DEF SweepStep

LEMMA TimersTake ==
  ASSUME TypeInv, NEW k \in Callbacks,
         \/ \E i \in Inputs : Rewake(k, i) \/ \E t \in 1..MaxTime : Fire(k, i, t)
         \/ Callback(k),
         NEW q \in Procs, Takes(q)
  PROVE  q = k /\ Execute(k)
<1>0. k \in Procs /\ proc \in [Procs -> GoodProc] BY DEF TypeInv, Procs
<1>1. ASSUME NEW i \in Inputs, Rewake(k, i) PROVE FALSE
  <2>1. proc'[q] = proc[q] \/ proc'[q].pc = "wake" BY <1>0, <1>1 DEF Rewake, Rest
  <2> QED BY <2>1 DEF Takes
<1>2. ASSUME NEW i \in Inputs, NEW t \in 1..MaxTime, Fire(k, i, t) PROVE FALSE
  <2>1. proc'[q] = proc[q] \/ proc'[q].pc = "fired" BY <1>0, <1>2 DEF Fire, Rest
  <2> QED BY <2>1 DEF Takes
<1>3. CASE Fired(k) BY <1>0, <1>3, MovesTake DEF Fired
<1>4. CASE Execute(k)
  <2>1. proc'[q] = proc[q] \/ q = k BY <1>0, <1>4 DEF Execute, Go, Finish
  <2> QED BY <1>4, <2>1 DEF Takes
<1> QED BY <1>1, <1>2, <1>3, <1>4 DEF Callback

\* What a callback and the sweep rely on when they begin to hand over.
Timely ==
  /\ \A k \in Callbacks : Takes(k) => LET r == row[proc[k].i] IN r.kind = "time" /\ r.at <= now
  /\ Takes(Sweep) => LET r == row[proc[Sweep].i] IN r.kind = "idle" /\ r.idle = "stable"

LEMMA TakersTimely ==
  ASSUME IInv
  PROVE  /\ \A k \in Callbacks : Execute(k) /\ Takes(k) =>
              row[proc[k].i].kind = "time" /\ row[proc[k].i].at <= now
         /\ Apply /\ Takes(Sweep) =>
              row[proc[Sweep].i].kind = "idle" /\ row[proc[Sweep].i].idle = "stable"
<1>0. TypeInv BY DEF IInv
<1>1. ASSUME NEW k \in Callbacks, Execute(k), Takes(k)
      PROVE  row[proc[k].i].kind = "time" /\ row[proc[k].i].at <= now
  <2>1. k \in Procs BY DEF Procs
  <2>2. ~ Finish(k) BY <1>0, <1>1, <2>1, FinishTakes
  <2>3. row[proc[k].i].kind = "time" /\ row[proc[k].i].at = proc[k].row.at
    BY <1>1, <2>2 DEF Execute
  <2>4. proc[k].row.at <= now BY <1>1, <2>1 DEF IInv, Fit, Looked, Execute
  <2> QED BY <2>3, <2>4
<1>2. ASSUME Apply, Takes(Sweep)
      PROVE  row[proc[Sweep].i].kind = "idle" /\ row[proc[Sweep].i].idle = "stable"
  <2>1. Sweep \in Procs BY DEF Procs
  <2>2. ~ Finish(Sweep) BY <1>0, <1>2, <2>1, FinishTakes
  <2>3. SameVersion(proc[Sweep].row, row[proc[Sweep].i]) /\ proc[Sweep].pc = "quiet"
    BY <1>2, <2>2 DEF Apply
  <2>4. proc[Sweep].row.idle = "stable" BY <2>1, <2>3 DEF IInv, Fit, Looked
  <2> QED BY <2>3, <2>4 DEF SameVersion
<1> QED BY <1>1, <1>2

LEMMA StepsTimely == ASSUME IInv, [Next]_vars PROVE Timely
<1>0. TypeInv BY DEF IInv
<1>1. ASSUME NEW q \in Procs \ Clients, Takes(q)
      PROVE  (q \in Callbacks /\ Execute(q)) \/ (q = Sweep /\ Apply)
  <2>1. CASE \E c \in Clients : Ask(c) \/ Handle(c) BY <1>0, <1>1, <2>1, ClientsTake
  <2>2. CASE \E k \in Callbacks : \E i \in Inputs : Rewake(k, i) \/ \E t \in 1..MaxTime : Fire(k, i, t)
    BY <1>0, <1>1, <2>2, TimersTake
  <2>3. CASE \E k \in Callbacks : Callback(k) BY <1>0, <1>1, <2>3, TimersTake
  <2>4. CASE \E p \in Procs : Dispatch(p) BY <1>0, <1>1, <2>4, DispatchTakes
  <2>5. CASE SweepStep BY <1>0, <1>1, <2>5, SweepTakes
  <2>6. CASE Tick \/ Busy \/ (\E i \in Inputs : Stabilize(i)) \/ UNCHANGED vars
    <3>1. proc' = proc BY <2>6 DEF Tick, Busy, Stabilize, vars
    <3> QED BY <1>1, <3>1 DEF Takes
  <2>7. CASE FireMonitor
    <3>1. proc'[q] = proc[q] \/ proc'[q].pc \in {"idle", "sweep"}
      BY <1>0, <2>7 DEF FireMonitor, Rest, TypeInv
    <3> QED BY <1>1, <3>1 DEF Takes
  <2>8. CASE Crash
    <3>1. proc'[q].pc = "idle" BY <2>8 DEF Crash, Rest
    <3> QED BY <1>1, <3>1 DEF Takes
  <2> QED BY <2>1, <2>2, <2>3, <2>4, <2>5, <2>6, <2>7, <2>8 DEF Next
<1>2. Sweep \in Procs \ Clients /\ Sweep \notin Callbacks /\ Callbacks \subseteq Procs \ Clients
  BY ScheduleAssumption DEF Procs
<1> QED BY <1>1, <1>2, TakersTimely DEF Timely

\* A callback hands over at the row's own time or later, and the sweep after the row's own
\* stable idle period, although each has read the row before it takes the lock.
THEOREM OnTimeCorrect == Spec => OnTime
<1>1. IInv /\ [Next]_vars => [Timely]_vars BY StepsTimely
<1>2. Spec => [][Timely]_vars BY <1>1, Inductive, PTL DEF Spec
<1> QED BY <1>2 DEF OnTime, Timely

-----------------------------------------------------------------------------
(* NoneForgotten: no input is left without anybody who will look at it.     *)

Holding == {"write", "arm", "register", "removed"} \cup Dispatching

\* Whoever holds a row's lock has its input in hand, and is not at rest.
Owned(j) == lock[j] # None => proc[lock[j]].i = j /\ proc[lock[j]].pc \in Holding

\* What p may rely on: the row it is to set the timer of, if it holds the lock, is the
\* one it stored, ...
Stores(p) ==
  proc[p].pc = "arm" /\ lock[proc[p].i] = p =>
    LET r == row[proc[p].i] IN
    r.status # "none" /\ r.kind = proc[p].row.kind /\ r.at = proc[p].row.at
\* ... the row it removed stays removed, ...
Removes(p) ==
  proc[p].pc = "removed" =>
    lock[proc[p].i] = p /\ row[proc[p].i].status \notin Open \cup {"none"}
\* ... and it only wakes dependents while it says so.
Clean(p) == proc[p].wakes # {} => proc[p].pc \in {"wakeArm", "wakeRegister"}

Sure(p) == Stores(p) /\ Removes(p) /\ Clean(p)

\* p decides about i under its lock, or is about to set the timer of the stored row.
Tends(p, i) ==
  /\ proc[p].i = i
  /\ \/ proc[p].pc \in {"write", "check", "call", "mark"}
     \/ /\ proc[p].pc = "arm" /\ p \in Clients
        /\ row[i].kind = proc[p].row.kind /\ row[i].at = proc[p].row.at
\* p is the callback of i's own timer, or wakes i.
Wakes(p, i) ==
  \/ /\ p \in Callbacks /\ proc[p].i = i /\ proc[p].pc \in {"fired", "execute"}
     /\ proc[p].row.at = row[i].at
  \/ proc[p].pc = "wake" /\ proc[p].i = row[i].dep
  \/ <<i, row[i].at>> \in proc[p].wakes

Swept == monitor \/ proc[Sweep].pc # "idle"
Timed(i) == \/ <<i, row[i].at>> \in armed
            \/ row[i].dep \in rewake
            \/ \E p \in Procs : Wakes(p, i)

\* Somebody sees to i, if it may go.
SeenTo(i) ==
  \/ \E p \in Procs : Tends(p, i)
  \/ row[i].kind = "idle" /\ Swept
  \/ row[i].kind = "time" /\ (Satisfied(row[i].dep) => Timed(i))
Kept(i) == i \notin robbed \cup unmarked /\ row[i].status = "scheduled" => SeenTo(i)

KInv ==
  /\ IInv /\ (\A j \in Inputs : Owned(j)) /\ (\A p \in Procs : Sure(p))
  /\ \A i \in Inputs : Kept(i)
-----------------------------------------------------------------------------
(* What a step of one goroutine leaves to the others.                       *)

\* The row stays what it was, but for its idle period.
SameRow(j) ==
  /\ row'[j].status = row[j].status /\ row'[j].kind = row[j].kind
  /\ row'[j].at = row[j].at /\ row'[j].dep = row[j].dep

\* p moves alone: it takes or drops locks for itself only, and leaves a row whose lock
\* another holds to wait for what it waits for, and closed if it is closed.
Aside(p) ==
  /\ \A q \in Procs \ {p} : proc'[q] = proc[q]
  /\ \A j \in Inputs :
       /\ lock'[j] \in {lock[j], p, None}
       /\ lock[j] \notin {p, None} =>
            /\ lock'[j] = lock[j]
            /\ row[j].status # "none" =>
                 row'[j].status # "none" /\ row'[j].kind = row[j].kind /\ row'[j].at = row[j].at
            /\ row[j].status \notin Open \cup {"none"} => row'[j].status \notin Open \cup {"none"}

LEMMA OthersSure ==
  ASSUME IInv, NEW p \in Procs \cup {None}, Aside(p), NEW q \in Procs \ {p}, Sure(q)
  PROVE  Sure(q)'
<1>0. TypeInv /\ proc'[q] = proc[q] /\ q # None BY ScheduleAssumption DEF IInv, Aside
<1>1. Stores(q)'
  <2> SUFFICES ASSUME proc[q].pc = "arm", lock'[proc[q].i] = q
               PROVE  LET r == row'[proc[q].i] IN
                      r.status # "none" /\ r.kind = proc[q].row.kind /\ r.at = proc[q].row.at
    BY <1>0 DEF Stores
  <2>1. proc[q].i \in Inputs BY <1>0, ProcParts DEF Free
  <2>2. lock[proc[q].i] = q BY <1>0, <2>1 DEF Aside
  <2> QED BY <1>0, <2>1, <2>2 DEF Aside, Sure, Stores
<1>2. Removes(q)'
  <2> SUFFICES ASSUME proc[q].pc = "removed"
               PROVE  lock'[proc[q].i] = q /\ row'[proc[q].i].status \notin Open \cup {"none"}
    BY <1>0 DEF Removes
  <2>1. proc[q].i \in Inputs BY <1>0, ProcParts DEF Free
  <2>2. lock[proc[q].i] = q /\ row[proc[q].i].status \notin Open \cup {"none"}
    BY DEF Sure, Removes
  <2> QED BY <1>0, <2>1, <2>2 DEF Aside
<1>3. Clean(q)' BY <1>0 DEF Sure, Clean
<1> QED BY <1>1, <1>2, <1>3 DEF Sure

LEMMA OwnersKept ==
  ASSUME KInv, NEW p \in Procs \cup {None}, Aside(p),
         \A j \in Inputs : p # None /\ lock'[j] = p => proc'[p].i = j /\ proc'[p].pc \in Holding,
         NEW j \in Inputs
  PROVE  Owned(j)'
<1>1. SUFFICES ASSUME lock'[j] # None
               PROVE  proc'[lock'[j]].i = j /\ proc'[lock'[j]].pc \in Holding
  BY DEF Owned
<1>2. CASE lock'[j] = p BY <1>1, <1>2
<1>3. CASE lock'[j] # p
  <2>1. lock'[j] = lock[j] BY <1>1, <1>3 DEF Aside
  <2>2. lock[j] \in Procs BY <1>1, <2>1 DEF KInv, IInv, TypeInv
  <2>3. proc'[lock[j]] = proc[lock[j]] BY <1>3, <2>1, <2>2 DEF Aside
  <2> QED BY <1>1, <2>1, <2>3 DEF KInv, Owned
<1> QED BY <1>2, <1>3

\* A step of p keeps the invariant, if it leaves the others alone and an input it no
\* longer sees to is seen to by somebody else.
LEMMA Onward ==
  ASSUME KInv, IInv', NEW p \in Procs \cup {None}, Aside(p), p # None => Sure(p)',
         \A j \in Inputs : p # None /\ lock'[j] = p => proc'[p].i = j /\ proc'[p].pc \in Holding,
         \A i \in Inputs : Kept(i)'
  PROVE  KInv'
<1>1. \A j \in Inputs : Owned(j)' BY OwnersKept
<1>2. ASSUME NEW q \in Procs PROVE Sure(q)'
  <2>1. CASE q = p BY <2>1, ScheduleAssumption
  <2>2. CASE q # p BY <2>2, OthersSure DEF KInv
  <2> QED BY <2>1, <2>2
<1> QED BY <1>1, <1>2 DEF KInv

\* Whatever of p, the timers and the sweep saw to i still does, or somebody else does.
Passes(p, i) ==
  /\ row[i].kind = "idle" /\ Swept => Swept'
  /\ row[i].kind = "time" =>
       /\ <<i, row[i].at>> \in armed => <<i, row[i].at>> \in armed' \/ SeenTo(i)'
       /\ row[i].dep \in rewake => row[i].dep \in rewake' \/ SeenTo(i)'
       /\ p \in Procs /\ Wakes(p, i) => SeenTo(i)'
  /\ p \in Procs /\ Tends(p, i) => SeenTo(i)'

\* An input that was seen to is seen to after a step of p (of nobody, if p is None), if its
\* row and its parent stay what they were, and it is passed on.
LEMMA StaysKept ==
  ASSUME TypeInv, NEW p \in Procs \cup {None}, NEW i \in Inputs, Kept(i),
         \A q \in Procs \ {p} : proc'[q] = proc[q],
         robbed \subseteq robbed', unmarked \subseteq unmarked',
         i \notin robbed' /\ i \notin unmarked' /\ row'[i].status = "scheduled" =>
           \/ SeenTo(i)'
           \/ /\ SameRow(i) /\ Passes(p, i)
              /\ row[i].dep # None /\ row'[row[i].dep].status = "dispatched" =>
                   row[row[i].dep].status = "dispatched"
  PROVE  Kept(i)'
<1>1. SUFFICES ASSUME i \notin robbed', i \notin unmarked', row'[i].status = "scheduled", ~ SeenTo(i)'
               PROVE  FALSE
  BY DEF Kept
<1>2. /\ SameRow(i) /\ Passes(p, i)
      /\ row[i].dep # None /\ row'[row[i].dep].status = "dispatched" =>
           row[row[i].dep].status = "dispatched"
  BY <1>1
<1>3. SeenTo(i) BY <1>1, <1>2 DEF Kept, SameRow
<1>4. ASSUME NEW q \in Procs, Tends(q, i) PROVE FALSE
  <2>1. proc'[q] = proc[q] BY <1>1, <1>2, <1>4 DEF Passes
  <2>2. Tends(q, i)' BY <1>2, <1>4, <2>1 DEF Tends, SameRow
  <2> QED BY <1>1, <2>2 DEF SeenTo
<1>5. CASE row[i].kind = "idle" /\ Swept BY <1>1, <1>2, <1>5 DEF SeenTo, SameRow, Passes
<1>6. CASE row[i].kind = "time" /\ (Satisfied(row[i].dep) => Timed(i))
  <2>1. row'[i].kind = "time" /\ row'[i].dep = row[i].dep /\ row'[i].at = row[i].at
    BY <1>2, <1>6 DEF SameRow
  <2>2. Satisfied(row[i].dep)' /\ ~ Timed(i)' BY <1>1, <2>1 DEF SeenTo
  <2>3. Timed(i) BY <1>2, <1>6, <2>1, <2>2 DEF Satisfied
  <2>4. ASSUME NEW q \in Procs, Wakes(q, i) PROVE FALSE
    <3>1. proc'[q] = proc[q] BY <1>1, <1>2, <1>6, <2>4 DEF Passes
    <3>2. Wakes(q, i)' BY <2>1, <2>4, <3>1 DEF Wakes
    <3> QED BY <2>2, <3>2 DEF Timed
  <2> QED BY <1>1, <1>2, <1>6, <2>1, <2>2, <2>3, <2>4 DEF Timed, Passes
<1> QED BY <1>3, <1>4, <1>5, <1>6 DEF SeenTo

\* A step that leaves the rows alone.
LEMMA RowsRest ==
  ASSUME KInv, IInv', NEW p \in Procs \cup {None},
         \A q \in Procs \ {p} : proc'[q] = proc[q],
         \A j \in Inputs : SameRow(j),
         \A j \in Inputs : /\ lock'[j] \in {lock[j], p, None}
                           /\ lock[j] \notin {p, None} => lock'[j] = lock[j]
                           /\ p # None /\ lock'[j] = p => proc'[p].i = j /\ proc'[p].pc \in Holding,
         robbed \subseteq robbed', unmarked \subseteq unmarked',
         p # None => Sure(p)',
         \A j \in Inputs : j \notin robbed' /\ j \notin unmarked' /\ row[j].status = "scheduled" => Passes(p, j)
  PROVE  KInv'
<1>1. Aside(p) BY DEF Aside, SameRow
<1>2. ASSUME NEW j \in Inputs PROVE Kept(j)'
  <2>1. row[j].dep # None => row[j].dep \in Inputs BY RowParts DEF KInv, IInv
  <2>2. row[j].dep # None => SameRow(row[j].dep) BY <2>1
  <2>3. SameRow(j) /\ Kept(j) /\ TypeInv BY DEF KInv, IInv
  <2>4. row'[j].status = row[j].status BY <2>3 DEF SameRow
  <2>5. row[j].dep # None => row'[row[j].dep].status = row[row[j].dep].status BY <2>2 DEF SameRow
  <2> QED BY <2>3, <2>4, <2>5, StaysKept
<1> QED BY <1>1, <1>2, Onward

-----------------------------------------------------------------------------
(* Goroutines that come and go.                                             *)

Minding == {"write", "check", "call", "mark", "arm", "fired", "execute", "wake", "wakeArm", "wakeRegister"}

LEMMA HandsOff ==
  ASSUME KInv, NEW p \in Procs, NEW i \in Inputs, proc[p].pc \notin Minding
  PROVE  ~ Tends(p, i) /\ ~ Wakes(p, i)
<1>1. proc[p].wakes = {} BY DEF KInv, Sure, Clean, Minding
<1> QED BY <1>1 DEF Tends, Wakes, Minding

LEMMA NoLock ==
  ASSUME KInv, NEW p \in Procs, proc[p].pc \notin Holding, NEW j \in Inputs
  PROVE  lock[j] # p
BY ScheduleAssumption DEF KInv, Owned

\* Whoever drops its lock holds none.
LEMMA Drops ==
  ASSUME KInv, NEW p \in Procs, proc[p].i \in Inputs, Drop(proc[p].i, p), NEW j \in Inputs
  PROVE  lock'[j] # p /\ lock'[j] \in {lock[j], None} /\ (lock[j] # p => lock'[j] = lock[j])
<1>1. p # None /\ lock \in [Inputs -> Procs \cup {None}]
  BY ScheduleAssumption DEF KInv, IInv, TypeInv
<1>2. lock[j] = p => proc[p].i = j BY <1>1 DEF KInv, Owned
<1> QED BY <1>1, <1>2 DEF Drop

LEMMA Moves ==
  ASSUME TypeInv, NEW p \in Procs, NEW pc, Go(p, pc)
  PROVE  /\ \A q \in Procs \ {p} : proc'[q] = proc[q]
         /\ proc'[p].pc = pc /\ proc'[p].i = proc[p].i /\ proc'[p].row = proc[p].row
         /\ proc'[p].wakes = proc[p].wakes
<1>1. proc \in [Procs -> GoodProc] /\ proc[p] \in GoodProc BY DEF TypeInv
<1> QED BY <1>1 DEF Go, GoodProc

LEMMA Rests ==
  ASSUME TypeInv, NEW p \in Procs, Finish(p)
  PROVE  /\ \A q \in Procs \ {p} : proc'[q] = proc[q]
         /\ proc'[p].pc = IF p = Sweep THEN "sweep" ELSE "idle"
         /\ proc'[p].wakes = {}
         /\ Sure(p)'
<1>1. proc \in [Procs -> GoodProc] BY DEF TypeInv
<1>2. /\ \A q \in Procs \ {p} : proc'[q] = proc[q]
      /\ proc'[p].pc = IF p = Sweep THEN "sweep" ELSE "idle"
      /\ proc'[p].wakes = {}
  BY <1>1 DEF Finish, Rest
<1> QED BY <1>2 DEF Sure, Stores, Removes, Clean

\* The sweep goes on when one of its inputs is decided.
LEMMA SweepLasts ==
  ASSUME NEW p \in Procs, \A q \in Procs \ {p} : proc'[q] = proc[q], monitor => monitor',
         p = Sweep => proc'[p].pc # "idle"
  PROVE  Swept => Swept'
BY DEF Swept, Procs

-----------------------------------------------------------------------------
(* Commands.                                                                *)

LEMMA ScheduleKept ==
  ASSUME KInv, IInv', NEW c \in Clients, NEW i \in Inputs, NEW kind, NEW at, NEW dep,
         Schedule(c, i, kind, at, dep)
  PROVE  KInv'
<1>0. TypeInv /\ c \in Procs /\ c # Sweep BY ScheduleAssumption DEF KInv, IInv, Procs
<1>1. UNCHANGED <<row, lock, armed, robbed, unmarked, rewake, monitor>> /\ proc[c].pc = "idle"
  BY DEF Schedule, timerVars
<1>2. /\ \A q \in Procs \ {c} : proc'[q] = proc[q]
      /\ proc'[c].pc = "create" /\ proc'[c].wakes = {}
  BY <1>0 DEF Schedule, Rest, TypeInv
<1>3. Sure(c)' BY <1>2 DEF Sure, Stores, Removes, Clean
<1>4. \A j \in Inputs : lock'[j] # c BY <1>0, <1>1, NoLock DEF Holding, Dispatching
<1>5. Swept => Swept' BY <1>0, <1>1, <1>2, SweepLasts
<1>6. ASSUME NEW j \in Inputs PROVE Passes(c, j)
  BY <1>0, <1>1, <1>5, HandsOff DEF Passes, Minding
<1> QED BY <1>0, <1>1, <1>2, <1>3, <1>4, <1>6, RowsRest DEF SameRow

LEMMA CreateKept ==
  ASSUME KInv, IInv', NEW c \in Clients, Create(c)
  PROVE  KInv'
<1> DEFINE i == proc[c].i
<1>0. TypeInv /\ c \in Procs /\ c # Sweep /\ c # None BY ScheduleAssumption DEF KInv, IInv, Procs
<1>1. /\ UNCHANGED <<lock, armed, robbed, unmarked, rewake, monitor>> /\ proc[c].pc = "create"
      /\ Go(c, "arm") /\ Write(i, proc[c].row)
  BY DEF Create, timerVars
<1>2. i \in Inputs /\ row[i].status = "none" /\ proc[c].row \in GoodRow /\ proc[c].row.status = "scheduled"
  BY <1>0, <1>1, ProcParts DEF KInv, IInv, Fit, Fresh, Free, Storing
<1>3. row'[i] = proc[c].row /\ \A j \in Inputs \ {i} : row'[j] = row[j]
  BY <1>0, <1>1, <1>2, WriteTypes
<1>4. /\ \A q \in Procs \ {c} : proc'[q] = proc[q]
      /\ proc'[c].pc = "arm" /\ proc'[c].i = i /\ proc'[c].row = proc[c].row
      /\ proc'[c].wakes = {}
  <2>1. proc[c].wakes = {} BY <1>0, <1>1 DEF KInv, Sure, Clean
  <2> QED BY <1>0, <1>1, <2>1, Moves
<1>5. \A j \in Inputs : lock'[j] # c BY <1>0, <1>1, NoLock DEF Holding, Dispatching
<1> HIDE DEF i
<1>6. Aside(c) BY <1>1, <1>2, <1>3, <1>4 DEF Aside
<1>7. Sure(c)' BY <1>2, <1>4, <1>5 DEF Sure, Stores, Removes, Clean
<1>8. ASSUME NEW j \in Inputs PROVE Kept(j)'
  <2>1. CASE j = i
    <3>1. Tends(c, j)' BY <1>3, <1>4, <2>1 DEF Tends
    <3> QED BY <1>0, <3>1 DEF Kept, SeenTo
  <2>2. CASE j # i
    <3>1. SameRow(j) /\ Kept(j) BY <1>3, <2>2 DEF SameRow, KInv
    <3>2. row[j].dep # None /\ row'[row[j].dep].status = "dispatched" =>
            row[row[j].dep].status = "dispatched"
      BY <1>0, <1>2, <1>3, RowParts
    <3>3. Swept => Swept' BY <1>0, <1>1, <1>4, SweepLasts
    <3>4. Passes(c, j) BY <1>0, <1>1, <3>3, HandsOff DEF Passes, Minding
    <3> QED BY <1>0, <1>1, <1>4, <3>1, <3>2, <3>4, StaysKept
  <2> QED BY <2>1, <2>2
<1> QED BY <1>0, <1>5, <1>6, <1>7, <1>8, Onward

LEMMA ArmKept ==
  ASSUME KInv, IInv', NEW c \in Clients, Arm(c)
  PROVE  KInv'
<1> DEFINE i == proc[c].i
           t == proc[c].row.at
<1>0. TypeInv /\ c \in Procs /\ c # Sweep /\ c # None BY ScheduleAssumption DEF KInv, IInv, Procs
<1>1. /\ UNCHANGED <<row, unmarked, rewake>> /\ proc[c].pc = "arm"
      /\ IF lock[i] = c THEN UNCHANGED robbed ELSE Robbed(armed \ armed')
  BY DEF Arm
<1>2. i \in Inputs /\ proc[c].row.kind \in {"time", "idle"}
  BY <1>0, <1>1, ProcParts DEF Free, GoodRow, Row
<1>3. proc[c].wakes = {} BY <1>0, <1>1 DEF KInv, Sure, Clean
<1>4. robbed \subseteq robbed' BY <1>1 DEF Robbed
<1>5. lock[i] = c => row[i].kind = proc[c].row.kind /\ row[i].at = t
  BY <1>0, <1>1 DEF KInv, Sure, Stores
<1>6. ASSUME NEW j \in Inputs PROVE ~ Wakes(c, j) /\ (Tends(c, j) => j = i)
  BY <1>1, <1>3 DEF Wakes, Tends
<1>7. \A j \in Inputs : SameRow(j) BY <1>1 DEF SameRow
<1>8. CASE proc[c].row.kind = "time"
  <2>1. SetTimer(i, t) /\ Go(c, "register") /\ UNCHANGED <<monitor, lock>> BY <1>8 DEF Arm
  <2>2. /\ \A q \in Procs \ {c} : proc'[q] = proc[q]
        /\ proc'[c].pc = "register" /\ proc'[c].i = i /\ proc'[c].wakes = {}
    BY <1>0, <1>3, <2>1, Moves
  <2>3. <<i, t>> \in armed' /\ \A j \in Inputs \ {i} : \A u : <<j, u>> \in armed => <<j, u>> \in armed'
    BY <1>2, <2>1 DEF SetTimer
  <2>4. \A j \in Inputs : lock'[j] = c => j = i BY <1>0, <2>1 DEF KInv, Owned
  <2>5. Swept => Swept' BY <1>0, <2>1, <2>2, SweepLasts
  <2>6. Sure(c)' BY <2>2 DEF Sure, Stores, Removes, Clean
  <2>7. ASSUME NEW j \in Inputs, j \notin robbed' PROVE Passes(c, j)
    <3>1. row[j].kind = "time" /\ <<j, row[j].at>> \in armed => <<j, row[j].at>> \in armed'
      <4>1. CASE j # i BY <2>3, <4>1
      <4>2. CASE j = i /\ lock[i] = c BY <1>5, <2>3, <4>2
      <4>3. CASE j = i /\ lock[i] # c BY <1>1, <2>7, <4>3 DEF Robbed
      <4> QED BY <4>1, <4>2, <4>3
    <3>2. Tends(c, j) => SeenTo(j)'
      <4> SUFFICES ASSUME Tends(c, j) PROVE SeenTo(j)' OBVIOUS
      <4>1. j = i /\ row'[j].kind = "time" /\ row'[j].at = t BY <1>1, <1>8 DEF Tends
      <4> QED BY <2>3, <4>1 DEF SeenTo, Timed
    <3> QED BY <1>1, <1>6, <2>5, <3>1, <3>2 DEF Passes
  <2> QED BY <1>0, <1>1, <1>4, <1>7, <2>1, <2>2, <2>4, <2>6, <2>7, RowsRest DEF Holding
<1>9. CASE proc[c].row.kind = "idle"
  <2>1. StopTimer(i) /\ monitor' = TRUE /\ Drop(i, c) /\ Finish(c) BY <1>9 DEF Arm
  <2>2. /\ \A q \in Procs \ {c} : proc'[q] = proc[q]
        /\ Sure(c)'
    BY <1>0, <2>1, Rests
  <2>3. \A j \in Inputs \ {i} : \A u : <<j, u>> \in armed => <<j, u>> \in armed'
    BY <1>2, <2>1 DEF StopTimer
  <2>4. \A j \in Inputs : lock'[j] # c /\ lock'[j] \in {lock[j], None} /\ (lock[j] # c => lock'[j] = lock[j])
    BY <1>0, <1>2, <2>1, Drops
  <2>5. Swept' BY <2>1 DEF Swept
  <2>6. ASSUME NEW j \in Inputs, j \notin robbed' PROVE Passes(c, j)
    <3>1. row[j].kind = "time" /\ <<j, row[j].at>> \in armed => <<j, row[j].at>> \in armed'
      <4>1. CASE j # i BY <2>3, <4>1
      <4>2. CASE j = i /\ lock[i] = c BY <1>5, <1>9, <4>2
      <4>3. CASE j = i /\ lock[i] # c BY <1>1, <2>6, <4>3 DEF Robbed
      <4> QED BY <4>1, <4>2, <4>3
    <3>2. Tends(c, j) => SeenTo(j)'
      BY <1>1, <1>9, <2>5 DEF Tends, SeenTo
    <3> QED BY <1>1, <1>6, <2>5, <3>1, <3>2 DEF Passes
  <2> QED BY <1>0, <1>1, <1>4, <1>7, <2>2, <2>4, <2>6, RowsRest
<1> QED BY <1>2, <1>8, <1>9

LEMMA RegisteredKept ==
  ASSUME KInv, IInv', NEW c \in Clients, Registered(c)
  PROVE  KInv'
<1>0. TypeInv /\ c \in Procs /\ c # Sweep BY ScheduleAssumption DEF KInv, IInv, Procs
<1>1. /\ UNCHANGED <<row, armed, robbed, unmarked, rewake, monitor>> /\ proc[c].pc = "register"
      /\ Drop(proc[c].i, c) /\ Finish(c)
  BY DEF Registered, Register
<1>2. proc[c].i \in Inputs BY <1>0, <1>1, ProcParts DEF Free
<1>3. (\A q \in Procs \ {c} : proc'[q] = proc[q]) /\ Sure(c)' BY <1>0, <1>1, Rests
<1>4. \A j \in Inputs : lock'[j] # c /\ lock'[j] \in {lock[j], None} /\ (lock[j] # c => lock'[j] = lock[j])
  BY <1>0, <1>1, <1>2, Drops
<1>5. Swept => Swept' BY <1>0, <1>1, <1>3, SweepLasts
<1>6. ASSUME NEW j \in Inputs PROVE Passes(c, j)
  BY <1>0, <1>1, <1>5, HandsOff DEF Passes, Minding
<1> QED BY <1>0, <1>1, <1>3, <1>4, <1>6, RowsRest DEF SameRow

LEMMA UpdateKept ==
  ASSUME KInv, IInv', NEW c \in Clients, NEW i \in Inputs, NEW kind, NEW at, NEW dep,
         Update(c, i, kind, at, dep)
  PROVE  KInv'
<1>0. TypeInv /\ c \in Procs /\ c # Sweep BY ScheduleAssumption DEF KInv, IInv, Procs
<1>1. UNCHANGED <<row, armed, robbed, unmarked, rewake, monitor>> /\ proc[c].pc = "idle" /\ Take(i, c)
  BY DEF Update, timerVars
<1>2. /\ \A q \in Procs \ {c} : proc'[q] = proc[q]
      /\ proc'[c].pc = "write" /\ proc'[c].i = i /\ proc'[c].wakes = {}
  BY <1>0 DEF Update, Rest, TypeInv
<1>3. Sure(c)' BY <1>2 DEF Sure, Stores, Removes, Clean
<1>4. lock[i] = None /\ lock'[i] = c /\ \A j \in Inputs \ {i} : lock'[j] = lock[j] /\ lock[j] # c
  BY <1>0, <1>1, TakeTypes, NoLock DEF Holding, Dispatching
<1>5. Swept => Swept' BY <1>0, <1>1, <1>2, SweepLasts
<1>6. ASSUME NEW j \in Inputs PROVE Passes(c, j)
  BY <1>0, <1>1, <1>5, HandsOff DEF Passes, Minding
<1> QED BY <1>0, <1>1, <1>2, <1>3, <1>4, <1>6, RowsRest DEF SameRow, Holding

LEMMA WriteUpdateKept ==
  ASSUME KInv, IInv', NEW c \in Clients, WriteUpdate(c)
  PROVE  KInv'
<1> DEFINE i == proc[c].i
<1>0. TypeInv /\ c \in Procs /\ c # Sweep /\ c # None BY ScheduleAssumption DEF KInv, IInv, Procs
<1>1. UNCHANGED <<armed, robbed, unmarked, rewake, monitor>> /\ proc[c].pc = "write"
  BY DEF WriteUpdate, timerVars
<1>2. /\ i \in Inputs /\ lock[i] = c /\ row[i].status # "none"
      /\ proc[c].row \in GoodRow /\ proc[c].row.status = "scheduled"
  BY <1>0, <1>1, ProcParts DEF KInv, IInv, Fit, Holds, Free, Storing
<1>3. proc[c].wakes = {} BY <1>0, <1>1 DEF KInv, Sure, Clean
<1>4. ASSUME NEW j \in Inputs PROVE ~ Wakes(c, j) /\ (Tends(c, j) => j = i)
  BY <1>1, <1>3 DEF Wakes, Tends
<1>5. CASE Write(i, proc[c].row) /\ Go(c, "arm") /\ UNCHANGED lock
  <2>1. row'[i] = proc[c].row /\ \A j \in Inputs \ {i} : row'[j] = row[j]
    BY <1>0, <1>2, <1>5, WriteTypes
  <2>2. /\ \A q \in Procs \ {c} : proc'[q] = proc[q]
        /\ proc'[c].pc = "arm" /\ proc'[c].i = i /\ proc'[c].row = proc[c].row
        /\ proc'[c].wakes = {}
    BY <1>0, <1>3, <1>5, Moves
  <2>3. \A j \in Inputs : lock'[j] = lock[j] /\ (lock[j] = c => j = i)
    BY <1>0, <1>5 DEF KInv, Owned
  <2> HIDE DEF i
  <2>4. Aside(c) BY <1>2, <2>1, <2>2, <2>3 DEF Aside
  <2>5. Sure(c)' BY <1>2, <2>1, <2>2 DEF Sure, Stores, Removes, Clean
  <2>6. ASSUME NEW j \in Inputs PROVE Kept(j)'
    <3>1. CASE j = i
      <4>1. Tends(c, j)' BY <2>1, <2>2, <3>1 DEF Tends
      <4> QED BY <1>0, <4>1 DEF Kept, SeenTo
    <3>2. CASE j # i
      <4>1. SameRow(j) /\ Kept(j) BY <2>1, <3>2 DEF SameRow, KInv
      <4>2. row[j].dep # None /\ row'[row[j].dep].status = "dispatched" =>
              row[row[j].dep].status = "dispatched"
        BY <1>0, <1>2, <2>1, RowParts
      <4>3. Swept => Swept' BY <1>0, <1>1, <2>2, SweepLasts
      <4>4. Passes(c, j) BY <1>1, <1>4, <3>2, <4>3 DEF Passes
      <4> QED BY <1>0, <1>1, <2>2, <4>1, <4>2, <4>4, StaysKept
    <3> QED BY <3>1, <3>2
  <2> QED BY <1>0, <2>2, <2>3, <2>4, <2>5, <2>6, Onward DEF Holding
<1>6. CASE row[i].status \notin Open /\ Drop(i, c) /\ Finish(c) /\ UNCHANGED row
  <2>1. (\A q \in Procs \ {c} : proc'[q] = proc[q]) /\ Sure(c)' BY <1>0, <1>6, Rests
  <2>2. \A j \in Inputs : lock'[j] # c /\ lock'[j] \in {lock[j], None} /\ (lock[j] # c => lock'[j] = lock[j])
    BY <1>0, <1>2, <1>6, Drops
  <2>3. Swept => Swept' BY <1>0, <1>1, <2>1, SweepLasts
  <2>4. ASSUME NEW j \in Inputs, row[j].status = "scheduled" PROVE Passes(c, j)
    <3>1. j # i BY <1>6, <2>4 DEF Open
    <3> HIDE DEF i
    <3> QED BY <1>1, <1>4, <2>3, <3>1 DEF Passes
  <2> QED BY <1>0, <1>1, <1>6, <2>1, <2>2, <2>4, RowsRest DEF SameRow
<1> QED BY <1>5, <1>6 DEF WriteUpdate

LEMMA DispatchNowKept ==
  ASSUME KInv, IInv', NEW c \in Clients, NEW i \in Inputs, NEW bypass, DispatchNow(c, i, bypass)
  PROVE  KInv'
<1>0. TypeInv /\ c \in Procs /\ c # Sweep /\ c # None BY ScheduleAssumption DEF KInv, IInv, Procs
<1>1. /\ UNCHANGED <<robbed, unmarked, rewake, monitor>> /\ proc[c].pc = "idle" /\ Take(i, c)
      /\ StopTimer(i)
  BY DEF DispatchNow, CancelTimer
<1>2. /\ \A q \in Procs \ {c} : proc'[q] = proc[q]
      /\ proc'[c].pc = "check" /\ proc'[c].i = i /\ proc'[c].wakes = {}
  BY <1>0 DEF DispatchNow, Rest, TypeInv
<1>3. \A j \in Inputs \ {i} : \A t : <<j, t>> \in armed => <<j, t>> \in armed' BY <1>1 DEF StopTimer
<1>4. lock[i] = None /\ lock'[i] = c /\ \A j \in Inputs \ {i} : lock'[j] = lock[j] /\ lock[j] # c
  BY <1>0, <1>1, TakeTypes, NoLock DEF Holding, Dispatching
<1>5. /\ row'[i].status = row[i].status
      /\ \A j \in Inputs \ {i} : row'[j] = row[j]
  <2>1. row \in [Inputs -> GoodRow] /\ row[i] \in GoodRow BY <1>0 DEF TypeInv
  <2>2. UNCHANGED row \/ Write(i, [row[i] EXCEPT !.dep = None]) BY DEF DispatchNow
  <2> QED BY <2>1, <2>2 DEF Write, GoodRow, Row
<1>6. Aside(c) BY <1>2, <1>4, <1>5 DEF Aside
<1>7. Sure(c)' BY <1>2 DEF Sure, Stores, Removes, Clean
<1>8. ASSUME NEW j \in Inputs PROVE Kept(j)'
  <2>1. CASE j = i
    <3>1. Tends(c, j)' BY <1>2, <2>1 DEF Tends
    <3> QED BY <1>0, <3>1 DEF Kept, SeenTo
  <2>2. CASE j # i
    <3>1. SameRow(j) /\ Kept(j) BY <1>5, <2>2 DEF SameRow, KInv
    <3>2. row[j].dep # None /\ row'[row[j].dep].status = "dispatched" =>
            row[row[j].dep].status = "dispatched"
      BY <1>0, <1>5, RowParts
    <3>3. Swept => Swept' BY <1>0, <1>1, <1>2, SweepLasts
    <3>4. Passes(c, j) BY <1>0, <1>1, <1>3, <2>2, <3>3, HandsOff DEF Passes, Minding
    <3> QED BY <1>0, <1>1, <1>2, <3>1, <3>2, <3>4, StaysKept
  <2> QED BY <2>1, <2>2
<1> QED BY <1>0, <1>2, <1>4, <1>6, <1>7, <1>8, Onward DEF Holding, Dispatching

LEMMA RemoveKept ==
  ASSUME KInv, IInv', NEW c \in Clients, NEW i \in Inputs, Remove(c, i)
  PROVE  KInv'
<1>0. TypeInv /\ c \in Procs /\ c # Sweep /\ c # None BY ScheduleAssumption DEF KInv, IInv, Procs
<1>1. /\ UNCHANGED <<armed, robbed, unmarked, rewake, monitor>> /\ proc[c].pc = "idle" /\ Take(i, c)
      /\ row[i].status \in Open /\ Status(i, "refused")
  BY DEF Remove, timerVars
<1>2. /\ \A q \in Procs \ {c} : proc'[q] = proc[q]
      /\ proc'[c].pc = "removed" /\ proc'[c].i = i /\ proc'[c].wakes = {}
  BY <1>0 DEF Remove, Rest, TypeInv
<1>3. lock[i] = None /\ lock'[i] = c /\ \A j \in Inputs \ {i} : lock'[j] = lock[j] /\ lock[j] # c
  BY <1>0, <1>1, TakeTypes, NoLock DEF Holding, Dispatching
<1>4. row'[i].status = "refused" /\ \A j \in Inputs \ {i} : row'[j] = row[j]
  BY <1>0, <1>1, StatusTypes DEF Open, Statuses, Stored
<1>5. Aside(c) BY <1>2, <1>3, <1>4 DEF Aside
<1>6. Sure(c)' BY <1>2, <1>3, <1>4 DEF Sure, Stores, Removes, Clean, Open
<1>7. ASSUME NEW j \in Inputs PROVE Kept(j)'
  <2>1. CASE j = i BY <1>4, <2>1 DEF Kept
  <2>2. CASE j # i
    <3>1. SameRow(j) /\ Kept(j) BY <1>4, <2>2 DEF SameRow, KInv
    <3>2. row[j].dep # None /\ row'[row[j].dep].status = "dispatched" =>
            row[row[j].dep].status = "dispatched"
      BY <1>0, <1>4, RowParts
    <3>3. Swept => Swept' BY <1>0, <1>1, <1>2, SweepLasts
    <3>4. Passes(c, j) BY <1>0, <1>1, <3>3, HandsOff DEF Passes, Minding
    <3> QED BY <1>0, <1>1, <1>2, <3>1, <3>2, <3>4, StaysKept
  <2> QED BY <2>1, <2>2
<1> QED BY <1>0, <1>2, <1>3, <1>5, <1>6, <1>7, Onward DEF Holding

LEMMA RemovedKept ==
  ASSUME KInv, IInv', NEW c \in Clients, Removed(c)
  PROVE  KInv'
<1> DEFINE i == proc[c].i
<1>0. TypeInv /\ c \in Procs /\ c # Sweep BY ScheduleAssumption DEF KInv, IInv, Procs
<1>1. /\ UNCHANGED <<row, robbed, unmarked, rewake, monitor>> /\ proc[c].pc = "removed"
      /\ StopTimer(i) /\ Drop(i, c) /\ Finish(c)
  BY DEF Removed, CancelTimer
<1>2. i \in Inputs /\ row[i].status \notin Open
  BY <1>0, <1>1, ProcParts DEF Free, KInv, Sure, Removes
<1>3. (\A q \in Procs \ {c} : proc'[q] = proc[q]) /\ Sure(c)' BY <1>0, <1>1, Rests
<1>4. \A j \in Inputs : lock'[j] # c /\ lock'[j] \in {lock[j], None} /\ (lock[j] # c => lock'[j] = lock[j])
  BY <1>0, <1>1, <1>2, Drops
<1>5. \A j \in Inputs \ {i} : \A t : <<j, t>> \in armed => <<j, t>> \in armed' BY <1>1 DEF StopTimer
<1>6. Swept => Swept' BY <1>0, <1>1, <1>3, SweepLasts
<1> HIDE DEF i
<1>7. ASSUME NEW j \in Inputs, row[j].status = "scheduled" PROVE Passes(c, j)
  <2>1. j # i BY <1>2, <1>7 DEF Open
  <2> QED BY <1>0, <1>1, <1>5, <1>6, <2>1, HandsOff DEF Passes, Minding
<1> QED BY <1>0, <1>1, <1>3, <1>4, <1>7, RowsRest DEF SameRow

LEMMA ArchiveKept ==
  ASSUME KInv, IInv', NEW c \in Clients, Archive(c)
  PROVE  KInv'
<1>0. TypeInv /\ c \in Procs /\ c # Sweep BY ScheduleAssumption DEF KInv, IInv, Procs
<1>1. UNCHANGED <<row, lock, armed, robbed, unmarked, rewake, monitor>> /\ proc[c].pc = "idle" /\ Go(c, "archive")
  BY DEF Archive, timerVars
<1>2. proc[c].wakes = {} BY <1>0, <1>1 DEF KInv, Sure, Clean
<1>3. /\ \A q \in Procs \ {c} : proc'[q] = proc[q]
      /\ proc'[c].pc = "archive" /\ proc'[c].wakes = {}
  BY <1>0, <1>1, <1>2, Moves
<1>4. Sure(c)' BY <1>3 DEF Sure, Stores, Removes, Clean
<1>5. \A j \in Inputs : lock'[j] # c BY <1>0, <1>1, NoLock DEF Holding, Dispatching
<1>6. Swept => Swept' BY <1>0, <1>1, <1>3, SweepLasts
<1>7. ASSUME NEW j \in Inputs PROVE Passes(c, j)
  BY <1>0, <1>1, <1>6, HandsOff DEF Passes, Minding
<1> QED BY <1>0, <1>1, <1>3, <1>4, <1>5, <1>7, RowsRest DEF SameRow

LEMMA CancelActiveKept ==
  ASSUME KInv, IInv', NEW c \in Clients, CancelActive(c)
  PROVE  KInv'
<1>0. TypeInv /\ c \in Procs /\ c # Sweep BY ScheduleAssumption DEF KInv, IInv, Procs
<1>1. UNCHANGED <<lock, robbed, unmarked>> /\ proc[c].pc = "archive" /\ Go(c, "cancelTimers")
  BY DEF CancelActive, timerVars
<1>2. proc[c].wakes = {} BY <1>0, <1>1 DEF KInv, Sure, Clean
<1>3. /\ \A q \in Procs \ {c} : proc'[q] = proc[q]
      /\ proc'[c].pc = "cancelTimers" /\ proc'[c].wakes = {}
  BY <1>0, <1>1, <1>2, Moves
<1>4. Sure(c)' BY <1>3 DEF Sure, Stores, Removes, Clean
<1>5. \A j \in Inputs : lock'[j] # c BY <1>0, <1>1, NoLock DEF Holding, Dispatching
<1>6. \A j \in Inputs :
        /\ row'[j].kind = row[j].kind /\ row'[j].at = row[j].at
        /\ row'[j].status = IF row[j].status \in Open THEN "refused" ELSE row[j].status
  <2>1. ASSUME NEW j \in Inputs
        PROVE  /\ row'[j].kind = row[j].kind /\ row'[j].at = row[j].at
               /\ row'[j].status = IF row[j].status \in Open THEN "refused" ELSE row[j].status
    <3>1. row[j] \in GoodRow BY <1>0 DEF TypeInv
    <3>2. row'[j] = IF row[j].status \in Open THEN [row[j] EXCEPT !.status = "refused"] ELSE row[j]
      BY DEF CancelActive
    <3> QED BY <3>1, <3>2 DEF GoodRow, Row
  <2> QED BY <2>1
<1>7. Aside(c) BY <1>1, <1>3, <1>6 DEF Aside, Open
<1>8. \A j \in Inputs : Kept(j)' BY <1>6 DEF Kept, Open
<1> QED BY <1>0, <1>4, <1>5, <1>7, <1>8, Onward

LEMMA CancelTimersKept ==
  ASSUME KInv, IInv', NEW c \in Clients, CancelTimers(c)
  PROVE  KInv'
<1>0. TypeInv /\ c \in Procs /\ c # Sweep BY ScheduleAssumption DEF KInv, IInv, Procs
<1>1. /\ UNCHANGED <<row, lock, unmarked, rewake, monitor>> /\ proc[c].pc = "cancelTimers"
      /\ Finish(c) /\ Robbed(armed \ armed')
  BY DEF CancelTimers
<1>2. (\A q \in Procs \ {c} : proc'[q] = proc[q]) /\ Sure(c)' BY <1>0, <1>1, Rests
<1>3. \A j \in Inputs : lock'[j] # c BY <1>0, <1>1, NoLock DEF Holding, Dispatching
<1>4. Swept => Swept' BY <1>0, <1>1, <1>2, SweepLasts
<1>5. /\ robbed \subseteq robbed'
      /\ \A j \in Inputs : <<j, row[j].at>> \in armed => <<j, row[j].at>> \in armed' \/ j \in robbed'
  BY <1>1 DEF Robbed
<1>6. ASSUME NEW j \in Inputs, j \notin robbed' PROVE Passes(c, j)
  BY <1>0, <1>1, <1>4, <1>5, <1>6, HandsOff DEF Passes, Minding
<1> QED BY <1>0, <1>1, <1>2, <1>3, <1>5, <1>6, RowsRest DEF SameRow

-----------------------------------------------------------------------------
(* The clock, the project, and restarts.                                    *)

\* A step of nobody that leaves the rows, the timers and the monitor alone.
LEMMA NobodyKept ==
  ASSUME KInv, IInv', UNCHANGED <<armed, robbed, monitor, lock, proc, rewake, unmarked>>,
         \A j \in Inputs : SameRow(j)
  PROVE  KInv'
<1>1. Swept => Swept' BY DEF Swept
<1>2. None \notin Procs BY ScheduleAssumption
<1>3. ASSUME NEW j \in Inputs PROVE Passes(None, j) BY <1>1, <1>2 DEF Passes
<1> QED BY <1>3, RowsRest

LEMMA UnarchiveKept == ASSUME KInv, IInv', NEW c \in Clients, Unarchive(c) PROVE KInv'
BY NobodyKept DEF Unarchive, timerVars, SameRow

LEMMA TickKept == ASSUME KInv, IInv', Tick PROVE KInv'
BY NobodyKept DEF Tick, timerVars, SameRow

LEMMA BusyKept == ASSUME KInv, IInv', Busy PROVE KInv'
BY NobodyKept DEF Busy, timerVars, SameRow

LEMMA StabilizeKept ==
  ASSUME KInv, IInv', NEW i \in Inputs, Stabilize(i)
  PROVE  KInv'
<1>1. row \in [Inputs -> GoodRow] /\ row[i] \in GoodRow BY DEF KInv, IInv, TypeInv
<1>2. UNCHANGED <<armed, robbed, monitor, lock, proc, rewake, unmarked>>
      /\ Write(i, [row[i] EXCEPT !.idle = "stable"])
  BY DEF Stabilize, timerVars
<1>3. \A j \in Inputs : SameRow(j) BY <1>1, <1>2 DEF SameRow, Write, GoodRow, Row
<1> QED BY <1>2, <1>3, NobodyKept

\* After a restart every row that waits in an open session has its timer, or a sweep.
LEMMA CrashKept == ASSUME KInv, IInv', Crash PROVE KInv'
<1>0. TypeInv BY DEF KInv, IInv
<1>1. /\ proc' = [p \in Procs |-> Rest] /\ lock' = [i \in Inputs |-> None] /\ UNCHANGED archived
      /\ robbed' = robbed \cup {i \in Inputs : row[i].status = "scheduled" /\ archived}
  BY DEF Crash
<1>2. \A j \in Inputs : Owned(j)' BY <1>1 DEF Owned
<1>3. \A p \in Procs : Sure(p)'
  <2>1. \A p \in Procs : proc'[p].pc = "idle" /\ proc'[p].wakes = {} BY <1>1 DEF Rest
  <2> QED BY <2>1 DEF Sure, Stores, Removes, Clean
<1>4. ASSUME NEW i \in Inputs PROVE Kept(i)'
  <2> DEFINE idle == {j \in Inputs : Waiting(j) /\ row[j].kind = "idle"}
             timed == {j \in Inputs : Waiting(j) /\ row[j].kind = "time"}
  <2>1. row[i] \in GoodRow BY <1>0 DEF TypeInv
  <2>2. /\ row' = [j \in Inputs |-> IF j \in idle THEN [row[j] EXCEPT !.idle = "no"] ELSE row[j]]
        /\ monitor' = (idle # {})
        /\ armed' = {<<j, row[j].at>> : j \in timed}
    BY DEF Crash, Recover
  <2>3. row'[i].status = row[i].status /\ row'[i].kind = row[i].kind /\ row'[i].at = row[i].at
    <3>1. row'[i] = IF i \in idle THEN [row[i] EXCEPT !.idle = "no"] ELSE row[i] BY <2>2
    <3> HIDE DEF idle
    <3> QED BY <2>1, <3>1 DEF GoodRow, Row
  <2>4. SUFFICES ASSUME i \notin robbed', row[i].status = "scheduled" PROVE SeenTo(i)'
    BY <2>3 DEF Kept
  <2>5. Waiting(i) BY <1>1, <2>4 DEF Waiting
  <2>6. CASE row[i].kind = "idle"
    <3>1. monitor' BY <2>2, <2>5, <2>6
    <3> QED BY <2>3, <2>6, <3>1 DEF SeenTo, Swept
  <2>7. CASE row[i].kind = "time"
    <3>1. <<i, row[i].at>> \in armed' BY <2>2, <2>5, <2>7
    <3>2. <<i, row'[i].at>> \in armed' BY <2>3, <3>1
    <3> QED BY <2>3, <2>7, <3>2 DEF SeenTo, Timed
  <2> QED BY <2>1, <2>6, <2>7 DEF GoodRow, Row
<1> QED BY <1>2, <1>3, <1>4 DEF KInv

-----------------------------------------------------------------------------
(* Timers.                                                                  *)

LEMMA FireKept ==
  ASSUME KInv, IInv', NEW k \in Callbacks, NEW i \in Inputs, NEW t \in 1..MaxTime, Fire(k, i, t)
  PROVE  KInv'
<1>0. TypeInv /\ k \in Procs /\ k # Sweep BY ScheduleAssumption DEF KInv, IInv, Procs
<1>1. /\ UNCHANGED <<row, lock, robbed, unmarked, rewake, monitor>> /\ proc[k].pc = "idle"
      /\ armed' = armed \ {<<i, t>>}
  BY DEF Fire
<1>2. /\ \A q \in Procs \ {k} : proc'[q] = proc[q]
      /\ proc'[k].pc = "fired" /\ proc'[k].i = i /\ proc'[k].row.at = t /\ proc'[k].wakes = {}
  BY <1>0 DEF Fire, Rest, NoRow, TypeInv
<1>3. Sure(k)' BY <1>2 DEF Sure, Stores, Removes, Clean
<1>4. \A j \in Inputs : lock'[j] # k BY <1>0, <1>1, NoLock DEF Holding, Dispatching
<1>5. Swept => Swept' BY <1>0, <1>1, <1>2, SweepLasts
<1>6. ASSUME NEW j \in Inputs PROVE Passes(k, j)
  <2>1. ASSUME row[j].kind = "time", <<j, row[j].at>> \in armed, <<j, row[j].at>> \notin armed'
        PROVE  SeenTo(j)'
    <3>1. j = i /\ row[j].at = t BY <1>1, <2>1
    <3>2. Wakes(k, j)' BY <1>1, <1>2, <3>1 DEF Wakes
    <3> QED BY <1>0, <1>1, <2>1, <3>2 DEF SeenTo, Timed
  <2> QED BY <1>0, <1>1, <1>5, <2>1, HandsOff DEF Passes, Minding
<1> QED BY <1>0, <1>1, <1>2, <1>3, <1>4, <1>6, RowsRest DEF SameRow

LEMMA FiredKept == ASSUME KInv, IInv', NEW k \in Callbacks, Fired(k) PROVE KInv'
<1>0. TypeInv /\ k \in Procs /\ k # Sweep BY ScheduleAssumption DEF KInv, IInv, Procs
<1>1. /\ UNCHANGED <<row, lock, unmarked, rewake, monitor>> /\ proc[k].pc = "fired"
      /\ Go(k, "execute") /\ Robbed(armed \ armed')
  BY DEF Fired
<1>2. proc[k].wakes = {} BY <1>0, <1>1 DEF KInv, Sure, Clean
<1>3. /\ \A q \in Procs \ {k} : proc'[q] = proc[q]
      /\ proc'[k].pc = "execute" /\ proc'[k].i = proc[k].i /\ proc'[k].row = proc[k].row
      /\ proc'[k].wakes = {}
  BY <1>0, <1>1, <1>2, Moves
<1>4. Sure(k)' BY <1>3 DEF Sure, Stores, Removes, Clean
<1>5. \A j \in Inputs : lock'[j] # k BY <1>0, <1>1, NoLock DEF Holding, Dispatching
<1>6. Swept => Swept' BY <1>0, <1>1, <1>3, SweepLasts
<1>7. /\ robbed \subseteq robbed'
      /\ \A j \in Inputs : <<j, row[j].at>> \in armed => <<j, row[j].at>> \in armed' \/ j \in robbed'
  BY <1>1 DEF Robbed
<1>8. ASSUME NEW j \in Inputs, j \notin robbed' PROVE Passes(k, j)
  <2>1. ~ Tends(k, j) BY <1>1 DEF Tends
  <2>2. ASSUME row[j].kind = "time", Wakes(k, j) PROVE SeenTo(j)'
    <3>1. Wakes(k, j)' BY <1>1, <1>2, <1>3, <2>2 DEF Wakes
    <3> QED BY <1>0, <1>1, <2>2, <3>1 DEF SeenTo, Timed
  <2> QED BY <1>1, <1>6, <1>7, <1>8, <2>1, <2>2 DEF Passes
<1> QED BY <1>0, <1>1, <1>3, <1>4, <1>5, <1>7, <1>8, RowsRest DEF SameRow

\* A callback that turns back did so for a row that is not due, or not at its time.
LEMMA ExecuteKept == ASSUME KInv, IInv', NEW k \in Callbacks, Execute(k) PROVE KInv'
<1> DEFINE i == proc[k].i
           mine == /\ row[i].status = "scheduled" /\ row[i].kind = "time"
                   /\ row[i].at = proc[k].row.at /\ Satisfied(row[i].dep)
<1>0. TypeInv /\ k \in Procs /\ k # Sweep BY ScheduleAssumption DEF KInv, IInv, Procs
<1>1. UNCHANGED <<row, armed, robbed, unmarked, rewake, monitor>> /\ proc[k].pc = "execute"
  BY DEF Execute, timerVars
<1>2. proc[k].wakes = {} BY <1>0, <1>1 DEF KInv, Sure, Clean
<1>3. i \in Inputs BY <1>0, <1>1, ProcParts DEF Free
<1>4. \A j \in Inputs : lock[j] # k BY <1>0, <1>1, NoLock DEF Holding, Dispatching
<1>5. \A j \in Inputs : SameRow(j) BY <1>1 DEF SameRow
<1>6. ASSUME NEW j \in Inputs
      PROVE  ~ Tends(k, j) /\ (Wakes(k, j) => j = i /\ row[j].at = proc[k].row.at)
  BY <1>1, <1>2 DEF Tends, Wakes
<1>7. CASE Take(i, k) /\ Go(k, "check")
  <2>1. /\ \A q \in Procs \ {k} : proc'[q] = proc[q]
        /\ proc'[k].pc = "check" /\ proc'[k].i = i /\ proc'[k].wakes = {}
    BY <1>0, <1>2, <1>7, Moves
  <2>2. Sure(k)' BY <2>1 DEF Sure, Stores, Removes, Clean
  <2>3. lock[i] = None /\ lock'[i] = k /\ \A j \in Inputs \ {i} : lock'[j] = lock[j]
    BY <1>0, <1>3, <1>7, TakeTypes
  <2>4. Swept => Swept' BY <1>0, <1>1, <2>1, SweepLasts
  <2>5. ASSUME NEW j \in Inputs PROVE Passes(k, j)
    <3>1. ASSUME Wakes(k, j) PROVE SeenTo(j)'
      <4>1. Tends(k, j)' BY <1>6, <2>1, <3>1 DEF Tends
      <4> QED BY <1>0, <4>1 DEF SeenTo
    <3> QED BY <1>1, <1>6, <2>4, <3>1 DEF Passes
  <2> HIDE DEF i
  <2>6. \A j \in Inputs : /\ lock'[j] \in {lock[j], k, None}
                          /\ lock[j] \notin {k, None} => lock'[j] = lock[j]
                          /\ lock'[j] = k => proc'[k].i = j /\ proc'[k].pc \in Holding
    BY <1>4, <2>1, <2>3 DEF Holding, Dispatching
  <2> QED BY <1>0, <1>1, <1>5, <2>1, <2>2, <2>5, <2>6, RowsRest
<1>8. CASE ~ mine /\ Finish(k) /\ UNCHANGED lock
  <2>1. (\A q \in Procs \ {k} : proc'[q] = proc[q]) /\ Sure(k)' BY <1>0, <1>8, Rests
  <2>2. Swept => Swept' BY <1>0, <1>1, <2>1, SweepLasts
  <2>3. ASSUME NEW j \in Inputs, row[j].status = "scheduled" PROVE Passes(k, j)
    <3>1. ASSUME row[j].kind = "time", Wakes(k, j) PROVE SeenTo(j)'
      <4>1. ~ Satisfied(row[j].dep) BY <1>6, <1>8, <2>3, <3>1
      <4>2. ~ Satisfied(row[j].dep)' BY <1>1, <4>1 DEF Satisfied
      <4> QED BY <1>1, <3>1, <4>2 DEF SeenTo
    <3> QED BY <1>1, <1>6, <2>2, <3>1 DEF Passes
  <2> QED BY <1>0, <1>1, <1>4, <1>5, <1>8, <2>1, <2>3, RowsRest
<1> QED BY <1>7, <1>8 DEF Execute

-----------------------------------------------------------------------------
(* Dispatching.                                                             *)

LEMMA DecidedKept ==
  ASSUME KInv, IInv', NEW p \in Procs, NEW s \in {"refused", "deleted", "failed"},
         proc[p].pc \in {"check", "call"}, Status(proc[p].i, s), Drop(proc[p].i, p), Finish(p),
         UNCHANGED <<robbed, monitor, rewake, unmarked>>,
         UNCHANGED armed \/ StopTimer(proc[p].i)
  PROVE  KInv'
<1> DEFINE i == proc[p].i
<1>0. TypeInv /\ p # None BY ScheduleAssumption DEF KInv, IInv
<1>1. i \in Inputs /\ lock[i] = p /\ row[i].status # "none"
  BY <1>0, ProcParts DEF KInv, IInv, Fit, Holds, Free
<1>2. row'[i].status = s /\ \A j \in Inputs \ {i} : row'[j] = row[j]
  BY <1>0, <1>1, StatusTypes DEF Statuses, Stored
<1>3. /\ \A q \in Procs \ {p} : proc'[q] = proc[q]
      /\ proc'[p].pc = IF p = Sweep THEN "sweep" ELSE "idle"
      /\ Sure(p)'
  BY <1>0, Rests
<1>4. \A j \in Inputs : lock'[j] # p /\ lock'[j] \in {lock[j], None} /\ (lock[j] # p => lock'[j] = lock[j])
  BY <1>0, <1>1, Drops
<1>5. \A j \in Inputs : lock[j] = p => j = i BY <1>0 DEF KInv, Owned
<1>6. \A j \in Inputs \ {i} : \A t : <<j, t>> \in armed => <<j, t>> \in armed' BY DEF StopTimer
<1>7. proc[p].wakes = {} BY <1>0 DEF KInv, Sure, Clean
<1>8. \A j \in Inputs \ {i} : ~ Tends(p, j) /\ ~ Wakes(p, j) BY <1>7 DEF Tends, Wakes
<1>9. Swept => Swept' BY <1>3, SweepLasts
<1> HIDE DEF i
<1>10. Aside(p) BY <1>1, <1>2, <1>3, <1>4 DEF Aside
<1>11. ASSUME NEW j \in Inputs PROVE Kept(j)'
  <2>1. CASE j = i BY <1>2, <2>1 DEF Kept
  <2>2. CASE j # i
    <3>1. SameRow(j) /\ Kept(j) BY <1>2, <2>2 DEF SameRow, KInv
    <3>2. row[j].dep # None /\ row'[row[j].dep].status = "dispatched" =>
            row[row[j].dep].status = "dispatched"
      BY <1>0, <1>2, RowParts
    <3>3. Passes(p, j) BY <1>6, <1>8, <1>9, <2>2 DEF Passes
    <3> QED BY <1>0, <1>3, <3>1, <3>2, <3>3, StaysKept
  <2> QED BY <2>1, <2>2
<1> QED BY <1>3, <1>4, <1>10, <1>11, Onward

LEMMA CheckKept == ASSUME KInv, IInv', NEW p \in Procs, Check(p) PROVE KInv'
<1> DEFINE i == proc[p].i
<1>0. TypeInv /\ p # None BY ScheduleAssumption DEF KInv, IInv
<1>1. proc[p].pc = "check" /\ UNCHANGED <<monitor, rewake, unmarked>> BY DEF Check
<1>2. CASE Status(i, "refused") /\ Drop(i, p) /\ Finish(p) /\ UNCHANGED timerVars
  BY <1>1, <1>2, DecidedKept DEF timerVars
<1>3. CASE Fail("session") /\ Status(i, "deleted") /\ CancelTimer(i) /\ Drop(i, p) /\ Finish(p)
  BY <1>1, <1>3, DecidedKept DEF CancelTimer
<1>4. CASE Go(p, "call") /\ UNCHANGED <<row, timerVars, lock, bounds>>
  <2>1. proc[p].wakes = {} BY <1>0, <1>1 DEF KInv, Sure, Clean
  <2>2. /\ \A q \in Procs \ {p} : proc'[q] = proc[q]
        /\ proc'[p].pc = "call" /\ proc'[p].i = i /\ proc'[p].wakes = {}
    BY <1>0, <1>4, <2>1, Moves
  <2>3. Sure(p)' BY <2>2 DEF Sure, Stores, Removes, Clean
  <2>4. \A j \in Inputs : lock'[j] = lock[j] /\ (lock[j] = p => j = i)
    BY <1>0, <1>4 DEF KInv, Owned
  <2>5. Swept => Swept' BY <1>1, <2>2, SweepLasts
  <2>6. ASSUME NEW j \in Inputs PROVE Passes(p, j)
    <3>1. ~ Wakes(p, j) BY <1>1, <2>1 DEF Wakes
    <3>2. ASSUME Tends(p, j) PROVE SeenTo(j)'
      <4>1. Tends(p, j)' BY <1>1, <2>2, <3>2 DEF Tends
      <4> QED BY <4>1 DEF SeenTo
    <3> QED BY <1>1, <1>4, <2>5, <3>1, <3>2 DEF Passes, timerVars
  <2> HIDE DEF i
  <2> QED BY <1>1, <1>4, <2>2, <2>3, <2>4, <2>6, RowsRest DEF SameRow, timerVars, Holding, Dispatching
<1> QED BY <1>2, <1>3, <1>4 DEF Check

LEMMA CallKept == ASSUME KInv, IInv', NEW p \in Procs, Call(p) PROVE KInv'
<1> DEFINE i == proc[p].i
<1>0. TypeInv /\ p # None BY ScheduleAssumption DEF KInv, IInv
<1>1. proc[p].pc = "call" /\ UNCHANGED <<armed, robbed, monitor, rewake, unmarked>>
  BY DEF Call, timerVars
<1>2. CASE Status(i, "refused") /\ Drop(i, p) /\ Finish(p) BY <1>1, <1>2, DecidedKept
<1>3. CASE Status(i, "failed") /\ Drop(i, p) /\ Finish(p) BY <1>1, <1>3, DecidedKept
<1>4. CASE Go(p, "mark") /\ UNCHANGED <<row, lock>>
  <2>1. proc[p].wakes = {} BY <1>0, <1>1 DEF KInv, Sure, Clean
  <2>2. /\ \A q \in Procs \ {p} : proc'[q] = proc[q]
        /\ proc'[p].pc = "mark" /\ proc'[p].i = i /\ proc'[p].wakes = {}
    BY <1>0, <1>4, <2>1, Moves
  <2>3. Sure(p)' BY <2>2 DEF Sure, Stores, Removes, Clean
  <2>4. \A j \in Inputs : lock'[j] = lock[j] /\ (lock[j] = p => j = i)
    BY <1>0, <1>4 DEF KInv, Owned
  <2>5. Swept => Swept' BY <1>1, <2>2, SweepLasts
  <2>6. ASSUME NEW j \in Inputs PROVE Passes(p, j)
    <3>1. ~ Wakes(p, j) BY <1>1, <2>1 DEF Wakes
    <3>2. ASSUME Tends(p, j) PROVE SeenTo(j)'
      <4>1. Tends(p, j)' BY <1>1, <2>2, <3>2 DEF Tends
      <4> QED BY <4>1 DEF SeenTo
    <3> QED BY <1>1, <1>4, <2>5, <3>1, <3>2 DEF Passes
  <2> HIDE DEF i
  <2> QED BY <1>1, <1>4, <2>2, <2>3, <2>4, <2>6, RowsRest DEF SameRow, Holding, Dispatching
<1> QED BY <1>2, <1>3, <1>4 DEF Call

\* The dependents of a dispatched input are left to the one that is about to wake them.
LEMMA MarkKept == ASSUME KInv, IInv', NEW p \in Procs, Mark(p) PROVE KInv'
<1> DEFINE i == proc[p].i
<1>0. TypeInv /\ p # None BY ScheduleAssumption DEF KInv, IInv
<1>1. proc[p].pc = "mark" /\ UNCHANGED <<armed, robbed, monitor, rewake>>
  BY DEF Mark, timerVars
<1>2. i \in Inputs /\ lock[i] = p /\ row[i].status # "none"
  BY <1>0, <1>1, ProcParts DEF KInv, IInv, Fit, Holds, Free
<1>3. proc[p].wakes = {} BY <1>0, <1>1 DEF KInv, Sure, Clean
<1>4. ASSUME NEW j \in Inputs PROVE ~ Wakes(p, j) /\ (Tends(p, j) => j = i)
  BY <1>1, <1>3 DEF Wakes, Tends
<1>5. \A j \in Inputs : lock[j] = p => j = i BY <1>0 DEF KInv, Owned
<1>6. CASE Status(i, "dispatched") /\ Go(p, "wake") /\ UNCHANGED <<lock, unmarked>>
  <2>1. row'[i].status = "dispatched" /\ \A j \in Inputs \ {i} : row'[j] = row[j]
    BY <1>0, <1>2, <1>6, StatusTypes DEF Statuses, Stored
  <2>2. /\ \A q \in Procs \ {p} : proc'[q] = proc[q]
        /\ proc'[p].pc = "wake" /\ proc'[p].i = i /\ proc'[p].wakes = {}
    BY <1>0, <1>3, <1>6, Moves
  <2>3. Sure(p)' BY <2>2 DEF Sure, Stores, Removes, Clean
  <2>4. Swept => Swept' BY <1>1, <2>2, SweepLasts
  <2> HIDE DEF i
  <2>5. Aside(p) BY <1>2, <1>6, <2>1, <2>2 DEF Aside
  <2>6. ASSUME NEW j \in Inputs PROVE Kept(j)'
    <3>1. CASE j = i BY <2>1, <3>1 DEF Kept
    <3>2. CASE j # i
      <4>0. row'[j] = row[j] /\ row[j] \in GoodRow /\ row[j].dep \in Inputs \cup {None}
        BY <1>0, <2>1, <3>2, RowParts
      <4>1. SameRow(j) /\ Kept(j) BY <4>0 DEF SameRow, KInv
      <4>2. Passes(p, j) BY <1>1, <1>4, <2>4, <3>2 DEF Passes
      <4>3. CASE row[j].dep = i /\ row[j].kind = "time"
        <5>1. Wakes(p, j)' BY <2>2, <4>0, <4>3 DEF Wakes
        <5>2. SeenTo(j)' BY <4>0, <4>3, <5>1 DEF SeenTo, Timed
        <5> QED BY <5>2 DEF Kept
      <4>4. CASE row[j].dep # i
        <5>1. row[j].dep # None /\ row'[row[j].dep].status = "dispatched" =>
                row[row[j].dep].status = "dispatched"
          BY <2>1, <4>0, <4>4
        <5> QED BY <1>0, <1>1, <1>6, <2>2, <4>1, <4>2, <5>1, StaysKept
      <4>5. CASE row[j].kind = "idle"
        <5>1. Kept(j)'
          <6> SUFFICES ASSUME j \notin robbed', j \notin unmarked', row'[j].status = "scheduled"
                       PROVE  SeenTo(j)'
            BY DEF Kept
          <6>1. SeenTo(j) BY <1>1, <1>6, <4>0, <4>1 DEF Kept
          <6>2. ASSUME NEW q \in Procs, Tends(q, j) PROVE SeenTo(j)'
            <7>1. q # p BY <1>4, <3>2, <6>2
            <7>2. Tends(q, j)' BY <2>2, <4>0, <6>2, <7>1 DEF Tends
            <7> QED BY <7>2 DEF SeenTo
          <6> QED BY <2>4, <4>0, <4>5, <6>1, <6>2 DEF SeenTo
        <5> QED BY <5>1
      <4> QED BY <4>0, <4>3, <4>4, <4>5 DEF GoodRow, Row
    <3> QED BY <3>1, <3>2
  <2> QED BY <1>0, <1>5, <1>6, <2>2, <2>3, <2>5, <2>6, Onward DEF Holding, Dispatching
<1>7. CASE unmarked' = unmarked \cup {i} /\ Drop(i, p) /\ Finish(p) /\ UNCHANGED row
  <2>1. /\ \A q \in Procs \ {p} : proc'[q] = proc[q]
        /\ proc'[p].pc = IF p = Sweep THEN "sweep" ELSE "idle"
        /\ Sure(p)'
    BY <1>0, <1>7, Rests
  <2>2. \A j \in Inputs : lock'[j] # p /\ lock'[j] \in {lock[j], None} /\ (lock[j] # p => lock'[j] = lock[j])
    BY <1>0, <1>2, <1>7, Drops
  <2>3. Swept => Swept' BY <1>1, <2>1, SweepLasts
  <2>4. ASSUME NEW j \in Inputs, j \notin unmarked' PROVE Passes(p, j)
    <3>1. j # i BY <1>7, <2>4
    <3> HIDE DEF i
    <3> QED BY <1>1, <1>4, <2>3, <3>1 DEF Passes
  <2> QED BY <1>1, <1>7, <2>1, <2>2, <2>4, RowsRest DEF SameRow
<1> QED BY <1>6, <1>7 DEF Mark

\* Every dependent that may go is on the list of timers to set, or its parent on the list
\* of wake-ups to repeat.
LEMMA WakeKept == ASSUME KInv, IInv', NEW p \in Procs, Wake(p) PROVE KInv'
<1> DEFINE i == proc[p].i
           due == {j \in Inputs : row[j].dep = i /\ row[j].status = "scheduled"}
           idle == {j \in due : row[j].kind = "idle"}
           ws == {<<j, row[j].at>> : j \in due \ idle}
<1>0. TypeInv /\ p # None BY ScheduleAssumption DEF KInv, IInv
<1>1. proc[p].pc = "wake" /\ UNCHANGED <<armed, robbed, unmarked>> BY DEF Wake, timerVars
<1>2. i \in Inputs BY <1>0, <1>1, ProcParts DEF Free
<1>3. proc[p].wakes = {} BY <1>0, <1>1 DEF KInv, Sure, Clean
<1>4. ASSUME NEW j \in Inputs PROVE ~ Tends(p, j) /\ (Wakes(p, j) => row[j].dep = i)
  BY <1>1, <1>3 DEF Wakes, Tends
<1>5. \A j \in Inputs : lock[j] = p => j = i BY <1>0 DEF KInv, Owned
<1>6. CASE /\ proc' = [proc EXCEPT ![p].pc = "wakeArm", ![p].wakes = ws]
           /\ row' = [j \in Inputs |-> IF j \in idle THEN [row[j] EXCEPT !.idle = "no"] ELSE row[j]]
           /\ monitor' = (monitor \/ idle # {})
           /\ UNCHANGED <<lock, rewake, bounds>>
  <2>1. /\ \A q \in Procs \ {p} : proc'[q] = proc[q]
        /\ proc'[p].pc = "wakeArm" /\ proc'[p].i = i /\ proc'[p].wakes = ws
    <3>1. proc \in [Procs -> GoodProc] /\ proc[p] \in GoodProc BY <1>0 DEF TypeInv
    <3>2. proc' = [proc EXCEPT ![p].pc = "wakeArm", ![p].wakes = ws] BY <1>6
    <3> HIDE DEF ws
    <3> QED BY <3>1, <3>2 DEF GoodProc
  <2>2. ASSUME NEW j \in Inputs PROVE SameRow(j)
    <3>1. row[j] \in GoodRow BY <1>0 DEF TypeInv
    <3>2. row'[j] = IF j \in idle THEN [row[j] EXCEPT !.idle = "no"] ELSE row[j] BY <1>6
    <3> HIDE DEF idle
    <3> QED BY <3>1, <3>2 DEF SameRow, GoodRow, Row
  <2>3. Sure(p)' BY <2>1 DEF Sure, Stores, Removes, Clean
  <2>4. Swept => Swept' BY <1>6, <2>1, SweepLasts
  <2>5. ASSUME NEW j \in Inputs, row[j].status = "scheduled" PROVE Passes(p, j)
    <3>1. ASSUME row[j].kind = "time", Wakes(p, j) PROVE SeenTo(j)'
      <4>1. j \in due \ idle BY <1>4, <2>5, <3>1
      <4>2. <<j, row[j].at>> \in ws BY <4>1
      <4>3. row'[j].kind = "time" /\ row'[j].at = row[j].at BY <2>2, <3>1 DEF SameRow
      <4>4. Wakes(p, j)' BY <2>1, <4>2, <4>3 DEF Wakes
      <4> QED BY <4>3, <4>4 DEF SeenTo, Timed
    <3> HIDE DEF ws, due, idle
    <3> QED BY <1>1, <1>4, <1>6, <2>4, <3>1 DEF Passes
  <2> HIDE DEF i, ws, due, idle
  <2> QED BY <1>1, <1>5, <1>6, <2>1, <2>2, <2>3, <2>5, RowsRest DEF Holding, Dispatching
<1>7. CASE rewake' = rewake \cup {i} /\ Drop(i, p) /\ Finish(p) /\ UNCHANGED <<row, monitor>>
  <2>1. /\ \A q \in Procs \ {p} : proc'[q] = proc[q]
        /\ proc'[p].pc = IF p = Sweep THEN "sweep" ELSE "idle"
        /\ Sure(p)'
    BY <1>0, <1>7, Rests
  <2>2. \A j \in Inputs : lock'[j] # p /\ lock'[j] \in {lock[j], None} /\ (lock[j] # p => lock'[j] = lock[j])
    BY <1>0, <1>2, <1>7, Drops
  <2>3. Swept => Swept' BY <1>7, <2>1, SweepLasts
  <2>4. ASSUME NEW j \in Inputs PROVE Passes(p, j)
    <3>1. ASSUME row[j].kind = "time", Wakes(p, j) PROVE SeenTo(j)'
      BY <1>4, <1>7, <3>1 DEF SeenTo, Timed
    <3> HIDE DEF i
    <3> QED BY <1>1, <1>4, <1>7, <2>3, <3>1 DEF Passes
  <2> QED BY <1>1, <1>7, <2>1, <2>2, <2>4, RowsRest DEF SameRow
<1> QED BY <1>6, <1>7 DEF Wake

LEMMA WakeArmKept ==
  ASSUME KInv, IInv', NEW p \in Procs, NEW w \in proc[p].wakes, WakeArm(p, w)
  PROVE  KInv'
<1> DEFINE ws == proc[p].wakes \ {w}
<1>0. TypeInv /\ p # None BY ScheduleAssumption DEF KInv, IInv
<1>1. /\ UNCHANGED <<row, lock, unmarked, rewake, monitor>> /\ proc[p].pc = "wakeArm"
      /\ SetTimer(w[1], w[2]) /\ Robbed(armed \ armed')
  BY DEF WakeArm
<1>2. /\ \A q \in Procs \ {p} : proc'[q] = proc[q]
      /\ proc'[p].pc = "wakeRegister" /\ proc'[p].i = proc[p].i /\ proc'[p].wakes = ws
  <2>1. proc \in [Procs -> GoodProc] /\ proc[p] \in GoodProc BY <1>0 DEF TypeInv
  <2>2. proc' = [proc EXCEPT ![p].pc = "wakeRegister", ![p].wakes = ws, ![p].arming = {w}]
    BY DEF WakeArm
  <2> HIDE DEF ws
  <2> QED BY <2>1, <2>2 DEF GoodProc
<1>3. Sure(p)' BY <1>2 DEF Sure, Stores, Removes, Clean
<1>4. Swept => Swept' BY <1>1, <1>2, SweepLasts
<1>5. /\ robbed \subseteq robbed'
      /\ \A j \in Inputs : <<j, row[j].at>> \in armed => <<j, row[j].at>> \in armed' \/ j \in robbed'
  BY <1>1 DEF Robbed
<1>6. ASSUME NEW j \in Inputs, j \notin robbed' PROVE Passes(p, j)
  <2>1. ~ Tends(p, j) BY <1>1 DEF Tends
  <2>2. ASSUME row[j].kind = "time", Wakes(p, j) PROVE SeenTo(j)'
    <3>1. <<j, row[j].at>> \in proc[p].wakes BY <1>1, <2>2 DEF Wakes
    <3>2. CASE <<j, row[j].at>> = w
      <4>1. <<w[1], w[2]>> \in armed' BY <1>1 DEF SetTimer
      <4>2. <<j, row[j].at>> \in armed' BY <3>2, <4>1
      <4> QED BY <1>1, <2>2, <4>2 DEF SeenTo, Timed
    <3>3. CASE <<j, row[j].at>> # w
      <4>1. <<j, row[j].at>> \in ws BY <3>1, <3>3
      <4>2. Wakes(p, j)' BY <1>1, <1>2, <4>1 DEF Wakes
      <4> QED BY <1>1, <2>2, <4>2 DEF SeenTo, Timed
    <3> QED BY <3>2, <3>3
  <2> QED BY <1>1, <1>4, <1>5, <1>6, <2>1, <2>2 DEF Passes
<1>7. \A j \in Inputs : lock[j] = p => j = proc[p].i BY <1>0 DEF KInv, Owned
<1> QED BY <1>1, <1>2, <1>3, <1>5, <1>6, <1>7, RowsRest DEF SameRow, Holding, Dispatching

LEMMA WakeRegisterKept ==
  ASSUME KInv, IInv', NEW p \in Procs, NEW w \in proc[p].arming, WakeRegister(p, w)
  PROVE  KInv'
<1>0. TypeInv /\ p # None BY ScheduleAssumption DEF KInv, IInv
<1>1. /\ UNCHANGED <<row, lock, armed, robbed, unmarked, rewake, monitor>>
      /\ proc[p].pc = "wakeRegister"
  BY DEF WakeRegister, Register
<1>2. /\ \A q \in Procs \ {p} : proc'[q] = proc[q]
      /\ proc'[p].pc = "wakeArm" /\ proc'[p].i = proc[p].i /\ proc'[p].wakes = proc[p].wakes
  <2>1. proc \in [Procs -> GoodProc] /\ proc[p] \in GoodProc BY <1>0 DEF TypeInv
  <2>2. proc' = [proc EXCEPT ![p].pc = "wakeArm", ![p].arming = {}] BY DEF WakeRegister
  <2> QED BY <2>1, <2>2 DEF GoodProc
<1>3. Sure(p)' BY <1>2 DEF Sure, Stores, Removes, Clean
<1>4. Swept => Swept' BY <1>1, <1>2, SweepLasts
<1>5. ASSUME NEW j \in Inputs PROVE Passes(p, j)
  <2>1. ~ Tends(p, j) BY <1>1 DEF Tends
  <2>2. ASSUME row[j].kind = "time", Wakes(p, j) PROVE SeenTo(j)'
    <3>1. Wakes(p, j)' BY <1>1, <1>2, <2>2 DEF Wakes
    <3> QED BY <1>1, <2>2, <3>1 DEF SeenTo, Timed
  <2> QED BY <1>1, <1>4, <2>1, <2>2 DEF Passes
<1>6. \A j \in Inputs : lock[j] = p => j = proc[p].i BY <1>0 DEF KInv, Owned
<1> QED BY <1>1, <1>2, <1>3, <1>5, <1>6, RowsRest DEF SameRow, Holding, Dispatching

LEMMA WokenKept == ASSUME KInv, IInv', NEW p \in Procs, Woken(p) PROVE KInv'
<1>0. TypeInv /\ p # None BY ScheduleAssumption DEF KInv, IInv
<1>1. /\ UNCHANGED <<row, armed, robbed, unmarked, rewake, monitor>> /\ proc[p].pc = "wakeArm"
      /\ proc[p].wakes = {} /\ Drop(proc[p].i, p) /\ Finish(p)
  BY DEF Woken, timerVars
<1>2. proc[p].i \in Inputs BY <1>0, <1>1, ProcParts DEF Free
<1>3. /\ \A q \in Procs \ {p} : proc'[q] = proc[q]
      /\ proc'[p].pc = IF p = Sweep THEN "sweep" ELSE "idle"
      /\ Sure(p)'
  BY <1>0, <1>1, Rests
<1>4. \A j \in Inputs : lock'[j] # p /\ lock'[j] \in {lock[j], None} /\ (lock[j] # p => lock'[j] = lock[j])
  BY <1>0, <1>1, <1>2, Drops
<1>5. Swept => Swept' BY <1>1, <1>3, SweepLasts
<1>6. ASSUME NEW j \in Inputs PROVE Passes(p, j)
  BY <1>1, <1>5 DEF Passes, Tends, Wakes
<1> QED BY <1>1, <1>3, <1>4, <1>6, RowsRest DEF SameRow

LEMMA RewakeKept ==
  ASSUME KInv, IInv', NEW k \in Callbacks, NEW i \in Inputs, Rewake(k, i)
  PROVE  KInv'
<1>0. TypeInv /\ k \in Procs /\ k # Sweep BY ScheduleAssumption DEF KInv, IInv, Procs
<1>1. /\ UNCHANGED <<row, lock, armed, robbed, unmarked, monitor>> /\ proc[k].pc = "idle"
      /\ rewake' = rewake \ {i}
  BY DEF Rewake, timerVars
<1>2. /\ \A q \in Procs \ {k} : proc'[q] = proc[q]
      /\ proc'[k].pc = "wake" /\ proc'[k].i = i /\ proc'[k].wakes = {}
  BY <1>0 DEF Rewake, Rest, TypeInv
<1>3. Sure(k)' BY <1>2 DEF Sure, Stores, Removes, Clean
<1>4. \A j \in Inputs : lock'[j] # k BY <1>0, <1>1, NoLock DEF Holding, Dispatching
<1>5. Swept => Swept' BY <1>0, <1>1, <1>2, SweepLasts
<1>6. ASSUME NEW j \in Inputs PROVE Passes(k, j)
  <2>1. ASSUME row[j].kind = "time", row[j].dep = i PROVE SeenTo(j)'
    <3>1. Wakes(k, j)' BY <1>1, <1>2, <2>1 DEF Wakes
    <3> QED BY <1>0, <1>1, <2>1, <3>1 DEF SeenTo, Timed
  <2> QED BY <1>0, <1>1, <1>5, <2>1, HandsOff DEF Passes, Minding
<1> QED BY <1>0, <1>1, <1>2, <1>3, <1>4, <1>6, RowsRest DEF SameRow

-----------------------------------------------------------------------------
(* The idle sweep.                                                          *)

LEMMA SweepHoldsNone ==
  ASSUME KInv, proc[Sweep].pc \notin Holding
  PROVE  /\ Sweep \in Procs /\ Sweep # None /\ \A j \in Inputs : lock[j] # Sweep
BY NoLock, ScheduleAssumption DEF Procs

\* The sweep starts, unless no row waits for it.
LEMMA FireMonitorKept == ASSUME KInv, IInv', FireMonitor PROVE KInv'
<1> DEFINE list == {i \in Inputs : row[i].status = "scheduled" /\ row[i].kind = "idle"}
<1>0. TypeInv BY DEF KInv, IInv
<1>1. /\ UNCHANGED <<row, lock, armed, robbed, unmarked, rewake>> /\ proc[Sweep].pc = "idle"
      /\ proc' = [proc EXCEPT ![Sweep] = IF list = {} THEN Rest
                                         ELSE [Rest EXCEPT !.pc = "sweep", !.list = list]]
  BY DEF FireMonitor, timerVars
<1>2. Sweep \in Procs /\ Sweep # None /\ \A j \in Inputs : lock[j] # Sweep
  BY <1>1, SweepHoldsNone DEF Holding, Dispatching
<1>3. /\ \A q \in Procs \ {Sweep} : proc'[q] = proc[q]
      /\ proc'[Sweep].pc \in {"idle", "sweep"} /\ proc'[Sweep].wakes = {}
      /\ list # {} => proc'[Sweep].pc = "sweep"
  <2>1. proc \in [Procs -> GoodProc] BY <1>0 DEF TypeInv
  <2>2. proc'[Sweep] = IF list = {} THEN Rest ELSE [Rest EXCEPT !.pc = "sweep", !.list = list]
    BY <1>1, <1>2, <2>1
  <2>3. \A q \in Procs \ {Sweep} : proc'[q] = proc[q] BY <1>1, <2>1
  <2> HIDE DEF list
  <2>4. CASE list = {} BY <2>2, <2>3, <2>4 DEF Rest
  <2>5. CASE list # {}
    <3>1. proc'[Sweep] = [Rest EXCEPT !.pc = "sweep", !.list = list] BY <2>2, <2>5
    <3>2. proc'[Sweep].pc = "sweep" /\ proc'[Sweep].wakes = {} BY <3>1 DEF Rest
    <3> QED BY <2>3, <3>2
  <2> QED BY <2>4, <2>5
<1>4. Sure(Sweep)' BY <1>3 DEF Sure, Stores, Removes, Clean
<1>5. ASSUME NEW j \in Inputs, row[j].status = "scheduled" PROVE Passes(Sweep, j)
  <2>1. row[j].kind = "idle" => Swept' BY <1>3, <1>5 DEF Swept
  <2> QED BY <1>1, <1>2, <2>1, HandsOff DEF Passes, Minding
<1> QED BY <1>1, <1>2, <1>3, <1>4, <1>5, RowsRest DEF SameRow

LEMMA LookKept == ASSUME KInv, IInv', NEW i \in Inputs, Look(i) PROVE KInv'
<1>0. TypeInv BY DEF KInv, IInv
<1>1. /\ UNCHANGED <<row, lock, armed, robbed, unmarked, rewake, monitor>> /\ proc[Sweep].pc = "sweep"
  BY DEF Look, timerVars
<1>2. Sweep \in Procs /\ Sweep # None /\ \A j \in Inputs : lock[j] # Sweep
  BY <1>1, SweepHoldsNone DEF Holding, Dispatching
<1>3. proc[Sweep].wakes = {} /\ proc[Sweep] \in GoodProc /\ proc \in [Procs -> GoodProc]
  BY <1>0, <1>1, <1>2 DEF KInv, Sure, Clean, TypeInv
<1>4. /\ \A q \in Procs \ {Sweep} : proc'[q] = proc[q]
      /\ proc'[Sweep].pc \in {"sweep", "reset", "evaluate"} /\ proc'[Sweep].wakes = {}
  <2>1. \/ proc' = [proc EXCEPT ![Sweep].list = @ \ {i}]
        \/ \E pc \in {"reset", "evaluate"} :
             proc' = [proc EXCEPT ![Sweep] = [proc[Sweep] EXCEPT !.pc = pc, !.i = i, !.row = row[i],
                                                                 !.list = @ \ {i}]]
    BY DEF Look
  <2>2. CASE proc' = [proc EXCEPT ![Sweep].list = @ \ {i}]
    BY <1>1, <1>2, <1>3, <2>2 DEF GoodProc
  <2>3. ASSUME NEW pc \in {"reset", "evaluate"},
               proc' = [proc EXCEPT ![Sweep] = [proc[Sweep] EXCEPT !.pc = pc, !.i = i, !.row = row[i],
                                                                   !.list = @ \ {i}]]
        PROVE  /\ \A q \in Procs \ {Sweep} : proc'[q] = proc[q]
               /\ proc'[Sweep].pc = pc /\ proc'[Sweep].wakes = {}
    BY <1>2, <1>3, <2>3 DEF GoodProc
  <2> QED BY <2>1, <2>2, <2>3
<1>5. Sure(Sweep)' BY <1>4 DEF Sure, Stores, Removes, Clean
<1>6. Swept => Swept' BY <1>4 DEF Swept
<1>7. ASSUME NEW j \in Inputs PROVE Passes(Sweep, j)
  BY <1>1, <1>2, <1>6, HandsOff DEF Passes, Minding
<1> QED BY <1>1, <1>2, <1>4, <1>5, <1>7, RowsRest DEF SameRow

LEMMA EvaluateKept == ASSUME KInv, IInv', Evaluate PROVE KInv'
<1>0. TypeInv BY DEF KInv, IInv
<1>1. /\ UNCHANGED <<row, lock, armed, robbed, unmarked, rewake, monitor>> /\ proc[Sweep].pc = "evaluate"
  BY DEF Evaluate, timerVars
<1>2. Sweep \in Procs /\ Sweep # None /\ \A j \in Inputs : lock[j] # Sweep
  BY <1>1, SweepHoldsNone DEF Holding, Dispatching
<1>3. proc[Sweep].wakes = {} BY <1>1, <1>2 DEF KInv, Sure, Clean
<1>4. \E pc \in {"refuse", "reset", "since", "sweep", "quiet"} : Go(Sweep, pc)
  <2>1. archived \in BOOLEAN /\ busy \in BOOLEAN /\ proc[Sweep].row.idle \in {"no", "since", "stable"}
    BY <1>0, <1>2, ProcParts DEF TypeInv, Flags, GoodRow, Row
  <2> QED BY <2>1 DEF Evaluate
<1>5. /\ \A q \in Procs \ {Sweep} : proc'[q] = proc[q]
      /\ proc'[Sweep].pc \in {"refuse", "reset", "since", "sweep", "quiet"} /\ proc'[Sweep].wakes = {}
  BY <1>0, <1>2, <1>3, <1>4, Moves
<1>6. Sure(Sweep)' BY <1>5 DEF Sure, Stores, Removes, Clean
<1>7. Swept => Swept' BY <1>5 DEF Swept
<1>8. ASSUME NEW j \in Inputs PROVE Passes(Sweep, j)
  BY <1>1, <1>2, <1>7, HandsOff DEF Passes, Minding
<1> QED BY <1>1, <1>2, <1>5, <1>6, <1>8, RowsRest DEF SameRow

LEMMA ApplyKept == ASSUME KInv, IInv', Apply PROVE KInv'
<1> DEFINE i == proc[Sweep].i
<1>0. TypeInv BY DEF KInv, IInv
<1>1. /\ UNCHANGED <<armed, robbed, unmarked, rewake, monitor>>
      /\ proc[Sweep].pc \in {"reset", "since", "refuse", "quiet"}
  BY DEF Apply, timerVars
<1>2. Sweep \in Procs /\ Sweep # None /\ \A j \in Inputs : lock[j] # Sweep
  BY <1>1, SweepHoldsNone DEF Holding, Dispatching
<1>3. i \in Inputs /\ proc[Sweep].wakes = {}
  BY <1>0, <1>1, <1>2, ProcParts DEF KInv, Sure, Clean, Free
<1>4. ASSUME NEW j \in Inputs PROVE ~ Tends(Sweep, j) /\ ~ Wakes(Sweep, j)
  BY <1>1, <1>2, HandsOff DEF Minding
<1>5. row[i] \in GoodRow /\ row \in [Inputs -> GoodRow] BY <1>0, <1>3 DEF TypeInv
<1>6. CASE Take(i, Sweep) /\ Go(Sweep, "check") /\ UNCHANGED row
  <2>1. /\ \A q \in Procs \ {Sweep} : proc'[q] = proc[q]
        /\ proc'[Sweep].pc = "check" /\ proc'[Sweep].i = i /\ proc'[Sweep].wakes = {}
    BY <1>0, <1>2, <1>3, <1>6, Moves
  <2>2. Sure(Sweep)' BY <2>1 DEF Sure, Stores, Removes, Clean
  <2>3. lock[i] = None /\ lock'[i] = Sweep /\ \A j \in Inputs \ {i} : lock'[j] = lock[j]
    BY <1>0, <1>2, <1>3, <1>6, TakeTypes
  <2>4. Swept => Swept' BY <2>1 DEF Swept
  <2>5. ASSUME NEW j \in Inputs PROVE Passes(Sweep, j) BY <1>1, <1>4, <2>4 DEF Passes
  <2> HIDE DEF i
  <2>6. \A j \in Inputs : /\ lock'[j] \in {lock[j], Sweep, None}
                          /\ lock[j] \notin {Sweep, None} => lock'[j] = lock[j]
                          /\ lock'[j] = Sweep => proc'[Sweep].i = j /\ proc'[Sweep].pc \in Holding
    BY <1>2, <2>1, <2>3 DEF Holding, Dispatching
  <2> QED BY <1>1, <1>2, <1>6, <2>1, <2>2, <2>5, <2>6, RowsRest DEF SameRow
<1>7. CASE Finish(Sweep) /\ UNCHANGED lock
  <2>1. /\ \A q \in Procs \ {Sweep} : proc'[q] = proc[q]
        /\ proc'[Sweep].pc = "sweep" /\ Sure(Sweep)'
    BY <1>0, <1>2, <1>7, Rests
  <2>2. Swept => Swept' BY <2>1 DEF Swept
  <2>3. ASSUME NEW j \in Inputs PROVE Passes(Sweep, j) BY <1>1, <1>4, <2>2 DEF Passes
  <2>4. CASE \A j \in Inputs : SameRow(j)
    BY <1>1, <1>2, <1>7, <2>1, <2>3, <2>4, RowsRest
  <2>5. CASE Status(i, "refused") /\ row[i].status = "scheduled" /\ lock[i] = None
    <3>1. row'[i].status = "refused" /\ \A j \in Inputs \ {i} : row'[j] = row[j]
      BY <1>0, <1>3, <2>5, StatusTypes DEF Statuses, Stored
    <3> HIDE DEF i
    <3>2. Aside(Sweep) BY <1>2, <1>7, <2>1, <2>5, <3>1 DEF Aside
    <3>3. ASSUME NEW j \in Inputs PROVE Kept(j)'
      <4>1. CASE j = i BY <3>1, <4>1 DEF Kept
      <4>2. CASE j # i
        <5>1. SameRow(j) /\ Kept(j) BY <3>1, <4>2 DEF SameRow, KInv
        <5>2. row[j].dep # None /\ row'[row[j].dep].status = "dispatched" =>
                row[row[j].dep].status = "dispatched"
          BY <1>0, <3>1, RowParts
        <5> QED BY <1>0, <1>1, <1>2, <2>1, <2>3, <5>1, <5>2, StaysKept
      <4> QED BY <4>1, <4>2
    <3> QED BY <1>2, <1>7, <2>1, <3>2, <3>3, Onward
  <2>6. CASE \E v : Write(i, [row[i] EXCEPT !.idle = v])
    <3>1. \A j \in Inputs : SameRow(j) BY <1>5, <2>6 DEF SameRow, Write, GoodRow, Row
    <3> QED BY <2>4, <3>1
  <2>7. \/ UNCHANGED row
        \/ Status(i, "refused") /\ row[i].status = "scheduled" /\ lock[i] = None
        \/ \E v : Write(i, [row[i] EXCEPT !.idle = v])
    BY DEF Apply, SameVersion
  <2> QED BY <2>4, <2>5, <2>6, <2>7 DEF SameRow
<1>8. (Take(i, Sweep) /\ Go(Sweep, "check") /\ UNCHANGED row) \/ (Finish(Sweep) /\ UNCHANGED lock)
  BY DEF Apply
<1> QED BY <1>6, <1>7, <1>8

LEMMA SweepEndsKept == ASSUME KInv, IInv', SweepEnds PROVE KInv'
<1>0. TypeInv BY DEF KInv, IInv
<1>1. /\ UNCHANGED <<row, lock, armed, robbed, unmarked, rewake>> /\ proc[Sweep].pc = "sweep"
      /\ monitor' = TRUE /\ proc' = [proc EXCEPT ![Sweep] = Rest]
  BY DEF SweepEnds, Again, timerVars
<1>2. Sweep \in Procs /\ Sweep # None /\ \A j \in Inputs : lock[j] # Sweep
  BY <1>1, SweepHoldsNone DEF Holding, Dispatching
<1>3. /\ \A q \in Procs \ {Sweep} : proc'[q] = proc[q]
      /\ proc'[Sweep].pc = "idle" /\ proc'[Sweep].wakes = {}
  BY <1>0, <1>1, <1>2 DEF TypeInv, Rest
<1>4. Sure(Sweep)' BY <1>3 DEF Sure, Stores, Removes, Clean
<1>5. Swept' BY <1>1 DEF Swept
<1>6. ASSUME NEW j \in Inputs PROVE Passes(Sweep, j)
  BY <1>1, <1>2, <1>5, HandsOff DEF Passes, Minding
<1> QED BY <1>1, <1>2, <1>3, <1>4, <1>6, RowsRest DEF SameRow

-----------------------------------------------------------------------------
(* The specification.                                                       *)

LEMMA InitKept == ASSUME Init PROVE KInv
<1>1. /\ \A i \in Inputs : row[i].status = "none" /\ lock[i] = None
      /\ \A p \in Procs : proc[p].pc = "idle" /\ proc[p].wakes = {}
  BY DEF Init, NoRow, Rest
<1>2. \A i \in Inputs : Owned(i) /\ Kept(i) BY <1>1 DEF Owned, Kept
<1>3. \A p \in Procs : Sure(p) BY <1>1 DEF Sure, Stores, Removes, Clean
<1> QED BY <1>2, <1>3, InitInv DEF KInv

LEMMA AskKept == ASSUME KInv, IInv', NEW c \in Clients, Ask(c) PROVE KInv'
<1>1. CASE \E i \in Inputs : \E kind \in {"time", "idle"} : \E at \in 0..MaxTime :
             \E dep \in Inputs \cup {None} : Schedule(c, i, kind, at, dep)
  BY <1>1, ScheduleKept
<1>2. CASE \E i \in Inputs : \E kind \in {"time", "idle"} : \E at \in 0..MaxTime :
             \E dep \in Inputs \cup {None} : Update(c, i, kind, at, dep)
  BY <1>2, UpdateKept
<1>3. CASE \E i \in Inputs : Remove(c, i) BY <1>3, RemoveKept
<1>4. CASE \E i \in Inputs : \E bypass \in BOOLEAN : DispatchNow(c, i, bypass)
  BY <1>4, DispatchNowKept
<1>5. CASE Archive(c) BY <1>5, ArchiveKept
<1>6. CASE Unarchive(c) BY <1>6, UnarchiveKept
<1> QED BY <1>1, <1>2, <1>3, <1>4, <1>5, <1>6 DEF Ask

LEMMA NextKept == ASSUME KInv, [Next]_vars PROVE KInv'
<1>0. IInv' BY NextInv DEF KInv
<1>1. ASSUME NEW c \in Clients, Ask(c) \/ Handle(c) PROVE KInv'
  BY <1>0, <1>1, AskKept, CreateKept, ArmKept, RegisteredKept, WriteUpdateKept, RemovedKept,
     CancelActiveKept, CancelTimersKept DEF Handle
<1>2. ASSUME NEW k \in Callbacks, NEW i \in Inputs, Rewake(k, i) \/ \E t \in 1..MaxTime : Fire(k, i, t)
      PROVE  KInv'
  BY <1>0, <1>2, RewakeKept, FireKept
<1>3. ASSUME NEW k \in Callbacks, Callback(k) PROVE KInv'
  BY <1>0, <1>3, FiredKept, ExecuteKept DEF Callback
<1>4. ASSUME NEW p \in Procs, Dispatch(p) PROVE KInv'
  BY <1>0, <1>4, CheckKept, CallKept, MarkKept, WakeKept, WokenKept, WakeArmKept, WakeRegisterKept
     DEF Dispatch
<1>5. CASE Tick \/ Busy \/ FireMonitor \/ Crash
  BY <1>0, <1>5, TickKept, BusyKept, FireMonitorKept, CrashKept
<1>6. CASE SweepStep BY <1>0, <1>6, EvaluateKept, ApplyKept, SweepEndsKept, LookKept DEF SweepStep
<1>7. CASE \E i \in Inputs : Stabilize(i) BY <1>0, <1>7, StabilizeKept
<1>8. CASE UNCHANGED vars
  <2>1. UNCHANGED <<row, armed, robbed, monitor, lock, proc, rewake, unmarked>>
    BY <1>8 DEF vars, timerVars
  <2> QED BY <1>0, <2>1, NobodyKept DEF SameRow
<1> QED BY <1>1, <1>2, <1>3, <1>4, <1>5, <1>6, <1>7, <1>8 DEF Next

LEMMA InductiveKept == Spec => []KInv
BY InitKept, NextKept, PTL DEF Spec

\* Whoever sees to an input attends it: one that decides about it holds its lock.
LEMMA SeenToAttended ==
  ASSUME KInv, NEW i \in Inputs, SeenTo(i), Satisfied(row[i].dep)
  PROVE  Attended(i)
<1>0. TypeInv BY DEF KInv, IInv
<1>1. ASSUME NEW p \in Procs, Tends(p, i) PROVE Attended(i)
  <2>1. proc[p].i = i BY <1>1 DEF Tends
  <2>2. CASE proc[p].pc \in {"write", "check", "call", "mark"}
    <3>1. lock[i] = p BY <2>1, <2>2 DEF KInv, IInv, Fit, Holds
    <3> QED BY <3>1, ScheduleAssumption DEF Attended
  <2>3. CASE p \in Clients BY <2>1, <2>3 DEF Attended
  <2> QED BY <1>1, <2>2, <2>3 DEF Tends
<1>2. CASE row[i].kind = "idle" /\ Swept BY <1>2 DEF Swept, Attended
<1>3. CASE row[i].kind = "time" /\ Timed(i)
  <2>1. CASE <<i, row[i].at>> \in armed BY <1>3, <2>1 DEF Attended
  <2>2. CASE row[i].dep \in rewake BY <2>2 DEF Attended
  <2>3. ASSUME NEW p \in Procs, Wakes(p, i) PROVE Attended(i)
    BY <2>3 DEF Wakes, Attended
  <2> QED BY <1>3, <2>1, <2>2, <2>3 DEF Timed
<1> QED BY <1>1, <1>2, <1>3 DEF SeenTo

\* No input that may go is forgotten, after any interleaving of commands, timers, wake-ups,
\* archiving and restarts: whoever lets go of an input has armed its timer, asked for a sweep,
\* put it on the list of a wake-up, or decided it. The two exceptions are those of the
\* property: a timer stopped without the row's lock, and a hand-over without a record.
THEOREM NoneForgottenCorrect == Spec => []NoneForgotten
<1>1. KInv => NoneForgotten
  <2> SUFFICES ASSUME KInv, NEW i \in Inputs \ (robbed \cup unmarked), Due(i) PROVE Attended(i)
    BY DEF NoneForgotten
  <2>1. SeenTo(i) BY DEF KInv, Kept, Due, Waiting
  <2>2. Satisfied(row[i].dep) BY DEF Due
  <2> QED BY <2>1, <2>2, SeenToAttended
<1> QED BY <1>1, InductiveKept, PTL

=============================================================================
