------------------------ MODULE PendingInputs_proofs ------------------------
(***************************************************************************)
(* Proofs about PendingInputs, for all values of its constants: its        *)
(* processor, the start of runs, that no acknowledged input is lost, that  *)
(* the agent takes inputs once and in order, that receipts and the         *)
(* clients' lists are kept, and that no wakeup is lost.                    *)
(***************************************************************************)
EXTENDS PendingInputs_types

-----------------------------------------------------------------------------
(* One processor at a time.                                                *)

\* The inductive invariant: OneProcessor with the types it needs.
ProcessorInv ==
  /\ processing \in BOOLEAN
  /\ wpc \in [Workers -> WorkerPCs]
  /\ OneProcessor

LEMMA ProcessorInit == Init => ProcessorInv
  BY DEF Init, ProcessorInv, OneProcessor, WorkerPCs, ActivePCs, ClaimPCs, CallPCs, PrependPCs

\* A trigger starts a processor only when none runs.
LEMMA TriggerKeeps ==
  ASSUME ProcessorInv, NEW Free \in SUBSET Workers, Trigger(Free)
  PROVE  ProcessorInv'
<1>1. CASE processing
  BY <1>1 DEF Trigger, ProcessorInv, OneProcessor
<1>2. CASE ~processing
  BY <1>2 DEF Trigger, ProcessorInv, OneProcessor, WorkerPCs, ActivePCs
<1>3. QED
  BY <1>1, <1>2

\* Moving one active goroutine to another active place keeps the invariant.
LEMMA GoKeeps ==
  ASSUME ProcessorInv, NEW w \in Workers, NEW pc \in ActivePCs,
         wpc[w] \in ActivePCs, Go(w, pc), UNCHANGED processing
  PROVE  ProcessorInv'
  BY DEF Go, ProcessorInv, OneProcessor, WorkerPCs

LEMMA ProcessorStep == ProcessorInv /\ [Next]_vars => ProcessorInv'
<1> SUFFICES ASSUME ProcessorInv, [Next]_vars PROVE ProcessorInv'
  OBVIOUS
<1> USE DEF procVars
<1>0. CASE UNCHANGED <<processing, wpc>>
  BY <1>0 DEF ProcessorInv, OneProcessor
<1>1. ASSUME NEW c \in Clients, ClientCommand(c)
      PROVE  UNCHANGED <<processing, wpc>>
  BY <1>1 DEF ClientCommand, Send, SendDirect, Reorder, RemovePending, Update, Clear, Abort, Archive
<1>2. ASSUME NEW c \in Clients, ClientStep(c)
      PROVE  UNCHANGED <<processing, wpc>>
  BY <1>2 DEF ClientStep, Choose, Enqueue, ClientDispatch, ClientDispatched, Move, Cancel, CancelOnly,
              ExpireHeadRedirect, ArchiveTimesOut, ArchiveMark, ArchiveClear
<1>3. ASSUME NEW w \in Workers, Processor(w)
      PROVE  ProcessorInv'
  <2> USE DEF ActivePCs, ClaimPCs, CallPCs, PrependPCs
  <2>1. CASE Peek(w)
    <3>1. wpc[w] \in ActivePCs /\ \E pc \in {"finish", "arm", "claimReceipt", "readRun"} : Go(w, pc)
      BY <2>1 DEF Peek
    <3>2. QED
      BY <2>1, <3>1, GoKeeps DEF Peek
  <2>2. CASE Arm(w)
    BY <2>2, GoKeeps DEF Arm
  <2>3. CASE ReadRun(w)
    <3>1. wpc[w] \in ActivePCs
          /\ \E pc \in {"getSession", "finish", "claimPi", "claimSteer"} : Go(w, pc)
      BY <2>3 DEF ReadRun
    <3>2. QED
      BY <2>3, <3>1, GoKeeps DEF ReadRun
  <2>4. CASE GetSession(w)
    <3>1. wpc[w] \in ActivePCs /\ \E pc \in {"finish", "claimDispatch"} : Go(w, pc)
      BY <2>4 DEF GetSession
    <3>2. QED
      BY <2>4, <3>1, GoKeeps DEF GetSession
  <2>5. CASE Claim(w)
    <3> DEFINE Next5 == {"persist", "steer", "piSend", "dispatch", "peek"}
    <3>0. wpc[w] \in ClaimPCs => AfterClaim[wpc[w]] \in Next5
      BY DEF AfterClaim
    <3>1. wpc[w] \in ActivePCs /\ \E pc \in Next5 : Go(w, pc)
      BY <2>5, <3>0 DEF Claim
    <3>2. QED
      BY <2>5, <3>1, GoKeeps DEF Claim
  <2>6. CASE Persist(w)
    BY <2>6, GoKeeps DEF Persist
  <2>7. CASE Steer(w)
    <3>1. wpc[w] \in ActivePCs
          /\ \E pc \in {"markSteer", "prependPeek", "prependArm", "prependStop"} : Go(w, pc)
      BY <2>7 DEF Steer
    <3>2. QED
      BY <2>7, <3>1, GoKeeps DEF Steer
  <2>8. CASE PiSend(w)
    BY <2>8, GoKeeps DEF PiSend
  <2>9. CASE Dispatch(w)
    BY <2>9, GoKeeps DEF Dispatch
  <2>10. CASE Dispatched(w)
    BY <2>10, GoKeeps DEF Dispatched
  <2>11. CASE Mark(w)
    BY <2>11, GoKeeps DEF Mark
  <2>12. CASE Prepend(w)
    <3>0. wpc[w] \in PrependPCs => AfterPrepend[wpc[w]] \in {"arm", "peek", "finish"}
      BY DEF AfterPrepend
    <3>1. wpc[w] \in ActivePCs /\ \E pc \in {"arm", "peek", "finish"} : Go(w, pc)
      BY <2>12, <3>0 DEF Prepend
    <3>2. QED
      BY <2>12, <3>1, GoKeeps DEF Prepend
  <2>13. CASE Finish(w)
    <3>1. processing' = FALSE /\ wpc[w] = "finish" /\ \E pc \in {"restart", "idle"} : Go(w, pc)
      BY <2>13 DEF Finish
    <3>2. PICK pc \in {"restart", "idle"} : wpc' = [wpc EXCEPT ![w] = pc]
      BY <3>1 DEF Go
    <3>3. wpc' \in [Workers -> WorkerPCs] /\ processing' \in BOOLEAN
      <4>1. pc \in WorkerPCs
        BY DEF WorkerPCs
      <4>2. QED
        BY <3>1, <3>2, <4>1 DEF ProcessorInv
    <3>4. pc \notin ActivePCs /\ wpc[w] \in ActivePCs
      BY <3>1 DEF ActivePCs, ClaimPCs, CallPCs, PrependPCs
    <3>5. \A v \in Workers : wpc'[v] \notin ActivePCs
      BY <3>2, <3>4 DEF ProcessorInv, OneProcessor
    <3>6. QED
      BY <3>1, <3>3, <3>5 DEF ProcessorInv, OneProcessor
  <2>14. CASE Restart(w)
    <3>1. CASE processing
      BY <2>14, <3>1 DEF Restart, Go, ProcessorInv, OneProcessor, WorkerPCs
    <3>2. CASE ~processing
      BY <2>14, <3>2 DEF Restart, Go, ProcessorInv, OneProcessor, WorkerPCs
    <3>3. QED
      BY <3>1, <3>2
  <2>15. QED
    BY <1>3, <2>1, <2>2, <2>3, <2>4, <2>5, <2>6, <2>7, <2>8, <2>9, <2>10, <2>11, <2>12,
       <2>13, <2>14 DEF Processor
<1>4. CASE FireWake
  BY <1>4, TriggerKeeps DEF FireWake, IdleWorkers
<1>5. ASSUME \/ \E i \in Ids : Elapse(i)
             \/ TimerFires \/ AutoRetry \/ UpdateRetry \/ OtherRun
             \/ RunBlocks \/ RunUnblocks \/ ToolEnds \/ RunDone \/ ReleaseRun
      PROVE  UNCHANGED <<processing, wpc>>
  BY <1>5 DEF Elapse, TimerFires, AutoRetry, UpdateRetry, OtherRun, RunBlocks, RunUnblocks,
              ToolEnds, RunDone, ReleaseRun
<1>6. CASE UNCHANGED vars
  BY <1>6, <1>0 DEF vars, state
<1>7. QED
  BY <1>0, <1>1, <1>2, <1>3, <1>4, <1>5, <1>6 DEF Next

\* processing and the goroutines agree, and at most one runs: see OneProcessor.
THEOREM ProcessorCorrect == Spec => []OneProcessor
<1>1. ProcessorInv => OneProcessor
  BY DEF ProcessorInv
<1>2. QED
  BY <1>1, ProcessorInit, ProcessorStep, PTL DEF Spec

-----------------------------------------------------------------------------
(* The start of a run: whoever holds the dispatch lock in order to start   *)
(* one finds the session without a run until it has done so.               *)

StartInv == TypeInv /\ NoRunReplaced

LEMMA StartInit == Init => NoRunReplaced
  BY DEF Init, NoRunReplaced

\* With the lock free, nobody is about to start a run.
LEMMA NobodyDispatching ==
  ASSUME NoRunReplaced, LockFree
  PROVE  /\ \A c \in Clients : cl[c].pc # "dispatching"
         /\ \A w \in Workers : wpc[w] # "dispatching"
  BY ConstantsAssumption DEF NoRunReplaced, LockFree

\* Neither the lock, nor the run, nor the places change so as to matter.
LEMMA StartFrame ==
  ASSUME StartInv, UNCHANGED dlock, run = "none" => run' = "none",
         \A c \in Clients : cl'[c].pc = "dispatching" => cl[c].pc = "dispatching",
         \A w \in Workers : wpc'[w] = "dispatching" => wpc[w] = "dispatching"
  PROVE  NoRunReplaced'
  BY DEF StartInv, NoRunReplaced

\* A run starts although nobody holds the lock: nobody was about to start one.
LEMMA StartUnlocked ==
  ASSUME StartInv, LockFree, UNCHANGED <<cl, wpc>>
  PROVE  NoRunReplaced'
  BY NobodyDispatching DEF StartInv, NoRunReplaced

LEMMA ClientMoves ==
  ASSUME TypeInv, NEW c \in Clients, NEW pc, NEW i, NEW mode, Client(c, pc, i, mode)
  PROVE  cl'[c].pc = pc /\ \A d \in Clients \ {c} : cl'[d] = cl[d]
  BY DEF TypeInv, ClientsOK, Client

LEMMA WorkerGoes ==
  ASSUME TypeInv, NEW w \in Workers, NEW pc, Go(w, pc)
  PROVE  wpc'[w] = pc /\ \A v \in Workers \ {w} : wpc'[v] = wpc[v]
  BY DEF TypeInv, WorkersOK, Go

\* A handler goes to any other place than the one where it is about to start a run.
LEMMA StartElsewhere ==
  ASSUME StartInv, NEW c \in Clients, NEW pc, pc # "dispatching", NEW i, NEW mode,
         Client(c, pc, i, mode), UNCHANGED <<wpc, dlock>>, run = "none" => run' = "none"
  PROVE  NoRunReplaced'
<1>1. TypeInv
  BY DEF StartInv
<1>2. \A d \in Clients : cl'[d].pc = "dispatching" => cl[d].pc = "dispatching"
  BY <1>1, ClientMoves
<1>3. QED
  BY <1>2, StartFrame

LEMMA StartClient ==
  ASSUME StartInv, NEW c \in Clients, ClientCommand(c) \/ ClientStep(c)
  PROVE  NoRunReplaced'
<1> USE DEF procVars, runVars
<1>1. ASSUME NEW i \in Ids, NEW mode \in Modes, Send(c, i, mode) PROVE NoRunReplaced'
  BY <1>1, StartElsewhere DEF Send
<1>2. ASSUME NEW i \in Ids, NEW mode \in Modes, Reorder(c, i, mode) PROVE NoRunReplaced'
  BY <1>2, StartElsewhere DEF Reorder
<1>3. ASSUME NEW i \in Ids, RemovePending(c, i) PROVE NoRunReplaced'
  BY <1>3, StartElsewhere DEF RemovePending
<1>4. ASSUME NEW i \in Ids, NEW p \in BOOLEAN, Update(c, i, p) PROVE NoRunReplaced'
  BY <1>4, StartElsewhere DEF Update
<1>5. CASE Clear(c)
  BY <1>5, StartElsewhere DEF Clear, Return
<1>6. CASE Abort(c)
  BY <1>6, StartElsewhere DEF Abort, Aborted
<1>7. CASE Archive(c)
  BY <1>7, StartElsewhere DEF Archive, Aborted
<1>8. CASE Enqueue(c)
  BY <1>8, StartElsewhere DEF Enqueue, Return
<1>9. CASE Move(c)
  BY <1>9, StartElsewhere DEF Move, Return
<1>10. CASE Cancel(c)
  BY <1>10, StartElsewhere DEF Cancel, Return
<1>11. CASE CancelOnly(c)
  BY <1>11, StartElsewhere DEF CancelOnly, Return
<1>12. CASE ExpireHeadRedirect(c)
  BY <1>12, StartElsewhere DEF ExpireHeadRedirect, Return
<1>13. CASE ArchiveTimesOut(c)
  BY <1>13, StartElsewhere DEF ArchiveTimesOut, Return
<1>14. CASE ArchiveMark(c)
  BY <1>14, StartElsewhere DEF ArchiveMark
<1>15. CASE ArchiveClear(c)
  BY <1>15, StartElsewhere DEF ArchiveClear, Return
<1>16. CASE ClientDispatch(c)
  <2>1. LockFree /\ UNCHANGED <<wpc, run>> /\ TypeInv /\ NoRunReplaced
    BY <1>16 DEF ClientDispatch, StartInv
  <2>2. CASE UNCHANGED dlock
    BY <1>16, <2>2, StartElsewhere, ConstantsAssumption DEF ClientDispatch, Return, LockFree
  <2>3. CASE ~UNCHANGED dlock
    <3>1. run = "none" /\ Client(c, "dispatching", cl[c].id, cl[c].mode) /\ dlock' = c
      BY <1>16, <2>3 DEF ClientDispatch
    <3>2. QED
      BY <2>1, <3>1, ClientMoves, NobodyDispatching DEF NoRunReplaced
  <2>4. QED
    BY <2>2, <2>3
<1>17. CASE ClientDispatched(c)
  <2>1. cl[c].pc = "dispatching" /\ Client(c, "idle", NoOne, "queue") /\ UNCHANGED wpc /\ TypeInv
    BY <1>17 DEF ClientDispatched, Return, StartInv
  <2>2. dlock = c /\ c \notin Workers /\ \A d \in Clients \ {c} : cl[d].pc # "dispatching"
    BY <2>1, ConstantsAssumption DEF StartInv, NoRunReplaced
  <2>3. \A w \in Workers : wpc[w] # "dispatching"
    BY <2>2 DEF StartInv, NoRunReplaced
  <2>4. QED
    BY <2>1, <2>2, <2>3, ClientMoves DEF NoRunReplaced
<1>18. ASSUME NEW i \in Ids, SendDirect(c, i) PROVE NoRunReplaced'
  BY <1>18, StartElsewhere DEF SendDirect
<1>19. CASE Choose(c)
  BY <1>19, StartElsewhere DEF Choose
<1>20. QED
  BY <1>1, <1>2, <1>3, <1>4, <1>5, <1>6, <1>7, <1>8, <1>9, <1>10, <1>11, <1>12, <1>13, <1>14, <1>15, <1>16, <1>17,
     <1>18, <1>19 DEF ClientCommand, ClientStep

LEMMA StartWorker ==
  ASSUME StartInv, NEW w \in Workers, Processor(w)
  PROVE  NoRunReplaced'
<1> TypeInv
  BY DEF StartInv
<1>0. ASSUME UNCHANGED <<cl, run, dlock>>, NEW pc, pc # "dispatching", Go(w, pc)
      PROVE  NoRunReplaced'
  <2>1. \A v \in Workers : wpc'[v] = "dispatching" => wpc[v] = "dispatching"
    BY <1>0, WorkerGoes
  <2>2. QED
    BY <1>0, <2>1, StartFrame
<1> USE DEF runVars
<1>1. CASE Peek(w)
  BY <1>1, <1>0 DEF Peek
<1>2. CASE Arm(w)
  BY <1>2, <1>0 DEF Arm
<1>3. CASE ReadRun(w)
  BY <1>3, <1>0 DEF ReadRun
<1>4. CASE GetSession(w)
  BY <1>4, <1>0 DEF GetSession
<1>5. CASE Claim(w)
  <2>1. wpc[w] \in ClaimPCs => AfterClaim[wpc[w]] # "dispatching"
    BY DEF ClaimPCs, AfterClaim
  <2>2. QED
    BY <1>5, <1>0, <2>1 DEF Claim
<1>6. CASE Persist(w)
  BY <1>6, <1>0 DEF Persist
<1>7. CASE Steer(w)
  BY <1>7, <1>0 DEF Steer
<1>8. CASE PiSend(w)
  BY <1>8, <1>0 DEF PiSend
<1>9. CASE Mark(w)
  BY <1>9, <1>0 DEF Mark
<1>10. CASE Prepend(w)
  <2>1. wpc[w] \in PrependPCs => AfterPrepend[wpc[w]] # "dispatching"
    BY DEF PrependPCs, AfterPrepend
  <2>2. QED
    BY <1>10, <1>0, <2>1 DEF Prepend
<1>11. CASE Finish(w)
  BY <1>11, <1>0 DEF Finish
<1>12. CASE Restart(w)
  BY <1>12, <1>0 DEF Restart
<1>13. CASE Dispatch(w)
  <2>1. LockFree /\ UNCHANGED <<cl, run>> /\ NoRunReplaced
    BY <1>13 DEF Dispatch, StartInv
  <2>2. CASE UNCHANGED dlock
    BY <1>13, <1>0, <2>2, ConstantsAssumption DEF Dispatch, LockFree
  <2>3. CASE ~UNCHANGED dlock
    <3>1. run = "none" /\ Go(w, "dispatching") /\ dlock' = w
      BY <1>13, <2>3 DEF Dispatch
    <3>2. QED
      BY <2>1, <3>1, WorkerGoes, NobodyDispatching DEF NoRunReplaced
  <2>4. QED
    BY <2>2, <2>3
<1>14. CASE Dispatched(w)
  <2>1. wpc[w] = "dispatching" /\ UNCHANGED cl /\ \E pc \in {"markDispatch", "prependStop"} : Go(w, pc)
    BY <1>14 DEF Dispatched
  <2>2. dlock = w /\ w \notin Clients /\ \A v \in Workers \ {w} : wpc[v] # "dispatching"
    BY <2>1, ConstantsAssumption DEF StartInv, NoRunReplaced
  <2>3. \A c \in Clients : cl[c].pc # "dispatching"
    BY <2>2 DEF StartInv, NoRunReplaced
  <2>4. QED
    BY <2>1, <2>2, <2>3, WorkerGoes DEF NoRunReplaced
<1>15. QED
  BY <1>1, <1>2, <1>3, <1>4, <1>5, <1>6, <1>7, <1>8, <1>9, <1>10, <1>11, <1>12, <1>13, <1>14
     DEF Processor

LEMMA StartOther ==
  ASSUME StartInv,
         \/ \E i \in Ids : Elapse(i)
         \/ FireWake \/ TimerFires \/ AutoRetry \/ UpdateRetry \/ OtherRun
         \/ RunBlocks \/ RunUnblocks \/ ToolEnds \/ RunDone \/ ReleaseRun
  PROVE  NoRunReplaced'
<1> USE DEF procVars, runVars
<1>1. CASE AutoRetry \/ OtherRun
  BY <1>1, StartUnlocked DEF AutoRetry, OtherRun
<1>2. CASE FireWake
  <2>1. \A w \in Workers : wpc'[w] = "dispatching" => wpc[w] = "dispatching"
    BY <1>2 DEF FireWake, Trigger, StartInv, TypeInv, WorkersOK
  <2>2. QED
    BY <1>2, <2>1, StartFrame DEF FireWake
<1>3. CASE RunDone
  <2>1. \A c \in Clients : cl'[c].pc = "dispatching" => cl[c].pc = "dispatching"
    <3>1. ASSUME NEW c \in Clients PROVE cl[c] \in [pc : ClientPCs, id : Ids \cup {NoOne}, mode : Modes]
      BY DEF StartInv, TypeInv, ClientsOK
    <3>2. QED
      BY <1>3, <3>1 DEF RunDone
  <2>2. QED
    BY <1>3, <2>1, StartFrame DEF RunDone
<1>4. CASE \/ \E i \in Ids : Elapse(i)
           \/ TimerFires \/ UpdateRetry
           \/ RunBlocks \/ RunUnblocks \/ ToolEnds \/ ReleaseRun
  BY <1>4, StartFrame
     DEF Elapse, TimerFires, UpdateRetry, RunBlocks, RunUnblocks, ToolEnds, ReleaseRun
<1>5. QED
  BY <1>1, <1>2, <1>3, <1>4

LEMMA StartStep == StartInv /\ [Next]_vars => StartInv'
<1> SUFFICES ASSUME StartInv, [Next]_vars PROVE NoRunReplaced'
  BY TypeStep DEF StartInv
<1>1. CASE UNCHANGED vars
  BY <1>1, StartFrame DEF vars, state, procVars, runVars
<1>2. CASE Next
  BY <1>2, StartClient, StartWorker, StartOther DEF Next
<1>3. QED
  BY <1>1, <1>2

\* No run is started over another one: see NoRunReplaced.
THEOREM StartCorrect == Spec => []NoRunReplaced
<1>1. Init => StartInv
  BY StartInit, TypeInit DEF StartInv
<1>2. StartInv => NoRunReplaced
  BY DEF StartInv
<1>3. QED
  BY <1>1, <1>2, StartStep, PTL DEF Spec

-----------------------------------------------------------------------------
(* No acknowledged input is forgotten.                                     *)

\* The ids of the inputs in a queue that the agent has accepted already.
Receipts(q) == {q[k].id : k \in {j \in 1..Len(q) : q[j].receipt}}

InHand == {held[w].id : w \in {x \in Workers : wpc[x] \in CallPCs \cup PrependPCs}}

\* Where the processor holds an input that the agent has accepted.
TakenPCs == {"claimReceipt", "persist", "markSteer", "markPi", "markDispatch"}

WorkerReceipts ==
  \A w \in Workers : held[w].receipt \/ wpc[w] \in TakenPCs => held[w].id \in ToSet(handed)

\* NothingLost is not inductive: an input whose local write succeeded leaves the processor's
\* hand for nowhere, so what carries a receipt must have been taken by the agent.
Safe == NothingLost /\ Receipts(queue) \subseteq ToSet(handed) /\ WorkerReceipts
LostInv == TypeInv /\ Safe

-----------------------------------------------------------------------------
(* The ids and receipts of the queues that the operators return.           *)

LEMMA IdsFacts ==
  ASSUME NEW q \in Seq(Item)
  PROVE  /\ \A i : i \in IdsIn(q) <=> \E k \in 1..Len(q) : q[k].id = i
         /\ \A i : i \in Receipts(q) <=> \E k \in 1..Len(q) : q[k].id = i /\ q[k].receipt
  BY DEF IdsIn, Receipts

LEMMA InsertIds ==
  ASSUME NEW q \in Seq(Item), NEW x \in Item, NEW p \in 1..(Len(q) + 1)
  PROVE  /\ IdsIn(q) \cup {x.id} \subseteq IdsIn(InsertAt(q, p, x))
         /\ Receipts(InsertAt(q, p, x)) \subseteq Receipts(q) \cup (IF x.receipt THEN {x.id} ELSE {})
<1> DEFINE r == InsertAt(q, p, x)
<1>1. /\ r \in Seq(Item) /\ Len(r) = Len(q) + 1 /\ Len(q) \in Nat
      /\ \A k \in 1..(Len(q) + 1) : r[k] = IF k < p THEN q[k] ELSE IF k = p THEN x ELSE q[k - 1]
  BY InsertAtElements
<1> HIDE DEF r
<1>2. ASSUME NEW i \in IdsIn(q) PROVE i \in IdsIn(r)
  <2>1. PICK k \in 1..Len(q) : q[k].id = i
    BY <1>2, IdsFacts
  <2>2. CASE k < p
    <3>1. k \in 1..Len(r) /\ r[k] = q[k]
      BY <1>1, <2>2
    <3>2. QED
      BY <1>1, <2>1, <3>1, IdsFacts
  <2>3. CASE ~(k < p)
    <3>1. k + 1 \in 1..Len(r) /\ r[k + 1] = q[k]
      BY <1>1, <2>3
    <3>2. QED
      BY <1>1, <2>1, <3>1, IdsFacts
  <2>4. QED
    BY <2>2, <2>3
<1>3. x.id \in IdsIn(r)
  <2>1. p \in 1..Len(r) /\ r[p] = x
    BY <1>1
  <2>2. QED
    BY <1>1, <2>1, IdsFacts
<1>4. ASSUME NEW i \in Receipts(r), i \notin Receipts(q) PROVE x.receipt /\ i = x.id
  <2>1. PICK k \in 1..Len(r) : r[k].id = i /\ r[k].receipt
    BY <1>1, <1>4, IdsFacts
  <2>2. r[k] = x \/ \E j \in 1..Len(q) : r[k] = q[j]
    <3>1. CASE k < p
      BY <1>1, <2>1, <3>1
    <3>2. CASE k > p
      <4>1. k - 1 \in 1..Len(q) /\ r[k] = q[k - 1]
        BY <1>1, <2>1, <3>2
      <4>2. QED
        BY <4>1
    <3>3. CASE k = p
      BY <1>1, <2>1, <3>3
    <3>4. QED
      BY <1>1, <3>1, <3>2, <3>3
  <2>3. QED
    BY <1>4, <2>1, <2>2, IdsFacts
<1>5. QED
  BY <1>2, <1>3, <1>4 DEF r

LEMMA RemoveIds ==
  ASSUME NEW q \in Seq(Item), NEW p \in 1..Len(q)
  PROVE  /\ IdsIn(q) \subseteq IdsIn(RemoveAt(q, p)) \cup {q[p].id}
         /\ Receipts(RemoveAt(q, p)) \subseteq Receipts(q)
<1> DEFINE r == RemoveAt(q, p)
<1>1. /\ r \in Seq(Item) /\ Len(r) = Len(q) - 1 /\ Len(q) \in Nat
      /\ \A k \in 1..(Len(q) - 1) : r[k] = IF k < p THEN q[k] ELSE q[k + 1]
  BY RemoveAtElements
<1> HIDE DEF r
<1>2. ASSUME NEW k \in 1..Len(q), k # p PROVE q[k].id \in IdsIn(r)
  <2>1. CASE k < p
    <3>1. k \in 1..Len(r) /\ r[k] = q[k]
      BY <1>1, <2>1
    <3>2. QED
      BY <1>1, <3>1, IdsFacts
  <2>2. CASE k > p
    <3>1. k - 1 \in 1..Len(r) /\ r[k - 1] = q[k]
      BY <1>1, <2>2
    <3>2. QED
      BY <1>1, <3>1, IdsFacts
  <2>3. QED
    BY <1>2, <2>1, <2>2
<1>3. ASSUME NEW i \in Receipts(r) PROVE i \in Receipts(q)
  <2>1. PICK k \in 1..Len(r) : r[k].id = i /\ r[k].receipt
    BY <1>1, <1>3, IdsFacts
  <2>2. \E j \in 1..Len(q) : r[k] = q[j]
    <3>1. k \in 1..Len(q) /\ k + 1 \in 1..Len(q) /\ (r[k] = q[k] \/ r[k] = q[k + 1])
      BY <1>1, <2>1
    <3>2. QED
      BY <3>1
  <2>3. QED
    BY <2>1, <2>2, IdsFacts
<1>4. QED
  BY <1>2, <1>3, IdsFacts DEF r

LEMMA ReplaceIds ==
  ASSUME NEW q \in Seq(Item), NEW p \in 1..Len(q), NEW x \in Item,
         x.id = q[p].id, x.receipt = q[p].receipt
  PROVE  /\ IdsIn([q EXCEPT ![p] = x]) = IdsIn(q)
         /\ Receipts([q EXCEPT ![p] = x]) = Receipts(q)
<1> DEFINE r == [q EXCEPT ![p] = x]
<1>1. r \in Seq(Item) /\ Len(r) = Len(q)
  OBVIOUS
<1>2. \A k \in 1..Len(q) : r[k].id = q[k].id /\ r[k].receipt = q[k].receipt
  OBVIOUS
<1> HIDE DEF r
<1>3. /\ \A i : i \in IdsIn(q) <=> \E k \in 1..Len(q) : q[k].id = i
      /\ \A i : i \in Receipts(q) <=> \E k \in 1..Len(q) : q[k].id = i /\ q[k].receipt
  BY IdsFacts
<1>4. /\ \A i : i \in IdsIn(r) <=> \E k \in 1..Len(q) : r[k].id = i
      /\ \A i : i \in Receipts(r) <=> \E k \in 1..Len(q) : r[k].id = i /\ r[k].receipt
  BY <1>1, IdsFacts
<1>5. \A i : i \in IdsIn(r) <=> i \in IdsIn(q)
  BY <1>2, <1>3, <1>4
<1>6. \A i : i \in Receipts(r) <=> i \in Receipts(q)
  BY <1>2, <1>3, <1>4
<1>7. IdsIn(r) = IdsIn(q) /\ Receipts(r) = Receipts(q)
  BY <1>5, <1>6
<1>8. QED
  BY <1>7 DEF r

LEMMA ConsIds ==
  ASSUME NEW q \in Seq(Item), NEW x \in Item
  PROVE  /\ IdsIn(q) \cup {x.id} \subseteq IdsIn(<<x>> \o q)
         /\ Receipts(<<x>> \o q) \subseteq Receipts(q) \cup (IF x.receipt THEN {x.id} ELSE {})
<1> DEFINE r == <<x>> \o q
<1>1. /\ r \in Seq(Item) /\ Len(r) = Len(q) + 1 /\ Len(q) \in Nat
      /\ r[1] = x /\ \A k \in 1..Len(q) : r[k + 1] = q[k]
  OBVIOUS
<1> HIDE DEF r
<1>2. ASSUME NEW k \in 1..Len(q) PROVE q[k].id \in IdsIn(r)
  <2>1. k + 1 \in 1..Len(r) /\ r[k + 1] = q[k]
    BY <1>1
  <2>2. QED
    BY <1>1, <2>1, IdsFacts
<1>3. x.id \in IdsIn(r)
  <2>1. 1 \in 1..Len(r) /\ r[1] = x
    BY <1>1
  <2>2. QED
    BY <1>1, <2>1, IdsFacts
<1>4. ASSUME NEW i \in Receipts(r), i \notin Receipts(q) PROVE x.receipt /\ i = x.id
  <2>1. PICK k \in 1..Len(r) : r[k].id = i /\ r[k].receipt
    BY <1>1, <1>4, IdsFacts
  <2>2. r[k] = x \/ \E j \in 1..Len(q) : r[k] = q[j]
    <3>1. CASE k = 1
      BY <1>1, <3>1
    <3>2. CASE k # 1
      <4>1. k - 1 \in 1..Len(q) /\ k = (k - 1) + 1
        BY <1>1, <2>1, <3>2
      <4>2. r[k] = q[k - 1]
        BY <1>1, <4>1
      <4>3. QED
        BY <4>1, <4>2
    <3>3. QED
      BY <3>1, <3>2
  <2>3. QED
    BY <1>4, <2>1, <2>2, IdsFacts
<1>5. QED
  BY <1>2, <1>3, <1>4, IdsFacts DEF r

LEMMA TailIds ==
  ASSUME NEW q \in Seq(Item), q # <<>>
  PROVE  /\ IdsIn(q) \subseteq IdsIn(Tail(q)) \cup {Head(q).id}
         /\ Receipts(Tail(q)) \subseteq Receipts(q)
         /\ Head(q).receipt => Head(q).id \in Receipts(q)
<1> DEFINE r == Tail(q)
<1>1. /\ r \in Seq(Item) /\ Len(r) = Len(q) - 1 /\ Len(q) \in Nat \ {0}
      /\ \A k \in 1..(Len(q) - 1) : r[k] = q[k + 1]
  BY HeadTailProperties
<1>2. Head(q) = q[1] /\ 1 \in 1..Len(q)
  BY <1>1
<1> HIDE DEF r
<1>3. ASSUME NEW k \in 1..Len(q), k # 1 PROVE q[k].id \in IdsIn(r)
  <2>1. k - 1 \in 1..Len(r) /\ r[k - 1] = q[k]
    BY <1>1, <1>3
  <2>2. QED
    BY <1>1, <2>1, IdsFacts
<1>4. ASSUME NEW i \in Receipts(r) PROVE i \in Receipts(q)
  <2>1. PICK k \in 1..Len(r) : r[k].id = i /\ r[k].receipt
    BY <1>1, <1>4, IdsFacts
  <2>2. k + 1 \in 1..Len(q) /\ r[k] = q[k + 1]
    BY <1>1, <2>1
  <2>3. QED
    BY <2>1, <2>2, IdsFacts
<1>5. QED
  BY <1>2, <1>3, <1>4, IdsFacts DEF r

LEMMA KeptIds ==
  ASSUME NEW q \in Seq(Item), NEW r \in Kept(q)
  PROVE  Receipts(r) \subseteq Receipts(q)
<1>1. r \in Seq(Item) /\ \A j \in 1..Len(r) : \E k \in 1..Len(q) : r[j] = q[k]
  BY KeptType
<1>2. QED
  BY <1>1, IdsFacts

LEMMA HandIn ==
  ASSUME NEW h \in Seq(Ids), NEW i \in Ids
  PROVE  ToSet(Append(h, i)) = ToSet(h) \cup {i}
<1>1. /\ Len(h) \in Nat /\ Append(h, i) \in Seq(Ids) /\ Len(Append(h, i)) = Len(h) + 1
      /\ \A k \in 1..Len(h) : Append(h, i)[k] = h[k]
      /\ Append(h, i)[Len(h) + 1] = i
  OBVIOUS
<1>2. /\ \A x : x \in ToSet(h) <=> \E k \in 1..Len(h) : h[k] = x
      /\ \A x : x \in ToSet(Append(h, i)) <=> \E k \in 1..(Len(h) + 1) : Append(h, i)[k] = x
  BY <1>1 DEF ToSet
<1>3. \A k : k \in 1..(Len(h) + 1) <=> k \in 1..Len(h) \/ k = Len(h) + 1
  BY <1>1
<1>4. QED
  BY <1>1, <1>2, <1>3

-----------------------------------------------------------------------------
(* What a step must do to keep the invariant.                              *)

LEMMA LostInit == Init => Safe
<1> SUFFICES ASSUME Init PROVE Safe
  OBVIOUS
<1>1. queue = <<>> /\ accepted = <<>> /\ wpc = [w \in Workers |-> "idle"]
      /\ held = [w \in Workers |-> NoItem]
  BY DEF Init
<1>2. NothingLost
  BY <1>1 DEF NothingLost, AcceptedIds
<1>3. Receipts(queue) = {}
  BY <1>1 DEF Receipts
<1>4. WorkerReceipts
  BY <1>1 DEF WorkerReceipts, TakenPCs, NoItem
<1>5. QED
  BY <1>2, <1>3, <1>4 DEF Safe

\* A step of which the processor's goroutines know nothing.
LEMMA OutsideStep ==
  ASSUME LostInv, UNCHANGED <<wpc, held>>,
         ToSet(handed) \subseteq ToSet(handed'), gone \subseteq gone',
         IdsIn(queue) \subseteq IdsIn(queue') \cup gone',
         AcceptedIds' \subseteq AcceptedIds \cup IdsIn(queue'),
         Receipts(queue') \subseteq Receipts(queue)
  PROVE  Safe'
<1>1. InHand' = InHand
  BY DEF InHand
<1>2. NothingLost'
  BY <1>1 DEF LostInv, Safe, NothingLost, InHand
<1>3. Receipts(queue)' \subseteq ToSet(handed)' /\ WorkerReceipts'
  BY DEF LostInv, Safe, WorkerReceipts
<1>4. QED
  BY <1>2, <1>3 DEF Safe

\* A step of one goroutine of the processor, from its place to pc and from held[w] to x.
LEMMA WorkerStep ==
  ASSUME LostInv, NEW w \in Workers, NEW pc, NEW x, Go(w, pc), held'[w] = x,
         \A v \in Workers \ {w} : held'[v] = held[v],
         UNCHANGED accepted, ToSet(handed) \subseteq ToSet(handed'), gone \subseteq gone',
         NEW hand, hand = IF pc \in CallPCs \cup PrependPCs THEN {x.id} ELSE {},
         IdsIn(queue) \subseteq IdsIn(queue') \cup gone' \cup hand,
         wpc[w] \in CallPCs \cup PrependPCs =>
           held[w].id \in IdsIn(queue') \cup ToSet(handed') \cup hand,
         Receipts(queue') \subseteq ToSet(handed'),
         x.receipt \/ pc \in TakenPCs => x.id \in ToSet(handed')
  PROVE  Safe'
<1>1. /\ wpc'[w] = pc
      /\ \A v \in Workers \ {w} : wpc'[v] = wpc[v]
  BY DEF LostInv, TypeInv, WorkersOK, Go
<1>2. InHand \subseteq InHand' \cup {held[w].id}
      /\ (wpc[w] \notin CallPCs \cup PrependPCs => InHand \subseteq InHand')
      /\ hand \subseteq InHand'
  BY <1>1 DEF InHand
<1>3. InHand \subseteq IdsIn(queue') \cup ToSet(handed') \cup InHand'
  BY <1>2
<1>4. IdsIn(queue) \subseteq IdsIn(queue') \cup gone' \cup InHand'
  BY <1>2
<1>5. AcceptedIds' \subseteq IdsIn(queue') \cup ToSet(handed') \cup gone' \cup InHand'
  BY <1>3, <1>4 DEF LostInv, Safe, NothingLost, AcceptedIds, InHand
<1>6. NothingLost'
  BY <1>5 DEF NothingLost, InHand
<1>7. WorkerReceipts'
  BY <1>1 DEF LostInv, Safe, WorkerReceipts
<1>8. QED
  BY <1>6, <1>7 DEF Safe

LEMMA LostTypes ==
  ASSUME LostInv
  PROVE  /\ TypeInv /\ queue \in Seq(Item) /\ handed \in Seq(Ids)
         /\ Receipts(queue) \subseteq ToSet(handed)
  BY QueueItems DEF LostInv, Safe, TypeInv, HandedOK

\* A step that touches neither the queue nor what was taken.
LEMMA QuietStep ==
  ASSUME LostInv, UNCHANGED <<wpc, held, queue, handed, accepted>>, gone \subseteq gone'
  PROVE  Safe'
<1>1. AcceptedIds' = AcceptedIds
  BY DEF AcceptedIds
<1>2. QED
  BY <1>1, OutsideStep

-----------------------------------------------------------------------------
(* The actions.                                                            *)

LEMMA LostCommand ==
  ASSUME LostInv, NEW c \in Clients, NEW i \in Ids, NEW mode \in Modes,
         Send(c, i, mode) \/ SendDirect(c, i) \/ Reorder(c, i, mode)
  PROVE  Safe'
  BY QuietStep DEF Send, SendDirect, Reorder, procVars, queueVars, history

LEMMA LostIdle ==
  ASSUME LostInv, NEW c \in Clients, Abort(c) \/ Archive(c)
  PROVE  Safe'
  BY QuietStep DEF Abort, Archive, procVars, queueVars, history

LEMMA LostHandler ==
  ASSUME LostInv, NEW c \in Clients,
         \/ Choose(c) \/ ClientDispatch(c) \/ Cancel(c) \/ CancelOnly(c)
         \/ ArchiveTimesOut(c) \/ ArchiveMark(c)
  PROVE  Safe'
  BY QuietStep DEF Choose, ClientDispatch, Cancel, CancelOnly, ArchiveTimesOut, ArchiveMark, Show,
                   procVars, queueVars, history

LEMMA LostBackground ==
  ASSUME LostInv,
         \/ TimerFires \/ AutoRetry \/ UpdateRetry \/ OtherRun \/ RunBlocks
         \/ RunUnblocks \/ ToolEnds \/ RunDone \/ ReleaseRun
  PROVE  Safe'
  BY QuietStep DEF TimerFires, AutoRetry, UpdateRetry, OtherRun, RunBlocks, RunUnblocks,
                   ToolEnds, RunDone, ReleaseRun, procVars, queueVars, history

LEMMA LostEnqueue == ASSUME LostInv, NEW c \in Clients, Enqueue(c) PROVE Safe'
<1> DEFINE i == cl[c].id
           x == NewItem(i, cl[c].mode)
<1>1. CASE UNCHANGED <<queueVars, accepted>>
  BY <1>1, QuietStep DEF Enqueue, procVars, queueVars, history
<1>2. CASE ~UNCHANGED <<queueVars, accepted>>
  <2>1. /\ queue' = InsertPending(queue, x)
        /\ accepted' = Append(accepted, [id |-> i, mode |-> cl[c].mode])
        /\ UNCHANGED <<wpc, held, handed, gone>>
    BY <1>2 DEF Enqueue, Mutate, procVars, history
  <2>2. TypeInv /\ queue \in Seq(Item) /\ i \in Ids /\ cl[c].mode \in Modes
    BY LostTypes, ClientArgs DEF Enqueue, WithInput
  <2>3. x \in Item /\ x.id = i /\ ~x.receipt
    BY <2>2, NewItemType
  <2> HIDE DEF x
  <2>4. PICK p \in 1..(Len(queue) + 1) : queue' = InsertAt(queue, p, x)
    BY <2>1, <2>2, <2>3, InsertPendingPlace
  <2>5. IdsIn(queue) \cup {i} \subseteq IdsIn(queue') /\ Receipts(queue') \subseteq Receipts(queue)
    BY <2>2, <2>3, <2>4, InsertIds
  <2>6. AcceptedIds' \subseteq AcceptedIds \cup {i}
    <3>1. accepted \in Seq([id : Ids, mode : Modes])
      BY <2>2 DEF TypeInv, AcceptedOK
    <3>2. \A k \in 1..Len(accepted') :
            (accepted'[k].id = i) \/ (k \in 1..Len(accepted) /\ accepted'[k] = accepted[k])
      BY <2>1, <3>1
    <3>3. QED
      BY <3>2 DEF AcceptedIds
  <2>7. QED
    BY <2>1, <2>5, <2>6, OutsideStep
<1>3. QED
  BY <1>1, <1>2

LEMMA LostClientDispatched == ASSUME LostInv, NEW c \in Clients, ClientDispatched(c) PROVE Safe'
<1>1. UNCHANGED <<wpc, held, queue, accepted, gone>>
  BY DEF ClientDispatched, procVars, queueVars
<1>2. handed' = handed \/ handed' = Append(handed, cl[c].id)
  BY DEF ClientDispatched
<1>3. cl[c].id \in Ids
  BY LostTypes, ClientArgs DEF ClientDispatched, WithInput
<1>4. ToSet(handed) \subseteq ToSet(handed')
  BY <1>2, <1>3, HandIn, LostTypes
<1>5. AcceptedIds' = AcceptedIds
  BY <1>1 DEF AcceptedIds
<1>6. QED
  BY <1>1, <1>4, <1>5, OutsideStep

LEMMA LostRemove == ASSUME LostInv, NEW c \in Clients, NEW i \in Ids, RemovePending(c, i) PROVE Safe'
<1>1. PICK k \in FirstWith(queue, i) : queue' = RemoveAt(queue, k)
  BY DEF RemovePending, Mutate
<1>2. k \in 1..Len(queue) /\ queue[k].id = i
  BY <1>1 DEF FirstWith
<1>3. UNCHANGED <<wpc, held, handed, accepted>> /\ gone' = gone \cup {i}
  BY DEF RemovePending, procVars
<1>4. IdsIn(queue) \subseteq IdsIn(queue') \cup {i} /\ Receipts(queue') \subseteq Receipts(queue)
  BY <1>1, <1>2, RemoveIds, LostTypes
<1>5. AcceptedIds' = AcceptedIds
  BY <1>3 DEF AcceptedIds
<1>6. QED
  BY <1>3, <1>4, <1>5, OutsideStep

LEMMA LostUpdate ==
  ASSUME LostInv, NEW c \in Clients, NEW i \in Ids, NEW p \in BOOLEAN, Update(c, i, p)
  PROVE  Safe'
<1>1. PICK k \in FirstWith(queue, i) : queue' = [queue EXCEPT ![k] = Edited(queue[k], p)]
  BY DEF Update, Mutate
<1>2. k \in 1..Len(queue) /\ queue \in Seq(Item) /\ queue[k] \in Item
  BY <1>1, LostTypes DEF FirstWith
<1>3. UNCHANGED <<wpc, held, handed, accepted, gone>>
  BY DEF Update, procVars, history
<1>4. IdsIn(queue') = IdsIn(queue) /\ Receipts(queue') = Receipts(queue)
  BY <1>1, <1>2, ItemOps, ReplaceIds
<1>5. AcceptedIds' = AcceptedIds
  BY <1>3 DEF AcceptedIds
<1>6. QED
  BY <1>3, <1>4, <1>5, OutsideStep

LEMMA LostMove == ASSUME LostInv, NEW c \in Clients, Move(c) PROVE Safe'
<1>1. UNCHANGED <<wpc, held, handed, accepted, gone>>
  BY DEF Move, procVars
<1>2. CASE UNCHANGED queueVars
  BY <1>1, <1>2, QuietStep DEF queueVars
<1>3. CASE ~UNCHANGED queueVars
  <2> DEFINE i == cl[c].id
             x(k) == IF queue[k].mode = cl[c].mode THEN queue[k] ELSE NewItem(i, cl[c].mode)
  <2>1. PICK k \in FirstWith(queue, i) : \E q \in Places(RemoveAt(queue, k), x(k)) : queue' = q
    BY <1>3 DEF Move, Mutate
  <2>2. k \in 1..Len(queue) /\ queue[k].id = i /\ queue \in Seq(Item) /\ queue[k] \in Item
    BY <2>1, LostTypes DEF FirstWith
  <2>3. i \in Ids /\ cl[c].mode \in Modes
    BY LostTypes, ClientArgs DEF Move, WithInput
  <2>4. x(k) \in Item /\ x(k).id = i /\ (x(k).receipt => queue[k].receipt)
    BY <2>2, <2>3, NewItemType
  <2> HIDE DEF x
  <2>5. RemoveAt(queue, k) \in Seq(Item)
    BY <2>2, RemoveAtElements
  <2>6. PICK p \in 1..(Len(RemoveAt(queue, k)) + 1) : queue' = InsertAt(RemoveAt(queue, k), p, x(k))
    BY <2>1, <2>4, <2>5, PlacesPlace
  <2>7. /\ IdsIn(queue) \subseteq IdsIn(RemoveAt(queue, k)) \cup {i}
        /\ Receipts(RemoveAt(queue, k)) \subseteq Receipts(queue)
    BY <2>2, RemoveIds
  <2>8. /\ IdsIn(RemoveAt(queue, k)) \cup {i} \subseteq IdsIn(queue')
        /\ Receipts(queue') \subseteq Receipts(RemoveAt(queue, k)) \cup (IF x(k).receipt THEN {i} ELSE {})
    BY <2>4, <2>5, <2>6, InsertIds
  <2>9. queue[k].receipt => i \in Receipts(queue)
    BY <2>2, IdsFacts
  <2>10. IdsIn(queue) \subseteq IdsIn(queue') /\ Receipts(queue') \subseteq Receipts(queue)
    BY <2>4, <2>7, <2>8, <2>9
  <2>11. AcceptedIds' = AcceptedIds
    BY <1>1 DEF AcceptedIds
  <2>12. QED
    BY <1>1, <2>10, <2>11, OutsideStep
<1>4. QED
  BY <1>2, <1>3

LEMMA LostClear == ASSUME LostInv, NEW c \in Clients, Clear(c) PROVE Safe'
<1>1. UNCHANGED <<wpc, held, handed, accepted>>
  BY DEF Clear
<1>2. CASE UNCHANGED <<queueVars, gone>>
  BY <1>1, <1>2, QuietStep DEF queueVars
<1>3. CASE ~UNCHANGED <<queueVars, gone>>
  <2>1. PICK q \in Kept(queue) : queue' = q /\ gone' = gone \cup (IdsIn(queue) \ IdsIn(q))
    BY <1>3 DEF Clear, Mutate
  <2>2. Receipts(queue') \subseteq Receipts(queue)
    BY <2>1, KeptIds, LostTypes
  <2>3. AcceptedIds' = AcceptedIds
    BY <1>1 DEF AcceptedIds
  <2>4. QED
    BY <1>1, <2>1, <2>2, <2>3, OutsideStep
<1>4. QED
  BY <1>2, <1>3

LEMMA LostExpire == ASSUME LostInv, NEW c \in Clients, ExpireHeadRedirect(c) PROVE Safe'
<1>1. UNCHANGED <<wpc, held, handed, accepted, gone>>
  BY DEF ExpireHeadRedirect, procVars, history
<1>2. CASE UNCHANGED queueVars
  BY <1>1, <1>2, QuietStep DEF queueVars
<1>3. CASE ~UNCHANGED queueVars
  <2>1. queue # <<>> /\ queue' = <<Due(Head(queue))>> \o Tail(queue)
    BY <1>3 DEF ExpireHeadRedirect, Show
  <2>2. /\ queue \in Seq(Item) /\ Tail(queue) \in Seq(Item) /\ Due(Head(queue)) \in Item
        /\ Due(Head(queue)).id = Head(queue).id /\ Due(Head(queue)).receipt = Head(queue).receipt
    BY <2>1, LostTypes, Heads, ItemOps
  <2>3. /\ IdsIn(queue) \subseteq IdsIn(Tail(queue)) \cup {Head(queue).id}
        /\ Receipts(Tail(queue)) \subseteq Receipts(queue)
        /\ Head(queue).receipt => Head(queue).id \in Receipts(queue)
    BY <2>1, <2>2, TailIds
  <2>4. /\ IdsIn(Tail(queue)) \cup {Head(queue).id} \subseteq IdsIn(queue')
        /\ Receipts(queue') \subseteq
             Receipts(Tail(queue)) \cup (IF Head(queue).receipt THEN {Head(queue).id} ELSE {})
    BY <2>1, <2>2, ConsIds
  <2>5. IdsIn(queue) \subseteq IdsIn(queue') /\ Receipts(queue') \subseteq Receipts(queue)
    BY <2>3, <2>4
  <2>6. AcceptedIds' = AcceptedIds
    BY <1>1 DEF AcceptedIds
  <2>7. QED
    BY <1>1, <2>5, <2>6, OutsideStep
<1>4. QED
  BY <1>2, <1>3

LEMMA LostElapse == ASSUME LostInv, NEW i \in Ids, Elapse(i) PROVE Safe'
<1>1. PICK k \in 1..Len(queue) : queue' = [queue EXCEPT ![k] = Due(queue[k])]
  BY DEF Elapse
<1>2. queue \in Seq(Item) /\ queue[k] \in Item
  BY LostTypes
<1>3. UNCHANGED <<wpc, held, handed, accepted, gone>>
  BY DEF Elapse, procVars, history
<1>4. IdsIn(queue') = IdsIn(queue) /\ Receipts(queue') = Receipts(queue)
  BY <1>1, <1>2, ItemOps, ReplaceIds
<1>5. AcceptedIds' = AcceptedIds
  BY <1>3 DEF AcceptedIds
<1>6. QED
  BY <1>3, <1>4, <1>5, OutsideStep

LEMMA LostDropAll ==
  ASSUME LostInv, DropAll, UNCHANGED accepted
  PROVE  /\ IdsIn(queue) \subseteq gone' /\ gone \subseteq gone'
         /\ Receipts(queue') = {} /\ AcceptedIds' = AcceptedIds
<1>1. queue' = <<>> /\ gone' = gone \cup IdsIn(queue)
  BY DEF DropAll
<1>2. Receipts(queue') = {}
  BY <1>1 DEF Receipts
<1>3. QED
  BY <1>1, <1>2 DEF AcceptedIds

LEMMA LostArchiveClear == ASSUME LostInv, NEW c \in Clients, ArchiveClear(c) PROVE Safe'
<1>1. UNCHANGED <<wpc, held, handed, accepted>> /\ DropAll
  BY DEF ArchiveClear
<1>2. QED
  BY <1>1, LostDropAll, OutsideStep

LEMMA LostFireWake == ASSUME LostInv, FireWake PROVE Safe'
<1>1. UNCHANGED <<queue, handed, gone, accepted>> /\ Trigger(IdleWorkers)
  BY DEF FireWake, queueVars, history
<1>2. CASE processing
  BY <1>1, <1>2, QuietStep DEF Trigger
<1>3. CASE ~processing
  <2>1. PICK w \in IdleWorkers : Go(w, "peek") /\ held' = [held EXCEPT ![w] = NoItem]
    BY <1>1, <1>3 DEF Trigger, Go
  <2>2. w \in Workers /\ wpc[w] = "idle"
    BY <2>1 DEF IdleWorkers
  <2>3. held'[w] = NoItem /\ \A v \in Workers \ {w} : held'[v] = held[v]
    BY <2>1, <2>2 DEF LostInv, TypeInv, WorkersOK
  <2>4. ~NoItem.receipt
    BY DEF NoItem
  <2>5. /\ {"peek", "idle"} \cap (CallPCs \cup PrependPCs) = {}
        /\ "peek" \notin TakenPCs
    BY DEF CallPCs, PrependPCs, TakenPCs
  <2>6. QED
    BY <1>1, <2>1, <2>2, <2>3, <2>4, <2>5, WorkerStep, LostTypes
<1>4. QED
  BY <1>2, <1>3

-----------------------------------------------------------------------------
(* The processor.                                                          *)

LEMMA HeldReceipt ==
  ASSUME LostInv, NEW w \in Workers, held[w].receipt \/ wpc[w] \in TakenPCs
  PROVE  held[w].id \in ToSet(handed)
  BY DEF LostInv, Safe, WorkerReceipts

LEMMA Holds ==
  ASSUME LostInv, NEW w \in Workers, NEW x, Hold(w, x)
  PROVE  held'[w] = x /\ \A v \in Workers \ {w} : held'[v] = held[v]
  BY DEF LostInv, TypeInv, WorkersOK, Hold

\* The processor has nothing in hand and takes nothing.
LEMMA FreeStep ==
  ASSUME LostInv, NEW w \in Workers, NEW pc, Go(w, pc),
         UNCHANGED <<queue, handed, gone, accepted, held>>,
         wpc[w] \notin CallPCs \cup PrependPCs, pc \notin TakenPCs
  PROVE  Safe'
  BY WorkerStep, HeldReceipt, LostTypes

\* The processor goes on with the item in its hand.
LEMMA CallStep ==
  ASSUME LostInv, NEW w \in Workers, NEW pc \in CallPCs \cup PrependPCs, Go(w, pc),
         UNCHANGED <<queue, gone, accepted>>, ToSet(handed) \subseteq ToSet(handed'),
         NEW x, held'[w] = x, \A v \in Workers \ {w} : held'[v] = held[v], x.id = held[w].id,
         x.receipt \/ pc \in TakenPCs => x.id \in ToSet(handed')
  PROVE  Safe'
  BY WorkerStep, LostTypes

\* The processor is done with an item that the agent has taken.
LEMMA DoneStep ==
  ASSUME LostInv, NEW w \in Workers, Go(w, "peek"),
         UNCHANGED <<queue, handed, gone, accepted, held>>, wpc[w] \in TakenPCs
  PROVE  Safe'
<1>1. "peek" \notin CallPCs \cup PrependPCs /\ "peek" \notin TakenPCs
  BY DEF CallPCs, PrependPCs, TakenPCs
<1>2. held[w].id \in ToSet(handed)
  BY HeldReceipt
<1>3. QED
  BY <1>1, <1>2, WorkerStep, LostTypes

LEMMA LostPeek == ASSUME LostInv, NEW w \in Workers, Peek(w) PROVE Safe'
<1>1. wpc[w] \notin CallPCs \cup PrependPCs /\ UNCHANGED <<queue, handed, gone, accepted>>
  BY DEF Peek, queueVars, history, CallPCs, PrependPCs
<1>2. CASE Go(w, "finish") /\ UNCHANGED held
  BY <1>1, <1>2, FreeStep DEF TakenPCs
<1>3. CASE ~(Go(w, "finish") /\ UNCHANGED held)
  <2> DEFINE x == Head(queue)
  <2>1. queue # <<>> /\ Hold(w, x)
    BY <1>3 DEF Peek
  <2>2. PICK pc \in {"arm", "claimReceipt", "readRun"} :
          Go(w, pc) /\ (pc = "claimReceipt" => x.receipt)
    BY <1>3 DEF Peek
  <2>3. x.receipt => x.id \in ToSet(handed)
    BY <2>1, TailIds, LostTypes
  <2> HIDE DEF x
  <2>4. pc \notin CallPCs \cup PrependPCs /\ (pc \in TakenPCs => x.receipt)
    BY <2>2 DEF CallPCs, PrependPCs, TakenPCs
  <2>5. QED
    BY <1>1, <2>1, <2>2, <2>3, <2>4, Holds, WorkerStep, LostTypes
<1>4. QED
  BY <1>2, <1>3

LEMMA LostArm == ASSUME LostInv, NEW w \in Workers, Arm(w) PROVE Safe'
  BY FreeStep DEF Arm, queueVars, history, CallPCs, PrependPCs, TakenPCs

LEMMA LostReadRun == ASSUME LostInv, NEW w \in Workers, ReadRun(w) PROVE Safe'
<1>1. \E pc \in {"getSession", "claimPi", "claimSteer", "finish"} : Go(w, pc)
  BY DEF ReadRun
<1>2. QED
  BY <1>1, FreeStep DEF ReadRun, queueVars, history, CallPCs, PrependPCs, TakenPCs

LEMMA LostGetSession == ASSUME LostInv, NEW w \in Workers, GetSession(w) PROVE Safe'
<1>1. /\ wpc[w] \notin CallPCs \cup PrependPCs /\ UNCHANGED <<handed, accepted, held>>
      /\ \E pc \in {"finish", "claimDispatch"} : Go(w, pc)
  BY DEF GetSession, CallPCs, PrependPCs
<1>2. PICK pc \in {"finish", "claimDispatch"} : Go(w, pc)
  BY <1>1
<1>3. pc \notin CallPCs \cup PrependPCs /\ pc \notin TakenPCs
  BY <1>2 DEF CallPCs, PrependPCs, TakenPCs
<1>4. CASE DropAll
  BY <1>1, <1>2, <1>3, <1>4, LostDropAll, HeldReceipt, WorkerStep
<1>5. CASE ~DropAll
  <2>1. UNCHANGED <<queue, gone>>
    BY <1>5 DEF GetSession, queueVars
  <2>2. QED
    BY <1>1, <1>2, <1>3, <2>1, FreeStep
<1>6. QED
  BY <1>4, <1>5

LEMMA LostClaim == ASSUME LostInv, NEW w \in Workers, Claim(w) PROVE Safe'
<1>1. wpc[w] \in ClaimPCs /\ wpc[w] \notin CallPCs \cup PrependPCs
      /\ UNCHANGED <<handed, accepted, gone>>
  BY DEF Claim, ClaimPCs, CallPCs, PrependPCs
<1>2. CASE Go(w, "peek") /\ UNCHANGED <<queueVars, held>>
  BY <1>1, <1>2, FreeStep DEF queueVars, TakenPCs
<1>3. CASE ~(Go(w, "peek") /\ UNCHANGED <<queueVars, held>>)
  <2> DEFINE x == Head(queue)
             pc == AfterClaim[wpc[w]]
  <2>1. /\ queue # <<>> /\ x.id = held[w].id
        /\ Hold(w, x) /\ Go(w, pc) /\ queue' = Tail(queue)
    BY <1>3 DEF Claim, Show
  <2>2. pc \in CallPCs /\ (pc \in TakenPCs => wpc[w] \in TakenPCs)
    BY <1>1 DEF ClaimPCs, CallPCs, TakenPCs, AfterClaim
  <2> HIDE DEF x, pc
  <2>3. /\ IdsIn(queue) \subseteq IdsIn(queue') \cup {x.id}
        /\ Receipts(queue') \subseteq ToSet(handed)
        /\ x.receipt => x.id \in ToSet(handed)
    BY <2>1, TailIds, LostTypes DEF x
  <2>4. pc \in TakenPCs => x.id \in ToSet(handed)
    BY <2>1, <2>2, HeldReceipt
  <2>5. held'[w] = x /\ \A v \in Workers \ {w} : held'[v] = held[v]
    BY <2>1, Holds
  <2>6. PICK hand : hand = {x.id}
    OBVIOUS
  <2>7. hand = IF pc \in CallPCs \cup PrependPCs THEN {x.id} ELSE {}
    BY <2>2, <2>6
  <2>8. IdsIn(queue) \subseteq IdsIn(queue') \cup gone' \cup hand
    BY <2>3, <2>6
  <2>9. QED
    BY <1>1, <2>1, <2>3, <2>4, <2>5, <2>7, <2>8, WorkerStep
<1>4. QED
  BY <1>2, <1>3

LEMMA LostPersist == ASSUME LostInv, NEW w \in Workers, Persist(w) PROVE Safe'
<1>1. wpc[w] \in TakenPCs /\ UNCHANGED <<queue, handed, gone, accepted>>
  BY DEF Persist, TakenPCs, queueVars, history
<1>2. CASE Go(w, "peek") /\ UNCHANGED held
  BY <1>1, <1>2, DoneStep
<1>3. CASE ~(Go(w, "peek") /\ UNCHANGED held)
  <2>1. Hold(w, Later(held[w])) /\ Go(w, "prependArm")
    BY <1>3 DEF Persist
  <2>2. held[w] \in Item
    BY Holding, LostTypes DEF Persist, HoldingPCs, ActivePCs, CallPCs
  <2>3. "prependArm" \in PrependPCs /\ Later(held[w]).id = held[w].id
    BY <2>2, ItemOps DEF PrependPCs
  <2>4. held[w].id \in ToSet(handed)
    BY <1>1, HeldReceipt
  <2>5. QED
    BY <1>1, <2>1, <2>3, <2>4, Holds, CallStep
<1>4. QED
  BY <1>2, <1>3

LEMMA LostAccepted ==
  ASSUME LostInv, NEW w \in Workers, NEW pc \in CallPCs, Go(w, pc), wpc[w] \in CallPCs,
         UNCHANGED <<queue, gone, accepted, held>>, handed' = Append(handed, held[w].id)
  PROVE  Safe'
<1>1. held[w].id \in Ids
  BY Holding, LostTypes DEF HoldingPCs, ActivePCs, CallPCs
<1>2. ToSet(handed') = ToSet(handed) \cup {held[w].id}
  BY <1>1, HandIn, LostTypes
<1>3. ToSet(handed) \subseteq ToSet(handed') /\ held[w].id \in ToSet(handed')
  BY <1>2
<1>4. \A v \in Workers \ {w} : held'[v] = held[v]
  OBVIOUS
<1>5. QED
  BY <1>3, <1>4, CallStep

\* The agent did not take the item: it goes back as f made it.
LEMMA LostRefused ==
  ASSUME LostInv, NEW w \in Workers, NEW pc \in PrependPCs, Go(w, pc), wpc[w] \in CallPCs,
         UNCHANGED <<queue, gone, accepted, handed>>,
         NEW x \in {held[w], Due(held[w]), Later(held[w]), Failed(held[w])},
         held'[w] = x, \A v \in Workers \ {w} : held'[v] = held[v]
  PROVE  Safe'
<1>1. held[w] \in Item
  BY Holding, LostTypes DEF HoldingPCs, ActivePCs, CallPCs
<1>2. x.id = held[w].id /\ x.receipt = held[w].receipt
  <2>1. ASSUME NEW h \in Item, NEW y \in {h, Due(h), Later(h), Failed(h)}
        PROVE  y.id = h.id /\ y.receipt = h.receipt
    BY ItemOps
  <2>2. QED
    BY <1>1, <2>1
<1>3. pc \notin TakenPCs
  BY DEF PrependPCs, TakenPCs
<1>4. QED
  BY <1>2, <1>3, HeldReceipt, CallStep, LostTypes

LEMMA LostSteer == ASSUME LostInv, NEW w \in Workers, Steer(w) PROVE Safe'
<1>1. wpc[w] \in CallPCs /\ UNCHANGED <<queue, gone, accepted>>
  BY DEF Steer, CallPCs, queueVars
<1>2. CASE Go(w, "markSteer") /\ UNCHANGED held /\ handed' = Append(handed, held[w].id)
  BY <1>1, <1>2, LostAccepted DEF CallPCs
<1>3. CASE ~(Go(w, "markSteer") /\ UNCHANGED held /\ handed' = Append(handed, held[w].id))
  <2>1. /\ UNCHANGED handed
        /\ \E pc \in PrependPCs, x \in {Due(held[w]), Later(held[w]), Failed(held[w])} :
             Go(w, pc) /\ Hold(w, x)
    BY <1>3 DEF Steer, PrependPCs
  <2>2. PICK pc \in PrependPCs, x \in {Due(held[w]), Later(held[w]), Failed(held[w])} :
          Go(w, pc) /\ Hold(w, x)
    BY <2>1
  <2>3. QED
    BY <1>1, <2>1, <2>2, Holds, LostRefused
<1>4. QED
  BY <1>2, <1>3

LEMMA LostPiSend == ASSUME LostInv, NEW w \in Workers, PiSend(w) PROVE Safe'
<1>1. wpc[w] \in CallPCs /\ UNCHANGED <<queue, gone, accepted>>
  BY DEF PiSend, CallPCs, queueVars
<1>2. CASE Go(w, "markPi") /\ UNCHANGED held /\ handed' = Append(handed, held[w].id)
  BY <1>1, <1>2, LostAccepted DEF CallPCs
<1>3. CASE Go(w, "prependStop") /\ UNCHANGED <<held, handed>>
  BY <1>1, <1>3, LostRefused DEF PrependPCs
<1>4. CASE Go(w, "prependStop") /\ Hold(w, Failed(held[w])) /\ UNCHANGED handed
  BY <1>1, <1>4, Holds, LostRefused DEF PrependPCs
<1>5. QED
  BY <1>2, <1>3, <1>4 DEF PiSend

LEMMA LostDispatch == ASSUME LostInv, NEW w \in Workers, Dispatch(w) PROVE Safe'
<1>1. wpc[w] \in CallPCs /\ UNCHANGED <<queue, gone, accepted, handed, held>>
  BY DEF Dispatch, CallPCs, queueVars
<1>2. CASE Go(w, "dispatching")
  BY <1>1, <1>2, CallStep, HeldReceipt DEF CallPCs, TakenPCs
<1>3. CASE Go(w, "prependStop")
  BY <1>1, <1>3, LostRefused DEF PrependPCs
<1>4. CASE Go(w, "prependPeek")
  BY <1>1, <1>4, LostRefused DEF PrependPCs
<1>5. QED
  BY <1>2, <1>3, <1>4 DEF Dispatch

LEMMA LostDispatched == ASSUME LostInv, NEW w \in Workers, Dispatched(w) PROVE Safe'
<1>1. wpc[w] \in CallPCs /\ UNCHANGED <<queue, gone, accepted, held>>
  BY DEF Dispatched, CallPCs, queueVars
<1>2. CASE Go(w, "markDispatch") /\ handed' = Append(handed, held[w].id)
  BY <1>1, <1>2, LostAccepted DEF CallPCs
<1>3. CASE Go(w, "prependStop") /\ UNCHANGED handed
  BY <1>1, <1>3, LostRefused DEF PrependPCs
<1>4. QED
  BY <1>2, <1>3 DEF Dispatched

LEMMA LostMark == ASSUME LostInv, NEW w \in Workers, Mark(w) PROVE Safe'
<1>1. wpc[w] \in TakenPCs /\ UNCHANGED <<queue, gone, accepted, handed>>
  BY DEF Mark, TakenPCs, queueVars, history
<1>2. CASE Go(w, "peek") /\ UNCHANGED held
  BY <1>1, <1>2, DoneStep
<1>3. CASE Hold(w, Accepted(held[w])) /\ Go(w, "persist")
  <2>1. held[w] \in Item
    BY Holding, LostTypes DEF Mark, HoldingPCs, ActivePCs, CallPCs
  <2>2. "persist" \in CallPCs /\ Accepted(held[w]).id = held[w].id
    BY <2>1, ItemOps DEF CallPCs
  <2>3. held[w].id \in ToSet(handed)
    BY <1>1, HeldReceipt
  <2>4. QED
    BY <1>1, <1>3, <2>2, <2>3, Holds, CallStep
<1>4. QED
  BY <1>2, <1>3 DEF Mark

LEMMA LostPrepend == ASSUME LostInv, NEW w \in Workers, Prepend(w) PROVE Safe'
<1> DEFINE pc == AfterPrepend[wpc[w]]
<1>1. /\ wpc[w] \in PrependPCs /\ Go(w, pc) /\ UNCHANGED <<gone, accepted, handed, held>>
      /\ queue' = <<held[w]>> \o queue
  BY DEF Prepend, Show, PutBack, history
<1>2. pc \notin CallPCs \cup PrependPCs /\ pc \notin TakenPCs
  BY <1>1 DEF PrependPCs, CallPCs, TakenPCs, AfterPrepend
<1> HIDE DEF pc
<1>3. held[w] \in Item
  BY <1>1, Holding, LostTypes DEF HoldingPCs, ActivePCs, PrependPCs
<1>4. /\ IdsIn(queue) \cup {held[w].id} \subseteq IdsIn(queue')
      /\ Receipts(queue') \subseteq Receipts(queue) \cup (IF held[w].receipt THEN {held[w].id} ELSE {})
  BY <1>1, <1>3, ConsIds, LostTypes
<1>5. held[w].receipt => held[w].id \in ToSet(handed)
  BY HeldReceipt
<1>6. Receipts(queue') \subseteq ToSet(handed)
  BY <1>4, <1>5, LostTypes
<1>7. QED
  BY <1>1, <1>2, <1>4, <1>5, <1>6, WorkerStep

LEMMA LostFinish == ASSUME LostInv, NEW w \in Workers, Finish(w) PROVE Safe'
<1>1. /\ UNCHANGED <<queue, gone, accepted, handed>> /\ Hold(w, NoItem)
      /\ wpc[w] \notin CallPCs \cup PrependPCs
      /\ \E pc \in {"restart", "idle"} : Go(w, pc)
  BY DEF Finish, queueVars, history, CallPCs, PrependPCs
<1>2. PICK pc \in {"restart", "idle"} : Go(w, pc)
  BY <1>1
<1>3. pc \notin TakenPCs /\ pc \notin CallPCs \cup PrependPCs /\ ~NoItem.receipt
  BY <1>2 DEF TakenPCs, CallPCs, PrependPCs, NoItem
<1>4. QED
  BY <1>1, <1>2, <1>3, Holds, WorkerStep, LostTypes

LEMMA LostRestart == ASSUME LostInv, NEW w \in Workers, Restart(w) PROVE Safe'
<1>1. \E pc \in {"idle", "peek"} : Go(w, pc)
  BY DEF Restart
<1>2. QED
  BY <1>1, FreeStep DEF Restart, queueVars, history, CallPCs, PrependPCs, TakenPCs

-----------------------------------------------------------------------------
LEMMA LostStep == LostInv /\ [Next]_vars => LostInv'
<1> SUFFICES ASSUME LostInv, [Next]_vars PROVE Safe'
  BY TypeStep DEF LostInv
<1>1. ASSUME NEW c \in Clients, ClientCommand(c) PROVE Safe'
  BY <1>1, LostCommand, LostIdle, LostRemove, LostUpdate, LostClear DEF ClientCommand, Modes
<1>2. ASSUME NEW c \in Clients, ClientStep(c) PROVE Safe'
  BY <1>2, LostHandler, LostEnqueue, LostClientDispatched, LostMove, LostExpire, LostArchiveClear
     DEF ClientStep
<1>3. ASSUME NEW w \in Workers, Processor(w) PROVE Safe'
  BY <1>3, LostPeek, LostArm, LostReadRun, LostGetSession, LostClaim, LostPersist, LostSteer,
     LostPiSend, LostDispatch, LostDispatched, LostMark, LostPrepend, LostFinish, LostRestart
     DEF Processor
<1>4. ASSUME \/ \E i \in Ids : Elapse(i)
             \/ FireWake \/ TimerFires \/ AutoRetry \/ UpdateRetry \/ OtherRun
             \/ RunBlocks \/ RunUnblocks \/ ToolEnds \/ RunDone \/ ReleaseRun
      PROVE  Safe'
  BY <1>4, LostBackground, LostElapse, LostFireWake
<1>5. CASE UNCHANGED vars
  BY <1>5, QuietStep DEF vars, state, queueVars, procVars, history
<1>6. QED
  BY <1>1, <1>2, <1>3, <1>4, <1>5 DEF Next

\* Whatever steers, dispatches, writes and runs fail, and whatever is edited meanwhile, an
\* acknowledged input is queued, in hand, taken or removed by a command: see NothingLost.
THEOREM LostCorrect == Spec => []NothingLost
<1>1. Init => LostInv
  BY TypeInit, LostInit DEF LostInv
<1>2. LostInv => NothingLost
  BY DEF LostInv, Safe
<1>3. QED
  BY <1>1, <1>2, LostStep, PTL DEF Spec


-----------------------------------------------------------------------------
(* Where the ids of a queue stand.                                         *)

Distinct(q) == \A j, k \in 1..Len(q) : q[j].id = q[k].id => j = k
Before(q, a, b) == \E m, n \in 1..Len(q) : m < n /\ q[m].id = a /\ q[n].id = b

\* r is q without the item at p.
Without(q, r, p) ==
  /\ p \in 1..Len(q) /\ Len(q) = Len(r) + 1
  /\ \A k \in 1..Len(r) : r[k] = IF k < p THEN q[k] ELSE q[k + 1]

\* f leads from the places of r to those of q but p, in the same order.
Skips(f, q, r, p) ==
  /\ \A k \in 1..Len(r) : f[k] \in 1..Len(q) /\ q[f[k]] = r[k] /\ f[k] # p
  /\ \A j, k \in 1..Len(r) : j < k <=> f[j] < f[k]
  /\ \A m \in 1..Len(q) : m # p => \E k \in 1..Len(r) : f[k] = m

LEMMA WithoutPlaces ==
  ASSUME NEW q \in Seq(Item), NEW r \in Seq(Item), NEW p, Without(q, r, p)
  PROVE  \E f : Skips(f, q, r, p)
<1> DEFINE f == [k \in 1..Len(r) |-> IF k < p THEN k ELSE k + 1]
<1>1. Len(r) \in Nat /\ Len(q) = Len(r) + 1 /\ p \in 1..Len(q)
  BY DEF Without
<1>2. \A k \in 1..Len(r) : f[k] \in 1..Len(q)
  BY <1>1
<1>3. ASSUME NEW k \in 1..Len(r) PROVE q[f[k]] = r[k] /\ f[k] # p
  <2>1. r[k] = IF k < p THEN q[k] ELSE q[k + 1]
    BY DEF Without
  <2>2. f[k] = IF k < p THEN k ELSE k + 1
    OBVIOUS
  <2> HIDE DEF f
  <2>3. QED
    BY <1>1, <2>1, <2>2
<1>4. ASSUME NEW j \in 1..Len(r), NEW k \in 1..Len(r) PROVE j < k <=> f[j] < f[k]
  BY <1>1
<1>5. ASSUME NEW m \in 1..Len(q), m # p PROVE \E k \in 1..Len(r) : f[k] = m
  <2>1. CASE m < p
    <3>1. m \in 1..Len(r) /\ f[m] = m
      BY <1>1, <2>1
    <3>2. QED
      BY <3>1
  <2>2. CASE m > p
    <3>1. m - 1 \in 1..Len(r) /\ f[m - 1] = m
      BY <1>1, <2>2
    <3>2. QED
      BY <3>1
  <2>3. QED
    BY <1>1, <1>5, <2>1, <2>2
<1> HIDE DEF f
<1>6. QED
  BY <1>2, <1>3, <1>4, <1>5 DEF Skips

LEMMA WithoutIds ==
  ASSUME NEW q \in Seq(Item), NEW r \in Seq(Item), NEW p, Without(q, r, p)
  PROVE  /\ IdsIn(q) = IdsIn(r) \cup {q[p].id}
         /\ Receipts(r) \subseteq Receipts(q)
         /\ \A i \in Receipts(q) : i \in Receipts(r) \/ (q[p].receipt /\ i = q[p].id)
         /\ q[p].receipt => q[p].id \in Receipts(q)
         /\ Distinct(q) <=> Distinct(r) /\ q[p].id \notin IdsIn(r)
<1>0. PICK f : Skips(f, q, r, p)
  BY WithoutPlaces
<1>1. /\ \A k \in 1..Len(r) : f[k] \in 1..Len(q) /\ q[f[k]] = r[k] /\ f[k] # p
      /\ \A j, k \in 1..Len(r) : j < k <=> f[j] < f[k]
      /\ \A m \in 1..Len(q) : m # p => \E k \in 1..Len(r) : f[k] = m
  BY <1>0 DEF Skips
<1>2. p \in 1..Len(q)
  BY DEF Without
<1>3. /\ \A i : i \in IdsIn(q) <=> \E k \in 1..Len(q) : q[k].id = i
      /\ \A i : i \in Receipts(q) <=> \E k \in 1..Len(q) : q[k].id = i /\ q[k].receipt
      /\ \A i : i \in IdsIn(r) <=> \E k \in 1..Len(r) : r[k].id = i
      /\ \A i : i \in Receipts(r) <=> \E k \in 1..Len(r) : r[k].id = i /\ r[k].receipt
  BY IdsFacts
<1>4. IdsIn(q) = IdsIn(r) \cup {q[p].id}
  <2>1. ASSUME NEW i \in IdsIn(q), i # q[p].id PROVE i \in IdsIn(r)
    <3>1. PICK m \in 1..Len(q) : q[m].id = i
      BY <1>3, <2>1
    <3>2. PICK k \in 1..Len(r) : f[k] = m
      BY <1>1, <2>1, <3>1
    <3>3. r[k].id = i
      BY <1>1, <3>1, <3>2
    <3>4. QED
      BY <1>3, <3>3
  <2>2. ASSUME NEW i \in IdsIn(r) PROVE i \in IdsIn(q)
    <3>1. PICK k \in 1..Len(r) : r[k].id = i
      BY <1>3, <2>2
    <3>2. f[k] \in 1..Len(q) /\ q[f[k]].id = i
      BY <1>1, <3>1
    <3>3. QED
      BY <1>3, <3>2
  <2>3. q[p].id \in IdsIn(q)
    BY <1>2, <1>3
  <2>4. QED
    BY <2>1, <2>2, <2>3
<1>5. Receipts(r) \subseteq Receipts(q)
  BY <1>1, <1>3
<1>6. /\ \A i \in Receipts(q) : i \in Receipts(r) \/ (q[p].receipt /\ i = q[p].id)
      /\ q[p].receipt => q[p].id \in Receipts(q)
  <2>1. ASSUME NEW i \in Receipts(q) PROVE i \in Receipts(r) \/ (q[p].receipt /\ i = q[p].id)
    <3>1. PICK m \in 1..Len(q) : q[m].id = i /\ q[m].receipt
      BY <1>3, <2>1
    <3>2. CASE m = p
      BY <3>1, <3>2
    <3>3. CASE m # p
      <4>1. PICK k \in 1..Len(r) : f[k] = m
        BY <1>1, <3>1, <3>3
      <4>2. r[k].id = i /\ r[k].receipt
        BY <1>1, <3>1, <4>1
      <4>3. QED
        BY <1>3, <4>2
    <3>4. QED
      BY <3>2, <3>3
  <2>2. q[p].receipt => q[p].id \in Receipts(q)
    BY <1>2, <1>3
  <2>3. QED
    BY <2>1, <2>2
<1>7. ASSUME Distinct(q) PROVE Distinct(r) /\ q[p].id \notin IdsIn(r)
  <2>1. \A j, k \in 1..Len(r) : f[j] = f[k] => j = k
    BY <1>1
  <2>2. Distinct(r)
    <3>1. ASSUME NEW j \in 1..Len(r), NEW k \in 1..Len(r), r[j].id = r[k].id PROVE j = k
      <4>1. /\ f[j] \in 1..Len(q) /\ f[k] \in 1..Len(q)
            /\ q[f[j]].id = q[f[k]].id
        BY <1>1, <3>1
      <4>2. f[j] = f[k]
        BY <1>7, <4>1 DEF Distinct
      <4>3. QED
        BY <2>1, <4>2
    <3>2. QED
      BY <3>1 DEF Distinct
  <2>3. ASSUME NEW k \in 1..Len(r) PROVE r[k].id # q[p].id
    <3>1. f[k] \in 1..Len(q) /\ q[f[k]] = r[k] /\ f[k] # p
      BY <1>1
    <3>2. QED
      BY <1>2, <1>7, <3>1 DEF Distinct
  <2>4. QED
    BY <1>3, <2>2, <2>3
<1>8. ASSUME Distinct(r), q[p].id \notin IdsIn(r),
             NEW j \in 1..Len(q), NEW k \in 1..Len(q), q[j].id = q[k].id
      PROVE  j = k
  <2>1. CASE j # p /\ k # p
    <3>1. PICK m \in 1..Len(r) : f[m] = j
      BY <1>1, <2>1
    <3>2. PICK n \in 1..Len(r) : f[n] = k
      BY <1>1, <2>1
    <3>3. r[m].id = r[n].id
      BY <1>1, <1>8, <3>1, <3>2
    <3>4. QED
      BY <1>8, <3>1, <3>2, <3>3 DEF Distinct
  <2>2. CASE j = p /\ k # p
    BY <1>1, <1>3, <1>8, <2>2
  <2>3. CASE j # p /\ k = p
    BY <1>1, <1>3, <1>8, <2>3
  <2>4. QED
    BY <2>1, <2>2, <2>3
<1>9. Distinct(q) <=> Distinct(r) /\ q[p].id \notin IdsIn(r)
  BY <1>7, <1>8 DEF Distinct
<1>10. QED
  BY <1>4, <1>5, <1>6, <1>9

LEMMA WithoutOrder ==
  ASSUME NEW q \in Seq(Item), NEW r \in Seq(Item), NEW p, Without(q, r, p)
  PROVE  /\ \A a, b : Before(r, a, b) => Before(q, a, b)
         /\ \A a, b : Before(q, a, b) /\ a # q[p].id /\ b # q[p].id => Before(r, a, b)
         /\ p = 1 => \A b \in IdsIn(r) : Before(q, q[p].id, b)
         /\ p = Len(q) => \A a \in IdsIn(r) : Before(q, a, q[p].id)
<1>0. PICK f : Skips(f, q, r, p)
  BY WithoutPlaces
<1>1. /\ \A k \in 1..Len(r) : f[k] \in 1..Len(q) /\ q[f[k]] = r[k] /\ f[k] # p
      /\ \A j, k \in 1..Len(r) : j < k <=> f[j] < f[k]
      /\ \A m \in 1..Len(q) : m # p => \E k \in 1..Len(r) : f[k] = m
  BY <1>0 DEF Skips
<1>2. p \in 1..Len(q) /\ Len(q) \in Nat
  BY DEF Without
<1>3. ASSUME NEW a, NEW b, Before(r, a, b) PROVE Before(q, a, b)
  <2>1. PICK m \in 1..Len(r), n \in 1..Len(r) : m < n /\ r[m].id = a /\ r[n].id = b
    BY <1>3 DEF Before
  <2>2. f[m] \in 1..Len(q) /\ f[n] \in 1..Len(q) /\ f[m] < f[n]
        /\ q[f[m]].id = a /\ q[f[n]].id = b
    BY <1>1, <2>1
  <2>3. QED
    BY <2>2 DEF Before
<1>4. ASSUME NEW a, NEW b, Before(q, a, b), a # q[p].id, b # q[p].id PROVE Before(r, a, b)
  <2>1. PICK m \in 1..Len(q), n \in 1..Len(q) : m < n /\ q[m].id = a /\ q[n].id = b
    BY <1>4 DEF Before
  <2>2. m # p /\ n # p
    BY <1>4, <2>1
  <2>3. PICK j \in 1..Len(r) : f[j] = m
    BY <1>1, <2>2
  <2>4. PICK k \in 1..Len(r) : f[k] = n
    BY <1>1, <2>2
  <2>5. j < k /\ r[j].id = a /\ r[k].id = b
    BY <1>1, <2>1, <2>3, <2>4
  <2>6. QED
    BY <2>5 DEF Before
<1>5. ASSUME NEW b \in IdsIn(r)
      PROVE  \E m \in 1..Len(q) : m # p /\ q[m].id = b
  BY <1>1, <1>5, IdsFacts
<1>6. ASSUME p = 1, NEW b \in IdsIn(r) PROVE Before(q, q[p].id, b)
  <2>1. PICK m \in 1..Len(q) : m # p /\ q[m].id = b
    BY <1>5
  <2>2. p < m
    BY <1>2, <1>6, <2>1
  <2>3. QED
    BY <1>2, <2>1, <2>2 DEF Before
<1>7. ASSUME p = Len(q), NEW a \in IdsIn(r) PROVE Before(q, a, q[p].id)
  <2>1. PICK m \in 1..Len(q) : m # p /\ q[m].id = a
    BY <1>5
  <2>2. m < p
    BY <1>2, <1>7, <2>1
  <2>3. QED
    BY <1>2, <2>1, <2>2 DEF Before
<1>8. QED
  BY <1>3, <1>4, <1>6, <1>7

\* The operators take one item out or put one in.
LEMMA InsertWithout ==
  ASSUME NEW q \in Seq(Item), NEW x \in Item, NEW p \in 1..(Len(q) + 1)
  PROVE  /\ InsertAt(q, p, x) \in Seq(Item) /\ InsertAt(q, p, x)[p] = x
         /\ Len(InsertAt(q, p, x)) = Len(q) + 1
         /\ Without(InsertAt(q, p, x), q, p)
<1> DEFINE r == InsertAt(q, p, x)
<1>1. /\ r \in Seq(Item) /\ Len(r) = Len(q) + 1 /\ Len(q) \in Nat
      /\ \A k \in 1..(Len(q) + 1) : r[k] = IF k < p THEN q[k] ELSE IF k = p THEN x ELSE q[k - 1]
  BY InsertAtElements
<1> HIDE DEF r
<1>2. r[p] = x
  BY <1>1
<1>3. ASSUME NEW k \in 1..Len(q) PROVE q[k] = IF k < p THEN r[k] ELSE r[k + 1]
  <2>1. CASE k < p
    BY <1>1, <2>1
  <2>2. CASE ~(k < p)
    <3>1. k + 1 \in 1..(Len(q) + 1) /\ ~(k + 1 < p) /\ k + 1 # p /\ (k + 1) - 1 = k
      BY <1>1, <2>2
    <3>2. QED
      BY <1>1, <2>2, <3>1
  <2>3. QED
    BY <2>1, <2>2
<1>4. QED
  BY <1>1, <1>2, <1>3 DEF Without, r

LEMMA RemoveWithout ==
  ASSUME NEW q \in Seq(Item), NEW p \in 1..Len(q)
  PROVE  RemoveAt(q, p) \in Seq(Item) /\ Without(q, RemoveAt(q, p), p)
<1> DEFINE r == RemoveAt(q, p)
<1>1. /\ r \in Seq(Item) /\ Len(r) = Len(q) - 1 /\ Len(q) \in Nat
      /\ \A k \in 1..(Len(q) - 1) : r[k] = IF k < p THEN q[k] ELSE q[k + 1]
  BY RemoveAtElements
<1> HIDE DEF r
<1>2. QED
  BY <1>1 DEF Without, r

LEMMA TailWithout ==
  ASSUME NEW q \in Seq(Item), q # <<>>
  PROVE  Tail(q) \in Seq(Item) /\ Head(q) = q[1] /\ Without(q, Tail(q), 1)
<1> DEFINE r == Tail(q)
<1>1. /\ r \in Seq(Item) /\ Len(r) = Len(q) - 1 /\ Len(q) \in Nat \ {0}
      /\ \A k \in 1..(Len(q) - 1) : r[k] = q[k + 1]
  BY HeadTailProperties
<1>2. Head(q) = q[1]
  BY <1>1
<1> HIDE DEF r
<1>3. 1 \in 1..Len(q) /\ \A k \in 1..Len(r) : ~(k < 1)
  BY <1>1
<1>4. QED
  BY <1>1, <1>2, <1>3 DEF Without, r

LEMMA ConsWithout ==
  ASSUME NEW q \in Seq(Item), NEW x \in Item
  PROVE  <<x>> \o q \in Seq(Item) /\ (<<x>> \o q)[1] = x /\ Without(<<x>> \o q, q, 1)
<1> DEFINE r == <<x>> \o q
<1>1. /\ r \in Seq(Item) /\ Len(r) = Len(q) + 1 /\ Len(q) \in Nat
      /\ r[1] = x /\ \A k \in 1..Len(q) : r[k + 1] = q[k]
  OBVIOUS
<1> HIDE DEF r
<1>2. 1 \in 1..Len(r) /\ \A k \in 1..Len(q) : ~(k < 1)
  BY <1>1
<1>3. QED
  BY <1>1, <1>2 DEF Without, r

\* Items change, their ids and receipts do not.
SameIds(q, r) ==
  Len(q) = Len(r) /\ \A k \in 1..Len(q) : q[k].id = r[k].id /\ q[k].receipt = r[k].receipt

LEMMA SameFacts ==
  ASSUME NEW q \in Seq(Item), NEW r \in Seq(Item), SameIds(q, r)
  PROVE  /\ IdsIn(q) = IdsIn(r) /\ Receipts(q) = Receipts(r) /\ (Distinct(q) <=> Distinct(r))
         /\ \A a, b : Before(q, a, b) <=> Before(r, a, b)
<1>1. Len(r) = Len(q) /\ \A k \in 1..Len(q) : q[k].id = r[k].id /\ q[k].receipt = r[k].receipt
  BY DEF SameIds
<1>2. (Distinct(q) <=> Distinct(r)) /\ \A a, b : Before(q, a, b) <=> Before(r, a, b)
  BY <1>1 DEF Distinct, Before
<1>3. /\ \A i : i \in IdsIn(q) <=> \E k \in 1..Len(q) : q[k].id = i
      /\ \A i : i \in Receipts(q) <=> \E k \in 1..Len(q) : q[k].id = i /\ q[k].receipt
      /\ \A i : i \in IdsIn(r) <=> \E k \in 1..Len(q) : r[k].id = i
      /\ \A i : i \in Receipts(r) <=> \E k \in 1..Len(q) : r[k].id = i /\ r[k].receipt
  BY <1>1, IdsFacts
<1>4. \A i : i \in IdsIn(q) <=> i \in IdsIn(r)
  BY <1>1, <1>3
<1>5. \A i : i \in Receipts(q) <=> i \in Receipts(r)
  BY <1>1, <1>3
<1>6. QED
  BY <1>2, <1>4, <1>5

LEMMA ReplaceSame ==
  ASSUME NEW q \in Seq(Item), NEW p \in 1..Len(q), NEW x \in Item,
         x.id = q[p].id, x.receipt = q[p].receipt
  PROVE  [q EXCEPT ![p] = x] \in Seq(Item) /\ SameIds(q, [q EXCEPT ![p] = x])
<1> DEFINE r == [q EXCEPT ![p] = x]
<1>1. r \in Seq(Item) /\ Len(r) = Len(q)
  OBVIOUS
<1>2. \A k \in 1..Len(q) : r[k].id = q[k].id /\ r[k].receipt = q[k].receipt
  OBVIOUS
<1> HIDE DEF r
<1>3. QED
  BY <1>1, <1>2 DEF SameIds, r

\* What clear keeps: the inputs with a receipt, in their order.
LEMMA KeptOrder ==
  ASSUME NEW q \in Seq(Item), NEW r \in Kept(q)
  PROVE  /\ r \in Seq(Item) /\ IdsIn(r) \subseteq IdsIn(q) /\ Receipts(r) = Receipts(q)
         /\ IdsIn(r) \subseteq Receipts(r)
         /\ Distinct(q) =>
              /\ Distinct(r)
              /\ \A a, b \in IdsIn(r) : Before(q, a, b) => Before(r, a, b)
<1> DEFINE K == {k \in 1..Len(q) : Locked(q[k])}
           n == Cardinality(K)
<1>1. IsFiniteSet(K) /\ n \in Nat /\ Len(q) \in Nat
  <2>1. K \in SUBSET (1..Len(q)) /\ Len(q) \in Nat
    OBVIOUS
  <2>2. IsFiniteSet(1..Len(q))
    BY <2>1, FS_Interval
  <2>3. IsFiniteSet(K)
    BY <2>1, <2>2, FS_Subset
  <2>4. QED
    BY <2>1, <2>3, FS_CardinalityType
<1>2. PICK f \in [1..n -> K] :
        r = [j \in 1..n |-> q[f[j]]] /\ \A i, j \in 1..n : i < j => f[i] < f[j]
  BY DEF Kept
<1> HIDE DEF n
<1>3. \A j \in 1..n : f[j] \in 1..Len(q) /\ q[f[j]].receipt
  BY <1>2 DEF Locked
<1>4. r \in Seq(Item) /\ Len(r) = n /\ \A j \in 1..n : r[j] = q[f[j]]
  BY <1>1, <1>2, <1>3
<1>5. \A i, j \in 1..n : f[i] = f[j] => i = j
  BY <1>1, <1>2, <1>3
<1>6. \A k \in K : \E j \in 1..n : f[j] = k
  <2>1. Cardinality(1..n) = n
    BY <1>1, FS_Interval
  <2>2. f \in Injection(1..n, K)
    BY <1>5 DEF Injection, IsInjective
  <2>3. Cardinality(1..n) = Cardinality(K)
    BY <2>1 DEF n
  <2>4. f \in Surjection(1..n, K)
    BY <1>1, <2>2, <2>3, FS_Injection
  <2>5. QED
    BY <2>4 DEF Surjection
<1>7. /\ \A i : i \in IdsIn(q) <=> \E k \in 1..Len(q) : q[k].id = i
      /\ \A i : i \in Receipts(q) <=> \E k \in 1..Len(q) : q[k].id = i /\ q[k].receipt
      /\ \A i : i \in IdsIn(r) <=> \E k \in 1..n : r[k].id = i
      /\ \A i : i \in Receipts(r) <=> \E k \in 1..n : r[k].id = i /\ r[k].receipt
  BY <1>4, IdsFacts
<1>8. ASSUME NEW i \in IdsIn(r) PROVE i \in IdsIn(q) /\ i \in Receipts(r) /\ i \in Receipts(q)
  <2>1. PICK j \in 1..n : r[j].id = i
    BY <1>7, <1>8
  <2>2. f[j] \in 1..Len(q) /\ q[f[j]].receipt /\ r[j] = q[f[j]]
    BY <1>3, <1>4
  <2>3. QED
    BY <1>7, <2>1, <2>2
<1>8a. Receipts(r) \subseteq IdsIn(r)
  BY <1>7
<1>9. ASSUME NEW i \in Receipts(q) PROVE i \in Receipts(r)
  <2>1. PICK k \in 1..Len(q) : q[k].id = i /\ q[k].receipt
    BY <1>7
  <2>2. PICK j \in 1..n : f[j] = k
    BY <1>6, <2>1 DEF Locked
  <2>3. QED
    BY <1>4, <1>7, <2>1, <2>2
<1>10. ASSUME Distinct(q) PROVE Distinct(r)
  BY <1>3, <1>4, <1>5, <1>10 DEF Distinct
<1>11. ASSUME Distinct(q), NEW a \in IdsIn(r), NEW b \in IdsIn(r), Before(q, a, b)
       PROVE  Before(r, a, b)
  <2>1. PICK l \in 1..Len(q), m \in 1..Len(q) : l < m /\ q[l].id = a /\ q[m].id = b
    BY <1>11 DEF Before
  <2>2. PICK i \in 1..n : r[i].id = a
    BY <1>7, <1>11
  <2>3. PICK j \in 1..n : r[j].id = b
    BY <1>7, <1>11
  <2>4. f[i] = l /\ f[j] = m
    <3>1. \A x, y \in 1..Len(q) : q[x].id = q[y].id => x = y
      BY <1>11 DEF Distinct
    <3>2. /\ f[i] \in 1..Len(q) /\ q[f[i]].id = q[l].id
          /\ f[j] \in 1..Len(q) /\ q[f[j]].id = q[m].id
      BY <1>3, <1>4, <2>1, <2>2, <2>3
    <3>3. QED
      BY <2>1, <3>1, <3>2
  <2>5. i < j
    <3>1. ~(j < i) /\ i # j
      BY <1>2, <1>3, <2>1, <2>4
    <3>2. QED
      BY <1>1, <3>1
  <2>6. QED
    BY <1>4, <2>2, <2>3, <2>5 DEF Before
<1>12. QED
  BY <1>4, <1>8, <1>9, <1>10, <1>11, <1>8a

\* What the agent takes is the last it took.
LEMMA TakenFacts ==
  ASSUME NEW h \in Seq(Ids)
  PROVE  \A i : i \in ToSet(h) <=> \E k \in 1..Len(h) : h[k] = i
  BY DEF ToSet

LEMMA AppendOnce ==
  ASSUME NEW h \in Seq(Ids), NEW i \in Ids, i \notin ToSet(h),
         \A j, k \in 1..Len(h) : h[j] = h[k] => j = k
  PROVE  \A j, k \in 1..Len(Append(h, i)) : Append(h, i)[j] = Append(h, i)[k] => j = k
<1> DEFINE g == Append(h, i)
<1>1. /\ Len(h) \in Nat /\ Len(g) = Len(h) + 1 /\ g[Len(h) + 1] = i
      /\ \A k \in 1..Len(h) : g[k] = h[k]
  OBVIOUS
<1> HIDE DEF g
<1>2. \A k \in 1..Len(h) : h[k] # i
  BY TakenFacts
<1>3. \A k \in 1..Len(g) : k \in 1..Len(h) \/ k = Len(h) + 1
  BY <1>1
<1>4. \A j, k \in 1..Len(g) : g[j] = g[k] => j = k
  BY <1>1, <1>2, <1>3
<1>5. QED
  BY <1>4 DEF g

Earlier(h, a, b) == \E m, n \in 1..Len(h) : m <= n /\ h[m] = a /\ h[n] = b

LEMMA AppendEarlier ==
  ASSUME NEW h \in Seq(Ids), NEW i \in Ids
  PROVE  /\ \A a, b : Earlier(h, a, b) => Earlier(Append(h, i), a, b)
         /\ \A a \in ToSet(h) : Earlier(Append(h, i), a, i)
<1> DEFINE g == Append(h, i)
<1>1. /\ Len(h) \in Nat /\ Len(g) = Len(h) + 1 /\ g[Len(h) + 1] = i
      /\ \A k \in 1..Len(h) : g[k] = h[k]
  OBVIOUS
<1> HIDE DEF g
<1>2. \A k \in 1..Len(h) : k \in 1..Len(g) /\ k <= Len(g)
  BY <1>1
<1>3. \A a, b : Earlier(h, a, b) => Earlier(g, a, b)
  BY <1>1, <1>2 DEF Earlier
<1>4. ASSUME NEW a \in ToSet(h) PROVE Earlier(g, a, i)
  <2>1. PICK k \in 1..Len(h) : h[k] = a
    BY <1>4, TakenFacts
  <2>2. k \in 1..Len(g) /\ k <= Len(g) /\ g[k] = a /\ Len(g) \in 1..Len(g) /\ g[Len(g)] = i
    BY <1>1, <1>2, <2>1
  <2>3. QED
    BY <2>2 DEF Earlier
<1>5. QED
  BY <1>3, <1>4 DEF g

-----------------------------------------------------------------------------
(* Where an input may be: no id in two places, and order between places.   *)

\* A handler that brings an input nobody knows yet.
NewPCs == {"choose", "chooseDeferred", "enqueue", "dispatch", "direct", "dispatching"}

\* The input in the processor's hand has not been taken yet.
UntakenPCs == {"readRun", "getSession", "claimSteer", "claimPi", "claimDispatch", "steer",
               "piSend", "dispatch", "dispatching"}

Carrying == CallPCs \cup PrependPCs

QueuePlaces ==
  Distinct(queue) /\ IdsIn(queue) \subseteq AcceptedIds /\ InHand \cap IdsIn(queue) = {}
HandPlaces == \A w \in Workers : wpc[w] \in HoldingPCs => held[w].id \in AcceptedIds
NewPlaces ==
  \A c \in Clients : cl[c].pc \in NewPCs =>
    /\ cl[c].id \notin AcceptedIds \cup ToSet(handed)
    /\ \A d \in Clients \ {c} : cl[d].pc \in NewPCs => cl[d].id # cl[c].id
PlacesInv == QueuePlaces /\ HandPlaces /\ NewPlaces /\ Distinct(accepted)

\* b was acknowledged after a, both as queue-mode inputs, and no command moved one of
\* them or removed a: the queue, the processor's hand and the agent keep them in order.
Follows(a, b) ==
  /\ \E j, k \in 1..Len(accepted) :
       /\ j < k /\ accepted[j].id = a /\ accepted[k].id = b
       /\ accepted[j].mode = "queue" /\ accepted[k].mode = "queue"
  /\ a \notin moved /\ b \notin moved /\ a \notin gone
Ordered(a, b) ==
  /\ b \in ToSet(handed) => Earlier(handed, a, b)
  /\ b \in InHand => a \in ToSet(handed)
  /\ b \in IdsIn(queue) => a \in ToSet(handed) \cup InHand \/ Before(queue, a, b)
OrderInv == \A a, b : Follows(a, b) => Ordered(a, b)

\* What the agent has taken is queued again only with its receipt.
OnceInv ==
  /\ \A c \in Clients : cl[c].pc # "move"
  /\ IdsIn(queue) \cap ToSet(handed) \subseteq Receipts(queue)
  /\ \A w \in Workers :
       /\ wpc[w] \in UntakenPCs => held[w].id \notin ToSet(handed)
       /\ wpc[w] \in {"persist"} \cup PrependPCs /\ held[w].id \in ToSet(handed)
            => held[w].receipt
  /\ HandedOnce

\* Without reorder a receipt is never lost; with it, only the order is kept.
Delivery == PlacesInv /\ OrderInv /\ ("reorder" \notin Ops => OnceInv)
DeliveryInv == LostInv /\ ProcessorInv /\ Delivery

LEMMA DeliveryTypes ==
  ASSUME DeliveryInv
  PROVE  /\ TypeInv /\ queue \in Seq(Item) /\ handed \in Seq(Ids)
         /\ accepted \in Seq([id : Ids, mode : Modes])
         /\ wpc \in [Workers -> WorkerPCs]
         /\ Receipts(queue) \subseteq ToSet(handed)
  BY LostTypes DEF DeliveryInv, LostInv, TypeInv, AcceptedOK, WorkersOK

LEMMA AcceptedFacts ==
  ASSUME NEW i
  PROVE  i \in AcceptedIds <=> \E k \in 1..Len(accepted) : accepted[k].id = i
  BY DEF AcceptedIds

LEMMA AcceptedSame ==
  ASSUME UNCHANGED accepted
  PROVE  AcceptedIds' = AcceptedIds /\ (Distinct(accepted) => Distinct(accepted)')
  BY DEF AcceptedIds, Distinct

LEMMA PCs ==
  /\ CallPCs \subseteq HoldingPCs /\ PrependPCs \subseteq HoldingPCs
  /\ HoldingPCs \subseteq ActivePCs /\ ActivePCs \subseteq WorkerPCs
  /\ "peek" \notin HoldingPCs /\ "finish" \notin HoldingPCs /\ "idle" \notin HoldingPCs
  /\ "restart" \notin HoldingPCs /\ UntakenPCs \subseteq HoldingPCs
  /\ Carrying \subseteq HoldingPCs /\ PrependPCs \cap UntakenPCs = {}
  /\ "peek" \in ActivePCs /\ "finish" \in ActivePCs
  BY DEF HoldingPCs, ActivePCs, ClaimPCs, CallPCs, PrependPCs, WorkerPCs, UntakenPCs, Carrying

\* One goroutine runs the processor: what is in its hand is all that is in hand.
LEMMA OneHand ==
  ASSUME ProcessorInv, NEW w \in Workers, wpc[w] \in ActivePCs
  PROVE  /\ \A v \in Workers \ {w} : wpc[v] \notin HoldingPCs
         /\ InHand = IF wpc[w] \in Carrying THEN {held[w].id} ELSE {}
<1>1. \A v \in Workers \ {w} : wpc[v] \notin ActivePCs
  BY DEF ProcessorInv, OneProcessor
<1>2. \A v \in Workers \ {w} : wpc[v] \notin HoldingPCs /\ wpc[v] \notin Carrying
  BY <1>1, PCs
<1>3. InHand = {held[v].id : v \in {u \in Workers : wpc[u] \in Carrying}}
  BY DEF InHand, Carrying
<1>4. QED
  BY <1>2, <1>3

\* The pairs are the same, or fewer.
LEMMA FollowsFewer ==
  ASSUME UNCHANGED accepted, gone \subseteq gone', moved \subseteq moved',
         NEW a, NEW b, Follows(a, b)'
  PROVE  /\ Follows(a, b)
         /\ a \notin gone' /\ a \notin moved' /\ b \notin moved'
  BY DEF Follows

\* Who brings a new input, and with which id, does not change.
LEMMA NewKept ==
  ASSUME NewPlaces, UNCHANGED <<accepted, handed>>,
         \A c \in Clients : cl'[c].pc \in NewPCs => cl[c].pc \in NewPCs /\ cl'[c].id = cl[c].id
  PROVE  NewPlaces'
<1>1. AcceptedIds' = AcceptedIds
  BY AcceptedSame
<1>2. QED
  BY <1>1 DEF NewPlaces

\* A step of a handler, a timer or a run: the processor holds what it held, the queue may
\* lose inputs that are gone.
LEMMA OutsideDelivers ==
  ASSUME DeliveryInv, UNCHANGED <<wpc, held, accepted, handed>>,
         gone \subseteq gone', moved \subseteq moved',
         NewPlaces',
         \A c \in Clients : cl'[c].pc = "move" => cl[c].pc = "move" \/ "reorder" \in Ops,
         Distinct(queue'), IdsIn(queue') \subseteq IdsIn(queue),
         \A a, b : /\ Before(queue, a, b) /\ b \in IdsIn(queue')
                   /\ a \notin gone' /\ a \notin moved' /\ b \notin moved'
                   => Before(queue', a, b),
         "reorder" \notin Ops => IdsIn(queue') \cap Receipts(queue) \subseteq Receipts(queue')
  PROVE  Delivery'
<1>1. InHand' = InHand /\ AcceptedIds' = AcceptedIds
  BY AcceptedSame DEF InHand
<1>2. QueuePlaces'
  BY <1>1 DEF DeliveryInv, Delivery, PlacesInv, QueuePlaces, Distinct, IdsIn
<1>3. HandPlaces'
  BY <1>1 DEF DeliveryInv, Delivery, PlacesInv, HandPlaces
<1>4. Distinct(accepted)'
  BY AcceptedSame DEF DeliveryInv, Delivery, PlacesInv
<1>5. ASSUME NEW a, NEW b, Follows(a, b)' PROVE Ordered(a, b)'
  <2>1. Follows(a, b) /\ a \notin gone' /\ a \notin moved' /\ b \notin moved'
    BY <1>5, FollowsFewer
  <2>2. Ordered(a, b)
    BY <2>1 DEF DeliveryInv, Delivery, OrderInv
  <2>3. (b \in ToSet(handed) => Earlier(handed, a, b)) /\ (b \in InHand => a \in ToSet(handed))
    BY <2>2 DEF Ordered
  <2>4. b \in IdsIn(queue') => a \in ToSet(handed) \cup InHand \/ Before(queue', a, b)
    BY <2>1, <2>2 DEF Ordered
  <2>5. QED
    BY <1>1, <2>3, <2>4 DEF Ordered
<1>6. ASSUME "reorder" \notin Ops PROVE OnceInv'
  <2>1. OnceInv
    BY <1>6 DEF DeliveryInv, Delivery
  <2>2. \A c \in Clients : cl'[c].pc # "move"
    BY <1>6, <2>1 DEF OnceInv
  <2>3. IdsIn(queue') \cap ToSet(handed) \subseteq Receipts(queue')
    BY <1>6, <2>1 DEF OnceInv
  <2>4. HandedOnce'
    BY <2>1 DEF OnceInv, HandedOnce
  <2>5. QED
    BY <2>1, <2>2, <2>3, <2>4 DEF OnceInv
<1>7. QED
  BY <1>2, <1>3, <1>4, <1>5, <1>6 DEF Delivery, PlacesInv, OrderInv

\* A step that neither the queue nor the processor notices.
LEMMA QuietDelivers ==
  ASSUME DeliveryInv, UNCHANGED <<wpc, held, accepted, handed, queue, gone, moved>>, NewPlaces',
         \A c \in Clients : cl'[c].pc = "move" => cl[c].pc = "move" \/ "reorder" \in Ops
  PROVE  Delivery'
<1>1. Distinct(queue)
  BY DEF DeliveryInv, Delivery, PlacesInv, QueuePlaces
<1>2. QED
  BY <1>1, OutsideDelivers

\* Items change, their ids and receipts do not.
LEMMA SameDelivers ==
  ASSUME DeliveryInv, UNCHANGED <<wpc, held, accepted, handed, gone, moved>>, NewPlaces',
         \A c \in Clients : cl'[c].pc = "move" => cl[c].pc = "move" \/ "reorder" \in Ops,
         NEW r \in Seq(Item), queue' = r, SameIds(queue, r)
  PROVE  Delivery'
<1>1. Distinct(queue)
  BY DEF DeliveryInv, Delivery, PlacesInv, QueuePlaces
<1>2. /\ IdsIn(queue) = IdsIn(r) /\ Receipts(queue) = Receipts(r) /\ Distinct(r)
      /\ \A a, b : Before(queue, a, b) => Before(r, a, b)
  BY <1>1, SameFacts, DeliveryTypes
<1>3. QED
  BY <1>2, OutsideDelivers

\* A step of the processor that leaves the queue alone: from its place to pc, with an
\* input of the same id in hand, which the agent may have taken.
LEMMA WorkerDelivers ==
  ASSUME DeliveryInv, NEW w \in Workers, NEW pc, NEW x, wpc[w] \in ActivePCs, Go(w, pc),
         held'[w] = x, \A v \in Workers \ {w} : held'[v] = held[v],
         UNCHANGED <<accepted, cl, queue, gone, moved>>,
         \/ handed' = handed
         \/ handed' = Append(handed, held[w].id) /\ wpc[w] \in UntakenPCs \cap Carrying,
         pc \in HoldingPCs => x.id \in AcceptedIds,
         pc \in Carrying => wpc[w] \in Carrying /\ x.id = held[w].id,
         wpc[w] \in Carrying /\ pc \notin Carrying => held[w].id \in ToSet(handed'),
         "reorder" \notin Ops =>
           /\ pc \in UntakenPCs => x.id \notin ToSet(handed')
           /\ pc \in {"persist"} \cup PrependPCs /\ x.id \in ToSet(handed') => x.receipt
  PROVE  Delivery'
<1>1. /\ wpc'[w] = pc
      /\ \A v \in Workers \ {w} : wpc'[v] = wpc[v]
  BY DeliveryTypes DEF Go
<1>2. /\ \A v \in Workers \ {w} : wpc[v] \notin HoldingPCs /\ wpc[v] \notin Carrying
                                  /\ wpc[v] \notin UntakenPCs /\ wpc[v] # "persist"
                                  /\ wpc[v] \notin PrependPCs
      /\ InHand = IF wpc[w] \in Carrying THEN {held[w].id} ELSE {}
  <2>1. "persist" \in HoldingPCs
    BY PCs DEF CallPCs
  <2>2. QED
    BY <2>1, OneHand, PCs DEF DeliveryInv
<1>3. InHand' = IF pc \in Carrying THEN {held[w].id} ELSE {}
  <2>1. InHand' = {held'[v].id : v \in {u \in Workers : wpc'[u] \in Carrying}}
    BY DEF InHand, Carrying
  <2>2. \A v \in Workers : wpc'[v] \in Carrying <=> v = w /\ pc \in Carrying
    BY <1>1, <1>2
  <2>3. QED
    BY <2>1, <2>2
<1>4. InHand' \subseteq InHand /\ InHand \subseteq InHand' \cup ToSet(handed')
  BY <1>2, <1>3
<1>5. AcceptedIds' = AcceptedIds /\ Distinct(accepted)'
  BY AcceptedSame DEF DeliveryInv, Delivery, PlacesInv
<1>6. QueuePlaces'
  BY <1>4, <1>5 DEF DeliveryInv, Delivery, PlacesInv, QueuePlaces, Distinct, IdsIn
<1>7. HandPlaces'
  BY <1>1, <1>2, <1>5 DEF HandPlaces
<1>8. /\ handed \in Seq(Ids)
      /\ wpc[w] \in Carrying => held[w].id \in Ids /\ held[w].id \in AcceptedIds
                                /\ held[w].id \in InHand
  <2>1. wpc[w] \in Carrying => held[w].id \in Ids
    BY PCs, DeliveryTypes DEF TypeInv, WorkersOK, Item
  <2>2. wpc[w] \in Carrying => held[w].id \in AcceptedIds
    BY PCs DEF DeliveryInv, Delivery, PlacesInv, HandPlaces
  <2>3. QED
    BY <1>2, <2>1, <2>2, DeliveryTypes
<1>9. /\ ToSet(handed) \subseteq ToSet(handed')
      /\ \A i \in ToSet(handed') : i \in ToSet(handed)
                                   \/ (i = held[w].id /\ wpc[w] \in UntakenPCs \cap Carrying)
  <2>1. CASE handed' = handed
    BY <2>1
  <2>2. CASE handed' = Append(handed, held[w].id) /\ wpc[w] \in UntakenPCs \cap Carrying
    <3>1. ToSet(handed') = ToSet(handed) \cup {held[w].id}
      BY <1>8, <2>2, HandIn
    <3>2. QED
      BY <2>2, <3>1
  <2>3. QED
    BY <2>1, <2>2
<1>10. NewPlaces'
  <2>1. NewPlaces
    BY DEF DeliveryInv, Delivery, PlacesInv
  <2>2. ASSUME NEW i, i \notin AcceptedIds, i \notin ToSet(handed) PROVE i \notin ToSet(handed')
    BY <1>8, <1>9, <2>2
  <2>3. QED
    BY <1>5, <2>1, <2>2 DEF NewPlaces
<1>11. ASSUME NEW a, NEW b, Follows(a, b)' PROVE Ordered(a, b)'
  <2>1. Follows(a, b) /\ Ordered(a, b)
    BY <1>11, FollowsFewer DEF DeliveryInv, Delivery, OrderInv
  <2>2. ASSUME b \in ToSet(handed') PROVE Earlier(handed', a, b)
    <3>1. CASE b \in ToSet(handed)
      <4>1. Earlier(handed, a, b)
        BY <2>1, <3>1 DEF Ordered
      <4>2. QED
        BY <1>8, <4>1, AppendEarlier
    <3>2. CASE b \notin ToSet(handed)
      <4>1. b = held[w].id /\ wpc[w] \in Carrying /\ handed' = Append(handed, b)
        BY <1>9, <2>2, <3>2
      <4>2. a \in ToSet(handed) /\ b \in Ids
        BY <1>8, <2>1, <4>1 DEF Ordered
      <4>3. QED
        BY <1>8, <4>1, <4>2, AppendEarlier
    <3>3. QED
      BY <3>1, <3>2
  <2>3. b \in InHand' => a \in ToSet(handed')
    BY <1>4, <1>9, <2>1 DEF Ordered
  <2>4. b \in IdsIn(queue) => a \in ToSet(handed') \cup InHand' \/ Before(queue, a, b)
    BY <1>4, <1>9, <2>1 DEF Ordered
  <2>5. QED
    BY <2>2, <2>3, <2>4 DEF Ordered
<1>12. ASSUME "reorder" \notin Ops PROVE OnceInv'
  <2>1. OnceInv
    BY <1>12 DEF DeliveryInv, Delivery
  <2>2. \A c \in Clients : cl'[c].pc # "move"
    BY <2>1 DEF OnceInv
  <2>3. IdsIn(queue) \cap ToSet(handed') \subseteq Receipts(queue)
    <3>1. wpc[w] \in Carrying => held[w].id \notin IdsIn(queue)
      BY <1>8 DEF DeliveryInv, Delivery, PlacesInv, QueuePlaces
    <3>2. QED
      BY <1>9, <2>1, <3>1 DEF OnceInv
  <2>4. \A v \in Workers :
          /\ wpc'[v] \in UntakenPCs => held'[v].id \notin ToSet(handed')
          /\ wpc'[v] \in {"persist"} \cup PrependPCs /\ held'[v].id \in ToSet(handed')
               => held'[v].receipt
    <3>1. ASSUME NEW v \in Workers \ {w}
          PROVE  wpc'[v] \notin UntakenPCs /\ wpc'[v] \notin {"persist"} \cup PrependPCs
      BY <1>1, <1>2
    <3>2. QED
      BY <1>1, <1>12, <3>1
  <2>5. HandedOnce'
    <3>1. CASE handed' = handed
      BY <2>1, <3>1 DEF OnceInv, HandedOnce
    <3>2. CASE handed' # handed
      <4>1. handed' = Append(handed, held[w].id) /\ wpc[w] \in UntakenPCs \cap Carrying
        BY <3>2
      <4>2. held[w].id \in Ids /\ held[w].id \notin ToSet(handed)
        BY <1>8, <2>1, <4>1 DEF OnceInv
      <4>3. \A j, k \in 1..Len(handed) : handed[j] = handed[k] => j = k
        BY <2>1 DEF OnceInv, HandedOnce
      <4>4. \A j, k \in 1..Len(handed') : handed'[j] = handed'[k] => j = k
        BY <1>8, <4>1, <4>2, <4>3, AppendOnce
      <4>5. QED
        BY <4>4 DEF HandedOnce
    <3>3. QED
      BY <3>1, <3>2
  <2>6. QED
    BY <2>2, <2>3, <2>4, <2>5 DEF OnceInv
<1>13. QED
  BY <1>5, <1>6, <1>7, <1>10, <1>11, <1>12 DEF Delivery, PlacesInv, OrderInv

-----------------------------------------------------------------------------
(* The commands and handlers.                                              *)

\* A handler goes on; it brings a new input only if it did before.
LEMMA HandlerGoes ==
  ASSUME DeliveryInv, NEW c \in Clients, NEW pc, NEW i, NEW mode, Client(c, pc, i, mode),
         UNCHANGED <<accepted, handed>>,
         pc \in NewPCs => cl[c].pc \in NewPCs /\ i = cl[c].id,
         pc = "move" => "reorder" \in Ops
  PROVE  /\ NewPlaces'
         /\ \A d \in Clients : cl'[d].pc = "move" => cl[d].pc = "move" \/ "reorder" \in Ops
<1>1. /\ cl'[c] = [pc |-> pc, id |-> i, mode |-> mode]
      /\ \A d \in Clients \ {c} : cl'[d] = cl[d]
  BY DEF DeliveryInv, LostInv, TypeInv, ClientsOK, Client
<1>2. cl'[c].pc = pc /\ cl'[c].id = i
  BY <1>1
<1>3. \A d \in Clients : cl'[d].pc \in NewPCs => cl[d].pc \in NewPCs /\ cl'[d].id = cl[d].id
  BY <1>1, <1>2
<1>4. NewPlaces
  BY DEF DeliveryInv, Delivery, PlacesInv
<1>5. NewPlaces'
  BY <1>3, <1>4, NewKept
<1>6. QED
  BY <1>1, <1>2, <1>5

LEMMA NobodyGoes ==
  ASSUME DeliveryInv, UNCHANGED <<accepted, handed, cl>>
  PROVE  /\ NewPlaces'
         /\ \A d \in Clients : cl'[d].pc = "move" => cl[d].pc = "move" \/ "reorder" \in Ops
<1>1. NewPlaces
  BY DEF DeliveryInv, Delivery, PlacesInv
<1>2. QED
  BY <1>1, NewKept

LEMMA NotNew ==
  /\ \A pc \in {"idle", "cancel", "cancelOnly", "expire", "archiveStop", "archiveMark",
                "archiveClear"} : pc \notin NewPCs /\ pc # "move"
  /\ "move" \notin NewPCs
  BY DEF NewPCs

\* A new input, if ids are not used again, is one that nobody else brings.
LEMMA NewDelivers ==
  ASSUME DeliveryInv, NEW c \in Clients, NEW i \in Ids, NEW mode \in Modes, Unused(i),
         NEW pc, pc # "move", Client(c, pc, i, mode),
         UNCHANGED <<wpc, held, accepted, handed, queue, gone, moved>>
  PROVE  Delivery'
<1>1. i \notin AcceptedIds \cup ToSet(handed) /\ i \notin {cl[d].id : d \in Clients}
  BY DEF Unused
<1>3. /\ cl'[c] = [pc |-> pc, id |-> i, mode |-> mode]
      /\ \A d \in Clients \ {c} : cl'[d] = cl[d]
  BY DEF DeliveryInv, LostInv, TypeInv, ClientsOK, Client
<1>4. cl'[c].pc = pc /\ cl'[c].id = i /\ pc # "move"
  BY <1>3
<1>5. NewPlaces
  BY DEF DeliveryInv, Delivery, PlacesInv
<1>6. AcceptedIds' = AcceptedIds
  BY AcceptedSame
<1>7. ASSUME NEW d \in Clients, cl'[d].pc \in NewPCs
      PROVE  /\ cl'[d].id \notin AcceptedIds \cup ToSet(handed)
             /\ \A e \in Clients \ {d} : cl'[e].pc \in NewPCs => cl'[e].id # cl'[d].id
  BY <1>1, <1>3, <1>4, <1>5, <1>7 DEF NewPlaces
<1>8. NewPlaces'
  BY <1>6, <1>7 DEF NewPlaces
<1>9. QED
  BY <1>3, <1>4, <1>8, QuietDelivers

LEMMA SendDelivers ==
  ASSUME DeliveryInv, ~Resend, NEW c \in Clients, NEW i \in Ids, NEW mode \in Modes,
         Send(c, i, mode) \/ SendDirect(c, i)
  PROVE  Delivery'
<1>1. UNCHANGED <<wpc, held, accepted, handed, queue, gone, moved>> /\ Unused(i)
  BY DEF Send, SendDirect, queueVars, procVars, history
<1>2. PICK pc \in {"choose", "chooseDeferred", "direct"}, m \in Modes : Client(c, pc, i, m)
  BY DEF Send, SendDirect, Modes
<1>3. QED
  BY <1>1, <1>2, NewDelivers

LEMMA ReorderDelivers ==
  ASSUME DeliveryInv, NEW c \in Clients, NEW i \in Ids, NEW mode \in Modes, Reorder(c, i, mode)
  PROVE  Delivery'
<1>1. UNCHANGED <<wpc, held, accepted, handed, queue, gone, moved>>
  BY DEF Reorder, queueVars, procVars, history
<1>2. Client(c, "move", i, mode) /\ "reorder" \in Ops
  BY DEF Reorder, Command
<1>3. QED
  BY <1>1, <1>2, NotNew, HandlerGoes, QuietDelivers

\* Handlers that neither touch the queue nor bring an input.
LEMMA IdleDelivers ==
  ASSUME DeliveryInv, NEW c \in Clients,
         \/ Abort(c) \/ Archive(c) \/ Cancel(c) \/ CancelOnly(c)
         \/ ArchiveTimesOut(c) \/ ArchiveMark(c)
  PROVE  Delivery'
<1>1. UNCHANGED <<wpc, held, accepted, handed, queue, gone, moved>>
  BY DEF Abort, Archive, Cancel, CancelOnly, ArchiveTimesOut, ArchiveMark, Show,
         queueVars, procVars, history
<1>2. \E pc \in {"idle", "expire", "archiveStop", "archiveMark", "archiveClear"} :
        Client(c, pc, NoOne, "queue")
  BY DEF Abort, Archive, Cancel, CancelOnly, ArchiveTimesOut, ArchiveMark, Return
<1>3. QED
  BY <1>1, <1>2, NotNew, HandlerGoes, QuietDelivers

LEMMA ChooseDelivers ==
  ASSUME DeliveryInv, NEW c \in Clients, Choose(c)
  PROVE  Delivery'
<1>1. UNCHANGED <<wpc, held, accepted, handed, queue, gone, moved>> /\ cl[c].pc \in NewPCs
  BY DEF Choose, queueVars, procVars, history, NewPCs
<1>2. PICK pc \in {"enqueue", "dispatch"} : Client(c, pc, cl[c].id, cl[c].mode)
  BY DEF Choose
<1>3. QED
  BY <1>1, <1>2, HandlerGoes, QuietDelivers

LEMMA ClientDispatchDelivers ==
  ASSUME DeliveryInv, NEW c \in Clients, ClientDispatch(c)
  PROVE  Delivery'
<1>1. UNCHANGED <<wpc, held, accepted, handed, queue, gone, moved>>
  BY DEF ClientDispatch, queueVars, procVars, history
<1>2. cl[c].pc \in NewPCs
  BY DEF ClientDispatch, NewPCs
<1>3. CASE Return(c)
  BY <1>1, <1>3, NotNew, HandlerGoes, QuietDelivers DEF Return
<1>4. CASE \E pc \in {"enqueue", "dispatching"} : Client(c, pc, cl[c].id, cl[c].mode)
  BY <1>1, <1>2, <1>4, HandlerGoes, QuietDelivers
<1>5. QED
  BY <1>3, <1>4 DEF ClientDispatch

\* The agent takes an input that was never queued: the queued ones do not notice.
LEMMA ClientDispatchedDelivers ==
  ASSUME DeliveryInv, NEW c \in Clients, ClientDispatched(c)
  PROVE  Delivery'
<1>1. UNCHANGED <<wpc, held, accepted, queue, gone, moved>> /\ Return(c)
  BY DEF ClientDispatched, queueVars, procVars
<1>2. CASE handed' = handed
  BY <1>1, <1>2, NotNew, HandlerGoes, QuietDelivers DEF Return
<1>3. CASE handed' = Append(handed, cl[c].id)
  <2> DEFINE i == cl[c].id
  <2>1. cl[c].pc \in NewPCs /\ i \in Ids
    BY ClientArgs, DeliveryTypes DEF ClientDispatched, NewPCs, WithInput
  <2>2. NewPlaces /\ i \notin AcceptedIds /\ i \notin ToSet(handed)
    BY <2>1 DEF DeliveryInv, Delivery, PlacesInv, NewPlaces
  <2>3. ToSet(handed') = ToSet(handed) \cup {i} /\ handed \in Seq(Ids)
    BY <1>3, <2>1, HandIn, DeliveryTypes
  <2>4. AcceptedIds' = AcceptedIds /\ Distinct(accepted)' /\ InHand' = InHand
    BY <1>1, AcceptedSame DEF InHand, DeliveryInv, Delivery, PlacesInv
  <2>5. /\ cl'[c].pc = "idle" /\ cl'[c].id = NoOne
        /\ \A d \in Clients \ {c} : cl'[d] = cl[d]
    BY <1>1 DEF DeliveryInv, LostInv, TypeInv, ClientsOK, Client, Return
  <2>6. NewPlaces'
    BY <2>1, <2>2, <2>3, <2>4, <2>5, NotNew DEF NewPlaces
  <2>7. QueuePlaces' /\ HandPlaces'
    BY <1>1, <2>4 DEF DeliveryInv, Delivery, PlacesInv, QueuePlaces, HandPlaces, Distinct, IdsIn
  <2>8. /\ i \notin IdsIn(queue) /\ i \notin InHand
        /\ \A w \in Workers : wpc[w] \in HoldingPCs => held[w].id # i
    <3>1. /\ IdsIn(queue) \subseteq AcceptedIds
          /\ \A w \in Workers : wpc[w] \in HoldingPCs => held[w].id \in AcceptedIds
      BY DEF DeliveryInv, Delivery, PlacesInv, QueuePlaces, HandPlaces
    <3>2. InHand \subseteq AcceptedIds
      BY <3>1, PCs DEF InHand, Carrying
    <3>3. QED
      BY <2>2, <3>1, <3>2
  <2> HIDE DEF i
  <2>9. ASSUME NEW a, NEW b, Follows(a, b)' PROVE Ordered(a, b)'
    <3>1. Follows(a, b) /\ Ordered(a, b)
      BY <1>1, <2>9, FollowsFewer DEF DeliveryInv, Delivery, OrderInv
    <3>2. b \in AcceptedIds
      BY <3>1 DEF Follows, AcceptedIds
    <3>3. b \in ToSet(handed') => Earlier(handed', a, b)
      <4>1. ASSUME b \in ToSet(handed') PROVE Earlier(handed', a, b)
        <5>1. Earlier(handed, a, b)
          BY <2>2, <2>3, <3>1, <3>2, <4>1 DEF Ordered
        <5>2. handed' = Append(handed, i)
          BY <1>3 DEF i
        <5>3. QED
          BY <2>1, <2>3, <5>1, <5>2, AppendEarlier
      <4>2. QED
        BY <4>1
    <3>4. b \in InHand => a \in ToSet(handed')
      BY <2>3, <3>1 DEF Ordered
    <3>5. b \in IdsIn(queue) => a \in ToSet(handed') \cup InHand \/ Before(queue, a, b)
      BY <2>3, <3>1 DEF Ordered
    <3>6. QED
      BY <1>1, <2>4, <3>3, <3>4, <3>5 DEF Ordered
  <2>10. ASSUME "reorder" \notin Ops PROVE OnceInv'
    <3>1. OnceInv
      BY <2>10 DEF DeliveryInv, Delivery
    <3>2. \A d \in Clients : cl'[d].pc # "move"
      BY <2>5, <3>1 DEF OnceInv
    <3>3. IdsIn(queue) \cap ToSet(handed') \subseteq Receipts(queue)
      BY <2>3, <2>8, <3>1 DEF OnceInv
    <3>4. "persist" \in HoldingPCs
      BY PCs DEF CallPCs
    <3>5. \A w \in Workers :
            /\ wpc[w] \in UntakenPCs => held[w].id \notin ToSet(handed')
            /\ wpc[w] \in {"persist"} \cup PrependPCs /\ held[w].id \in ToSet(handed')
                 => held[w].receipt
      BY <2>3, <2>8, <3>1, <3>4, PCs DEF OnceInv
    <3>6. \A j, k \in 1..Len(handed') : handed'[j] = handed'[k] => j = k
      <4>1. \A j, k \in 1..Len(handed) : handed[j] = handed[k] => j = k
        BY <3>1 DEF OnceInv, HandedOnce
      <4>2. handed' = Append(handed, i)
        BY <1>3 DEF i
      <4>3. QED
        BY <2>1, <2>2, <2>3, <4>1, <4>2, AppendOnce
    <3>7. QED
      BY <1>1, <3>2, <3>3, <3>5, <3>6 DEF OnceInv, HandedOnce
  <2>11. QED
    BY <2>4, <2>6, <2>7, <2>9, <2>10 DEF Delivery, PlacesInv, OrderInv
<1>4. QED
  BY <1>2, <1>3 DEF ClientDispatched

-----------------------------------------------------------------------------
(* The commands and handlers that change the queue.                        *)

LEMMA InsertPendingWithout ==
  ASSUME NEW q \in Seq(Item), NEW x \in Item
  PROVE  \E p \in 1..(Len(q) + 1) :
           /\ InsertPending(q, x) \in Seq(Item) /\ InsertPending(q, x)[p] = x
           /\ Without(InsertPending(q, x), q, p)
           /\ x.mode # "redirect" => p = Len(InsertPending(q, x))
<1>1. CASE x.mode = "redirect"
  <2>1. PICK p \in 1..(Len(q) + 1) : InsertPending(q, x) = InsertAt(q, p, x)
    BY InsertPendingPlace
  <2>2. QED
    BY <1>1, <2>1, InsertWithout
<1>2. CASE x.mode # "redirect"
  <2> DEFINE r == Append(q, x)
  <2>1. /\ r \in Seq(Item) /\ Len(q) \in Nat /\ Len(r) = Len(q) + 1 /\ r[Len(q) + 1] = x
        /\ \A k \in 1..Len(q) : r[k] = q[k]
    OBVIOUS
  <2>2. InsertPending(q, x) = r
    BY <1>2 DEF InsertPending
  <2> HIDE DEF r
  <2>3. \A k \in 1..Len(q) : k < Len(q) + 1
    BY <2>1
  <2>4. Len(q) + 1 \in 1..Len(r) /\ Len(q) + 1 \in 1..(Len(q) + 1)
    BY <2>1
  <2>5. Without(r, q, Len(q) + 1)
    BY <2>1, <2>3, <2>4 DEF Without
  <2>6. QED
    BY <2>1, <2>2, <2>4, <2>5
<1>3. QED
  BY <1>1, <1>2

\* An acknowledged input is the last of the queue-mode ones, and no other place has it.
LEMMA AcknowledgeDelivers ==
  ASSUME DeliveryInv, NEW c \in Clients, Enqueue(c), ~UNCHANGED <<queueVars, history>>
  PROVE  Delivery'
<1> DEFINE i == cl[c].id
           x == NewItem(i, cl[c].mode)
           e == [id |-> i, mode |-> cl[c].mode]
<1>1. /\ queue' = InsertPending(queue, x) /\ accepted' = Append(accepted, e)
      /\ UNCHANGED <<wpc, held, handed, gone, moved>> /\ Client(c, "cancel", i, cl[c].mode)
  BY DEF Enqueue, Mutate, procVars
<1>2. cl[c].pc \in NewPCs /\ i \in Ids /\ cl[c].mode \in Modes
  BY ClientArgs, DeliveryTypes DEF Enqueue, NewPCs, WithInput
<1>3. x \in Item /\ x.id = i /\ x.mode = cl[c].mode
  BY <1>2, NewItemType DEF NewItem
<1>4. e \in [id : Ids, mode : Modes] /\ e.id = i /\ e.mode = x.mode
  BY <1>2, <1>3
<1>5. i \notin AcceptedIds /\ i \notin ToSet(handed)
  BY <1>2 DEF DeliveryInv, Delivery, PlacesInv, NewPlaces
<1>6. /\ \A d \in Clients \ {c} : cl[d].pc \in NewPCs => cl[d].id # i
      /\ cl'[c].pc = "cancel" /\ \A d \in Clients \ {c} : cl'[d] = cl[d]
  <2>1. \A d \in Clients \ {c} : cl[d].pc \in NewPCs => cl[d].id # i
    BY <1>2 DEF DeliveryInv, Delivery, PlacesInv, NewPlaces
  <2>2. cl'[c].pc = "cancel" /\ \A d \in Clients \ {c} : cl'[d] = cl[d]
    BY <1>1 DEF DeliveryInv, LostInv, TypeInv, ClientsOK, Client
  <2>3. QED
    BY <2>1, <2>2
<1> HIDE DEF i, x, e
<1>7. PICK p \in 1..(Len(queue) + 1) :
        /\ queue' \in Seq(Item) /\ queue'[p] = x
        /\ Without(queue', queue, p)
        /\ x.mode # "redirect" => p = Len(queue')
  BY <1>1, <1>3, InsertPendingWithout, DeliveryTypes
<1>8. PICK r : r = queue'
  OBVIOUS
<1>9. /\ r \in Seq(Item) /\ queue \in Seq(Item) /\ r[p] = x /\ Without(r, queue, p)
      /\ x.mode # "redirect" => p = Len(r)
  BY <1>7, <1>8, DeliveryTypes
<1>10. /\ IdsIn(r) = IdsIn(queue) \cup {i} /\ Receipts(queue) \subseteq Receipts(r)
       /\ Distinct(queue) /\ i \notin IdsIn(queue) => Distinct(r)
       /\ \A a, b : Before(queue, a, b) => Before(r, a, b)
       /\ x.mode # "redirect" => \A a \in IdsIn(queue) : Before(r, a, i)
  BY <1>3, <1>9, WithoutIds, WithoutOrder
<1>11. /\ Len(accepted) \in Nat /\ Len(accepted') = Len(accepted) + 1
       /\ accepted'[Len(accepted) + 1] = e
       /\ \A k \in 1..Len(accepted) : accepted'[k] = accepted[k]
  BY <1>1, <1>4, DeliveryTypes
<1>12. \A k \in 1..Len(accepted') : k \in 1..Len(accepted) \/ k = Len(accepted) + 1
  BY <1>11
<1>13. AcceptedIds' = AcceptedIds \cup {i}
  <2>1. \A k \in 1..Len(accepted) : k \in 1..Len(accepted')
    BY <1>11
  <2>2. Len(accepted) + 1 \in 1..Len(accepted')
    BY <1>11
  <2>3. \A j : j \in AcceptedIds' <=> \E k \in 1..Len(accepted') : accepted'[k].id = j
    BY DEF AcceptedIds
  <2>4. \A j : j \in AcceptedIds <=> \E k \in 1..Len(accepted) : accepted[k].id = j
    BY AcceptedFacts
  <2>5. QED
    BY <1>4, <1>11, <1>12, <2>1, <2>2, <2>3, <2>4
<1>14. Distinct(accepted)'
  <2>1. \A j, k \in 1..Len(accepted) : accepted[j].id = accepted[k].id => j = k
    BY DEF DeliveryInv, Delivery, PlacesInv, Distinct
  <2>2. \A k \in 1..Len(accepted) : accepted[k].id # i
    BY <1>5, AcceptedFacts
  <2>3. \A j, k \in 1..Len(accepted') : accepted'[j].id = accepted'[k].id => j = k
    BY <1>4, <1>11, <1>12, <2>1, <2>2
  <2>4. QED
    BY <2>3 DEF Distinct
<1>15. InHand' = InHand /\ i \notin InHand /\ i \notin IdsIn(queue)
  <2>1. /\ IdsIn(queue) \subseteq AcceptedIds
        /\ \A w \in Workers : wpc[w] \in HoldingPCs => held[w].id \in AcceptedIds
    BY DEF DeliveryInv, Delivery, PlacesInv, QueuePlaces, HandPlaces
  <2>2. InHand \subseteq AcceptedIds
    BY <2>1, PCs DEF InHand, Carrying
  <2>3. QED
    BY <1>1, <1>5, <2>1, <2>2 DEF InHand
<1>16. QueuePlaces'
  <2>1. QueuePlaces
    BY DEF DeliveryInv, Delivery, PlacesInv
  <2>2. Distinct(r) /\ IdsIn(r) \subseteq AcceptedIds' /\ InHand' \cap IdsIn(r) = {}
    BY <1>10, <1>13, <1>15, <2>1 DEF QueuePlaces
  <2>3. QED
    BY <1>8, <2>2 DEF QueuePlaces, Distinct, IdsIn
<1>17. HandPlaces'
  BY <1>1, <1>13 DEF DeliveryInv, Delivery, PlacesInv, HandPlaces
<1>18. NewPlaces'
  <2>1. NewPlaces
    BY DEF DeliveryInv, Delivery, PlacesInv
  <2>2. "cancel" \notin NewPCs
    BY NotNew
  <2>3. QED
    BY <1>1, <1>6, <1>13, <2>1, <2>2 DEF NewPlaces
<1>19. ASSUME NEW a, NEW b, Follows(a, b)' PROVE Ordered(a, b)'
  <2>1. PICK j \in 1..Len(accepted'), k \in 1..Len(accepted') :
          /\ j < k /\ accepted'[j].id = a /\ accepted'[k].id = b
          /\ accepted'[j].mode = "queue" /\ accepted'[k].mode = "queue"
    BY <1>19 DEF Follows
  <2>2. a \notin moved /\ b \notin moved /\ a \notin gone
    BY <1>1, <1>19 DEF Follows
  <2>3. j \in 1..Len(accepted)
    BY <1>11, <2>1
  <2>4. accepted[j].id = a /\ a \in AcceptedIds
    BY <1>11, <2>1, <2>3, AcceptedFacts
  <2>5. CASE k = Len(accepted) + 1
    <3>1. b = i /\ x.mode # "redirect"
      BY <1>4, <1>11, <2>1, <2>5
    <3>2. a \in IdsIn(queue) \cup ToSet(handed) \cup InHand
      BY <2>2, <2>4 DEF DeliveryInv, LostInv, Safe, NothingLost, InHand
    <3>3. a \in ToSet(handed) \cup InHand \/ Before(r, a, b)
      BY <1>10, <3>1, <3>2
    <3>4. QED
      BY <1>1, <1>5, <1>8, <1>15, <3>1, <3>3 DEF Ordered
  <2>6. CASE k \in 1..Len(accepted)
    <3>1. Follows(a, b)
      BY <1>11, <2>1, <2>2, <2>3, <2>6 DEF Follows
    <3>2. Ordered(a, b)
      BY <3>1 DEF DeliveryInv, Delivery, OrderInv
    <3>3. b # i
      BY <1>5, <1>11, <2>1, <2>6, AcceptedFacts
    <3>4. b \in IdsIn(r) => a \in ToSet(handed) \cup InHand \/ Before(r, a, b)
      BY <1>10, <3>2, <3>3 DEF Ordered
    <3>5. (b \in ToSet(handed) => Earlier(handed, a, b)) /\ (b \in InHand => a \in ToSet(handed))
      BY <3>2 DEF Ordered
    <3>6. QED
      BY <1>1, <1>8, <1>15, <3>4, <3>5 DEF Ordered
  <2>7. QED
    BY <1>12, <2>5, <2>6
<1>20. ASSUME "reorder" \notin Ops PROVE OnceInv'
  <2>1. OnceInv
    BY <1>20 DEF DeliveryInv, Delivery
  <2>2. \A d \in Clients : cl'[d].pc # "move"
    BY <1>6, <2>1 DEF OnceInv
  <2>3. IdsIn(r) \cap ToSet(handed) \subseteq Receipts(r)
    BY <1>5, <1>10, <2>1 DEF OnceInv
  <2>4. QED
    BY <1>1, <1>8, <2>1, <2>2, <2>3 DEF OnceInv, HandedOnce
<1>21. QED
  BY <1>14, <1>16, <1>17, <1>18, <1>19, <1>20 DEF Delivery, PlacesInv, OrderInv

LEMMA EnqueueDelivers == ASSUME DeliveryInv, NEW c \in Clients, Enqueue(c) PROVE Delivery'
<1>1. CASE UNCHANGED <<queueVars, history>>
  <2>1. UNCHANGED <<wpc, held, accepted, handed, queue, gone, moved>>
    BY <1>1 DEF Enqueue, queueVars, procVars, history
  <2>2. cl[c].pc \in NewPCs
    BY DEF Enqueue, NewPCs
  <2>3. \E pc \in {"idle", "cancel"} : \E i, mode : Client(c, pc, i, mode)
    BY DEF Enqueue, Return
  <2>4. QED
    BY <2>1, <2>3, NotNew, HandlerGoes, QuietDelivers
<1>2. QED
  BY <1>1, AcknowledgeDelivers

LEMMA RemoveDelivers ==
  ASSUME DeliveryInv, NEW c \in Clients, NEW i \in Ids, RemovePending(c, i)
  PROVE  Delivery'
<1>1. PICK k \in FirstWith(queue, i) : queue' = RemoveAt(queue, k)
  BY DEF RemovePending, Mutate
<1>2. k \in 1..Len(queue) /\ queue[k].id = i
  BY <1>1 DEF FirstWith
<1>3. /\ UNCHANGED <<wpc, held, handed, accepted, moved>> /\ gone' = gone \cup {i}
      /\ Client(c, "cancel", i, "queue")
  BY DEF RemovePending, procVars
<1>4. PICK r : r = queue'
  OBVIOUS
<1>5. r \in Seq(Item) /\ queue \in Seq(Item) /\ Without(queue, r, k)
  BY <1>1, <1>2, <1>4, RemoveWithout, DeliveryTypes
<1>6. Distinct(queue)
  BY DEF DeliveryInv, Delivery, PlacesInv, QueuePlaces
<1>7. /\ IdsIn(queue) = IdsIn(r) \cup {i} /\ Distinct(r) /\ i \notin IdsIn(r)
      /\ \A j \in Receipts(queue) : j \in Receipts(r) \/ j = i
      /\ \A a, b : Before(queue, a, b) /\ a # i /\ b # i => Before(r, a, b)
  BY <1>2, <1>5, <1>6, WithoutIds, WithoutOrder
<1>8. QED
  BY <1>3, <1>4, <1>7, NotNew, HandlerGoes, OutsideDelivers

LEMMA UpdateDelivers ==
  ASSUME DeliveryInv, NEW c \in Clients, NEW i \in Ids, NEW p \in BOOLEAN, Update(c, i, p)
  PROVE  Delivery'
<1>1. PICK k \in FirstWith(queue, i) : queue' = [queue EXCEPT ![k] = Edited(queue[k], p)]
  BY DEF Update, Mutate
<1>2. k \in 1..Len(queue) /\ queue \in Seq(Item) /\ queue[k] \in Item
  BY <1>1, DeliveryTypes DEF FirstWith
<1>3. /\ UNCHANGED <<wpc, held, handed, accepted, gone, moved>>
      /\ Client(c, "cancel", i, "queue")
  BY DEF Update, procVars, history
<1>4. PICK x : x = Edited(queue[k], p)
  OBVIOUS
<1>5. x \in Item /\ x.id = queue[k].id /\ x.receipt = queue[k].receipt
  BY <1>2, <1>4, ItemOps
<1>6. PICK r : r = [queue EXCEPT ![k] = x]
  OBVIOUS
<1>7. r \in Seq(Item) /\ SameIds(queue, r) /\ queue' = r
  BY <1>1, <1>2, <1>4, <1>5, <1>6, ReplaceSame
<1>8. QED
  BY <1>3, <1>7, NotNew, HandlerGoes, SameDelivers

LEMMA ElapseDelivers == ASSUME DeliveryInv, NEW i \in Ids, Elapse(i) PROVE Delivery'
<1>1. PICK k \in 1..Len(queue) : queue' = [queue EXCEPT ![k] = Due(queue[k])]
  BY DEF Elapse
<1>2. queue \in Seq(Item) /\ queue[k] \in Item
  BY <1>1, DeliveryTypes
<1>3. UNCHANGED <<wpc, held, handed, accepted, gone, moved, cl>>
  BY DEF Elapse, procVars, history
<1>4. PICK x : x = Due(queue[k])
  OBVIOUS
<1>5. x \in Item /\ x.id = queue[k].id /\ x.receipt = queue[k].receipt
  BY <1>2, <1>4, ItemOps
<1>6. PICK r : r = [queue EXCEPT ![k] = x]
  OBVIOUS
<1>7. r \in Seq(Item) /\ SameIds(queue, r) /\ queue' = r
  BY <1>1, <1>2, <1>4, <1>5, <1>6, ReplaceSame
<1>8. QED
  BY <1>3, <1>7, NobodyGoes, SameDelivers

\* The first redirect may go at once: the same inputs in the same order.
LEMMA ExpireDelivers ==
  ASSUME DeliveryInv, NEW c \in Clients, ExpireHeadRedirect(c)
  PROVE  Delivery'
<1>1. UNCHANGED <<wpc, held, handed, accepted, gone, moved>> /\ Return(c)
  BY DEF ExpireHeadRedirect, procVars, history
<1>2. CASE UNCHANGED queueVars
  BY <1>1, <1>2, NotNew, HandlerGoes, QuietDelivers DEF Return, queueVars
<1>3. CASE ~UNCHANGED queueVars
  <2>1. queue # <<>> /\ queue' = <<Due(Head(queue))>> \o Tail(queue)
    BY <1>3 DEF ExpireHeadRedirect, Show
  <2>2. PICK x : x = Due(Head(queue))
    OBVIOUS
  <2>3. PICK t : t = Tail(queue)
    OBVIOUS
  <2>4. PICK r : r = <<x>> \o t
    OBVIOUS
  <2>5. queue \in Seq(Item) /\ t \in Seq(Item) /\ Head(queue) = queue[1] /\ Without(queue, t, 1)
    BY <2>1, <2>3, TailWithout, DeliveryTypes
  <2>6. x \in Item /\ x.id = queue[1].id /\ x.receipt = queue[1].receipt
    <3>1. queue[1] \in Item /\ x = Due(queue[1])
      BY <2>1, <2>2, <2>5, Heads, DeliveryTypes
    <3>2. QED
      BY <3>1, ItemOps
  <2>7. r \in Seq(Item) /\ r[1] = x /\ Without(r, t, 1)
    BY <2>4, <2>5, <2>6, ConsWithout
  <2>8. SameIds(queue, r)
    <3>1. Len(t) \in Nat /\ Len(queue) = Len(t) + 1 /\ Len(r) = Len(t) + 1
      BY <2>5, <2>7 DEF Without
    <3>2. ASSUME NEW k \in 1..Len(queue), k # 1 PROVE queue[k] = r[k]
      <4>1. k - 1 \in 1..Len(t) /\ ~(k - 1 < 1) /\ (k - 1) + 1 = k
        BY <3>1, <3>2
      <4>2. /\ t[k - 1] = IF k - 1 < 1 THEN queue[k - 1] ELSE queue[(k - 1) + 1]
            /\ t[k - 1] = IF k - 1 < 1 THEN r[k - 1] ELSE r[(k - 1) + 1]
        BY <2>5, <2>7, <4>1 DEF Without
      <4>3. QED
        BY <4>1, <4>2
    <3>3. QED
      BY <2>6, <2>7, <3>1, <3>2 DEF SameIds
  <2>9. queue' = r
    BY <2>1, <2>2, <2>3, <2>4
  <2>10. QED
    BY <1>1, <2>7, <2>8, <2>9, NotNew, HandlerGoes, SameDelivers DEF Return
<1>4. QED
  BY <1>2, <1>3

LEMMA MoveDelivers == ASSUME DeliveryInv, NEW c \in Clients, Move(c) PROVE Delivery'
<1>1. UNCHANGED <<wpc, held, handed, accepted, gone>> /\ cl[c].pc = "move"
  BY DEF Move, procVars
<1>2. "reorder" \in Ops
  BY <1>1 DEF DeliveryInv, Delivery, OnceInv
<1>3. \E pc \in {"idle", "cancel"} : \E i, mode : Client(c, pc, i, mode)
  BY DEF Move, Return
<1>4. NewPlaces'
  BY <1>1, <1>3, NotNew, HandlerGoes
<1>5. CASE UNCHANGED <<queueVars, moved>>
  BY <1>1, <1>2, <1>4, <1>5, QuietDelivers DEF queueVars
<1>6. CASE ~UNCHANGED <<queueVars, moved>>
  <2> DEFINE i == cl[c].id
             x(k) == IF queue[k].mode = cl[c].mode THEN queue[k] ELSE NewItem(i, cl[c].mode)
  <2>1. PICK k \in FirstWith(queue, i) : \E q \in Places(RemoveAt(queue, k), x(k)) : queue' = q
    BY <1>6 DEF Move, Mutate
  <2>2. moved' = moved \cup {i}
    BY <1>6 DEF Move
  <2>3. k \in 1..Len(queue) /\ queue[k].id = i /\ queue \in Seq(Item) /\ queue[k] \in Item
    BY <2>1, DeliveryTypes DEF FirstWith
  <2>4. i \in Ids /\ cl[c].mode \in Modes
    BY <1>1, ClientArgs, DeliveryTypes DEF WithInput
  <2>5. x(k) \in Item /\ x(k).id = i
    BY <2>3, <2>4, NewItemType
  <2> HIDE DEF x, i
  <2>6. PICK y : y = x(k)
    OBVIOUS
  <2>7. PICK t : t = RemoveAt(queue, k)
    OBVIOUS
  <2>8. y \in Item /\ y.id = i /\ t \in Seq(Item) /\ Without(queue, t, k)
    BY <2>3, <2>5, <2>6, <2>7, RemoveWithout
  <2>9. queue' \in Places(t, y)
    BY <2>1, <2>6, <2>7
  <2>10. PICK p \in 1..(Len(t) + 1) : queue' = InsertAt(t, p, y)
    BY <2>8, <2>9, PlacesPlace
  <2>11. PICK r : r = queue'
    OBVIOUS
  <2>12. r \in Seq(Item) /\ r[p] = y /\ Without(r, t, p)
    BY <2>8, <2>10, <2>11, InsertWithout
  <2>13. Distinct(queue)
    BY DEF DeliveryInv, Delivery, PlacesInv, QueuePlaces
  <2>14. /\ IdsIn(queue) = IdsIn(t) \cup {i} /\ Distinct(t) /\ i \notin IdsIn(t)
         /\ \A a, b : Before(queue, a, b) /\ a # i /\ b # i => Before(t, a, b)
    BY <2>3, <2>8, <2>13, WithoutIds, WithoutOrder
  <2>15. /\ IdsIn(r) = IdsIn(t) \cup {i} /\ Distinct(r)
         /\ \A a, b : Before(t, a, b) => Before(r, a, b)
    BY <2>8, <2>12, <2>14, WithoutIds, WithoutOrder
  <2>16. QED
    BY <1>1, <1>2, <1>4, <2>2, <2>11, <2>14, <2>15, OutsideDelivers
<1>7. QED
  BY <1>5, <1>6

LEMMA ClearDelivers == ASSUME DeliveryInv, NEW c \in Clients, Clear(c) PROVE Delivery'
<1>1. UNCHANGED <<wpc, held, handed, accepted, moved>>
  BY DEF Clear
<1>2. \E pc \in {"idle", "cancel", "cancelOnly"} : Client(c, pc, NoOne, "queue")
  BY DEF Clear, Return
<1>3. /\ NewPlaces'
      /\ \A d \in Clients : cl'[d].pc = "move" => cl[d].pc = "move" \/ "reorder" \in Ops
  BY <1>1, <1>2, NotNew, HandlerGoes
<1>4. CASE UNCHANGED <<queueVars, gone>>
  BY <1>1, <1>3, <1>4, QuietDelivers DEF queueVars
<1>5. CASE ~UNCHANGED <<queueVars, gone>>
  <2>1. PICK q \in Kept(queue) : queue' = q /\ gone' = gone \cup (IdsIn(queue) \ IdsIn(q))
    BY <1>5 DEF Clear, Mutate
  <2>2. Distinct(queue) /\ queue \in Seq(Item)
    BY DeliveryTypes DEF DeliveryInv, Delivery, PlacesInv, QueuePlaces
  <2>3. /\ q \in Seq(Item) /\ IdsIn(q) \subseteq IdsIn(queue) /\ Receipts(q) = Receipts(queue)
        /\ Distinct(q) /\ \A a, b \in IdsIn(q) : Before(queue, a, b) => Before(q, a, b)
    BY <2>1, <2>2, KeptOrder
  <2>4. \A a, b : Before(queue, a, b) => a \in IdsIn(queue)
    BY <2>2, IdsFacts DEF Before
  <2>5. \A a, b : Before(queue, a, b) /\ b \in IdsIn(q) /\ a \notin gone' => Before(q, a, b)
    BY <2>1, <2>3, <2>4
  <2>6. QED
    BY <1>1, <1>3, <2>1, <2>3, <2>5, OutsideDelivers
<1>6. QED
  BY <1>4, <1>5

LEMMA EmptyQueue ==
  /\ IdsIn(<<>>) = {} /\ Distinct(<<>>)
  BY DEF IdsIn, Distinct

LEMMA ArchiveClearDelivers ==
  ASSUME DeliveryInv, NEW c \in Clients, ArchiveClear(c)
  PROVE  Delivery'
<1>1. /\ UNCHANGED <<wpc, held, handed, accepted, moved>> /\ Return(c)
      /\ queue' = <<>> /\ gone \subseteq gone'
  BY DEF ArchiveClear, DropAll
<1>2. IdsIn(queue') = {} /\ Distinct(queue')
  BY <1>1, EmptyQueue
<1>3. QED
  BY <1>1, <1>2, NotNew, HandlerGoes, OutsideDelivers DEF Return

LEMMA BackgroundDelivers ==
  ASSUME DeliveryInv,
         \/ TimerFires \/ AutoRetry \/ UpdateRetry \/ OtherRun \/ RunBlocks
         \/ RunUnblocks \/ ToolEnds \/ ReleaseRun
  PROVE  Delivery'
<1>1. UNCHANGED <<wpc, held, accepted, handed, queue, gone, moved, cl>>
  BY DEF TimerFires, AutoRetry, UpdateRetry, OtherRun, RunBlocks, RunUnblocks, ToolEnds,
         ReleaseRun, procVars, queueVars, history
<1>2. QED
  BY <1>1, NobodyGoes, QuietDelivers

LEMMA RunDoneDelivers == ASSUME DeliveryInv, RunDone PROVE Delivery'
<1>1. UNCHANGED <<wpc, held, accepted, handed, queue, gone, moved>>
  BY DEF RunDone, procVars, queueVars, history
<1>2. \A c \in Clients : cl'[c] = cl[c] \/ cl'[c].pc = "archiveMark"
  BY DEF RunDone, DeliveryInv, LostInv, TypeInv, ClientsOK
<1>3. NewPlaces
  BY DEF DeliveryInv, Delivery, PlacesInv
<1>4. NewPlaces'
  BY <1>1, <1>2, <1>3, NotNew, NewKept
<1>5. QED
  BY <1>1, <1>2, <1>4, NotNew, QuietDelivers

-----------------------------------------------------------------------------
(* The processor.                                                          *)

\* A goroutine that holds nothing comes or goes.
LEMMA AsideDelivers ==
  ASSUME DeliveryInv, NEW w \in Workers, NEW pc \in {"idle", "peek", "restart"},
         wpc[w] \in {"idle", "restart"}, Go(w, pc), \A v \in Workers \ {w} : held'[v] = held[v],
         UNCHANGED <<accepted, cl, handed, queue, gone, moved>>
  PROVE  Delivery'
<1>1. /\ wpc'[w] = pc
      /\ \A v \in Workers \ {w} : wpc'[v] = wpc[v]
  BY DeliveryTypes DEF Go
<1>2. pc \notin HoldingPCs /\ wpc[w] \notin HoldingPCs
  BY PCs
<1>3. \A v \in Workers : /\ wpc'[v] \in HoldingPCs <=> wpc[v] \in HoldingPCs
                         /\ wpc'[v] \in HoldingPCs => wpc'[v] = wpc[v] /\ held'[v] = held[v]
  BY <1>1, <1>2
<1>4. InHand' = InHand
  <2>1. InHand = {held[v].id : v \in {u \in Workers : wpc[u] \in Carrying}}
    BY DEF InHand, Carrying
  <2>2. InHand' = {held'[v].id : v \in {u \in Workers : wpc'[u] \in Carrying}}
    BY DEF InHand, Carrying
  <2>3. \A v \in Workers : wpc'[v] \in Carrying <=> wpc[v] \in Carrying
    BY <1>1, <1>2, PCs
  <2>4. \A v \in Workers : wpc[v] \in Carrying => held'[v].id = held[v].id
    BY <1>1, <1>2, PCs
  <2>5. QED
    BY <2>1, <2>2, <2>3, <2>4
<1>5. AcceptedIds' = AcceptedIds /\ Distinct(accepted)'
  BY AcceptedSame DEF DeliveryInv, Delivery, PlacesInv
<1>6. QueuePlaces' /\ HandPlaces'
  BY <1>3, <1>4, <1>5
     DEF DeliveryInv, Delivery, PlacesInv, QueuePlaces, HandPlaces, Distinct, IdsIn
<1>7. NewPlaces'
  BY NobodyGoes
<1>8. ASSUME NEW a, NEW b, Follows(a, b)' PROVE Ordered(a, b)'
  <2>1. Ordered(a, b)
    BY <1>8, FollowsFewer DEF DeliveryInv, Delivery, OrderInv
  <2>2. QED
    BY <1>4, <2>1 DEF Ordered, IdsIn
<1>9. ASSUME "reorder" \notin Ops PROVE OnceInv'
  <2>1. OnceInv
    BY <1>9 DEF DeliveryInv, Delivery
  <2>2. "persist" \in HoldingPCs /\ PrependPCs \subseteq HoldingPCs /\ UntakenPCs \subseteq HoldingPCs
    BY PCs DEF CallPCs
  <2>3. \A v \in Workers :
          /\ wpc'[v] \in UntakenPCs => held'[v].id \notin ToSet(handed)
          /\ wpc'[v] \in {"persist"} \cup PrependPCs /\ held'[v].id \in ToSet(handed)
               => held'[v].receipt
    BY <1>3, <2>1, <2>2 DEF OnceInv
  <2>4. HandedOnce'
    BY <2>1 DEF OnceInv, HandedOnce
  <2>5. QED
    BY <2>1, <2>3, <2>4 DEF OnceInv
<1>10. QED
  BY <1>5, <1>6, <1>7, <1>8, <1>9 DEF Delivery, PlacesInv, OrderInv

\* The processor takes an input from the queue, puts one back or drops them all.
LEMMA PassDelivers ==
  ASSUME DeliveryInv, NEW w \in Workers, NEW pc, NEW x, wpc[w] \in ActivePCs, Go(w, pc),
         held'[w] = x, \A v \in Workers \ {w} : held'[v] = held[v],
         UNCHANGED <<accepted, cl, handed, moved>>, gone \subseteq gone',
         NEW hand, hand = IF pc \in Carrying THEN {x.id} ELSE {},
         Distinct(queue'), IdsIn(queue') \subseteq AcceptedIds, hand \cap IdsIn(queue') = {},
         pc \in HoldingPCs => x.id \in AcceptedIds,
         \A a, b : /\ Ordered(a, b) /\ a \notin gone'
                   => /\ b \in hand => a \in ToSet(handed)
                      /\ b \in IdsIn(queue') =>
                           a \in ToSet(handed) \cup hand \/ Before(queue', a, b),
         "reorder" \notin Ops =>
           /\ pc \in UntakenPCs => x.id \notin ToSet(handed)
           /\ pc \in {"persist"} \cup PrependPCs /\ x.id \in ToSet(handed) => x.receipt
           /\ IdsIn(queue') \cap ToSet(handed) \subseteq Receipts(queue')
  PROVE  Delivery'
<1>1. /\ wpc'[w] = pc
      /\ \A v \in Workers \ {w} : wpc'[v] = wpc[v]
  BY DeliveryTypes DEF Go
<1>2. \A v \in Workers \ {w} : wpc'[v] \notin HoldingPCs /\ wpc'[v] \notin Carrying
                               /\ wpc'[v] \notin UntakenPCs
                               /\ wpc'[v] \notin {"persist"} \cup PrependPCs
  <2>1. "persist" \in HoldingPCs
    BY PCs DEF CallPCs
  <2>2. QED
    BY <1>1, <2>1, OneHand, PCs DEF DeliveryInv
<1>3. InHand' = hand
  <2>1. InHand' = {held'[v].id : v \in {u \in Workers : wpc'[u] \in Carrying}}
    BY DEF InHand, Carrying
  <2>2. \A v \in Workers : wpc'[v] \in Carrying <=> v = w /\ pc \in Carrying
    BY <1>1, <1>2
  <2>3. QED
    BY <2>1, <2>2
<1>4. AcceptedIds' = AcceptedIds /\ Distinct(accepted)'
  BY AcceptedSame DEF DeliveryInv, Delivery, PlacesInv
<1>5. QueuePlaces'
  BY <1>3, <1>4 DEF QueuePlaces, Distinct, IdsIn
<1>6. HandPlaces'
  BY <1>1, <1>2, <1>4 DEF HandPlaces
<1>7. NewPlaces'
  BY NobodyGoes
<1>8. ASSUME NEW a, NEW b, Follows(a, b)' PROVE Ordered(a, b)'
  <2>1. Ordered(a, b) /\ a \notin gone'
    BY <1>8, FollowsFewer DEF DeliveryInv, Delivery, OrderInv
  <2>2. b \in ToSet(handed) => Earlier(handed, a, b)
    BY <2>1 DEF Ordered
  <2>3. QED
    BY <1>3, <2>1, <2>2 DEF Ordered
<1>9. ASSUME "reorder" \notin Ops PROVE OnceInv'
  <2>1. OnceInv
    BY <1>9 DEF DeliveryInv, Delivery
  <2>2. \A v \in Workers :
          /\ wpc'[v] \in UntakenPCs => held'[v].id \notin ToSet(handed)
          /\ wpc'[v] \in {"persist"} \cup PrependPCs /\ held'[v].id \in ToSet(handed)
               => held'[v].receipt
    BY <1>1, <1>2, <1>9
  <2>3. HandedOnce'
    BY <2>1 DEF OnceInv, HandedOnce
  <2>4. QED
    BY <1>9, <2>1, <2>2, <2>3 DEF OnceInv
<1>10. QED
  BY <1>4, <1>5, <1>6, <1>7, <1>8, <1>9 DEF Delivery, PlacesInv, OrderInv

LEMMA FireWakeDelivers == ASSUME DeliveryInv, FireWake PROVE Delivery'
<1>1. UNCHANGED <<accepted, cl, handed, queue, gone, moved>> /\ Trigger(IdleWorkers)
  BY DEF FireWake, queueVars, history
<1>2. CASE processing
  BY <1>1, <1>2, NobodyGoes, QuietDelivers DEF Trigger
<1>3. CASE ~processing
  <2>1. PICK w \in IdleWorkers : Go(w, "peek") /\ held' = [held EXCEPT ![w] = NoItem]
    BY <1>1, <1>3 DEF Trigger, Go
  <2>2. w \in Workers /\ wpc[w] = "idle"
    BY <2>1 DEF IdleWorkers
  <2>3. \A v \in Workers \ {w} : held'[v] = held[v]
    BY <2>1, <2>2 DEF DeliveryInv, LostInv, TypeInv, WorkersOK
  <2>4. QED
    BY <1>1, <2>1, <2>2, <2>3, AsideDelivers
<1>4. QED
  BY <1>2, <1>3

LEMMA RestartDelivers == ASSUME DeliveryInv, NEW w \in Workers, Restart(w) PROVE Delivery'
<1>1. PICK pc \in {"idle", "peek"} : Go(w, pc)
  BY DEF Restart
<1>2. UNCHANGED <<accepted, cl, handed, queue, gone, moved, held>> /\ wpc[w] = "restart"
  BY DEF Restart, queueVars, history
<1>3. QED
  BY <1>1, <1>2, AsideDelivers

LEMMA HoldDelivers ==
  ASSUME DeliveryInv, NEW w \in Workers, NEW x, Hold(w, x)
  PROVE  held'[w] = x /\ \A v \in Workers \ {w} : held'[v] = held[v]
  BY Holds DEF DeliveryInv

\* What the head of the queue is.
LEMMA HeadPlaces ==
  ASSUME DeliveryInv, queue # <<>>
  PROVE  /\ Head(queue) \in Item /\ Head(queue).id \in IdsIn(queue)
         /\ Head(queue).id \in AcceptedIds
         /\ Head(queue).id \in Receipts(queue) <=> Head(queue).receipt
         /\ "reorder" \notin Ops =>
              (Head(queue).id \in ToSet(handed) => Head(queue).receipt)
<1>1. PICK x : x = Head(queue)
  OBVIOUS
<1>2. PICK t : t = Tail(queue)
  OBVIOUS
<1>3. queue \in Seq(Item) /\ t \in Seq(Item) /\ x = queue[1] /\ Without(queue, t, 1)
  BY <1>1, <1>2, TailWithout, DeliveryTypes
<1>4. x \in Item
  BY <1>1, Heads, DeliveryTypes
<1>5. QueuePlaces
  BY DEF DeliveryInv, Delivery, PlacesInv
<1>6. /\ IdsIn(queue) = IdsIn(t) \cup {x.id} /\ x.id \notin IdsIn(t)
      /\ Receipts(t) \subseteq IdsIn(t)
      /\ \A i \in Receipts(queue) : i \in Receipts(t) \/ (x.receipt /\ i = x.id)
      /\ x.receipt => x.id \in Receipts(queue)
  <2>1. Distinct(queue)
    BY <1>5 DEF QueuePlaces
  <2>2. Receipts(t) \subseteq IdsIn(t)
    BY <1>3, IdsFacts
  <2>3. QED
    BY <1>3, <2>1, <2>2, WithoutIds
<1>7. x.id \in Receipts(queue) <=> x.receipt
  BY <1>6
<1>8. x.id \in IdsIn(queue) /\ x.id \in AcceptedIds
  BY <1>5, <1>6 DEF QueuePlaces
<1>9. ASSUME "reorder" \notin Ops, x.id \in ToSet(handed) PROVE x.receipt
  BY <1>7, <1>8, <1>9 DEF DeliveryInv, Delivery, OnceInv
<1>10. QED
  BY <1>1, <1>4, <1>7, <1>8, <1>9


\* What holds of the input in the processor's hand.
LEMMA HeldPlaces ==
  ASSUME DeliveryInv, NEW w \in Workers, wpc[w] \in HoldingPCs
  PROVE  /\ held[w] \in Item /\ held[w].id \in AcceptedIds /\ wpc[w] \in ActivePCs
         /\ wpc[w] \in TakenPCs => held[w].id \in ToSet(handed)
         /\ "reorder" \notin Ops /\ wpc[w] \in UntakenPCs => held[w].id \notin ToSet(handed)
         /\ "reorder" \notin Ops /\ wpc[w] \in {"persist"} \cup PrependPCs
              /\ held[w].id \in ToSet(handed) => held[w].receipt
<1>1. held[w] \in Item
  BY Holding, DeliveryTypes
<1>2. held[w].id \in AcceptedIds
  BY DEF DeliveryInv, Delivery, PlacesInv, HandPlaces
<1>3. wpc[w] \in TakenPCs => held[w].id \in ToSet(handed)
  BY HeldReceipt DEF DeliveryInv
<1>4. ASSUME "reorder" \notin Ops
      PROVE  /\ wpc[w] \in UntakenPCs => held[w].id \notin ToSet(handed)
             /\ wpc[w] \in {"persist"} \cup PrependPCs /\ held[w].id \in ToSet(handed)
                  => held[w].receipt
  BY <1>4 DEF DeliveryInv, Delivery, OnceInv
<1>5. QED
  BY <1>1, <1>2, <1>3, <1>4, PCs

LEMMA WherePCs ==
  /\ {"arm", "claimReceipt", "readRun", "getSession", "claimPi", "claimSteer", "claimDispatch"}
       \cap (Carrying \cup {"persist"} \cup PrependPCs) = {}
  /\ {"arm", "claimReceipt"} \cap UntakenPCs = {}
  /\ {"readRun", "getSession", "claimPi", "claimSteer", "claimDispatch"} \subseteq UntakenPCs
  /\ {"steer", "piSend", "dispatch", "dispatching"} \subseteq UntakenPCs \cap CallPCs
  /\ {"markSteer", "markPi", "markDispatch", "persist"} \subseteq CallPCs \cap TakenPCs
  /\ {"markSteer", "markPi", "markDispatch", "persist"} \cap (UntakenPCs \cup PrependPCs) = {}
  /\ {"steer", "piSend", "dispatch", "dispatching", "markSteer", "markPi", "markDispatch"}
       \cap ({"persist"} \cup PrependPCs) = {}
  /\ {"prependArm", "prependPeek", "prependStop"} = PrependPCs
  /\ {"peek", "finish", "restart", "idle"} \cap (Carrying \cup HoldingPCs \cup UntakenPCs) = {}
  /\ {"peek", "finish", "restart", "idle"} \cap ({"persist"} \cup PrependPCs) = {}
  /\ CallPCs \subseteq Carrying /\ PrependPCs \subseteq Carrying
  /\ {"arm", "readRun", "getSession"} \cup ClaimPCs \cup CallPCs \cup PrependPCs
       \subseteq HoldingPCs
  /\ ClaimPCs \cap (Carrying \cup CallPCs \cup PrependPCs) = {}
  BY DEF UntakenPCs, Carrying, CallPCs, PrependPCs, TakenPCs, HoldingPCs, ActivePCs, ClaimPCs

LEMMA PeekDelivers == ASSUME DeliveryInv, NEW w \in Workers, Peek(w) PROVE Delivery'
<1>1. /\ wpc[w] \in ActivePCs /\ wpc[w] \notin Carrying
      /\ UNCHANGED <<accepted, cl, handed, queue, gone, moved>>
  BY WherePCs, PCs DEF Peek, queueVars, history
<1>2. CASE Go(w, "finish") /\ UNCHANGED held
  BY <1>1, <1>2, WherePCs, WorkerDelivers
<1>3. CASE ~(Go(w, "finish") /\ UNCHANGED held)
  <2> DEFINE x == Head(queue)
  <2>1. queue # <<>> /\ Hold(w, x)
    BY <1>3 DEF Peek
  <2>2. PICK pc \in {"arm", "claimReceipt", "readRun"} :
          Go(w, pc) /\ (pc = "readRun" => ~x.receipt)
    BY <1>3 DEF Peek
  <2>3. x.id \in AcceptedIds /\ ("reorder" \notin Ops => (x.id \in ToSet(handed) => x.receipt))
    BY <2>1, HeadPlaces
  <2> HIDE DEF x
  <2>4. held'[w] = x /\ \A v \in Workers \ {w} : held'[v] = held[v]
    BY <2>1, HoldDelivers
  <2>5. pc \notin Carrying /\ pc \notin {"persist"} \cup PrependPCs
        /\ (pc \in UntakenPCs => pc = "readRun")
    BY <2>2, WherePCs
  <2>6. QED
    BY <1>1, <2>2, <2>3, <2>4, <2>5, WorkerDelivers
<1>4. QED
  BY <1>2, <1>3

LEMMA ArmDelivers == ASSUME DeliveryInv, NEW w \in Workers, Arm(w) PROVE Delivery'
<1>1. /\ wpc[w] = "arm" /\ Go(w, "finish")
      /\ UNCHANGED <<accepted, cl, handed, queue, gone, moved, held>>
  BY DEF Arm, queueVars, history
<1>2. wpc[w] \in ActivePCs /\ wpc[w] \notin Carrying
  BY <1>1, WherePCs, PCs
<1>3. QED
  BY <1>1, <1>2, WherePCs, WorkerDelivers

LEMMA ReadRunDelivers == ASSUME DeliveryInv, NEW w \in Workers, ReadRun(w) PROVE Delivery'
<1>1. wpc[w] = "readRun" /\ UNCHANGED <<accepted, cl, handed, queue, gone, moved, held>>
  BY DEF ReadRun, queueVars, history
<1>2. PICK pc \in {"getSession", "claimPi", "claimSteer", "finish"} : Go(w, pc)
  BY DEF ReadRun
<1>3. wpc[w] \in HoldingPCs /\ wpc[w] \in UntakenPCs /\ wpc[w] \notin Carrying
  BY <1>1, WherePCs
<1>4. pc \notin Carrying /\ pc \notin {"persist"} \cup PrependPCs
  BY <1>2, WherePCs
<1>5. QED
  BY <1>1, <1>2, <1>3, <1>4, HeldPlaces, WorkerDelivers

\* The agent takes the input in hand.
LEMMA TakeDelivers ==
  ASSUME DeliveryInv, NEW w \in Workers, NEW pc \in {"markSteer", "markPi", "markDispatch"},
         wpc[w] \in UntakenPCs \cap CallPCs, Go(w, pc),
         UNCHANGED <<accepted, cl, queue, gone, moved, held>>, handed' = Append(handed, held[w].id)
  PROVE  Delivery'
<1>1. wpc[w] \in HoldingPCs /\ wpc[w] \in Carrying
  BY WherePCs
<1>2. pc \in Carrying /\ pc \notin UntakenPCs /\ pc \notin {"persist"} \cup PrependPCs
  BY WherePCs
<1>3. held[w].id \in AcceptedIds /\ wpc[w] \in ActivePCs
  BY <1>1, HeldPlaces
<1>4. QED
  BY <1>1, <1>2, <1>3, WorkerDelivers

\* The agent does not take it, or the processor is not there yet.
LEMMA KeepDelivers ==
  ASSUME DeliveryInv, NEW w \in Workers, NEW pc \in PrependPCs \cup {"dispatching"},
         wpc[w] \in UntakenPCs \cap CallPCs, Go(w, pc),
         UNCHANGED <<accepted, cl, queue, gone, moved, handed>>,
         NEW x \in {held[w], Due(held[w]), Later(held[w]), Failed(held[w])},
         held'[w] = x, \A v \in Workers \ {w} : held'[v] = held[v]
  PROVE  Delivery'
<1>1. wpc[w] \in HoldingPCs /\ wpc[w] \in Carrying /\ pc \in Carrying
  BY WherePCs
<1>2. /\ held[w] \in Item /\ held[w].id \in AcceptedIds /\ wpc[w] \in ActivePCs
      /\ "reorder" \notin Ops => held[w].id \notin ToSet(handed)
  BY <1>1, HeldPlaces
<1>3. x.id = held[w].id
  <2>1. ASSUME NEW h \in Item, NEW y \in {h, Due(h), Later(h), Failed(h)} PROVE y.id = h.id
    BY ItemOps
  <2>2. QED
    BY <1>2, <2>1
<1>4. QED
  BY <1>1, <1>2, <1>3, WorkerDelivers

LEMMA SteerDelivers == ASSUME DeliveryInv, NEW w \in Workers, Steer(w) PROVE Delivery'
<1>1. wpc[w] \in UntakenPCs \cap CallPCs /\ UNCHANGED <<accepted, cl, queue, gone, moved>>
  BY WherePCs DEF Steer, queueVars
<1>2. CASE Go(w, "markSteer") /\ UNCHANGED held /\ handed' = Append(handed, held[w].id)
  BY <1>1, <1>2, TakeDelivers
<1>3. CASE ~(Go(w, "markSteer") /\ UNCHANGED held /\ handed' = Append(handed, held[w].id))
  <2>1. /\ UNCHANGED handed
        /\ \E pc \in PrependPCs, x \in {Due(held[w]), Later(held[w]), Failed(held[w])} :
             Go(w, pc) /\ Hold(w, x)
    BY <1>3 DEF Steer, PrependPCs
  <2>2. PICK pc \in PrependPCs, x \in {Due(held[w]), Later(held[w]), Failed(held[w])} :
          Go(w, pc) /\ Hold(w, x)
    BY <2>1
  <2>3. QED
    BY <1>1, <2>1, <2>2, HoldDelivers, KeepDelivers
<1>4. QED
  BY <1>2, <1>3

LEMMA PiSendDelivers == ASSUME DeliveryInv, NEW w \in Workers, PiSend(w) PROVE Delivery'
<1>1. wpc[w] \in UntakenPCs \cap CallPCs /\ UNCHANGED <<accepted, cl, queue, gone, moved>>
  BY WherePCs DEF PiSend, queueVars
<1>2. CASE Go(w, "markPi") /\ UNCHANGED held /\ handed' = Append(handed, held[w].id)
  BY <1>1, <1>2, TakeDelivers
<1>3. CASE Go(w, "prependStop") /\ UNCHANGED <<held, handed>>
  BY <1>1, <1>3, KeepDelivers DEF PrependPCs
<1>4. CASE Go(w, "prependStop") /\ Hold(w, Failed(held[w])) /\ UNCHANGED handed
  BY <1>1, <1>4, HoldDelivers, KeepDelivers DEF PrependPCs
<1>5. QED
  BY <1>2, <1>3, <1>4 DEF PiSend

LEMMA DispatchDelivers == ASSUME DeliveryInv, NEW w \in Workers, Dispatch(w) PROVE Delivery'
<1>1. /\ wpc[w] \in UntakenPCs \cap CallPCs
      /\ UNCHANGED <<accepted, cl, queue, gone, moved, handed, held>>
  BY WherePCs DEF Dispatch, queueVars
<1>2. PICK pc \in PrependPCs \cup {"dispatching"} : Go(w, pc)
  BY DEF Dispatch, PrependPCs
<1>3. QED
  BY <1>1, <1>2, KeepDelivers

LEMMA DispatchedDelivers == ASSUME DeliveryInv, NEW w \in Workers, Dispatched(w) PROVE Delivery'
<1>1. /\ wpc[w] \in UntakenPCs \cap CallPCs
      /\ UNCHANGED <<accepted, cl, queue, gone, moved, held>>
  BY WherePCs DEF Dispatched, queueVars
<1>2. CASE Go(w, "markDispatch") /\ handed' = Append(handed, held[w].id)
  BY <1>1, <1>2, TakeDelivers
<1>3. CASE Go(w, "prependStop") /\ UNCHANGED handed
  BY <1>1, <1>3, KeepDelivers DEF PrependPCs
<1>4. QED
  BY <1>2, <1>3 DEF Dispatched

LEMMA PersistDelivers == ASSUME DeliveryInv, NEW w \in Workers, Persist(w) PROVE Delivery'
<1>1. wpc[w] = "persist" /\ UNCHANGED <<accepted, cl, queue, gone, moved, handed>>
  BY DEF Persist, queueVars, history
<1>2. /\ wpc[w] \in HoldingPCs /\ wpc[w] \in TakenPCs /\ wpc[w] \in Carrying
      /\ held[w] \in Item /\ held[w].id \in AcceptedIds /\ held[w].id \in ToSet(handed)
      /\ "reorder" \notin Ops => held[w].receipt
  BY <1>1, WherePCs, HeldPlaces
<1>3. CASE Go(w, "peek") /\ UNCHANGED held
  BY <1>1, <1>2, <1>3, WherePCs, PCs, WorkerDelivers
<1>4. CASE ~(Go(w, "peek") /\ UNCHANGED held)
  <2> DEFINE x == Later(held[w])
  <2>1. Hold(w, x) /\ Go(w, "prependArm")
    BY <1>4 DEF Persist
  <2>2. x.id = held[w].id /\ x.receipt = held[w].receipt
    BY <1>2, ItemOps
  <2> HIDE DEF x
  <2>3. "prependArm" \in Carrying /\ "prependArm" \notin UntakenPCs
    BY WherePCs, PCs
  <2>4. held'[w] = x /\ \A v \in Workers \ {w} : held'[v] = held[v]
    BY <2>1, HoldDelivers
  <2>5. QED
    BY <1>1, <1>2, <2>1, <2>2, <2>3, <2>4, PCs, WorkerDelivers
<1>5. QED
  BY <1>3, <1>4

LEMMA MarkDelivers == ASSUME DeliveryInv, NEW w \in Workers, Mark(w) PROVE Delivery'
<1>1. /\ wpc[w] \in {"markSteer", "markPi", "markDispatch"}
      /\ UNCHANGED <<accepted, cl, queue, gone, moved, handed>>
  BY DEF Mark, queueVars, history
<1>2. /\ wpc[w] \in HoldingPCs /\ wpc[w] \in TakenPCs /\ wpc[w] \in Carrying
      /\ held[w] \in Item /\ held[w].id \in AcceptedIds /\ held[w].id \in ToSet(handed)
  BY <1>1, WherePCs, HeldPlaces
<1>3. CASE Go(w, "peek") /\ UNCHANGED held
  BY <1>1, <1>2, <1>3, WherePCs, PCs, WorkerDelivers
<1>4. CASE Hold(w, Accepted(held[w])) /\ Go(w, "persist")
  <2> DEFINE x == Accepted(held[w])
  <2>1. x.id = held[w].id /\ x.receipt
    BY <1>2 DEF Item, Accepted
  <2>2. Hold(w, x)
    BY <1>4
  <2> HIDE DEF x
  <2>3. "persist" \in Carrying /\ "persist" \notin UntakenPCs
    BY WherePCs
  <2>4. held'[w] = x /\ \A v \in Workers \ {w} : held'[v] = held[v]
    BY <2>2, HoldDelivers
  <2>5. QED
    BY <1>1, <1>2, <1>4, <2>1, <2>3, <2>4, PCs, WorkerDelivers
<1>5. QED
  BY <1>3, <1>4 DEF Mark

LEMMA FinishDelivers == ASSUME DeliveryInv, NEW w \in Workers, Finish(w) PROVE Delivery'
<1>1. /\ wpc[w] = "finish" /\ Hold(w, NoItem)
      /\ UNCHANGED <<accepted, cl, queue, gone, moved, handed>>
  BY DEF Finish, queueVars, history
<1>2. PICK pc \in {"restart", "idle"} : Go(w, pc)
  BY DEF Finish
<1>3. wpc[w] \in ActivePCs /\ wpc[w] \notin Carrying
  BY <1>1, WherePCs, PCs
<1>4. /\ pc \notin Carrying /\ pc \notin HoldingPCs /\ pc \notin UntakenPCs
      /\ pc \notin {"persist"} \cup PrependPCs
  BY <1>2, WherePCs
<1>5. QED
  BY <1>1, <1>2, <1>3, <1>4, HoldDelivers, WorkerDelivers

LEMMA GetSessionDelivers == ASSUME DeliveryInv, NEW w \in Workers, GetSession(w) PROVE Delivery'
<1>1. wpc[w] = "getSession" /\ UNCHANGED <<accepted, cl, moved, handed, held>>
  BY DEF GetSession
<1>2. /\ wpc[w] \in HoldingPCs /\ wpc[w] \in UntakenPCs /\ wpc[w] \notin Carrying
      /\ wpc[w] \in ActivePCs
  BY <1>1, WherePCs, PCs
<1>3. CASE DropAll /\ Go(w, "finish")
  <2>1. queue' = <<>> /\ gone \subseteq gone'
    BY <1>3 DEF DropAll
  <2>2. IdsIn(queue') = {} /\ Distinct(queue')
    BY <2>1, EmptyQueue
  <2>3. PICK hand : hand = {}
    OBVIOUS
  <2>4. PICK pc : pc = "finish"
    OBVIOUS
  <2>5. /\ pc \notin Carrying /\ pc \notin HoldingPCs /\ pc \notin UntakenPCs
        /\ pc \notin {"persist"} \cup PrependPCs /\ Go(w, pc)
    BY <1>3, <2>4, WherePCs
  <2>6. hand = IF pc \in Carrying THEN {held[w].id} ELSE {}
    BY <2>3, <2>5
  <2>7. /\ IdsIn(queue') \subseteq AcceptedIds /\ hand \cap IdsIn(queue') = {}
        /\ \A v \in Workers \ {w} : held'[v] = held[v]
        /\ held'[w] = held[w]
    BY <1>1, <2>2, <2>3
  <2>8. /\ \A b : b \notin hand /\ b \notin IdsIn(queue')
        /\ IdsIn(queue') \cap ToSet(handed) \subseteq Receipts(queue')
    BY <2>2, <2>3
  <2>9. QED
    BY <1>1, <1>2, <2>1, <2>2, <2>5, <2>6, <2>7, <2>8, PassDelivers
<1>4. CASE UNCHANGED <<queueVars, gone>> /\ \E pc \in {"finish", "claimDispatch"} : Go(w, pc)
  <2>1. PICK pc \in {"finish", "claimDispatch"} : Go(w, pc)
    BY <1>4
  <2>2. pc \notin Carrying /\ pc \notin {"persist"} \cup PrependPCs
    BY <2>1, WherePCs
  <2>3. UNCHANGED <<queue, gone>>
    BY <1>4 DEF queueVars
  <2>4. QED
    BY <1>1, <1>2, <2>1, <2>2, <2>3, HeldPlaces, WorkerDelivers
<1>5. QED
  BY <1>3, <1>4 DEF GetSession

\* The head goes into the hand: what must come before it has been taken already.
LEMMA ClaimDelivers == ASSUME DeliveryInv, NEW w \in Workers, Claim(w) PROVE Delivery'
<1>1. wpc[w] \in ClaimPCs /\ UNCHANGED <<accepted, cl, moved, handed, gone>>
  BY DEF Claim
<1>2. wpc[w] \in HoldingPCs /\ wpc[w] \in ActivePCs /\ wpc[w] \notin Carrying
  BY <1>1, WherePCs, PCs
<1>3. CASE Go(w, "peek") /\ UNCHANGED <<queueVars, held>>
  BY <1>1, <1>2, <1>3, WherePCs, PCs, WorkerDelivers DEF queueVars
<1>4. CASE ~(Go(w, "peek") /\ UNCHANGED <<queueVars, held>>)
  <2> DEFINE pc == AfterClaim[wpc[w]]
  <2>1. PICK x : x = Head(queue)
    OBVIOUS
  <2>2. PICK t : t = Tail(queue)
    OBVIOUS
  <2>3. /\ queue # <<>> /\ x.id = held[w].id
        /\ Hold(w, x) /\ Go(w, pc) /\ queue' = t
    BY <1>4, <2>1, <2>2 DEF Claim, Show
  <2>4. /\ pc \in CallPCs
        /\ pc \in UntakenPCs => wpc[w] \in UntakenPCs
        /\ pc \notin PrependPCs
    BY <1>1, WherePCs DEF ClaimPCs, AfterClaim
  <2> HIDE DEF pc
  <2>5. pc \in Carrying /\ pc \in HoldingPCs
    BY <2>4, WherePCs
  <2>6. queue \in Seq(Item) /\ t \in Seq(Item) /\ x = queue[1] /\ Without(queue, t, 1)
    BY <2>1, <2>2, <2>3, TailWithout, DeliveryTypes
  <2>7. Distinct(queue) /\ IdsIn(queue) \subseteq AcceptedIds
    BY DEF DeliveryInv, Delivery, PlacesInv, QueuePlaces
  <2>8. /\ IdsIn(queue) = IdsIn(t) \cup {x.id} /\ Distinct(t) /\ x.id \notin IdsIn(t)
        /\ \A i \in Receipts(queue) : i \in Receipts(t) \/ i = x.id
        /\ \A a, b : Before(queue, a, b) /\ a # x.id /\ b # x.id => Before(t, a, b)
    BY <2>6, <2>7, WithoutIds, WithoutOrder
  <2>9. \A a : ~Before(queue, a, x.id)
    <3>1. SUFFICES ASSUME NEW a, Before(queue, a, x.id) PROVE FALSE
      OBVIOUS
    <3>2. PICK m \in 1..Len(queue), n \in 1..Len(queue) : m < n /\ queue[n].id = x.id
      BY <3>1 DEF Before
    <3>3. 1 \in 1..Len(queue) /\ queue[1].id = x.id /\ n # 1
      BY <2>6, <3>2 DEF Without
    <3>4. QED
      BY <2>7, <3>2, <3>3 DEF Distinct
  <2>10. InHand = {}
    BY <1>2, OneHand DEF DeliveryInv
  <2>11. ASSUME NEW a, NEW b, Ordered(a, b)
         PROVE  /\ b \in {x.id} => a \in ToSet(handed)
                /\ b \in IdsIn(t) => a \in ToSet(handed) \cup {x.id} \/ Before(t, a, b)
    BY <2>8, <2>9, <2>10, <2>11 DEF Ordered
  <2>12. /\ x.id \in AcceptedIds
         /\ "reorder" \notin Ops => (x.id \in ToSet(handed) => x.receipt)
    BY <2>1, <2>3, HeadPlaces
  <2>13. "reorder" \notin Ops /\ pc \in UntakenPCs => x.id \notin ToSet(handed)
    BY <1>2, <2>3, <2>4, HeldPlaces
  <2>14. "reorder" \notin Ops => IdsIn(t) \cap ToSet(handed) \subseteq Receipts(t)
    BY <2>8 DEF DeliveryInv, Delivery, OnceInv
  <2>15. held'[w] = x /\ \A v \in Workers \ {w} : held'[v] = held[v]
    BY <2>3, HoldDelivers
  <2>16. {x.id} = IF pc \in Carrying THEN {x.id} ELSE {}
    BY <2>5
  <2>17. {x.id} \cap IdsIn(t) = {} /\ IdsIn(t) \subseteq AcceptedIds /\ Distinct(t)
    BY <2>7, <2>8
  <2>18. PICK hand : hand = {x.id}
    OBVIOUS
  <2>19. QED
    BY <1>1, <1>2, <2>3, <2>11, <2>12, <2>13, <2>14, <2>15, <2>16, <2>17, <2>18, PassDelivers
<1>5. QED
  BY <1>3, <1>4

\* The input in hand goes back to the front: before everything that must come after it.
LEMMA PrependDelivers == ASSUME DeliveryInv, NEW w \in Workers, Prepend(w) PROVE Delivery'
<1> DEFINE pc == AfterPrepend[wpc[w]]
<1>1. /\ wpc[w] \in PrependPCs /\ Go(w, pc) /\ UNCHANGED <<gone, accepted, moved, cl, handed, held>>
      /\ queue' = <<held[w]>> \o queue
  BY DEF Prepend, Show, PutBack, history
<1>2. pc \in {"arm", "peek", "finish"}
  BY <1>1 DEF PrependPCs, AfterPrepend
<1> HIDE DEF pc
<1>3. pc \notin Carrying /\ pc \notin UntakenPCs /\ pc \notin {"persist"} \cup PrependPCs
  BY <1>2, WherePCs
<1>4. wpc[w] \in HoldingPCs /\ wpc[w] \in ActivePCs /\ wpc[w] \in Carrying
  BY <1>1, WherePCs, PCs
<1>5. PICK x : x = held[w]
  OBVIOUS
<1>6. PICK r : r = queue'
  OBVIOUS
<1>7. /\ x \in Item /\ x.id \in AcceptedIds
      /\ "reorder" \notin Ops => (x.id \in ToSet(handed) => x.receipt)
  BY <1>1, <1>4, <1>5, HeldPlaces
<1>8. r \in Seq(Item) /\ queue \in Seq(Item) /\ r[1] = x /\ Without(r, queue, 1)
  BY <1>1, <1>5, <1>6, <1>7, ConsWithout, DeliveryTypes
<1>9. InHand = {x.id}
  BY <1>4, <1>5, OneHand DEF DeliveryInv
<1>10. Distinct(queue) /\ IdsIn(queue) \subseteq AcceptedIds /\ x.id \notin IdsIn(queue)
  BY <1>9 DEF DeliveryInv, Delivery, PlacesInv, QueuePlaces
<1>11. /\ IdsIn(r) = IdsIn(queue) \cup {x.id} /\ Distinct(r)
       /\ Receipts(queue) \subseteq Receipts(r) /\ (x.receipt => x.id \in Receipts(r))
       /\ \A a, b : Before(queue, a, b) => Before(r, a, b)
       /\ \A b \in IdsIn(queue) : Before(r, x.id, b)
  BY <1>8, <1>10, WithoutIds, WithoutOrder
<1>12. ASSUME NEW a, NEW b, Ordered(a, b), b \in IdsIn(r)
       PROVE  a \in ToSet(handed) \/ Before(r, a, b)
  BY <1>9, <1>11, <1>12 DEF Ordered
<1>13. "reorder" \notin Ops => IdsIn(r) \cap ToSet(handed) \subseteq Receipts(r)
  BY <1>7, <1>11 DEF DeliveryInv, Delivery, OnceInv
<1>14. PICK hand : hand = {}
  OBVIOUS
<1>15. hand = IF pc \in Carrying THEN {x.id} ELSE {}
  BY <1>3, <1>14
<1>16. /\ held'[w] = x /\ \A v \in Workers \ {w} : held'[v] = held[v]
       /\ hand \cap IdsIn(queue') = {} /\ IdsIn(queue') \subseteq AcceptedIds /\ Distinct(queue')
       /\ pc \in HoldingPCs => x.id \in AcceptedIds
  BY <1>1, <1>5, <1>6, <1>7, <1>10, <1>11, <1>14
<1>17. \A a, b : /\ Ordered(a, b) /\ a \notin gone'
                 => /\ b \in hand => a \in ToSet(handed)
                    /\ b \in IdsIn(queue') =>
                         a \in ToSet(handed) \cup hand \/ Before(queue', a, b)
  BY <1>6, <1>12, <1>14
<1>18. "reorder" \notin Ops =>
         /\ pc \in UntakenPCs => x.id \notin ToSet(handed)
         /\ pc \in {"persist"} \cup PrependPCs /\ x.id \in ToSet(handed) => x.receipt
         /\ IdsIn(queue') \cap ToSet(handed) \subseteq Receipts(queue')
  BY <1>3, <1>6, <1>13
<1>19. QED
  BY <1>1, <1>4, <1>15, <1>16, <1>17, <1>18, PassDelivers


-----------------------------------------------------------------------------
LEMMA DeliveryInit == Init => Delivery
<1> SUFFICES ASSUME Init PROVE Delivery
  OBVIOUS
<1>1. /\ queue = <<>> /\ accepted = <<>> /\ handed = <<>>
      /\ wpc = [w \in Workers |-> "idle"]
      /\ cl = [c \in Clients |-> [pc |-> "idle", id |-> NoOne, mode |-> "queue"]]
  BY DEF Init
<1>2. /\ \A w \in Workers : wpc[w] \notin HoldingPCs /\ wpc[w] \notin UntakenPCs
                            /\ wpc[w] \notin {"persist"} \cup PrependPCs
      /\ \A c \in Clients : cl[c].pc \notin NewPCs /\ cl[c].pc # "move"
  BY <1>1, WherePCs, NotNew
<1>3. QueuePlaces
  BY <1>1, EmptyQueue DEF QueuePlaces
<1>4. HandPlaces /\ NewPlaces
  BY <1>2 DEF HandPlaces, NewPlaces
<1>5. Distinct(accepted) /\ HandedOnce
  BY <1>1 DEF Distinct, HandedOnce
<1>6. OrderInv
  BY <1>1 DEF OrderInv, Follows
<1>7. OnceInv
  <2>1. IdsIn(queue) \cap ToSet(handed) \subseteq Receipts(queue)
    BY <1>1, EmptyQueue
  <2>2. QED
    BY <1>2, <1>5, <2>1 DEF OnceInv
<1>8. QED
  BY <1>3, <1>4, <1>5, <1>6, <1>7 DEF Delivery, PlacesInv

LEMMA DeliveryStep == ASSUME ~Resend PROVE DeliveryInv /\ [Next]_vars => DeliveryInv'
<1> SUFFICES ASSUME DeliveryInv, [Next]_vars PROVE Delivery'
  BY LostStep, ProcessorStep DEF DeliveryInv
<1>1. ASSUME NEW c \in Clients, ClientCommand(c) PROVE Delivery'
  BY <1>1, SendDelivers, ReorderDelivers, RemoveDelivers, UpdateDelivers, ClearDelivers,
     IdleDelivers DEF ClientCommand, Modes
<1>2. ASSUME NEW c \in Clients, ClientStep(c) PROVE Delivery'
  BY <1>2, ChooseDelivers, EnqueueDelivers, ClientDispatchDelivers, ClientDispatchedDelivers,
     MoveDelivers, ExpireDelivers, ArchiveClearDelivers, IdleDelivers DEF ClientStep
<1>3. ASSUME NEW w \in Workers, Processor(w) PROVE Delivery'
  BY <1>3, PeekDelivers, ArmDelivers, ReadRunDelivers, GetSessionDelivers, ClaimDelivers,
     PersistDelivers, SteerDelivers, PiSendDelivers, DispatchDelivers, DispatchedDelivers,
     MarkDelivers, PrependDelivers, FinishDelivers, RestartDelivers DEF Processor
<1>4. ASSUME \/ \E i \in Ids : Elapse(i)
             \/ FireWake \/ TimerFires \/ AutoRetry \/ UpdateRetry \/ OtherRun
             \/ RunBlocks \/ RunUnblocks \/ ToolEnds \/ RunDone \/ ReleaseRun
      PROVE  Delivery'
  BY <1>4, BackgroundDelivers, ElapseDelivers, FireWakeDelivers, RunDoneDelivers
<1>5. CASE UNCHANGED vars
  <2>1. UNCHANGED <<wpc, held, accepted, handed, queue, gone, moved, cl>>
    BY <1>5 DEF vars, state, queueVars, procVars, history
  <2>2. QED
    BY <2>1, NobodyGoes, QuietDelivers
<1>6. QED
  BY <1>1, <1>2, <1>3, <1>4, <1>5 DEF Next

LEMMA DeliveryCorrect == ASSUME ~Resend PROVE Spec => []DeliveryInv
<1>1. Init => DeliveryInv
  BY TypeInit, LostInit, ProcessorInit, DeliveryInit DEF DeliveryInv, LostInv
<1>2. DeliveryInv /\ [Next]_vars => DeliveryInv'
  BY DeliveryStep
<1>3. QED
  BY <1>1, <1>2, PTL DEF Spec

\* The agent takes an input at most once, as long as clients do not use an id again and no
\* reorder drops the receipt of an input that was taken meanwhile: see HandedOnce.
THEOREM HandedOnceCorrect ==
  ASSUME ~Resend, "reorder" \notin Ops
  PROVE  Spec => []HandedOnce
<1>1. DeliveryInv => HandedOnce
  BY DEF DeliveryInv, Delivery, OnceInv
<1>2. Spec => []DeliveryInv
  BY DeliveryCorrect
<1>3. QED
  BY <1>1, <1>2, PTL

LEMMA DeliveryQueueOrder == DeliveryInv => QueueOrder
<1> SUFFICES ASSUME DeliveryInv, NEW j \in 1..Len(accepted), NEW k \in 1..Len(accepted),
                    j < k, accepted[j].mode = "queue", accepted[k].mode = "queue",
                    {accepted[j].id, accepted[k].id} \cap moved = {},
                    accepted[k].id \in ToSet(handed), accepted[j].id \notin gone
             PROVE  \E m, n \in 1..Len(handed) :
                      m <= n /\ handed[m] = accepted[j].id /\ handed[n] = accepted[k].id
  BY DEF QueueOrder
<1>1. Follows(accepted[j].id, accepted[k].id)
  BY DEF Follows
<1>2. Ordered(accepted[j].id, accepted[k].id)
  BY <1>1 DEF DeliveryInv, Delivery, OrderInv
<1>3. QED
  BY <1>2 DEF Ordered, Earlier

\* Retries, failed steers and racing runs included, queue-mode inputs that no command moved
\* reach the agent in the order of their acknowledgements: see QueueOrder.
THEOREM QueueOrderCorrect == ASSUME ~Resend PROVE Spec => []QueueOrder
<1>1. Spec => []DeliveryInv
  BY DeliveryCorrect
<1>2. QED
  BY <1>1, DeliveryQueueOrder, PTL


-----------------------------------------------------------------------------
(* Receipts stay.                                                          *)

\* What a receipt may be lost by: a move, and a queue that is dropped.  An archived session
\* is, the others are not unless their lookup fails.
QuietInv ==
  /\ \A c \in Clients : cl[c].pc # "move"
  /\ \A c \in Clients : cl[c].pc = "archiveClear" => archived
ReceiptInv == TypeInv /\ QuietInv

\* The receipts of the processor's hand.
HeldReceipts == {held[w].id : w \in {v \in Workers : held[v].receipt}}
Stay == archived \/ Receipts(queue) \subseteq Receipts(queue') \cup HeldReceipts'

LEMMA QuietSame ==
  ASSUME QuietInv, UNCHANGED <<cl, archived>>
  PROVE  QuietInv'
  BY DEF QuietInv

LEMMA QuietClient ==
  ASSUME TypeInv, QuietInv, NEW c \in Clients, NEW pc, NEW i, NEW mode, Client(c, pc, i, mode),
         pc # "move", pc # "archiveClear" \/ archived', archived => archived'
  PROVE  QuietInv'
<1>1. /\ cl'[c] = [pc |-> pc, id |-> i, mode |-> mode]
      /\ \A d \in Clients \ {c} : cl'[d] = cl[d]
  BY DEF TypeInv, ClientsOK, Client
<1>2. cl'[c].pc = pc
  BY <1>1
<1>3. QED
  BY <1>1, <1>2 DEF QuietInv

LEMMA StaySame == ASSUME UNCHANGED queue PROVE Stay
  BY DEF Stay

LEMMA QuietCommand ==
  ASSUME "reorder" \notin Ops, ReceiptInv, NEW c \in Clients, ClientCommand(c)
  PROVE  QuietInv' /\ Stay
<1>1. \A i \in Ids, mode \in Modes : ~Reorder(c, i, mode)
  BY DEF Reorder, Command
<1>2. ASSUME NEW i \in Ids, NEW mode \in Modes, Send(c, i, mode) \/ SendDirect(c, i)
      PROVE  QuietInv' /\ Stay
  <2>1. UNCHANGED <<queue, archived>>
    BY <1>2 DEF Send, SendDirect, queueVars, runVars
  <2>2. PICK pc \in {"choose", "chooseDeferred", "direct"} : \E m : Client(c, pc, i, m)
    BY <1>2 DEF Send, SendDirect
  <2>3. QED
    BY <2>1, <2>2, QuietClient, StaySame DEF ReceiptInv
<1>3. ASSUME NEW i \in Ids, RemovePending(c, i) PROVE QuietInv' /\ Stay
  <2>1. PICK k \in FirstWith(queue, i) : ~queue[k].receipt /\ queue' = RemoveAt(queue, k)
    BY <1>3 DEF RemovePending, Mutate, Locked
  <2>2. PICK r : r = queue'
    OBVIOUS
  <2>3. k \in 1..Len(queue) /\ queue \in Seq(Item)
    BY <2>1 DEF FirstWith, ReceiptInv, TypeInv, QueueOK
  <2>4. r \in Seq(Item) /\ Without(queue, r, k)
    BY <2>1, <2>2, <2>3, RemoveWithout
  <2>5. Receipts(queue) \subseteq Receipts(r)
    BY <2>1, <2>3, <2>4, WithoutIds
  <2>6. UNCHANGED archived /\ Client(c, "cancel", i, "queue")
    BY <1>3 DEF RemovePending, runVars
  <2>7. QuietInv'
    BY <2>6, QuietClient DEF ReceiptInv
  <2>8. QED
    BY <2>2, <2>5, <2>7 DEF Stay
<1>4. ASSUME NEW i \in Ids, NEW p \in BOOLEAN, Update(c, i, p) PROVE QuietInv' /\ Stay
  <2>1. PICK k \in FirstWith(queue, i) : queue' = [queue EXCEPT ![k] = Edited(queue[k], p)]
    BY <1>4 DEF Update, Mutate
  <2>2. k \in 1..Len(queue) /\ queue \in Seq(Item) /\ queue[k] \in Item
    BY <2>1 DEF FirstWith, ReceiptInv, TypeInv, QueueOK
  <2>3. PICK x : x = Edited(queue[k], p)
    OBVIOUS
  <2>4. x \in Item /\ x.id = queue[k].id /\ x.receipt = queue[k].receipt
    BY <2>2, <2>3, ItemOps
  <2>5. PICK r : r = [queue EXCEPT ![k] = x]
    OBVIOUS
  <2>6. r \in Seq(Item) /\ SameIds(queue, r) /\ queue' = r
    BY <2>1, <2>2, <2>3, <2>4, <2>5, ReplaceSame
  <2>7. Receipts(queue) = Receipts(r)
    BY <2>2, <2>6, SameFacts
  <2>8. UNCHANGED archived /\ Client(c, "cancel", i, "queue")
    BY <1>4 DEF Update, runVars
  <2>9. QuietInv'
    BY <2>8, QuietClient DEF ReceiptInv
  <2>10. QED
    BY <2>6, <2>7, <2>9 DEF Stay
<1>5. CASE Clear(c)
  <2>1. UNCHANGED archived /\ \E pc \in {"idle", "cancel", "cancelOnly"} : Client(c, pc, NoOne, "queue")
    BY <1>5 DEF Clear, Return, runVars
  <2>2. QuietInv'
    BY <2>1, QuietClient DEF ReceiptInv
  <2>3. CASE UNCHANGED queue
    BY <2>2, <2>3, StaySame
  <2>4. CASE ~UNCHANGED queue
    <3>1. PICK q \in Kept(queue) : queue' = q
      BY <1>5, <2>4 DEF Clear, Mutate, queueVars
    <3>2. Receipts(q) = Receipts(queue)
      BY <3>1, KeptOrder DEF ReceiptInv, TypeInv, QueueOK
    <3>3. QED
      BY <2>2, <3>1, <3>2 DEF Stay
  <2>5. QED
    BY <2>3, <2>4
<1>6. CASE Abort(c) \/ Archive(c)
  <2>1. UNCHANGED <<queue, archived>>
    BY <1>6 DEF Abort, Archive, queueVars
  <2>2. PICK pc \in {"expire", "archiveMark", "archiveStop"} : Client(c, pc, NoOne, "queue")
    BY <1>6 DEF Abort, Archive
  <2>3. QED
    BY <2>1, <2>2, QuietClient, StaySame DEF ReceiptInv
<1>7. QED
  BY <1>1, <1>2, <1>3, <1>4, <1>5, <1>6 DEF ClientCommand, Modes

LEMMA InsertReceipts ==
  ASSUME NEW q \in Seq(Item), NEW x \in Item
  PROVE  Receipts(q) \subseteq Receipts(InsertPending(q, x))
<1>1. PICK r : r = InsertPending(q, x)
  OBVIOUS
<1>2. PICK p \in 1..(Len(q) + 1) : r \in Seq(Item) /\ Without(r, q, p)
  BY <1>1, InsertPendingWithout
<1>3. QED
  BY <1>1, <1>2, WithoutIds

LEMMA QuietStepOfClient ==
  ASSUME ReceiptInv, NEW c \in Clients, ClientStep(c)
  PROVE  QuietInv' /\ Stay
<1>1. CASE Enqueue(c)
  <2>1. UNCHANGED archived /\ \E pc \in {"idle", "cancel"} : \E i, mode : Client(c, pc, i, mode)
    BY <1>1 DEF Enqueue, Return, runVars
  <2>2. QuietInv'
    BY <2>1, QuietClient DEF ReceiptInv
  <2>3. CASE UNCHANGED queue
    BY <2>2, <2>3, StaySame
  <2>4. CASE ~UNCHANGED queue
    <3>1. PICK x : x = NewItem(cl[c].id, cl[c].mode)
      OBVIOUS
    <3>2. queue' = InsertPending(queue, x)
      BY <1>1, <2>4, <3>1 DEF Enqueue, Mutate, queueVars
    <3>3. cl[c].id \in Ids /\ cl[c].mode \in Modes
      BY <1>1, ClientArgs DEF Enqueue, WithInput, ReceiptInv
    <3>4. x \in Item /\ queue \in Seq(Item)
      BY <3>1, <3>3, NewItemType DEF ReceiptInv, TypeInv, QueueOK
    <3>5. QED
      BY <2>2, <3>2, <3>4, InsertReceipts DEF Stay
  <2>5. QED
    BY <2>3, <2>4
<1>2. CASE Choose(c) \/ ClientDispatch(c)
  <2>1. UNCHANGED <<queue, archived>>
    BY <1>2 DEF Choose, ClientDispatch, queueVars, runVars
  <2>2. \E pc \in {"idle", "enqueue", "dispatch", "dispatching"} : \E i, mode : Client(c, pc, i, mode)
    BY <1>2 DEF Choose, ClientDispatch, Return
  <2>3. QED
    BY <2>1, <2>2, QuietClient, StaySame DEF ReceiptInv
<1>3. CASE ClientDispatched(c) \/ Cancel(c) \/ CancelOnly(c) \/ ArchiveTimesOut(c)
  <2>1. UNCHANGED <<queue, archived>> /\ Client(c, "idle", NoOne, "queue")
    BY <1>3 DEF ClientDispatched, Cancel, CancelOnly, ArchiveTimesOut, Show, Return,
                queueVars, runVars
  <2>2. QED
    BY <2>1, QuietClient, StaySame DEF ReceiptInv
<1>4. CASE Move(c)
  BY <1>4 DEF Move, ReceiptInv, QuietInv
<1>5. CASE ExpireHeadRedirect(c)
  <2>1. UNCHANGED archived /\ Client(c, "idle", NoOne, "queue")
    BY <1>5 DEF ExpireHeadRedirect, Return, runVars
  <2>2. QuietInv'
    BY <2>1, QuietClient DEF ReceiptInv
  <2>3. CASE UNCHANGED queue
    BY <2>2, <2>3, StaySame
  <2>4. CASE ~UNCHANGED queue
    <3>1. queue # <<>> /\ queue' = <<Due(Head(queue))>> \o Tail(queue)
      BY <1>5, <2>4 DEF ExpireHeadRedirect, Show, queueVars
    <3>2. PICK x : x = Due(Head(queue))
      OBVIOUS
    <3>3. PICK t : t = Tail(queue)
      OBVIOUS
    <3>4. PICK r : r = <<x>> \o t
      OBVIOUS
    <3>5. queue \in Seq(Item)
      BY DEF ReceiptInv, TypeInv, QueueOK
    <3>6. t \in Seq(Item) /\ Head(queue) = queue[1] /\ Without(queue, t, 1)
      BY <3>1, <3>3, <3>5, TailWithout
    <3>7. x \in Item /\ x.id = queue[1].id /\ x.receipt = queue[1].receipt
      <4>1. PICK y : y = Head(queue)
        OBVIOUS
      <4>2. y \in Item /\ y = queue[1]
        BY <3>1, <3>6, <4>1, Heads DEF ReceiptInv
      <4>3. x = Due(y)
        BY <3>2, <4>1
      <4>4. x \in Item /\ x.id = y.id /\ x.receipt = y.receipt
        BY <4>2, <4>3, ItemOps
      <4>5. QED
        BY <4>2, <4>4
    <3>8. r \in Seq(Item) /\ r[1] = x /\ Without(r, t, 1) /\ queue' = r
      BY <3>1, <3>2, <3>3, <3>4, <3>6, <3>7, ConsWithout
    <3>9. Receipts(queue) \subseteq Receipts(r)
      BY <3>5, <3>6, <3>7, <3>8, WithoutIds
    <3>10. QED
      BY <2>2, <3>8, <3>9 DEF Stay
  <2>5. QED
    BY <2>3, <2>4
<1>6. CASE ArchiveMark(c)
  <2>1. UNCHANGED queue /\ archived' /\ Client(c, "archiveClear", NoOne, "queue")
    BY <1>6 DEF ArchiveMark, queueVars
  <2>2. QED
    BY <2>1, QuietClient, StaySame DEF ReceiptInv
<1>7. CASE ArchiveClear(c)
  <2>1. archived /\ UNCHANGED archived /\ Client(c, "idle", NoOne, "queue")
    BY <1>7 DEF ArchiveClear, Return, runVars, ReceiptInv, QuietInv
  <2>2. QED
    BY <2>1, QuietClient DEF ReceiptInv, Stay
<1>8. QED
  BY <1>1, <1>2, <1>3, <1>4, <1>5, <1>6, <1>7 DEF ClientStep

LEMMA QuietProcessor ==
  ASSUME "session" \notin Faults, ReceiptInv, NEW w \in Workers, Processor(w)
  PROVE  QuietInv' /\ Stay
<1>1. UNCHANGED <<cl, archived>>
  BY DEF Processor, Peek, Arm, ReadRun, GetSession, Claim, Persist, Steer, PiSend, Dispatch,
         Dispatched, Mark, Prepend, Finish, Restart, runVars
<1>2. QuietInv'
  BY <1>1, QuietSame DEF ReceiptInv
<1>3. queue \in Seq(Item)
  BY DEF ReceiptInv, TypeInv, QueueOK
<1>4. CASE UNCHANGED queue
  BY <1>2, <1>4, StaySame
<1>5. CASE GetSession(w)
  BY <1>2, <1>5, StaySame DEF GetSession, Fail, queueVars, Stay
<1>6. CASE Claim(w) /\ ~UNCHANGED queue
  <2>1. PICK x : x = Head(queue)
    OBVIOUS
  <2>2. PICK t : t = Tail(queue)
    OBVIOUS
  <2>3. queue # <<>> /\ Hold(w, x) /\ queue' = t
    BY <1>6, <2>1, <2>2 DEF Claim, Show, queueVars
  <2>4. t \in Seq(Item) /\ x = queue[1] /\ Without(queue, t, 1)
    BY <1>3, <2>1, <2>2, <2>3, TailWithout
  <2>5. \A i \in Receipts(queue) : i \in Receipts(t) \/ (x.receipt /\ i = x.id)
    BY <1>3, <2>4, WithoutIds
  <2>6. held'[w] = x
    BY <2>3 DEF Hold, ReceiptInv, TypeInv, WorkersOK
  <2>7. x.receipt => x.id \in HeldReceipts'
    BY <2>6 DEF HeldReceipts
  <2>8. QED
    BY <1>2, <2>3, <2>5, <2>7 DEF Stay
<1>7. CASE Prepend(w)
  <2>1. PICK x : x = held[w]
    OBVIOUS
  <2>2. PICK r : r = queue'
    OBVIOUS
  <2>3. r = <<x>> \o queue /\ wpc[w] \in PrependPCs
    BY <1>7, <2>1, <2>2 DEF Prepend, Show, PutBack
  <2>4. x \in Item
    BY <2>1, <2>3, Holding, WherePCs DEF ReceiptInv
  <2>5. r \in Seq(Item) /\ Without(r, queue, 1)
    BY <1>3, <2>3, <2>4, ConsWithout
  <2>6. Receipts(queue) \subseteq Receipts(r)
    BY <1>3, <2>5, WithoutIds
  <2>7. QED
    BY <1>2, <2>2, <2>6 DEF Stay
<1>8. UNCHANGED queue \/ GetSession(w) \/ Claim(w) \/ Prepend(w)
  BY DEF Processor, Peek, Arm, ReadRun, Persist, Steer, PiSend, Dispatch,
         Dispatched, Mark, Finish, Restart, queueVars
<1>9. QED
  BY <1>4, <1>5, <1>6, <1>7, <1>8

LEMMA QuietBackground ==
  ASSUME ReceiptInv,
         \/ \E i \in Ids : Elapse(i)
         \/ FireWake \/ TimerFires \/ AutoRetry \/ UpdateRetry \/ OtherRun
         \/ RunBlocks \/ RunUnblocks \/ ToolEnds \/ RunDone \/ ReleaseRun
  PROVE  QuietInv' /\ Stay
<1>1. ASSUME NEW i \in Ids, Elapse(i) PROVE QuietInv' /\ Stay
  <2>1. PICK k \in 1..Len(queue) : queue' = [queue EXCEPT ![k] = Due(queue[k])]
    BY <1>1 DEF Elapse
  <2>2. queue \in Seq(Item) /\ queue[k] \in Item
    BY <2>1 DEF ReceiptInv, TypeInv, QueueOK
  <2>3. PICK x : x = Due(queue[k])
    OBVIOUS
  <2>4. x \in Item /\ x.id = queue[k].id /\ x.receipt = queue[k].receipt
    BY <2>2, <2>3, ItemOps
  <2>5. PICK r : r = [queue EXCEPT ![k] = x]
    OBVIOUS
  <2>6. r \in Seq(Item) /\ SameIds(queue, r) /\ queue' = r
    BY <2>1, <2>2, <2>3, <2>4, <2>5, ReplaceSame
  <2>7. Receipts(queue) = Receipts(r)
    BY <2>2, <2>6, SameFacts
  <2>8. UNCHANGED <<cl, archived>>
    BY <1>1 DEF Elapse, runVars
  <2>9. QED
    BY <2>6, <2>7, <2>8, QuietSame DEF ReceiptInv, Stay
<1>2. CASE FireWake \/ TimerFires \/ AutoRetry \/ UpdateRetry \/ OtherRun
           \/ RunBlocks \/ RunUnblocks \/ ToolEnds \/ ReleaseRun
  <2>1. UNCHANGED <<cl, archived, queue>>
    BY <1>2 DEF FireWake, TimerFires, AutoRetry, UpdateRetry, OtherRun, RunBlocks, RunUnblocks,
                ToolEnds, ReleaseRun, queueVars, runVars
  <2>2. QED
    BY <2>1, QuietSame, StaySame DEF ReceiptInv
<1>3. CASE RunDone
  <2>1. UNCHANGED <<queue, archived>>
    BY <1>3 DEF RunDone, queueVars
  <2>2. \A c \in Clients : cl'[c] = cl[c] \/ cl'[c].pc = "archiveMark"
    BY <1>3 DEF RunDone, ReceiptInv, TypeInv, ClientsOK
  <2>3. QuietInv'
    BY <2>1, <2>2 DEF ReceiptInv, QuietInv
  <2>4. QED
    BY <2>1, <2>3, StaySame
<1>4. QED
  BY <1>1, <1>2, <1>3

LEMMA ReceiptStep ==
  ASSUME "reorder" \notin Ops, "session" \notin Faults
  PROVE  ReceiptInv /\ [Next]_vars => ReceiptInv' /\ Stay
<1> SUFFICES ASSUME ReceiptInv, [Next]_vars PROVE QuietInv' /\ Stay
  BY TypeStep DEF ReceiptInv
<1>1. CASE UNCHANGED vars
  <2>1. UNCHANGED <<cl, archived, queue>>
    BY <1>1 DEF vars, state, queueVars, runVars
  <2>2. QED
    BY <2>1, QuietSame, StaySame DEF ReceiptInv
<1>2. QED
  BY <1>1, QuietCommand, QuietStepOfClient, QuietProcessor, QuietBackground DEF Next

LEMMA StayKept ==
  ASSUME TypeInv, TypeInv', Stay
  PROVE  \A k \in 1..Len(queue) : queue[k].receipt =>
           \/ \E j \in 1..Len(queue') : queue'[j].id = queue[k].id /\ queue'[j].receipt
           \/ \E w \in Workers : held'[w].id = queue[k].id /\ held'[w].receipt
           \/ archived
<1>1. PICK r : r = queue'
  OBVIOUS
<1>2. queue \in Seq(Item) /\ r \in Seq(Item)
  BY <1>1 DEF TypeInv, QueueOK
<1>3. SUFFICES ASSUME NEW k \in 1..Len(queue), queue[k].receipt, ~archived
               PROVE  \/ \E j \in 1..Len(r) : r[j].id = queue[k].id /\ r[j].receipt
                      \/ \E w \in Workers : held'[w].id = queue[k].id /\ held'[w].receipt
  BY <1>1
<1>4. queue[k].id \in Receipts(queue)
  BY <1>2, <1>3, IdsFacts
<1>5. CASE queue[k].id \in Receipts(r)
  BY <1>2, <1>5, IdsFacts
<1>6. CASE queue[k].id \in HeldReceipts'
  BY <1>6 DEF HeldReceipts
<1>7. QED
  BY <1>1, <1>3, <1>4, <1>5, <1>6 DEF Stay

\* An input the agent has accepted keeps its receipt, in the queue or in the processor's
\* hand, as long as no reorder has read the lock before and the session can be looked up:
\* see ReceiptKept.
THEOREM ReceiptKeptCorrect ==
  ASSUME "reorder" \notin Ops, "session" \notin Faults
  PROVE  Spec => ReceiptKept
<1>1. Init => ReceiptInv
  <2>1. ASSUME Init PROVE QuietInv
    BY <2>1 DEF Init, QuietInv
  <2>2. QED
    BY <2>1, TypeInit DEF ReceiptInv
<1>2. ReceiptInv /\ [Next]_vars => ReceiptInv' /\ Stay
  BY ReceiptStep
<1>3. ReceiptInv /\ [Next]_vars =>
        [\A k \in 1..Len(queue) : queue[k].receipt =>
           \/ \E j \in 1..Len(queue') : queue'[j].id = queue[k].id /\ queue'[j].receipt
           \/ \E w \in Workers : held'[w].id = queue[k].id /\ held'[w].receipt
           \/ archived]_queue
  BY <1>2, StayKept DEF ReceiptInv
<1>4. QED
  BY <1>1, <1>2, <1>3, PTL DEF Spec, ReceiptKept


-----------------------------------------------------------------------------
(* What clients show.                                                      *)

\* While nothing archives the session or fails to find it, a version that was bumped and not
\* broadcast has a handler on its way to the broadcast.
ShownInv ==
  /\ ~archived
  /\ \A c \in Clients : cl[c].pc \notin {"archiveStop", "archiveMark", "archiveClear"}
  /\ ~fresh => shown = View(queue)
  /\ fresh => \E c \in Clients : cl[c].pc = "cancel"
ConvergeInv == TypeInv /\ ShownInv

LEMMA SameView ==
  ASSUME NEW q \in Seq(Item), NEW k \in 1..Len(q), NEW x \in Item,
         x.id = q[k].id, x.mode = q[k].mode, x.paused = q[k].paused
  PROVE  View([q EXCEPT ![k] = x]) = View(q)
<1> DEFINE r == [q EXCEPT ![k] = x]
<1>1. r \in Seq(Item) /\ Len(r) = Len(q)
  OBVIOUS
<1>2. \A j \in 1..Len(q) : r[j].id = q[j].id /\ r[j].mode = q[j].mode /\ r[j].paused = q[j].paused
  OBVIOUS
<1> HIDE DEF r
<1>3. View(r) = View(q)
  BY <1>1, <1>2 DEF View
<1>4. QED
  BY <1>3 DEF r

LEMMA ClientAt ==
  ASSUME TypeInv, NEW c \in Clients, NEW pc, NEW i, NEW mode, Client(c, pc, i, mode)
  PROVE  cl'[c].pc = pc /\ \A d \in Clients \ {c} : cl'[d] = cl[d]
<1>1. /\ cl'[c] = [pc |-> pc, id |-> i, mode |-> mode]
      /\ \A d \in Clients \ {c} : cl'[d] = cl[d]
  BY DEF TypeInv, ClientsOK, Client
<1>2. QED
  BY <1>1

\* A handler that leaves the list alone and was not about to broadcast it.
LEMMA ShownClient ==
  ASSUME ConvergeInv, NEW c \in Clients, NEW pc, NEW i, NEW mode, Client(c, pc, i, mode),
         pc \notin {"archiveStop", "archiveMark", "archiveClear"}, cl[c].pc # "cancel",
         UNCHANGED <<archived, queueVars>>
  PROVE  ShownInv'
<1>1. cl'[c].pc = pc /\ \A d \in Clients \ {c} : cl'[d] = cl[d]
  BY ClientAt DEF ConvergeInv
<1>2. UNCHANGED <<queue, fresh, shown>>
  BY DEF queueVars
<1>3. QED
  BY <1>1, <1>2 DEF ConvergeInv, ShownInv, View

\* A handler that changes the list broadcasts it next.
LEMMA ShownMutate ==
  ASSUME ConvergeInv, NEW c \in Clients, NEW i, NEW mode, Client(c, "cancel", i, mode),
         NEW q, Mutate(q), UNCHANGED archived
  PROVE  ShownInv'
<1>1. cl'[c].pc = "cancel" /\ \A d \in Clients \ {c} : cl'[d] = cl[d]
  BY ClientAt DEF ConvergeInv
<1>2. fresh'
  BY DEF Mutate
<1>3. QED
  BY <1>1, <1>2 DEF ConvergeInv, ShownInv

LEMMA ShownSame ==
  ASSUME ConvergeInv, UNCHANGED <<cl, archived, queueVars>>
  PROVE  ShownInv'
<1>1. UNCHANGED <<queue, fresh, shown>>
  BY DEF queueVars
<1>2. QED
  BY <1>1 DEF ConvergeInv, ShownInv, View

\* A broadcast of the list as it is.
LEMMA ShownNow ==
  ASSUME ConvergeInv, UNCHANGED archived, NEW q, NEW b \in BOOLEAN, Show(q, b), b \/ q = queue,
         \A c \in Clients : \/ cl'[c] = cl[c] \/ cl'[c].pc = "idle"
  PROVE  ShownInv'
<1>1. queue' = q /\ ~fresh'
  BY DEF Show
<1>2. shown' = View(q)
  BY DEF Show, ConvergeInv, ShownInv
<1>3. ~fresh' => shown' = View(queue')
  BY <1>1, <1>2
<1>4. QED
  BY <1>1, <1>3 DEF ConvergeInv, ShownInv, View

LEMMA ShownCommand ==
  ASSUME "archive" \notin Ops, ConvergeInv, NEW c \in Clients, ClientCommand(c)
  PROVE  ShownInv'
<1>1. cl[c].pc = "idle" /\ ~Archive(c)
  BY DEF ClientCommand, Send, SendDirect, Reorder, RemovePending, Update, Clear, Abort, Archive, Command
<1>2. ASSUME NEW i \in Ids, NEW mode \in Modes,
             Send(c, i, mode) \/ SendDirect(c, i) \/ Reorder(c, i, mode)
      PROVE  ShownInv'
  <2>1. UNCHANGED <<queueVars, archived>>
    BY <1>2 DEF Send, SendDirect, Reorder, runVars
  <2>2. PICK pc \in {"choose", "chooseDeferred", "direct", "move"} : \E m : Client(c, pc, i, m)
    BY <1>2 DEF Send, SendDirect, Reorder
  <2>3. QED
    BY <1>1, <2>1, <2>2, ShownClient
<1>3. ASSUME NEW i \in Ids, RemovePending(c, i) PROVE ShownInv'
  BY <1>3, ShownMutate DEF RemovePending, runVars
<1>4. ASSUME NEW i \in Ids, NEW p \in BOOLEAN, Update(c, i, p) PROVE ShownInv'
  BY <1>4, ShownMutate DEF Update, runVars
<1>5. CASE Clear(c)
  <2>1. UNCHANGED archived
    BY <1>5 DEF Clear, runVars
  <2>2. CASE UNCHANGED queueVars /\ \E pc \in {"idle", "cancelOnly"} : Client(c, pc, NoOne, "queue")
    BY <1>1, <2>1, <2>2, ShownClient
  <2>3. CASE Client(c, "cancel", NoOne, "queue") /\ \E q \in Kept(queue) : Mutate(q)
    BY <2>1, <2>3, ShownMutate
  <2>4. QED
    BY <1>5, <2>2, <2>3 DEF Clear, Return
<1>6. CASE Abort(c)
  BY <1>1, <1>6, ShownClient DEF Abort
<1>7. QED
  BY <1>1, <1>2, <1>3, <1>4, <1>5, <1>6 DEF ClientCommand, Modes

LEMMA ShownStepOfClient ==
  ASSUME ConvergeInv, NEW c \in Clients, ClientStep(c)
  PROVE  ShownInv'
<1>1. ~ArchiveTimesOut(c) /\ ~ArchiveMark(c) /\ ~ArchiveClear(c)
  BY DEF ConvergeInv, ShownInv, ArchiveTimesOut, ArchiveMark, ArchiveClear
<1>2. CASE Enqueue(c)
  <2>1. UNCHANGED archived /\ cl[c].pc # "cancel"
    BY <1>2 DEF Enqueue, runVars
  <2>2. CASE UNCHANGED queueVars /\ Client(c, "idle", NoOne, "queue")
    BY <2>1, <2>2, ShownClient
  <2>3. CASE ~(UNCHANGED queueVars /\ Client(c, "idle", NoOne, "queue"))
    BY <1>2, <2>1, <2>3, ShownMutate DEF Enqueue, Return
  <2>4. QED
    BY <2>2, <2>3
<1>3. CASE Choose(c) \/ ClientDispatch(c)
  <2>1. UNCHANGED <<queueVars, archived>> /\ cl[c].pc # "cancel"
    BY <1>3 DEF Choose, ClientDispatch, runVars
  <2>2. \E pc \in {"idle", "enqueue", "dispatch", "dispatching"} : \E i, mode : Client(c, pc, i, mode)
    BY <1>3 DEF Choose, ClientDispatch, Return
  <2>3. QED
    BY <2>1, <2>2, ShownClient
<1>4. CASE ClientDispatched(c) \/ CancelOnly(c)
  BY <1>4, ShownClient DEF ClientDispatched, CancelOnly, Return, runVars
<1>5. CASE Move(c)
  <2>1. UNCHANGED archived /\ cl[c].pc # "cancel"
    BY <1>5 DEF Move, runVars
  <2>2. CASE UNCHANGED queueVars /\ Client(c, "idle", NoOne, "queue")
    BY <2>1, <2>2, ShownClient
  <2>3. CASE ~(UNCHANGED queueVars /\ Client(c, "idle", NoOne, "queue"))
    <3>1. \E i, mode : Client(c, "cancel", i, mode)
      BY <1>5, <2>3 DEF Move, Return
    <3>2. \E q : Mutate(q)
      BY <1>5, <2>3 DEF Move, Return
    <3>3. QED
      BY <2>1, <3>1, <3>2, ShownMutate
  <2>4. QED
    BY <2>2, <2>3
<1>6. CASE Cancel(c)
  <2>1. Show(queue, FALSE) /\ Client(c, "idle", NoOne, "queue") /\ UNCHANGED archived
    BY <1>6 DEF Cancel, Return, runVars
  <2>2. cl'[c].pc = "idle" /\ \A d \in Clients \ {c} : cl'[d] = cl[d]
    BY <2>1, ClientAt DEF ConvergeInv
  <2>3. QED
    BY <2>1, <2>2, ShownNow
<1>7. CASE ExpireHeadRedirect(c)
  <2>1. Client(c, "idle", NoOne, "queue") /\ UNCHANGED archived /\ cl[c].pc # "cancel"
    BY <1>7 DEF ExpireHeadRedirect, Return, runVars
  <2>2. cl'[c].pc = "idle" /\ \A d \in Clients \ {c} : cl'[d] = cl[d]
    BY <2>1, ClientAt DEF ConvergeInv
  <2>3. CASE UNCHANGED queueVars
    BY <2>1, <2>3, ShownClient
  <2>4. CASE \E q : Show(q, TRUE)
    BY <2>1, <2>2, <2>4, ShownNow
  <2>5. QED
    BY <1>7, <2>3, <2>4 DEF ExpireHeadRedirect
<1>8. QED
  BY <1>1, <1>2, <1>3, <1>4, <1>5, <1>6, <1>7 DEF ClientStep

LEMMA ShownProcessor ==
  ASSUME "session" \notin Faults, ConvergeInv, NEW w \in Workers, Processor(w)
  PROVE  ShownInv'
<1>1. UNCHANGED <<cl, archived>>
  BY DEF Processor, Peek, Arm, ReadRun, GetSession, Claim, Persist, Steer, PiSend, Dispatch,
         Dispatched, Mark, Prepend, Finish, Restart, runVars
<1>2. CASE UNCHANGED queueVars
  BY <1>1, <1>2, ShownSame
<1>3. CASE \E q : Show(q, TRUE)
  BY <1>1, <1>3, ShownNow
<1>4. CASE GetSession(w)
  BY <1>2, <1>4 DEF GetSession, Fail, ConvergeInv, ShownInv
<1>5. UNCHANGED queueVars \/ GetSession(w) \/ \E q : Show(q, TRUE)
  BY DEF Processor, Peek, Arm, ReadRun, Claim, Persist, Steer, PiSend, Dispatch,
         Dispatched, Mark, Prepend, Finish, Restart
<1>6. QED
  BY <1>2, <1>3, <1>4, <1>5

LEMMA ShownBackground ==
  ASSUME ConvergeInv,
         \/ \E i \in Ids : Elapse(i)
         \/ FireWake \/ TimerFires \/ AutoRetry \/ UpdateRetry \/ OtherRun
         \/ RunBlocks \/ RunUnblocks \/ ToolEnds \/ RunDone \/ ReleaseRun
  PROVE  ShownInv'
<1>1. ASSUME NEW i \in Ids, Elapse(i) PROVE ShownInv'
  <2>1. PICK k \in 1..Len(queue) : queue' = [queue EXCEPT ![k] = Due(queue[k])]
    BY <1>1 DEF Elapse
  <2>2. queue \in Seq(Item) /\ queue[k] \in Item
    BY <2>1 DEF ConvergeInv, TypeInv, QueueOK
  <2>3. PICK x : x = Due(queue[k])
    OBVIOUS
  <2>4. x \in Item /\ x.id = queue[k].id /\ x.mode = queue[k].mode /\ x.paused = queue[k].paused
    BY <2>2, <2>3 DEF Item, Due
  <2>5. View(queue') = View(queue)
    BY <2>1, <2>2, <2>3, <2>4, SameView
  <2>6. UNCHANGED <<cl, archived, fresh, shown>>
    BY <1>1 DEF Elapse, runVars
  <2>7. QED
    BY <2>5, <2>6 DEF ConvergeInv, ShownInv, View
<1>2. CASE FireWake \/ TimerFires \/ AutoRetry \/ UpdateRetry \/ OtherRun
           \/ RunBlocks \/ RunUnblocks \/ ToolEnds \/ ReleaseRun
  <2>1. UNCHANGED <<cl, archived, queueVars>>
    BY <1>2 DEF FireWake, TimerFires, AutoRetry, UpdateRetry, OtherRun, RunBlocks, RunUnblocks,
                ToolEnds, ReleaseRun, runVars
  <2>2. QED
    BY <2>1, ShownSame
<1>3. CASE RunDone
  <2>1. UNCHANGED <<queueVars, archived>>
    BY <1>3 DEF RunDone
  <2>2. \A c \in Clients : cl'[c] = cl[c]
    BY <1>3 DEF RunDone, ConvergeInv, ShownInv, TypeInv, ClientsOK
  <2>3. QED
    BY <2>1, <2>2 DEF ConvergeInv, ShownInv, View, queueVars
<1>4. QED
  BY <1>1, <1>2, <1>3

LEMMA ShownStep ==
  ASSUME "archive" \notin Ops, "session" \notin Faults
  PROVE  ConvergeInv /\ [Next]_vars => ConvergeInv'
<1> SUFFICES ASSUME ConvergeInv, [Next]_vars PROVE ShownInv'
  BY TypeStep DEF ConvergeInv
<1>1. CASE UNCHANGED vars
  <2>1. UNCHANGED <<cl, archived, queueVars>>
    BY <1>1 DEF vars, state, runVars
  <2>2. QED
    BY <2>1, ShownSame
<1>2. QED
  BY <1>1, ShownCommand, ShownStepOfClient, ShownProcessor, ShownBackground DEF Next

\* Once every handler has broadcast, clients show the list the server holds, as long as no
\* archive and no failed lookup drops the queue without a broadcast: see ClientsConverge.
THEOREM ClientsConvergeCorrect ==
  ASSUME "archive" \notin Ops, "session" \notin Faults
  PROVE  Spec => []ClientsConverge
<1>1. Init => ConvergeInv
  <2>1. ASSUME Init PROVE ShownInv
    BY <2>1 DEF Init, ShownInv, View
  <2>2. QED
    BY <2>1, TypeInit DEF ConvergeInv
<1>2. ConvergeInv /\ [Next]_vars => ConvergeInv'
  BY ShownStep
<1>3. ConvergeInv => ClientsConverge
  BY DEF ConvergeInv, ShownInv, ClientsConverge
<1>4. QED
  BY <1>1, <1>2, <1>3, PTL DEF Spec

-----------------------------------------------------------------------------
(* No lost wakeup.                                                         *)

\* Somebody will look at the queue, even if the processor is about to leave.
Attended ==
  \/ dirty \/ wakes > 0 \/ timer # "off" \/ run \in {"aborting", "done"}
  \/ \E w \in Workers : wpc[w] = "restart"
  \/ \E c \in Clients : cl[c].pc \in {"cancel", "archiveClear"}

\* The head could be sent; of a codex session also one that would be dropped as archived.
Startable == run = "none" /\ ~deferring /\ (agent = "codex" \/ ~archived)
Promising ==
  /\ queue # <<>> /\ ~Head(queue).paused /\ Head(queue).id \notin parked
  /\ \/ Head(queue).receipt
     \/ Startable
     \/ /\ run = "live" /\ ~retryRun /\ agent = "codex" /\ Head(queue).mode = "redirect"
        /\ Head(queue).id \notin passed

\* Only a steer is retried by a timer or leaves a receipt, and only codex is steered.
Plain == {x \in Item : x.due /\ ~x.receipt}
TimedPCs == {"arm", "prependArm", "claimReceipt", "claimSteer", "steer", "markSteer", "persist"}
Untimed ==
  agent # "codex" =>
    /\ timer = "off" /\ queue \in Seq(Plain)
    /\ \A w \in Workers : wpc[w] \notin TimedPCs /\ held[w].due /\ ~held[w].receipt

\* A queue is deferred between the end of a failed run and the start of the next one.
Settled == deferring => run \in {"none", "done"}
\* What is kept out of a codex session: the commands that cancel the timer and trigger nobody.
NoCancels == agent = "codex" => \A c \in Clients : cl[c].pc \notin {"cancelOnly", "expire"}
Clearing == \A c \in Clients : cl[c].pc = "archiveClear" => archived

\* Nobody leaves, or has left, a head that could be sent.
Left == ~processing \/ (\E w \in Workers : wpc[w] = "finish") => Attended \/ ~Promising
\* The head is still of the kind that the processor saw when it peeked.
Peeked ==
  \A w \in Workers : wpc[w] \in {"readRun", "getSession"} =>
    Attended \/ queue = <<>> \/ (Head(queue).mode = held[w].mode /\ ~Head(queue).receipt)
\* An input was offered to a Pi run, which is there or has left a wakeup.
Offered == \A w \in Workers : wpc[w] \in {"claimPi", "piSend"} => agent = "pi" /\ (Attended \/ ~Startable)
\* An input that is put back without a retry cannot be sent.
PutAway ==
  \A w \in Workers : wpc[w] = "prependStop" =>
    held[w].paused \/ held[w].id \in parked \/ (agent = "pi" /\ (Attended \/ ~Startable))
Watch == Left /\ Peeked /\ Offered /\ PutAway
\* The note is left for a processor that is there.
Noted == dirty => processing

Unhurried == "codex" \in Agents => "abort" \notin Ops /\ "clear" \notin Ops
StrandInv ==
  StartInv /\ ProcessorInv /\ agent \in Agents /\ Untimed /\ Settled /\ NoCancels /\ Clearing /\ Noted
  /\ Watch

LEMMA StrandTypes ==
  ASSUME StrandInv
  PROVE  /\ TypeInv /\ NoRunReplaced /\ ProcessorInv /\ agent \in Agents
         /\ Untimed /\ Settled /\ NoCancels /\ Clearing /\ Noted /\ Left /\ Peeked /\ Offered /\ PutAway
         /\ queue \in Seq(Item) /\ wpc \in [Workers -> WorkerPCs] /\ held \in [Workers -> Item \cup {NoItem}]
         /\ wakes \in Nat
  BY ConstantsAssumption DEF StrandInv, StartInv, Watch, TypeInv, QueueOK, WorkersOK, WakesOK

LEMMA StrandInit == Init => StrandInv
<1> SUFFICES ASSUME Init PROVE StrandInv
  OBVIOUS
<1>1. StartInv /\ ProcessorInv /\ agent \in Agents
  BY TypeInit, StartInit, ProcessorInit DEF Init, StartInv
<1>2. Untimed
  <2>1. \A w \in Workers : wpc[w] = "idle" /\ held[w] = NoItem
    BY DEF Init
  <2>2. NoItem.due /\ ~NoItem.receipt /\ timer = "off" /\ queue = <<>>
    BY DEF Init, NoItem
  <2>3. <<>> \in Seq(Plain)
    OBVIOUS
  <2>4. QED
    BY <2>1, <2>2, <2>3 DEF Untimed, TimedPCs
<1>3. \A c \in Clients : cl[c].pc = "idle"
  BY DEF Init
<1>4. Settled /\ NoCancels /\ Clearing /\ Noted
  BY <1>3 DEF Init, Settled, NoCancels, Clearing, Noted
<1>5. Watch
  BY DEF Init, Watch, Left, Peeked, Offered, PutAway, Promising
<1>6. QED
  BY <1>1, <1>2, <1>4, <1>5 DEF StrandInv

\* The queue of inputs without timers.
LEMMA PlainItems ==
  ASSUME NEW q \in Seq(Plain)
  PROVE  /\ q \in Seq(Item)
         /\ \A k \in 1..Len(q) : q[k] \in Plain
         /\ q # <<>> => Head(q) \in Plain /\ Tail(q) \in Seq(Plain)
         /\ \A x \in Plain : <<x>> \o q \in Seq(Plain)
<1>1. Plain \subseteq Item
  BY DEF Plain
<1>2. Len(q) \in Nat /\ \A k \in 1..Len(q) : q[k] \in Plain
  OBVIOUS
<1>3. q \in Seq(Item)
  BY <1>1, <1>2
<1> HIDE DEF Plain
<1>4. q # <<>> => Head(q) \in Plain /\ Tail(q) \in Seq(Plain)
  BY HeadTailProperties
<1>5. \A x \in Plain : <<x>> \o q \in Seq(Plain)
  OBVIOUS
<1>6. QED
  BY <1>2, <1>3, <1>4, <1>5

LEMMA PlainInsert ==
  ASSUME NEW q \in Seq(Plain), NEW x \in Plain
  PROVE  InsertPending(q, x) \in Seq(Plain) /\ \A r \in Places(q, x) : r \in Seq(Plain)
<1>1. q \in Seq(Item) /\ x \in Item
  BY PlainItems DEF Plain
<1>2. \A p \in 1..(Len(q) + 1) : InsertAt(q, p, x) \in Seq(Plain)
  BY InsertAtElements
<1>3. QED
  BY <1>1, <1>2, InsertPendingPlace, PlacesPlace

\* The handlers change the queue one input at a time.
LEMMA PlainKept == ASSUME NEW q \in Seq(Plain), NEW r \in Kept(q) PROVE r \in Seq(Plain)
<1>1. q \in Seq(Item) /\ \A k \in 1..Len(q) : q[k] \in Plain
  BY PlainItems
<1>2. /\ r \in Seq(Item)
      /\ \A j \in 1..Len(r) : \E k \in 1..Len(q) : r[j] = q[k]
  BY <1>1, KeptType
<1>3. \A j \in 1..Len(r) : r[j] \in Plain
  BY <1>1, <1>2
<1>4. QED
  BY <1>2, <1>3

LEMMA UntimedFrame ==
  ASSUME StrandInv, UNCHANGED <<agent, wpc, held>>, agent # "codex" => timer' = "off",
         agent # "codex" => queue' \in Seq(Plain)
  PROVE  Untimed'
  BY StrandTypes DEF Untimed

LEMMA UntimedClient ==
  ASSUME StrandInv, UNCHANGED agent, NEW c \in Clients, ClientCommand(c) \/ ClientStep(c)
  PROVE  Untimed'
<1> SUFFICES ASSUME agent # "codex" PROVE timer' = "off" /\ queue' \in Seq(Plain)
  <2>1. UNCHANGED <<wpc, held>>
    BY DEF ClientCommand, ClientStep, Send, SendDirect, Reorder, RemovePending, Update, Clear, Abort, Archive,
           Choose, Enqueue, ClientDispatch, ClientDispatched, Move, Cancel, CancelOnly, ExpireHeadRedirect,
           ArchiveTimesOut, ArchiveMark, ArchiveClear, procVars
  <2>2. QED
    BY <2>1, UntimedFrame
<1>1. timer = "off" /\ queue \in Seq(Plain) /\ TypeInv
  BY StrandTypes DEF Untimed
<1>2. queue \in Seq(Item) /\ \A k \in 1..Len(queue) : queue[k] \in Plain
  BY <1>1, PlainItems
<1>3. timer' = "off"
  BY <1>1 DEF ClientCommand, ClientStep, Send, SendDirect, Reorder, RemovePending, Update, Clear, Abort, Archive,
           Choose, Enqueue, ClientDispatch, ClientDispatched, Move, Cancel, CancelOnly, ExpireHeadRedirect,
           ArchiveTimesOut, ArchiveMark, ArchiveClear, DropAll
<1>4. CASE UNCHANGED queue
  BY <1>1, <1>3, <1>4
<1>5. CASE queue' = <<>>
  <2>1. <<>> \in Seq(Plain)
    OBVIOUS
  <2>2. QED
    BY <1>3, <1>5, <2>1
<1>6. ASSUME NEW i \in Ids, RemovePending(c, i) PROVE queue' \in Seq(Plain)
  <2>1. PICK k \in 1..Len(queue) : queue' = RemoveAt(queue, k)
    BY <1>6 DEF RemovePending, FirstWith, Mutate
  <2>2. QED
    BY <1>1, <2>1, RemoveAtElements
<1>7. ASSUME NEW i \in Ids, NEW p \in BOOLEAN, Update(c, i, p) PROVE queue' \in Seq(Plain)
  <2>1. PICK k \in 1..Len(queue) : ~Locked(queue[k]) /\ queue' = [queue EXCEPT ![k] = Edited(queue[k], p)]
    BY <1>7 DEF Update, FirstWith, Mutate
  <2>2. PICK x : x = Edited(queue[k], p)
    OBVIOUS
  <2>3. x \in Plain
    BY <1>2, <2>1, <2>2 DEF Plain, Item, Edited
  <2>4. QED
    BY <1>1, <2>1, <2>2, <2>3
<1>8. CASE Clear(c)
  BY <1>1, <1>4, <1>8, PlainKept DEF Clear, Mutate, queueVars
<1>9. CASE Enqueue(c)
  <2>1. CASE UNCHANGED queue
    BY <1>4, <2>1
  <2>2. CASE ~UNCHANGED queue
    <3>1. queue' = InsertPending(queue, NewItem(cl[c].id, cl[c].mode))
      BY <1>9, <2>2 DEF Enqueue, Mutate, queueVars
    <3>2. PICK x : x = NewItem(cl[c].id, cl[c].mode)
      OBVIOUS
    <3>3. cl[c].id \in Ids /\ cl[c].mode \in Modes
      BY <1>1, <1>9, ClientArgs DEF Enqueue, WithInput
    <3>4. x \in Plain
      BY <3>2, <3>3 DEF NewItem, Plain, Item
    <3>5. QED
      BY <1>1, <1>3, <3>1, <3>2, <3>4, PlainInsert
  <2>3. QED
    BY <2>1, <2>2
<1>10. CASE Move(c) /\ ~UNCHANGED queue
  <2>1. cl[c].id \in Ids /\ cl[c].mode \in Modes
    BY <1>1, <1>10, ClientArgs DEF Move, WithInput
  <2> DEFINE x(k) == IF queue[k].mode = cl[c].mode THEN queue[k] ELSE NewItem(cl[c].id, cl[c].mode)
  <2>2. PICK k \in FirstWith(queue, cl[c].id) :
          \E q \in Places(RemoveAt(queue, k), x(k)) : queue' = q
    BY <1>10 DEF Move, Mutate, queueVars
  <2>3. k \in 1..Len(queue)
    BY <2>2 DEF FirstWith
  <2>4. NewItem(cl[c].id, cl[c].mode) \in Plain
    BY <2>1 DEF NewItem, Plain, Item
  <2>5. x(k) \in Plain
    BY <1>2, <2>3, <2>4
  <2>6. RemoveAt(queue, k) \in Seq(Plain)
    BY <1>1, <2>3, RemoveAtElements
  <2>7. PICK r : r = RemoveAt(queue, k)
    OBVIOUS
  <2>8. PICK y : y = x(k)
    OBVIOUS
  <2> HIDE DEF x
  <2>9. QED
    BY <1>3, <2>2, <2>5, <2>6, <2>7, <2>8, PlainInsert
<1>11. CASE ExpireHeadRedirect(c) /\ ~UNCHANGED queue
  <2>1. queue # <<>> /\ queue' = <<Due(Head(queue))>> \o Tail(queue)
    BY <1>11 DEF ExpireHeadRedirect, Show, queueVars
  <2>2. PICK h : h = Head(queue)
    OBVIOUS
  <2>3. PICK t : t = Tail(queue)
    OBVIOUS
  <2>4. h \in Plain /\ t \in Seq(Plain)
    BY <1>1, <2>1, <2>2, <2>3, PlainItems
  <2>5. PICK x : x = Due(h)
    OBVIOUS
  <2>6. x \in Plain
    BY <2>4, <2>5 DEF Plain, Item, Due
  <2>7. QED
    BY <1>3, <2>1, <2>2, <2>3, <2>4, <2>5, <2>6, PlainItems
<1>12. CASE ClientCommand(c)
  <2>1. ASSUME NEW i \in Ids, NEW mode \in Modes,
               Send(c, i, mode) \/ SendDirect(c, i) \/ Reorder(c, i, mode)
        PROVE  UNCHANGED queue
    BY <2>1 DEF Send, SendDirect, Reorder, queueVars
  <2>2. CASE Abort(c) \/ Archive(c)
    BY <1>4, <2>2 DEF Abort, Archive, queueVars
  <2>3. QED
    BY <1>3, <1>4, <1>6, <1>7, <1>8, <1>12, <2>1, <2>2 DEF ClientCommand, Modes
<1>13. CASE Choose(c) \/ ClientDispatch(c) \/ ClientDispatched(c) \/ Cancel(c) \/ CancelOnly(c)
            \/ ArchiveTimesOut(c) \/ ArchiveMark(c)
  BY <1>4, <1>13 DEF Choose, ClientDispatch, ClientDispatched, Cancel, CancelOnly, ArchiveTimesOut,
                     ArchiveMark, Show, queueVars
<1>14. CASE ArchiveClear(c)
  BY <1>5, <1>14 DEF ArchiveClear, DropAll
<1>15. QED
  BY <1>4, <1>9, <1>10, <1>11, <1>12, <1>13, <1>14 DEF ClientStep

LEMMA UntimedBackground ==
  ASSUME StrandInv, UNCHANGED agent,
         \/ \E i \in Ids : Elapse(i)
         \/ FireWake \/ TimerFires \/ AutoRetry \/ UpdateRetry \/ OtherRun
         \/ RunBlocks \/ RunUnblocks \/ ToolEnds \/ RunDone \/ ReleaseRun
  PROVE  Untimed'
<1> SUFFICES ASSUME agent # "codex" PROVE Untimed'
  BY DEF Untimed
<1>1. timer = "off" /\ queue \in Seq(Plain) /\ TypeInv /\ Untimed
  BY StrandTypes DEF Untimed
<1>2. queue \in Seq(Item) /\ \A k \in 1..Len(queue) : queue[k] \in Plain
  BY <1>1, PlainItems
<1>3. ASSUME NEW i \in Ids PROVE ~Elapse(i)
  BY <1>2 DEF Elapse, Plain
<1>4. CASE TimerFires \/ AutoRetry \/ UpdateRetry \/ OtherRun
           \/ RunBlocks \/ RunUnblocks \/ ToolEnds \/ RunDone \/ ReleaseRun
  <2>1. UNCHANGED <<queue, timer, wpc, held>>
    BY <1>1, <1>4 DEF TimerFires, AutoRetry, UpdateRetry, OtherRun, RunBlocks, RunUnblocks,
                      ToolEnds, RunDone, ReleaseRun, procVars, queueVars
  <2>2. QED
    BY <1>1, <2>1, UntimedFrame
<1>5. CASE FireWake
  <2>1. UNCHANGED <<queue, timer>>
    BY <1>5 DEF FireWake, queueVars
  <2>2. \A w \in Workers : wpc'[w] \in {wpc[w], "peek"} /\ held'[w] \in {held[w], NoItem}
    BY <1>5, StrandTypes DEF FireWake, Trigger
  <2>3. NoItem.due /\ ~NoItem.receipt
    BY DEF NoItem
  <2>4. QED
    BY <1>1, <2>1, <2>2, <2>3 DEF Untimed, TimedPCs
<1>6. QED
  BY <1>3, <1>4, <1>5

\* The processor takes, changes and puts back inputs without timers.
LEMMA UntimedWorker ==
  ASSUME StrandInv, NEW w \in Workers, NEW pc, pc \notin TimedPCs, NEW x, x.due, ~x.receipt,
         Go(w, pc), Hold(w, x) \/ (UNCHANGED held /\ x = held[w]), timer' = "off", UNCHANGED agent,
         queue' \in Seq(Plain), agent # "codex"
  PROVE  Untimed'
<1>1. /\ wpc'[w] = pc /\ \A v \in Workers \ {w} : wpc'[v] = wpc[v]
      /\ held'[w] = x /\ \A v \in Workers \ {w} : held'[v] = held[v]
  BY StrandTypes DEF Go, Hold
<1>2. QED
  BY <1>1, StrandTypes DEF Untimed

LEMMA UntimedProcessor ==
  ASSUME StrandInv, UNCHANGED agent, NEW w \in Workers, Processor(w)
  PROVE  Untimed'
<1> SUFFICES ASSUME agent # "codex" PROVE Untimed'
  BY DEF Untimed
<1>1. /\ timer = "off" /\ queue \in Seq(Plain) /\ TypeInv
      /\ wpc[w] \notin TimedPCs /\ held[w].due /\ ~held[w].receipt
  BY StrandTypes DEF Untimed
<1>2. queue # <<>> => Head(queue) \in Plain /\ Tail(queue) \in Seq(Plain)
  BY <1>1, PlainItems
<1>3. ~Arm(w) /\ ~Persist(w) /\ ~Steer(w)
  BY <1>1 DEF TimedPCs, Arm, Persist, Steer
<1>4. \A x \in Plain : x \in Item /\ x.due /\ ~x.receipt
  BY DEF Plain
<1>5. NoItem.due /\ ~NoItem.receipt
  BY DEF NoItem
<1>6. <<>> \in Seq(Plain)
  OBVIOUS
<1>7. CASE Peek(w)
  <2>1. timer' = "off" /\ UNCHANGED queue
    BY <1>1, <1>2, <1>4, <1>7 DEF Peek, queueVars
  <2>2. CASE Go(w, "finish") /\ UNCHANGED held
    BY <1>1, <2>1, <2>2, UntimedWorker DEF TimedPCs
  <2>3. CASE ~(Go(w, "finish") /\ UNCHANGED held)
    <3>1. queue # <<>> /\ Hold(w, Head(queue)) /\ Go(w, "readRun")
      BY <1>2, <1>4, <1>7, <2>3 DEF Peek
    <3>2. QED
      BY <1>1, <1>2, <1>4, <2>1, <3>1, UntimedWorker DEF TimedPCs
  <2>4. QED
    BY <2>2, <2>3
<1>8. CASE ReadRun(w) \/ Dispatch(w) \/ Dispatched(w)
  <2>1. timer' = "off" /\ UNCHANGED <<queue, held>>
    BY <1>1, <1>8 DEF ReadRun, Dispatch, Dispatched, queueVars
  <2>2. \E pc \in {"getSession", "claimPi", "finish", "prependStop", "prependPeek", "dispatching",
                   "markDispatch"} : Go(w, pc)
    BY <1>8 DEF ReadRun, Dispatch, Dispatched
  <2>3. QED
    BY <1>1, <2>1, <2>2, UntimedWorker DEF TimedPCs
<1>9. CASE GetSession(w)
  <2>1. timer' = "off" /\ queue' \in Seq(Plain) /\ UNCHANGED held
    BY <1>1, <1>6, <1>9 DEF GetSession, DropAll, queueVars
  <2>2. \E pc \in {"finish", "claimDispatch"} : Go(w, pc)
    BY <1>9 DEF GetSession
  <2>3. QED
    BY <1>1, <2>1, <2>2, UntimedWorker DEF TimedPCs
<1>10. CASE Claim(w)
  <2>1. CASE Go(w, "peek") /\ UNCHANGED <<queueVars, timer, held>>
    BY <1>1, <2>1, <1>10, UntimedWorker DEF TimedPCs, queueVars
  <2>2. CASE ~(Go(w, "peek") /\ UNCHANGED <<queueVars, timer, held>>)
    <3>1. /\ queue # <<>> /\ Hold(w, Head(queue)) /\ queue' = Tail(queue) /\ timer' = "off"
          /\ Go(w, AfterClaim[wpc[w]])
      BY <1>10, <2>2 DEF Claim, Show
    <3>2. PICK pc : pc = AfterClaim[wpc[w]]
      OBVIOUS
    <3>3. pc \in {"piSend", "dispatch"}
      BY <1>1, <1>10, <3>2 DEF Claim, ClaimPCs, AfterClaim, TimedPCs
    <3>4. PICK x : x = Head(queue)
      OBVIOUS
    <3>5. QED
      BY <1>1, <1>2, <1>4, <3>1, <3>2, <3>3, <3>4, UntimedWorker DEF TimedPCs
  <2>3. QED
    BY <2>1, <2>2
<1>11. CASE PiSend(w)
  <2>1. UNCHANGED <<queue, timer>> /\ wpc[w] \in HoldingPCs
    BY <1>11, PCs DEF PiSend, queueVars, CallPCs
  <2>2. PICK y : y = Failed(held[w])
    OBVIOUS
  <2>3. held[w] \in Item
    BY <1>1, <2>1, Holding
  <2>4. y.due /\ ~y.receipt
    BY <1>1, <2>2, <2>3 DEF Failed, Item
  <2>5. \E pc \in {"markPi", "prependStop"} : Go(w, pc) /\ (UNCHANGED held \/ Hold(w, y))
    BY <1>11, <2>2 DEF PiSend
  <2>6. QED
    BY <1>1, <2>1, <2>4, <2>5, UntimedWorker DEF TimedPCs
<1>12. CASE Mark(w)
  <2>1. UNCHANGED <<queue, timer, held>> /\ Go(w, "peek")
    BY <1>1, <1>12 DEF Mark, TimedPCs, queueVars
  <2>2. QED
    BY <1>1, <2>1, UntimedWorker DEF TimedPCs
<1>13. CASE Prepend(w)
  <2>1. UNCHANGED <<timer, held>> /\ Go(w, AfterPrepend[wpc[w]]) /\ queue' = <<held[w]>> \o queue
        /\ wpc[w] \in PrependPCs
    BY <1>13 DEF Prepend, Show, PutBack
  <2>2. PICK pc : pc = AfterPrepend[wpc[w]]
    OBVIOUS
  <2>3. pc \in {"peek", "finish"}
    BY <1>1, <2>1, <2>2 DEF PrependPCs, AfterPrepend, TimedPCs
  <2>4. held[w] \in Plain
    BY <1>1, <2>1, Holding, PCs DEF Plain
  <2>5. queue' \in Seq(Plain)
    BY <1>1, <2>1, <2>4, PlainItems
  <2>6. QED
    BY <1>1, <2>1, <2>2, <2>3, <2>5, UntimedWorker DEF TimedPCs
<1>14. CASE Finish(w)
  <2>1. UNCHANGED <<timer, queue>> /\ Hold(w, NoItem) /\ \E pc \in {"restart", "idle"} : Go(w, pc)
    BY <1>14 DEF Finish, queueVars
  <2>2. QED
    BY <1>1, <1>5, <2>1, UntimedWorker DEF TimedPCs
<1>15. CASE Restart(w)
  <2>1. UNCHANGED <<timer, queue, held>> /\ \E pc \in {"peek", "idle"} : Go(w, pc)
    BY <1>15 DEF Restart, queueVars
  <2>2. QED
    BY <1>1, <2>1, UntimedWorker DEF TimedPCs
<1>16. QED
  BY <1>3, <1>7, <1>8, <1>9, <1>10, <1>11, <1>12, <1>13, <1>14, <1>15 DEF Processor

LEMMA UntimedStep == StrandInv /\ [Next]_vars => Untimed'
<1> SUFFICES ASSUME StrandInv, [Next]_vars PROVE Untimed'
  OBVIOUS
<1>1. CASE UNCHANGED vars
  <2>1. UNCHANGED <<agent, wpc, held, timer, queue>>
    BY <1>1 DEF vars, state, procVars, queueVars
  <2>2. QED
    BY <2>1, UntimedFrame, StrandTypes DEF Untimed
<1>2. QED
  BY <1>1, UntimedClient, UntimedProcessor, UntimedBackground DEF Next

-----------------------------------------------------------------------------
\* A deferral ends with the start of a run.
LEMMA SettledStep == StrandInv /\ [Next]_vars => Settled'
<1> SUFFICES ASSUME StrandInv, [Next]_vars PROVE Settled'
  OBVIOUS
<1>1. CASE UNCHANGED <<run, deferring>> \/ deferring' = FALSE
  BY <1>1, StrandTypes DEF Settled
<1>2. CASE run' \in {"none", "done"}
  BY <1>2 DEF Settled
<1>3. CASE UNCHANGED deferring /\ run \notin {"none", "done"}
  BY <1>3, StrandTypes DEF Settled
<1>4. ASSUME NEW c \in Clients, ClientCommand(c) PROVE Settled'
  BY <1>1, <1>3, <1>4 DEF ClientCommand, Send, SendDirect, Reorder, RemovePending, Update, Clear,
                          Abort, Archive, Aborted, runVars
<1>5. ASSUME NEW c \in Clients, ClientStep(c) PROVE Settled'
  <2>1. CASE ArchiveMark(c)
    BY <1>1, <2>1 DEF ArchiveMark
  <2>2. CASE ~ArchiveMark(c)
    BY <1>1, <1>5, <2>2 DEF ClientStep, Choose, Enqueue, ClientDispatch, ClientDispatched, Move,
         Cancel, CancelOnly, ExpireHeadRedirect, ArchiveTimesOut, ArchiveClear, StartRun, runVars
  <2>3. QED
    BY <2>1, <2>2
<1>6. ASSUME NEW w \in Workers, Processor(w) PROVE Settled'
  BY <1>1, <1>6 DEF Processor, Peek, Arm, ReadRun, GetSession, Claim, Persist, Steer, PiSend,
       Dispatch, Dispatched, Mark, Prepend, Finish, Restart, StartRun, runVars
<1>7. CASE \/ \E i \in Ids : Elapse(i)
           \/ FireWake \/ TimerFires \/ AutoRetry \/ UpdateRetry \/ OtherRun \/ UNCHANGED vars
  BY <1>1, <1>7 DEF Elapse, FireWake, TimerFires, AutoRetry, GiveUpRetry, UpdateRetry, OtherRun,
                    StartRun, vars, state, runVars
<1>8. CASE RunBlocks \/ RunUnblocks \/ ToolEnds \/ RunDone \/ ReleaseRun
  BY <1>1, <1>2, <1>3, <1>8 DEF RunBlocks, RunUnblocks, ToolEnds, RunDone, ReleaseRun
<1>9. QED
  BY <1>4, <1>5, <1>6, <1>7, <1>8 DEF Next

\* A codex session sees no abort and no clear, and a queue is dropped for an archive after it
\* is stored.
LEMMA ControlClient ==
  ASSUME StrandInv, UNCHANGED agent, archived => archived',
         NEW c \in Clients, NEW pc, NEW i, NEW mode, Client(c, pc, i, mode),
         pc \in {"cancelOnly", "expire"} => agent # "codex", pc = "archiveClear" => archived'
  PROVE  NoCancels' /\ Clearing'
<1>1. cl'[c].pc = pc /\ \A d \in Clients \ {c} : cl'[d] = cl[d]
  BY StrandTypes, ClientAt
<1>2. NoCancels'
  BY <1>1, StrandTypes DEF NoCancels
<1>3. Clearing'
  BY <1>1, StrandTypes DEF Clearing
<1>4. QED
  BY <1>2, <1>3

LEMMA ControlSame ==
  ASSUME StrandInv, UNCHANGED <<agent, archived>>,
         \A c \in Clients : cl'[c].pc = cl[c].pc \/ cl'[c].pc = "archiveMark"
  PROVE  NoCancels' /\ Clearing'
  BY StrandTypes DEF NoCancels, Clearing

LEMMA ControlStep == Unhurried /\ StrandInv /\ [Next]_vars => NoCancels' /\ Clearing'
<1> SUFFICES ASSUME Unhurried, StrandInv, [Next]_vars PROVE NoCancels' /\ Clearing'
  OBVIOUS
<1>1. UNCHANGED agent
  BY DEF Next, vars
<1>2. agent = "codex" => "abort" \notin Ops /\ "clear" \notin Ops
  BY StrandTypes DEF Unhurried
<1>3. ASSUME NEW c \in Clients, ClientCommand(c) PROVE NoCancels' /\ Clearing'
  <2>1. UNCHANGED archived
    BY <1>3 DEF ClientCommand, Send, SendDirect, Reorder, RemovePending, Update, Clear, Abort,
                Archive, runVars
  <2>2. \E pc \in {"choose", "chooseDeferred", "direct", "move", "cancel", "idle", "cancelOnly",
                   "expire", "archiveMark", "archiveStop"} :
          /\ \E i, mode : Client(c, pc, i, mode)
          /\ pc \in {"cancelOnly", "expire"} => agent # "codex"
    BY <1>2, <1>3 DEF ClientCommand, Send, SendDirect, Reorder, RemovePending, Update, Clear, Abort,
                      Archive, Command, Return
  <2>3. QED
    BY <1>1, <2>1, <2>2, ControlClient
<1>4. ASSUME NEW c \in Clients, ClientStep(c) PROVE NoCancels' /\ Clearing'
  <2>1. UNCHANGED archived \/ archived' = TRUE
    BY <1>4 DEF ClientStep, Choose, Enqueue, ClientDispatch, ClientDispatched, Move, Cancel,
                CancelOnly, ExpireHeadRedirect, ArchiveTimesOut, ArchiveMark, ArchiveClear, runVars
  <2>2. \E pc \in {"enqueue", "dispatch", "dispatching", "cancel", "idle", "archiveClear"} :
          /\ \E i, mode : Client(c, pc, i, mode)
          /\ pc = "archiveClear" => archived'
    BY <1>4 DEF ClientStep, Choose, Enqueue, ClientDispatch, ClientDispatched, Move, Cancel, CancelOnly,
                ExpireHeadRedirect, ArchiveTimesOut, ArchiveMark, ArchiveClear, Return
  <2>3. QED
    BY <1>1, <2>1, <2>2, ControlClient
<1>5. ASSUME NEW w \in Workers, Processor(w) PROVE NoCancels' /\ Clearing'
  <2>1. UNCHANGED <<cl, archived>>
    BY <1>5 DEF Processor, Peek, Arm, ReadRun, GetSession, Claim, Persist, Steer, PiSend, Dispatch,
                Dispatched, Mark, Prepend, Finish, Restart, runVars
  <2>2. QED
    BY <1>1, <2>1, ControlSame
<1>6. CASE \/ \E i \in Ids : Elapse(i)
           \/ FireWake \/ TimerFires \/ AutoRetry \/ UpdateRetry \/ OtherRun
           \/ RunBlocks \/ RunUnblocks \/ ToolEnds \/ ReleaseRun \/ UNCHANGED vars
  <2>1. UNCHANGED <<cl, archived>>
    BY <1>6 DEF Elapse, FireWake, TimerFires, AutoRetry, UpdateRetry, OtherRun, RunBlocks,
                RunUnblocks, ToolEnds, ReleaseRun, vars, state, runVars
  <2>2. QED
    BY <1>1, <2>1, ControlSame
<1>7. CASE RunDone
  <2>1. UNCHANGED archived
    BY <1>7 DEF RunDone
  <2>2. \A c \in Clients : cl'[c].pc = cl[c].pc \/ cl'[c].pc = "archiveMark"
    BY <1>7, StrandTypes DEF RunDone, TypeInv, ClientsOK
  <2>3. QED
    BY <1>1, <2>1, <2>2, ControlSame
<1>8. QED
  BY <1>3, <1>4, <1>5, <1>6, <1>7 DEF Next

-----------------------------------------------------------------------------
\* Who will look at the queue.
LEMMA WakeAttends == ASSUME TypeInv, Wake PROVE Attended'
<1>1. wakes' > 0
  BY ConstantsAssumption DEF TypeInv, WakesOK, Wake
<1>2. QED
  BY <1>1 DEF Attended

LEMMA HandlerAttends ==
  ASSUME TypeInv, NEW c \in Clients, NEW pc \in {"cancel", "archiveClear"}, NEW i, NEW mode,
         Client(c, pc, i, mode)
  PROVE  Attended'
<1>1. cl'[c].pc = pc
  BY ClientAt
<1>2. QED
  BY <1>1 DEF Attended

LEMMA StillAttended ==
  ASSUME TypeInv, UNCHANGED <<wakes, timer>>, dirty => dirty', UNCHANGED run \/ run' \in {"aborting", "done"},
         \A w \in Workers : wpc[w] = "restart" => wpc'[w] = "restart",
         \A c \in Clients : cl[c].pc \in {"cancel", "archiveClear"} => cl'[c].pc = cl[c].pc
  PROVE  Attended => Attended'
  BY DEF Attended

\* Outside the processor: somebody attends to the queue, or the step makes no input ready.
LEMMA WatchAttended ==
  ASSUME StrandInv, UNCHANGED <<agent, wpc, held, parked>>, Attended'
  PROVE  Watch'
<1>1. Offered' /\ PutAway'
  BY StrandTypes DEF Offered, PutAway
<1>2. QED
  BY <1>1 DEF Watch, Left, Peeked

LEMMA WatchQuiet ==
  ASSUME StrandInv, UNCHANGED <<agent, wpc, held, processing, parked>>,
         Attended => Attended', Promising' => Promising, Startable' => Startable,
         \/ queue' = <<>>
         \/ /\ queue # <<>> /\ Head(queue').mode = Head(queue).mode
            /\ Head(queue').receipt = Head(queue).receipt
  PROVE  Watch'
<1>1. Left'
  BY StrandTypes DEF Left
<1>2. Peeked'
  BY StrandTypes DEF Peeked
<1>3. Offered'
  BY StrandTypes DEF Offered
<1>4. PutAway'
  BY StrandTypes DEF PutAway
<1>5. QED
  BY <1>1, <1>2, <1>3, <1>4 DEF Watch

\* The queue and what decides about its head stay as they are.
LEMMA WatchSame ==
  ASSUME StrandInv, UNCHANGED <<agent, wpc, held, processing, parked, queue, run, retryRun, deferring, archived, passed>>,
         Attended => Attended'
  PROVE  Watch'
<1>1. (Promising' => Promising) /\ (Startable' => Startable)
  BY DEF Promising, Startable
<1>2. CASE queue = <<>>
  BY <1>1, <1>2, WatchQuiet
<1>3. CASE queue # <<>>
  BY <1>1, <1>3, WatchQuiet
<1>4. QED
  BY <1>2, <1>3

LEMMA WatchClient ==
  ASSUME StrandInv, NEW c \in Clients, NEW pc, NEW i, NEW mode, Client(c, pc, i, mode),
         cl[c].pc \notin {"cancel", "archiveClear"},
         UNCHANGED <<agent, wpc, held, processing, parked, queue, run, retryRun, deferring, archived, passed, dirty,
                     wakes, timer>>
  PROVE  Watch'
<1>1. cl'[c].pc = pc /\ \A d \in Clients \ {c} : cl'[d] = cl[d]
  BY StrandTypes, ClientAt
<1>2. Attended => Attended'
  BY <1>1, StrandTypes, StillAttended
<1>3. QED
  BY <1>2, WatchSame

LEMMA WatchCancel ==
  ASSUME StrandInv, NEW c \in Clients, NEW i, NEW mode, Client(c, "cancel", i, mode),
         UNCHANGED <<agent, wpc, held, parked>>
  PROVE  Watch'
  BY StrandTypes, HandlerAttends, WatchAttended

LEMMA WatchCommand ==
  ASSUME Unhurried, StrandInv, UNCHANGED agent, NEW c \in Clients, ClientCommand(c)
  PROVE  Watch'
<1>1. TypeInv /\ cl[c].pc = "idle" /\ UNCHANGED <<wpc, held, parked, processing>>
  BY StrandTypes DEF ClientCommand, Send, SendDirect, Reorder, RemovePending, Update, Clear, Abort, Archive,
                     procVars, history
<1>2. ASSUME NEW i \in Ids, NEW mode \in Modes,
             Send(c, i, mode) \/ SendDirect(c, i) \/ Reorder(c, i, mode)
      PROVE  Watch'
  <2>1. UNCHANGED <<queue, run, retryRun, deferring, archived, passed, dirty, wakes, timer>>
    BY <1>2 DEF Send, SendDirect, Reorder, runVars, queueVars, procVars, history
  <2>2. \E pc, m : Client(c, pc, i, m)
    BY <1>2 DEF Send, SendDirect, Reorder
  <2>3. QED
    BY <1>1, <2>1, <2>2, WatchClient
<1>3. ASSUME NEW i \in Ids, RemovePending(c, i) PROVE Watch'
  BY <1>1, <1>3, WatchCancel DEF RemovePending
<1>4. ASSUME NEW i \in Ids, NEW p \in BOOLEAN, Update(c, i, p) PROVE Watch'
  BY <1>1, <1>4, WatchCancel DEF Update
<1>5. CASE Clear(c)
  <2>1. agent # "codex"
    BY <1>5, StrandTypes DEF Clear, Command, Unhurried
  <2>2. CASE queue = <<>>
    <3>1. Client(c, "cancelOnly", NoOne, "queue")
          /\ UNCHANGED <<queue, run, retryRun, deferring, archived, passed, dirty, wakes, timer>>
      BY <1>5, <2>2 DEF Clear, runVars, queueVars, history
    <3>2. QED
      BY <1>1, <3>1, WatchClient
  <2>3. CASE queue # <<>>
    <3>1. queue \in Seq(Plain) /\ queue \in Seq(Item)
      BY <2>1, StrandTypes DEF Untimed
    <3>2. \A k \in 1..Len(queue) : ~Locked(queue[k])
      BY <3>1, PlainItems DEF Plain, Locked
    <3>3. Kept(queue) \subseteq {<<>>}
      <4>1. {k \in 1..Len(queue) : Locked(queue[k])} = {}
        BY <3>2
      <4>2. PICK K : K = {k \in 1..Len(queue) : Locked(queue[k])}
        OBVIOUS
      <4>3. PICK n : n = Cardinality(K)
        OBVIOUS
      <4>4. n = 0
        BY <4>1, <4>2, <4>3, FS_EmptySet
      <4>5. \A q \in Kept(queue) : \E f : q = [j \in 1..n |-> queue[f[j]]]
        BY <4>2, <4>3 DEF Kept
      <4>6. \A q \in Kept(queue) : q = <<>>
        BY <4>4, <4>5
      <4>7. QED
        BY <4>6
    <3>4. Client(c, "cancel", NoOne, "queue")
      BY <1>5, <2>3, <3>3 DEF Clear
    <3>5. QED
      BY <1>1, <3>4, WatchCancel
  <2>4. QED
    BY <2>2, <2>3
<1>6. CASE Abort(c) \/ Archive(c)
  <2>1. run' = Aborted /\ UNCHANGED <<queue, retryRun, deferring, archived, passed, dirty, wakes, timer>>
    BY <1>6 DEF Abort, Archive, queueVars, procVars, history
  <2>2. \E pc, i, mode : Client(c, pc, i, mode)
    BY <1>6 DEF Abort, Archive
  <2>3. CASE run \in {"live", "blocked"}
    <3>1. Attended'
      BY <2>1, <2>3 DEF Aborted, Attended
    <3>2. QED
      BY <1>1, <3>1, WatchAttended
  <2>4. CASE run \notin {"live", "blocked"}
    BY <1>1, <2>1, <2>2, <2>4, WatchClient DEF Aborted
  <2>5. QED
    BY <2>3, <2>4
<1>7. QED
  BY <1>2, <1>3, <1>4, <1>5, <1>6 DEF ClientCommand, Modes

\* A run starts: what is promising could have started one before, unless it was left for the
\* retry of a failed run.
LEMMA WatchStart ==
  ASSUME StrandInv, UNCHANGED <<agent, wpc, held, processing, parked, queue>>, run = "none",
         run' = "live", Attended => Attended', deferring => retryRun' \/ IdsIn(queue) \subseteq passed'
  PROVE  Watch'
<1>1. ~Startable'
  BY DEF Startable
<1>2. queue # <<>> => Head(queue).id \in IdsIn(queue)
  BY StrandTypes DEF IdsIn
<1>3. Promising' => Promising
  BY <1>1, <1>2 DEF Promising, Startable
<1>4. CASE queue = <<>>
  BY <1>1, <1>3, <1>4, WatchQuiet
<1>5. CASE queue # <<>>
  BY <1>1, <1>3, <1>5, WatchQuiet
<1>6. QED
  BY <1>4, <1>5

LEMMA WatchStepOfClient ==
  ASSUME StrandInv, UNCHANGED agent, NEW c \in Clients, ClientStep(c)
  PROVE  Watch'
<1>1. TypeInv /\ UNCHANGED <<wpc, held, parked, processing>>
  BY StrandTypes DEF ClientStep, Choose, Enqueue, ClientDispatch, ClientDispatched, Move, Cancel, CancelOnly,
           ExpireHeadRedirect, ArchiveTimesOut, ArchiveMark, ArchiveClear, DropAll, procVars, history
<1>2. CASE Enqueue(c) \/ Move(c)
  <2>1. CASE \E i, mode : Client(c, "cancel", i, mode)
    BY <1>1, <2>1, WatchCancel
  <2>2. CASE ~\E i, mode : Client(c, "cancel", i, mode)
    <3>1. Client(c, "idle", NoOne, "queue") /\ UNCHANGED queueVars
      BY <1>2, <2>2 DEF Enqueue, Move, Return
    <3>2. /\ cl[c].pc \notin {"cancel", "archiveClear"}
          /\ UNCHANGED <<queue, run, retryRun, deferring, archived, passed, dirty, wakes, timer>>
      BY <1>2, <3>1 DEF Enqueue, Move, runVars, procVars, queueVars, history
    <3>3. QED
      BY <1>1, <3>1, <3>2, WatchClient
  <2>3. QED
    BY <2>1, <2>2
<1>3. CASE Choose(c) \/ ClientDispatch(c) \/ ArchiveTimesOut(c)
  <2>1. /\ cl[c].pc \notin {"cancel", "archiveClear"}
        /\ UNCHANGED <<queue, run, retryRun, deferring, archived, passed, dirty, wakes, timer>>
    BY <1>3 DEF Choose, ClientDispatch, ArchiveTimesOut, runVars, procVars, queueVars, history
  <2>2. \E pc, i, mode : Client(c, pc, i, mode)
    BY <1>3 DEF Choose, ClientDispatch, ArchiveTimesOut, Return
  <2>3. QED
    BY <1>1, <2>1, <2>2, WatchClient
<1>4. CASE ClientDispatched(c)
  <2>1. /\ cl[c].pc = "dispatching" /\ Client(c, "idle", NoOne, "queue")
        /\ UNCHANGED <<queue, dirty, wakes, timer, archived>>
    BY <1>4 DEF ClientDispatched, Return, procVars, queueVars
  <2>2. run = "none"
    BY <2>1, StrandTypes DEF NoRunReplaced
  <2>3. CASE UNCHANGED <<run, retryRun, deferring, passed>>
    BY <1>1, <2>1, <2>3, WatchClient
  <2>4. CASE run' = "live" /\ PassQueue
    <3>1. cl'[c].pc = "idle" /\ \A d \in Clients \ {c} : cl'[d] = cl[d]
      BY <1>1, <2>1, ClientAt
    <3>2. Attended => Attended'
      BY <1>1, <2>1, <2>2, <2>4, <3>1 DEF Attended
    <3>3. QED
      BY <1>1, <2>1, <2>2, <2>4, <3>2, WatchStart DEF PassQueue
  <2>5. QED
    BY <1>4, <2>3, <2>4 DEF ClientDispatched, StartRun
<1>5. CASE Cancel(c)
  BY <1>1, <1>5, WakeAttends, WatchAttended DEF Cancel
<1>6. CASE CancelOnly(c)
  <2>1. /\ cl[c].pc = "cancelOnly" /\ Client(c, "idle", NoOne, "queue") /\ timer' = "off"
        /\ UNCHANGED <<queue, dirty, wakes, run, retryRun, deferring, archived, passed>>
    BY <1>6 DEF CancelOnly, Return, procVars, queueVars, runVars, history
  <2>2. timer = "off"
    BY <2>1, StrandTypes DEF NoCancels, Untimed
  <2>3. QED
    BY <1>1, <2>1, <2>2, WatchClient
<1>7. CASE ExpireHeadRedirect(c)
  <2>1. /\ cl[c].pc = "expire" /\ Client(c, "idle", NoOne, "queue")
        /\ UNCHANGED <<dirty, run, retryRun, deferring, archived, passed>>
    BY <1>7 DEF ExpireHeadRedirect, Return, procVars, runVars, history
  <2>2. agent # "codex" /\ timer = "off"
    BY <2>1, StrandTypes DEF NoCancels, Untimed
  <2>3. CASE UNCHANGED <<queueVars, timer, wakes>>
    BY <1>1, <2>1, <2>3, WatchClient DEF queueVars
  <2>4. CASE Wake
    BY <1>1, <2>4, WakeAttends, WatchAttended
  <2>5. CASE ~UNCHANGED <<queueVars, timer, wakes>> /\ ~Wake
    <3>1. /\ queue # <<>> /\ queue' = <<Due(Head(queue))>> \o Tail(queue)
          /\ timer' = "off" /\ run # "none" /\ UNCHANGED wakes
      BY <1>7, <2>5 DEF ExpireHeadRedirect, Show
    <3>2. PICK h : h = Head(queue)
      OBVIOUS
    <3>3. PICK t : t = Tail(queue)
      OBVIOUS
    <3>4. h \in Item /\ t \in Seq(Item)
      BY <1>1, <3>1, <3>2, <3>3, Heads
    <3>5. PICK x : x = Due(h)
      OBVIOUS
    <3>6. x \in Item /\ x.mode = h.mode /\ x.receipt = h.receipt
      BY <3>4, <3>5 DEF Due, Item
    <3>7. Head(queue') = x
      BY <3>1, <3>2, <3>3, <3>4, <3>5, <3>6
    <3>8. ~h.receipt
      BY <2>2, <3>1, <3>2, StrandTypes, PlainItems DEF Untimed, Plain
    <3>9. ~Promising' /\ ~Startable'
      BY <1>1, <2>1, <2>2, <3>1, <3>6, <3>7, <3>8 DEF Promising, Startable
    <3>10. cl'[c].pc = "idle" /\ \A d \in Clients \ {c} : cl'[d] = cl[d]
      BY <1>1, <2>1, ClientAt
    <3>11. Attended => Attended'
      BY <1>1, <2>1, <2>2, <3>1, <3>10 DEF Attended
    <3>12. QED
      BY <1>1, <3>1, <3>2, <3>6, <3>7, <3>9, <3>11, WatchQuiet
  <2>6. QED
    BY <2>3, <2>4, <2>5
<1>8. CASE ArchiveMark(c)
  BY <1>1, <1>8, HandlerAttends, WatchAttended DEF ArchiveMark
<1>9. CASE ArchiveClear(c)
  <2>1. archived /\ queue' = <<>> /\ UNCHANGED <<archived, parked>>
    BY <1>1, <1>9, StrandTypes DEF ArchiveClear, DropAll, runVars, Clearing
  <2>2. ~Promising' /\ (agent # "codex" => ~Startable')
    BY <2>1 DEF Promising, Startable
  <2>3. Left' /\ Peeked'
    BY <2>1, <2>2 DEF Left, Peeked
  <2>4. Offered' /\ PutAway'
    BY <1>1, <2>1, <2>2, StrandTypes DEF Offered, PutAway
  <2>5. QED
    BY <2>3, <2>4 DEF Watch
<1>10. QED
  BY <1>2, <1>3, <1>4, <1>5, <1>6, <1>7, <1>8, <1>9 DEF ClientStep

LEMMA WatchBackground ==
  ASSUME StrandInv, UNCHANGED agent,
         \/ \E i \in Ids : Elapse(i)
         \/ TimerFires \/ AutoRetry \/ UpdateRetry \/ OtherRun
         \/ RunBlocks \/ RunUnblocks \/ ToolEnds \/ RunDone \/ ReleaseRun
  PROVE  Watch'
<1>1. TypeInv /\ UNCHANGED <<wpc, held, parked, processing>>
  BY StrandTypes DEF Elapse, TimerFires, AutoRetry, UpdateRetry, OtherRun, RunBlocks, RunUnblocks,
                     ToolEnds, RunDone, ReleaseRun, procVars, history
<1>2. ASSUME NEW i \in Ids, Elapse(i) PROVE Watch'
  <2>1. PICK k \in 1..Len(queue) : queue' = [queue EXCEPT ![k] = Due(queue[k])]
    BY <1>2 DEF Elapse
  <2>2. queue \in Seq(Item) /\ queue[k] \in Item
    BY <2>1, StrandTypes
  <2>3. PICK x : x = Due(queue[k])
    OBVIOUS
  <2>4. /\ x \in Item /\ x.id = queue[k].id /\ x.mode = queue[k].mode
        /\ x.paused = queue[k].paused /\ x.receipt = queue[k].receipt
    BY <2>2, <2>3 DEF Item, Due
  <2>5. queue # <<>> /\ queue' # <<>> /\ Head(queue) = queue[1] /\ Head(queue') = queue'[1]
    BY <2>1, <2>2, <2>3, <2>4
  <2>6. /\ Head(queue').id = Head(queue).id /\ Head(queue').mode = Head(queue).mode
        /\ Head(queue').paused = Head(queue).paused /\ Head(queue').receipt = Head(queue).receipt
    BY <2>1, <2>2, <2>3, <2>4, <2>5
  <2>7. UNCHANGED <<cl, dirty, wakes, timer, run, retryRun, deferring, archived, passed>>
    BY <1>2 DEF Elapse, runVars, procVars, history
  <2>8. (Promising' => Promising) /\ (Startable' => Startable)
    BY <1>1, <2>5, <2>6, <2>7 DEF Promising, Startable
  <2>9. Attended => Attended'
    BY <1>1, <2>7 DEF Attended
  <2>10. QED
    BY <1>1, <2>5, <2>6, <2>8, <2>9, WatchQuiet
<1>3. CASE Wake
  BY <1>1, <1>3, WakeAttends, WatchAttended
<1>4. CASE RunDone \/ (ToolEnds /\ agent = "cli")
  <2>1. Attended'
    BY <1>4 DEF RunDone, ToolEnds, Attended
  <2>2. QED
    BY <1>1, <2>1, WatchAttended
<1>5. CASE RunBlocks
  <2>1. /\ run = "live" /\ run' = "blocked"
        /\ UNCHANGED <<queue, cl, dirty, wakes, timer, retryRun, deferring, archived, passed>>
    BY <1>5 DEF RunBlocks, queueVars, procVars, history
  <2>2. Attended => Attended'
    BY <1>1, <2>1 DEF Attended
  <2>3. (Promising' => Promising) /\ (Startable' => Startable)
    BY <1>1, <2>1 DEF Promising, Startable
  <2>4. QED
    BY <1>1, <2>1, <2>2, <2>3, WatchQuiet
<1>6. CASE OtherRun \/ (AutoRetry /\ ~GiveUpRetry)
  <2>1. /\ run = "none" /\ run' = "live" /\ UNCHANGED <<queue, cl, dirty, wakes, timer>>
    BY <1>6 DEF OtherRun, AutoRetry, StartRun, queueVars, procVars
  <2>2. Attended => Attended'
    BY <1>1, <2>1 DEF Attended
  <2>3. deferring => retryRun' \/ IdsIn(queue) \subseteq passed'
    BY <1>6 DEF OtherRun, AutoRetry, StartRun, PassQueue
  <2>4. QED
    BY <1>1, <2>1, <2>2, <2>3, WatchStart
<1>7. QED
  BY <1>2, <1>3, <1>4, <1>5, <1>6
     DEF TimerFires, UpdateRetry, RunUnblocks, ToolEnds, ReleaseRun, GiveUpRetry

\* The processor alone is between peek and finish: what matters is the place it goes to.
LEMMA WatchGo ==
  ASSUME StrandInv, UNCHANGED <<agent, processing>>, NEW w \in Workers, wpc[w] \in ActivePCs,
         NEW pc \in ActivePCs, Go(w, pc),
         pc = "finish" => Attended' \/ ~Promising',
         pc \in {"readRun", "getSession"} =>
           Attended' \/ queue' = <<>> \/ (Head(queue').mode = held'[w].mode /\ ~Head(queue').receipt),
         pc \in {"claimPi", "piSend"} => agent = "pi" /\ (Attended' \/ ~Startable'),
         pc = "prependStop" =>
           held'[w].paused \/ held'[w].id \in parked' \/ (agent = "pi" /\ (Attended' \/ ~Startable'))
  PROVE  Watch'
<1>1. wpc'[w] = pc /\ \A v \in Workers \ {w} : wpc'[v] = wpc[v]
  BY StrandTypes, WorkerGoes
<1>2. \A v \in Workers \ {w} : wpc'[v] \notin ActivePCs
  BY <1>1, StrandTypes DEF ProcessorInv, OneProcessor
<1>3. {"finish", "readRun", "getSession", "claimPi", "piSend", "prependStop"} \subseteq ActivePCs
  BY DEF ActivePCs, ClaimPCs, CallPCs, PrependPCs
<1>4. \A v \in Workers : wpc'[v] \in {"finish", "readRun", "getSession", "claimPi", "piSend", "prependStop"} => v = w
  BY <1>2, <1>3
<1>5. processing'
  BY StrandTypes DEF ProcessorInv, OneProcessor
<1>6. Left'
  BY <1>1, <1>4, <1>5 DEF Left
<1>7. Peeked'
  BY <1>1, <1>4 DEF Peeked
<1>8. Offered'
  BY <1>1, <1>4 DEF Offered
<1>9. PutAway'
  BY <1>1, <1>4 DEF PutAway
<1>10. QED
  BY <1>6, <1>7, <1>8, <1>9 DEF Watch

\* A place from which the processor looks again, or goes on without a condition.
OpenPCs == ActivePCs \ {"finish", "readRun", "getSession", "claimPi", "piSend", "prependStop"}
LEMMA WatchOn ==
  ASSUME StrandInv, UNCHANGED <<agent, processing>>, NEW w \in Workers, wpc[w] \in ActivePCs,
         NEW pc \in OpenPCs, Go(w, pc)
  PROVE  Watch'
  BY WatchGo DEF OpenPCs

LEMMA WatchPCs ==
  /\ {"peek", "arm", "claimReceipt", "claimSteer", "claimDispatch", "persist", "steer",
      "markSteer", "markPi", "dispatch", "dispatching", "markDispatch", "prependArm",
      "prependPeek"} \subseteq OpenPCs
  /\ {"finish", "readRun", "getSession", "claimPi", "piSend", "prependStop"} \subseteq ActivePCs
  /\ OpenPCs \subseteq ActivePCs /\ ClaimPCs \subseteq ActivePCs /\ PrependPCs \subseteq ActivePCs
  BY DEF OpenPCs, ActivePCs, ClaimPCs, CallPCs, PrependPCs

LEMMA WatchPeek == ASSUME StrandInv, UNCHANGED agent, NEW w \in Workers, Peek(w) PROVE Watch'
<1>1. /\ TypeInv /\ wpc[w] \in ActivePCs /\ "finish" \in ActivePCs /\ "readRun" \in ActivePCs
      /\ UNCHANGED <<processing, queue, parked>>
  BY StrandTypes, WatchPCs, PCs DEF Peek, queueVars, history
<1>2. CASE queue # <<>> => Head(queue).paused
  <2>1. Go(w, "finish") /\ ~Promising'
    BY <1>1, <1>2 DEF Peek, Promising
  <2>2. QED
    BY <1>1, <2>1, WatchGo
<1>3. CASE queue # <<>> /\ ~Head(queue).paused /\ Head(queue).due /\ ~Head(queue).receipt
  <2>1. Hold(w, Head(queue)) /\ Go(w, "readRun")
    BY <1>3 DEF Peek
  <2>2. held'[w] = Head(queue)
    BY <2>1, StrandTypes DEF Hold
  <2>3. QED
    BY <1>1, <1>3, <2>1, <2>2, WatchGo
<1>4. CASE queue # <<>> /\ ~Head(queue).paused /\ (~Head(queue).due \/ Head(queue).receipt)
  <2>1. Go(w, "arm") \/ Go(w, "claimReceipt")
    BY <1>4 DEF Peek
  <2>2. QED
    BY <1>1, <2>1, WatchOn, WatchPCs
<1>5. QED
  BY <1>2, <1>3, <1>4

LEMMA WatchArm == ASSUME StrandInv, UNCHANGED agent, NEW w \in Workers, Arm(w) PROVE Watch'
<1>1. /\ TypeInv /\ wpc[w] \in ActivePCs /\ wpc[w] \in HoldingPCs /\ "finish" \in ActivePCs
      /\ UNCHANGED processing /\ Go(w, "finish")
  BY StrandTypes DEF Arm, ActivePCs, HoldingPCs
<1>2. held[w].id \in Ids
  BY <1>1, Holding
<1>3. held[w].id # "off"
  BY <1>2, ConstantsAssumption
<1>4. Attended'
  BY <1>3 DEF Arm, Attended
<1>5. QED
  BY <1>1, <1>4, WatchGo

LEMMA WatchReadRun == ASSUME StrandInv, UNCHANGED agent, NEW w \in Workers, ReadRun(w) PROVE Watch'
<1>1. /\ TypeInv /\ wpc[w] \in ActivePCs /\ wpc[w] = "readRun" /\ "finish" \in ActivePCs
      /\ "claimPi" \in ActivePCs /\ "getSession" \in ActivePCs /\ run \in RunStates
      /\ UNCHANGED <<processing, queue, held, parked, wakes, dirty, run, retryRun, deferring,
                     archived, passed, cl>>
  BY StrandTypes, WatchPCs DEF ReadRun, queueVars, history, runVars, TypeInv, RunOK
<1>2. Attended \/ queue = <<>> \/ (Head(queue).mode = held[w].mode /\ ~Head(queue).receipt)
  BY <1>1, StrandTypes DEF Peeked
<1>3. ASSUME NEW pc, pc # "restart", Go(w, pc) PROVE Attended => Attended'
  <2>1. wpc'[w] = pc /\ \A v \in Workers \ {w} : wpc'[v] = wpc[v]
    BY <1>1, <1>3, WorkerGoes
  <2>2. timer # "off" => timer' # "off"
    BY DEF ReadRun
  <2>3. \A v \in Workers : wpc[v] = "restart" => wpc'[v] = "restart"
    BY <1>1, <2>1
  <2>4. QED
    BY <1>1, <2>2, <2>3 DEF Attended
<1>4. CASE Go(w, "claimSteer")
  BY <1>1, <1>4, WatchOn, WatchPCs
<1>5. CASE Go(w, "getSession")
  <2>1. Attended => Attended'
    BY <1>3, <1>5
  <2>2. QED
    BY <1>2, <1>1, <1>5, <2>1, WatchGo
<1>6. CASE Go(w, "claimPi") /\ agent = "pi" /\ run # "none"
  BY <1>1, <1>6, WatchGo DEF Startable
<1>7. CASE Go(w, "finish") /\ (run = "live" => ~(agent = "codex" /\ held[w].mode = "redirect"))
           /\ run # "none"
  <2>1. CASE Attended
    <3>1. Attended'
      BY <1>3, <1>7, <2>1
    <3>2. QED
      BY <1>1, <1>7, <3>1, WatchGo
  <2>2. CASE ~Attended
    <3>1. ~Promising'
      BY <1>2, <1>1, <1>7, <2>2 DEF Promising, Startable
    <3>2. QED
      BY <1>1, <1>7, <3>1, WatchGo
  <2>3. QED
    BY <2>1, <2>2
<1>8. QED
  BY <1>1, <1>4, <1>5, <1>6, <1>7 DEF ReadRun, RunStates

LEMMA WatchGetSession ==
  ASSUME StrandInv, UNCHANGED agent, NEW w \in Workers, GetSession(w)
  PROVE  Watch'
<1>1. /\ TypeInv /\ wpc[w] \in ActivePCs /\ "finish" \in ActivePCs
      /\ UNCHANGED <<processing, run, retryRun, deferring, archived, passed, parked>>
  BY StrandTypes, WatchPCs DEF GetSession, runVars, history
<1>2. CASE Go(w, "claimDispatch")
  BY <1>1, <1>2, WatchOn, WatchPCs
<1>3. CASE DropAll /\ Go(w, "finish")
  <2>1. ~Promising'
    BY <1>3 DEF DropAll, Promising
  <2>2. QED
    BY <1>1, <1>3, <2>1, WatchGo
<1>4. CASE deferring /\ UNCHANGED <<queueVars, timer, dirty>> /\ Go(w, "finish")
  <2>1. /\ wpc[w] = "getSession" /\ run \in {"none", "done"} /\ UNCHANGED <<queue, wakes, cl>>
    BY <1>4, StrandTypes DEF GetSession, Settled, queueVars
  <2>2. CASE Attended
    <3>1. wpc'[w] = "finish" /\ \A v \in Workers \ {w} : wpc'[v] = wpc[v]
      BY <1>1, <1>4, WorkerGoes
    <3>2. Attended'
      BY <1>1, <1>4, <2>1, <2>2, <3>1 DEF Attended
    <3>3. QED
      BY <1>1, <1>4, <3>2, WatchGo
  <2>3. CASE ~Attended
    <3>1. queue = <<>> \/ ~Head(queue).receipt
      BY <2>1, <2>3, StrandTypes DEF Peeked
    <3>2. run = "none"
      BY <2>1, <2>3 DEF Attended
    <3>3. ~Promising'
      BY <1>1, <1>4, <2>1, <3>1, <3>2 DEF Promising, Startable
    <3>4. QED
      BY <1>1, <1>4, <3>3, WatchGo
  <2>4. QED
    BY <2>2, <2>3
<1>5. QED
  BY <1>2, <1>3, <1>4 DEF GetSession

LEMMA WatchClaim == ASSUME StrandInv, UNCHANGED agent, NEW w \in Workers, Claim(w) PROVE Watch'
<1>1. /\ TypeInv /\ wpc[w] \in ClaimPCs /\ wpc[w] \in ActivePCs /\ "piSend" \in ActivePCs
      /\ UNCHANGED <<processing, dirty, wakes, cl, run, retryRun, deferring, archived>>
  BY StrandTypes, WatchPCs DEF Claim, runVars
<1>2. CASE Go(w, "peek")
  BY <1>1, <1>2, WatchOn, WatchPCs
<1>3. CASE ~Go(w, "peek")
  <2>1. Go(w, AfterClaim[wpc[w]]) /\ timer' = "off"
    BY <1>3 DEF Claim
  <2>2. CASE wpc[w] # "claimPi"
    <3>1. AfterClaim[wpc[w]] \in {"persist", "steer", "dispatch"}
      BY <1>1, <2>2 DEF ClaimPCs, AfterClaim
    <3>2. QED
      BY <1>1, <2>1, <3>1, WatchOn, WatchPCs
  <2>3. CASE wpc[w] = "claimPi"
    <3>1. Go(w, "piSend")
      BY <2>1, <2>3 DEF AfterClaim
    <3>2. agent = "pi" /\ (Attended \/ ~Startable) /\ timer = "off"
      BY <2>3, StrandTypes DEF Offered, Untimed
    <3>3. wpc'[w] = "piSend" /\ \A v \in Workers \ {w} : wpc'[v] = wpc[v]
      BY <1>1, <3>1, WorkerGoes
    <3>4. Attended => Attended'
      BY <1>1, <2>1, <2>3, <3>2, <3>3 DEF Attended
    <3>5. ~Startable => ~Startable'
      BY <1>1 DEF Startable
    <3>6. QED
      BY <1>1, <3>1, <3>2, <3>4, <3>5, WatchGo
  <2>4. QED
    BY <2>2, <2>3
<1>4. QED
  BY <1>2, <1>3

LEMMA WatchCall ==
  ASSUME StrandInv, UNCHANGED agent, NEW w \in Workers,
         Persist(w) \/ Steer(w) \/ Dispatch(w) \/ Dispatched(w) \/ Mark(w)
  PROVE  Watch'
<1>1. /\ TypeInv /\ wpc[w] \in ActivePCs /\ wpc[w] \in HoldingPCs /\ "prependStop" \in ActivePCs
      /\ UNCHANGED processing
  BY StrandTypes, WatchPCs, PCs DEF Persist, Steer, Dispatch, Dispatched, Mark, procVars, CallPCs
<1>2. CASE ~Go(w, "prependStop")
  <2>1. \E pc \in OpenPCs : Go(w, pc)
    BY <1>2, WatchPCs DEF Persist, Steer, Dispatch, Dispatched, Mark
  <2>2. QED
    BY <1>1, <2>1, WatchOn
<1>3. CASE Go(w, "prependStop") /\ Hold(w, Failed(held[w]))
  <2>1. held'[w] = Failed(held[w])
    BY <1>3, StrandTypes DEF Hold
  <2>2. held[w] \in Item
    BY <1>1, Holding
  <2>3. held'[w].paused
    BY <2>1, <2>2 DEF Failed, Item
  <2>4. QED
    BY <1>1, <1>3, <2>3, WatchGo
<1>4. CASE Go(w, "prependStop") /\ UNCHANGED held /\ held[w].id \in parked'
  BY <1>1, <1>4, WatchGo
<1>5. ASSUME NEW pc, pc # "prependStop", Go(w, pc), Go(w, "prependStop") PROVE FALSE
  BY <1>1, <1>5, WorkerGoes
<1>6. QED
  BY <1>2, <1>3, <1>4, <1>5 DEF Persist, Steer, Dispatch, Dispatched, Mark

LEMMA WatchPiSend == ASSUME StrandInv, UNCHANGED agent, NEW w \in Workers, PiSend(w) PROVE Watch'
<1>1. /\ TypeInv /\ wpc[w] \in ActivePCs /\ wpc[w] \in HoldingPCs /\ "prependStop" \in ActivePCs
      /\ wpc[w] = "piSend"
      /\ UNCHANGED <<processing, dirty, wakes, timer, cl, run, retryRun, deferring, archived, passed>>
  BY StrandTypes, WatchPCs, PCs DEF PiSend, runVars, CallPCs
<1>2. CASE Go(w, "markPi")
  BY <1>1, <1>2, WatchOn, WatchPCs
<1>3. CASE Go(w, "prependStop")
  <2>1. agent = "pi" /\ (Attended \/ ~Startable)
    BY <1>1, StrandTypes DEF Offered
  <2>2. wpc'[w] = "prependStop" /\ \A v \in Workers \ {w} : wpc'[v] = wpc[v]
    BY <1>1, <1>3, WorkerGoes
  <2>3. Attended => Attended'
    BY <1>1, <2>2 DEF Attended
  <2>4. ~Startable => ~Startable'
    BY <1>1 DEF Startable
  <2>5. QED
    BY <1>1, <1>3, <2>1, <2>3, <2>4, WatchGo
<1>4. QED
  BY <1>2, <1>3 DEF PiSend

LEMMA WatchPrepend == ASSUME StrandInv, UNCHANGED agent, NEW w \in Workers, Prepend(w) PROVE Watch'
<1>1. /\ TypeInv /\ wpc[w] \in PrependPCs /\ wpc[w] \in ActivePCs /\ wpc[w] \in HoldingPCs
      /\ "finish" \in ActivePCs /\ Go(w, AfterPrepend[wpc[w]]) /\ queue' = <<held[w]>> \o queue
      /\ UNCHANGED <<processing, dirty, wakes, timer, cl, run, retryRun, deferring, archived, passed, parked>>
  BY StrandTypes, WatchPCs, PCs DEF Prepend, Show, PutBack, runVars, history
<1>2. CASE wpc[w] # "prependStop"
  <2>1. AfterPrepend[wpc[w]] \in {"arm", "peek"}
    BY <1>1, <1>2 DEF PrependPCs, AfterPrepend
  <2>2. QED
    BY <1>1, <2>1, WatchOn, WatchPCs
<1>3. CASE wpc[w] = "prependStop"
  <2>1. Go(w, "finish")
    BY <1>1, <1>3 DEF AfterPrepend
  <2>2. wpc'[w] = "finish" /\ \A v \in Workers \ {w} : wpc'[v] = wpc[v]
    BY <1>1, <2>1, WorkerGoes
  <2>3. Attended => Attended'
    BY <1>1, <1>3, <2>2 DEF Attended
  <2>4. held[w] \in Item /\ queue \in Seq(Item)
    BY <1>1, Holding, QueueItems
  <2>5. PICK x : x = held[w]
    OBVIOUS
  <2>6. queue' # <<>> /\ Head(queue') = x
    BY <1>1, <2>4, <2>5
  <2>7. x.paused \/ x.id \in parked \/ (agent = "pi" /\ (Attended \/ ~Startable))
    BY <1>3, <2>5, StrandTypes DEF PutAway
  <2>8. CASE x.paused \/ x.id \in parked
    <3>1. ~Promising'
      BY <1>1, <2>6, <2>8 DEF Promising
    <3>2. QED
      BY <1>1, <2>1, <3>1, WatchGo
  <2>9. CASE agent = "pi" /\ Attended
    BY <1>1, <2>1, <2>3, <2>9, WatchGo
  <2>10. CASE agent = "pi" /\ ~Startable
    <3>1. ~x.receipt
      BY <2>5, <2>10, StrandTypes DEF Untimed
    <3>2. ~Promising'
      BY <1>1, <2>6, <2>10, <3>1 DEF Promising, Startable
    <3>3. QED
      BY <1>1, <2>1, <3>2, WatchGo
  <2>11. QED
    BY <2>7, <2>8, <2>9, <2>10
<1>4. QED
  BY <1>2, <1>3

\* The flag is down or a new processor has yet to peek: nobody is at a place with a condition.
LEMMA WatchNobody ==
  ASSUME StrandInv, \A v \in Workers : wpc'[v] \notin ActivePCs \/ wpc'[v] = "peek",
         processing' \/ Attended' \/ ~Promising'
  PROVE  Watch'
<1>1. \A v \in Workers : wpc'[v] \notin {"finish", "readRun", "getSession", "claimPi", "piSend", "prependStop"}
  BY WatchPCs
<1>2. QED
  BY <1>1 DEF Watch, Left, Peeked, Offered, PutAway

LEMMA WatchFinish == ASSUME StrandInv, UNCHANGED agent, NEW w \in Workers, Finish(w) PROVE Watch'
<1>1. /\ TypeInv /\ wpc[w] = "finish" /\ wpc[w] \in ActivePCs
      /\ UNCHANGED <<queue, wakes, timer, cl, run, retryRun, deferring, archived, passed, parked>>
  BY StrandTypes, WatchPCs DEF Finish, queueVars, runVars, history
<1>2. \A v \in Workers \ {w} : wpc[v] \notin ActivePCs
  BY <1>1, StrandTypes DEF ProcessorInv, OneProcessor
<1>3. PICK pc \in {"restart", "idle"} : Go(w, pc) /\ (dirty => pc = "restart")
  BY DEF Finish
<1>4. wpc'[w] = pc /\ \A v \in Workers \ {w} : wpc'[v] = wpc[v]
  BY <1>1, <1>3, WorkerGoes
<1>5. "restart" \notin ActivePCs /\ "idle" \notin ActivePCs
  BY DEF ActivePCs, ClaimPCs, CallPCs, PrependPCs
<1>6. Attended => Attended'
  BY <1>1, <1>3, <1>4 DEF Attended
<1>7. Attended \/ ~Promising
  BY <1>1, StrandTypes DEF Left
<1>8. ~Promising => ~Promising'
  BY <1>1 DEF Promising, Startable
<1>9. QED
  BY <1>2, <1>4, <1>5, <1>6, <1>7, <1>8, WatchNobody

LEMMA WatchRestart == ASSUME StrandInv, UNCHANGED agent, NEW w \in Workers, Restart(w) PROVE Watch'
<1>1. /\ TypeInv /\ wpc[w] = "restart" /\ UNCHANGED <<held, parked>>
      /\ "finish" \in ActivePCs /\ "restart" \notin ActivePCs
  BY StrandTypes DEF Restart, history, ActivePCs, ClaimPCs, CallPCs, PrependPCs
<1>2. CASE processing
  <2>1. dirty' /\ Go(w, "idle")
    BY <1>2 DEF Restart
  <2>2. wpc'[w] = "idle" /\ \A v \in Workers \ {w} : wpc'[v] = wpc[v]
    BY <1>1, <2>1, WorkerGoes
  <2>3. Attended'
    BY <2>1 DEF Attended
  <2>4. Left' /\ Peeked'
    BY <2>3 DEF Left, Peeked
  <2>5. Offered' /\ PutAway'
    BY <1>1, <2>2, <2>3, StrandTypes DEF Offered, PutAway
  <2>6. QED
    BY <2>4, <2>5 DEF Watch
<1>3. CASE ~processing
  <2>1. processing' /\ Go(w, "peek")
    BY <1>3 DEF Restart
  <2>2. wpc'[w] = "peek" /\ \A v \in Workers \ {w} : wpc'[v] = wpc[v]
    BY <1>1, <2>1, WorkerGoes
  <2>3. \A v \in Workers : wpc[v] \notin ActivePCs
    BY <1>3, StrandTypes DEF ProcessorInv, OneProcessor
  <2>4. QED
    BY <2>1, <2>2, <2>3, WatchNobody
<1>4. QED
  BY <1>2, <1>3

LEMMA WatchFireWake == ASSUME StrandInv, UNCHANGED agent, FireWake PROVE Watch'
<1>1. TypeInv /\ UNCHANGED parked
  BY StrandTypes DEF FireWake, history
<1>2. CASE processing
  <2>1. dirty' /\ UNCHANGED <<wpc, held>>
    BY <1>2 DEF FireWake, Trigger
  <2>2. Attended'
    BY <2>1 DEF Attended
  <2>3. QED
    BY <1>1, <2>1, <2>2, WatchAttended
<1>3. CASE ~processing
  <2>1. PICK w \in Workers : processing' /\ Go(w, "peek")
    BY <1>3 DEF FireWake, Trigger, Go, IdleWorkers
  <2>2. wpc'[w] = "peek" /\ \A v \in Workers \ {w} : wpc'[v] = wpc[v]
    BY <1>1, <2>1, WorkerGoes
  <2>3. \A v \in Workers : wpc[v] \notin ActivePCs
    BY <1>3, StrandTypes DEF ProcessorInv, OneProcessor
  <2>4. QED
    BY <2>1, <2>2, <2>3, WatchNobody
<1>4. QED
  BY <1>2, <1>3

LEMMA NotedStep == StrandInv /\ [Next]_vars => Noted'
<1> SUFFICES ASSUME StrandInv, [Next]_vars PROVE Noted'
  OBVIOUS
<1>1. ASSUME NEW c \in Clients, ClientCommand(c) \/ ClientStep(c) PROVE Noted'
  <2>1. UNCHANGED processing /\ (UNCHANGED dirty \/ dirty' = FALSE)
    BY <1>1 DEF ClientCommand, ClientStep, Send, SendDirect, Reorder, RemovePending, Update, Clear, Abort, Archive,
           Choose, Enqueue, ClientDispatch, ClientDispatched, Move, Cancel, CancelOnly, ExpireHeadRedirect,
           ArchiveTimesOut, ArchiveMark, ArchiveClear, DropAll, procVars
  <2>2. QED
    BY <2>1, StrandTypes DEF Noted
<1>2. ASSUME NEW w \in Workers, Processor(w) PROVE Noted'
  <2>1. CASE Finish(w) \/ Restart(w)
    BY <2>1 DEF Finish, Restart, Noted
  <2>2. CASE ~(Finish(w) \/ Restart(w))
    <3>1. wpc[w] \in ActivePCs /\ UNCHANGED processing
      BY <1>2, <2>2, WatchPCs DEF Processor, Peek, Arm, ReadRun, GetSession, Claim, Persist, Steer,
         PiSend, Dispatch, Dispatched, Mark, Prepend, ActivePCs, CallPCs, procVars
    <3>2. processing
      BY <3>1, StrandTypes DEF ProcessorInv, OneProcessor
    <3>3. QED
      BY <3>1, <3>2 DEF Noted
  <2>3. QED
    BY <2>1, <2>2
<1>3. CASE FireWake
  BY <1>3 DEF FireWake, Trigger, Noted
<1>4. CASE \/ \E i \in Ids : Elapse(i)
           \/ TimerFires \/ AutoRetry \/ UpdateRetry \/ OtherRun
           \/ RunBlocks \/ RunUnblocks \/ ToolEnds \/ RunDone \/ ReleaseRun \/ UNCHANGED vars
  <2>1. UNCHANGED <<processing, dirty>>
    BY <1>4 DEF Elapse, TimerFires, AutoRetry, UpdateRetry, OtherRun, RunBlocks, RunUnblocks,
                ToolEnds, RunDone, ReleaseRun, vars, state, procVars
  <2>2. QED
    BY <2>1, StrandTypes DEF Noted
<1>5. QED
  BY <1>1, <1>2, <1>3, <1>4 DEF Next

LEMMA StrandStep == Unhurried /\ StrandInv /\ [Next]_vars => StrandInv'
<1> SUFFICES ASSUME Unhurried, StrandInv, [Next]_vars PROVE StrandInv'
  OBVIOUS
<1>1. UNCHANGED agent
  BY DEF Next, vars
<1>2. Watch'
  <2>1. CASE UNCHANGED vars
    <3>1. UNCHANGED <<agent, wpc, held, processing, parked, queue, run, retryRun, deferring, archived, passed, dirty,
                      wakes, timer, cl>>
      BY <2>1 DEF vars, state, queueVars, procVars, runVars, history
    <3>2. Attended => Attended'
      BY <3>1 DEF Attended
    <3>3. QED
      BY <3>1, <3>2, WatchSame
  <2>2. ASSUME NEW w \in Workers, Processor(w) PROVE Watch'
    BY <1>1, <2>2, WatchPeek, WatchArm, WatchReadRun, WatchGetSession, WatchClaim, WatchCall,
       WatchPiSend, WatchPrepend, WatchFinish, WatchRestart DEF Processor
  <2>3. QED
    BY <1>1, <2>1, <2>2, WatchCommand, WatchStepOfClient, WatchBackground, WatchFireWake DEF Next
<1>3. TypeInv' /\ NoRunReplaced' /\ ProcessorInv'
  BY TypeStep, StartStep, ProcessorStep, StrandTypes DEF StartInv
<1>4. QED
  BY <1>1, <1>2, <1>3, UntimedStep, SettledStep, ControlStep, NotedStep, StrandTypes DEF StrandInv, StartInv

\* An input that could be sent is never left without a processor, a trigger or a timer that
\* will get to it, whatever calls and runs fail: see NoStranded.  A codex session whose queue is
\* cleared or stopped may leave one until the next tool or run ends.
THEOREM NoStrandedCorrect ==
  ASSUME "codex" \in Agents => "abort" \notin Ops /\ "clear" \notin Ops
  PROVE  Spec => []NoStranded
<1>1. Unhurried
  BY DEF Unhurried
<1>2. Init => StrandInv
  BY StrandInit
<1>3. StrandInv /\ [Next]_vars => StrandInv'
  BY <1>1, StrandStep
<1>4. StrandInv => NoStranded
  <2> SUFFICES ASSUME StrandInv, Actionable, Unattended PROVE FALSE
    BY DEF NoStranded
  <2>1. ~processing /\ ~dirty
    BY StrandTypes DEF Unattended, Noted
  <2>2. ~Attended
    BY <2>1 DEF Unattended, Attended
  <2>3. Promising
    BY DEF Actionable, Promising, Startable
  <2>4. QED
    BY <2>1, <2>2, <2>3, StrandTypes DEF Left
<1>5. QED
  BY <1>2, <1>3, <1>4, PTL DEF Spec

=============================================================================
