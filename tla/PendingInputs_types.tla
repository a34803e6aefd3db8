------------------------ MODULE PendingInputs_types -------------------------
(***************************************************************************)
(* What the operators of PendingInputs on queues return, and the type      *)
(* invariant of PendingInputs, for all values of its constants.            *)
(***************************************************************************)
EXTENDS PendingInputs, FiniteSetTheorems, SequenceTheorems, TLAPS

LEMMA InsertAtElements ==
  ASSUME NEW S, NEW q \in Seq(S), NEW p \in 1..(Len(q) + 1), NEW x \in S
  PROVE  /\ InsertAt(q, p, x) \in Seq(S)
         /\ Len(InsertAt(q, p, x)) = Len(q) + 1
         /\ \A k \in 1..(Len(q) + 1) :
              InsertAt(q, p, x)[k] = IF k < p THEN q[k] ELSE IF k = p THEN x ELSE q[k - 1]
<1> DEFINE l == SubSeq(q, 1, p - 1)
           r == SubSeq(q, p, Len(q))
<1>1. /\ l \in Seq(S) /\ Len(l) = p - 1
      /\ \A k \in 1..(p - 1) : l[k] = q[k]
  BY SubSeqProperties
<1>2. /\ r \in Seq(S) /\ Len(r) = Len(q) - p + 1
      /\ \A k \in 1..(Len(q) - p + 1) : r[k] = q[p + k - 1]
  BY SubSeqProperties
<1> HIDE DEF l, r
<1>3. /\ l \o <<x>> \in Seq(S) /\ Len(l \o <<x>>) = p
      /\ \A k \in 1..p : (l \o <<x>>)[k] = IF k < p THEN q[k] ELSE x
  BY <1>1
<1> DEFINE m == l \o <<x>>
<1>4. InsertAt(q, p, x) = m \o r
  BY DEF InsertAt, l, r
<1>5. /\ m \in Seq(S) /\ Len(m) = p
      /\ \A k \in 1..p : m[k] = IF k < p THEN q[k] ELSE x
  BY <1>3
<1> HIDE DEF m
<1>6. /\ m \o r \in Seq(S) /\ Len(m \o r) = Len(m) + Len(r)
      /\ \A k \in 1..(Len(m) + Len(r)) :
           (m \o r)[k] = IF k <= Len(m) THEN m[k] ELSE r[k - Len(m)]
  BY <1>2, <1>5, ConcatProperties
<1>7. Len(q) \in Nat /\ Len(m \o r) = Len(q) + 1
  BY <1>2, <1>5, <1>6
<1>8. ASSUME NEW k \in 1..(Len(q) + 1)
      PROVE  (m \o r)[k] = IF k < p THEN q[k] ELSE IF k = p THEN x ELSE q[k - 1]
  <2>1. CASE k <= p
    BY <1>2, <1>5, <1>6, <2>1
  <2>2. CASE ~(k <= p)
    <3>1. (m \o r)[k] = r[k - p] /\ k - p \in 1..(Len(q) - p + 1)
      BY <1>2, <1>5, <1>6, <2>2
    <3>2. r[k - p] = q[p + (k - p) - 1]
      BY <1>2, <3>1
    <3>3. QED
      BY <2>2, <3>1, <3>2
  <2>3. QED
    BY <2>1, <2>2
<1>9. QED
  BY <1>4, <1>6, <1>7, <1>8

LEMMA RemoveAtElements ==
  ASSUME NEW S, NEW q \in Seq(S), NEW p \in 1..Len(q)
  PROVE  /\ RemoveAt(q, p) \in Seq(S)
         /\ Len(RemoveAt(q, p)) = Len(q) - 1
         /\ \A k \in 1..(Len(q) - 1) :
              RemoveAt(q, p)[k] = IF k < p THEN q[k] ELSE q[k + 1]
<1> DEFINE l == SubSeq(q, 1, p - 1)
           r == SubSeq(q, p + 1, Len(q))
<1>1. /\ l \in Seq(S) /\ Len(l) = p - 1
      /\ \A k \in 1..(p - 1) : l[k] = q[k]
  BY SubSeqProperties
<1>2. /\ r \in Seq(S) /\ Len(r) = Len(q) - p
      /\ \A k \in 1..(Len(q) - p) : r[k] = q[p + k]
  BY SubSeqProperties
<1>3. RemoveAt(q, p) = l \o r
  BY DEF RemoveAt
<1> HIDE DEF l, r
<1>4. /\ l \o r \in Seq(S) /\ Len(l \o r) = Len(l) + Len(r)
      /\ \A k \in 1..(Len(l) + Len(r)) :
           (l \o r)[k] = IF k <= Len(l) THEN l[k] ELSE r[k - Len(l)]
  BY <1>1, <1>2, ConcatProperties
<1>5. ASSUME NEW k \in 1..(Len(q) - 1)
      PROVE  (l \o r)[k] = IF k < p THEN q[k] ELSE q[k + 1]
  <2>1. CASE k < p
    BY <1>1, <1>2, <1>4, <2>1
  <2>2. CASE ~(k < p)
    <3>1. (l \o r)[k] = r[k - (p - 1)] /\ k - (p - 1) \in 1..(Len(q) - p)
      BY <1>1, <1>2, <1>4, <2>2
    <3>2. r[k - (p - 1)] = q[p + (k - (p - 1))]
      BY <1>2, <3>1
    <3>3. QED
      BY <2>2, <3>1, <3>2
  <2>3. QED
    BY <2>1, <2>2
<1>6. QED
  BY <1>1, <1>2, <1>3, <1>4, <1>5

\* The place behind the leading redirects is a place of the queue.
LEMMA RedirectsBound ==
  ASSUME NEW q \in Seq(Item)
  PROVE  Redirects(q) \in 0..Len(q)
<1> DEFINE R == {k \in 1..Len(q) : \A j \in 1..k : q[j].mode = "redirect"}
<1>1. Len(q) \in Nat
  OBVIOUS
<1>2. IsFiniteSet(1..Len(q)) /\ Cardinality(1..Len(q)) = Len(q)
  BY <1>1, FS_Interval
<1>3. R \in SUBSET (1..Len(q))
  OBVIOUS
<1>4. IsFiniteSet(R) /\ Cardinality(R) <= Cardinality(1..Len(q))
  BY <1>2, <1>3, FS_Subset
<1>5. Cardinality(R) \in Nat
  BY <1>4, FS_CardinalityType
<1>6. Redirects(q) = Cardinality(R)
  BY DEF Redirects
<1> HIDE DEF R
<1>7. QED
  BY <1>1, <1>2, <1>4, <1>5, <1>6

\* A new input is inserted at some place.
LEMMA InsertPendingPlace ==
  ASSUME NEW q \in Seq(Item), NEW x \in Item
  PROVE  \E p \in 1..(Len(q) + 1) : InsertPending(q, x) = InsertAt(q, p, x)
<1>1. CASE x.mode = "redirect"
  <2>1. Redirects(q) + 1 \in 1..(Len(q) + 1)
    <3>1. Redirects(q) \in 0..Len(q) /\ Len(q) \in Nat
      BY RedirectsBound
    <3>2. \A n \in 0..Len(q) : n + 1 \in 1..(Len(q) + 1)
      BY <3>1
    <3>3. QED
      BY <3>1, <3>2
  <2>2. QED
    BY <1>1, <2>1 DEF InsertPending
<1>2. CASE x.mode # "redirect"
  <2>1. Len(q) + 1 \in 1..(Len(q) + 1)
    OBVIOUS
  <2>2. /\ InsertAt(q, Len(q) + 1, x) \in Seq(Item)
        /\ Len(InsertAt(q, Len(q) + 1, x)) = Len(q) + 1
        /\ \A k \in 1..(Len(q) + 1) :
             InsertAt(q, Len(q) + 1, x)[k] = IF k < Len(q) + 1 THEN q[k] ELSE x
    <3>1. ASSUME NEW p \in 1..(Len(q) + 1), p = Len(q) + 1
          PROVE  /\ InsertAt(q, p, x) \in Seq(Item)
                 /\ Len(InsertAt(q, p, x)) = Len(q) + 1
                 /\ \A k \in 1..(Len(q) + 1) :
                      InsertAt(q, p, x)[k] = IF k < p THEN q[k] ELSE x
      <4>1. /\ InsertAt(q, p, x) \in Seq(Item) /\ Len(InsertAt(q, p, x)) = Len(q) + 1
            /\ \A k \in 1..(Len(q) + 1) :
                 InsertAt(q, p, x)[k] = IF k < p THEN q[k] ELSE IF k = p THEN x ELSE q[k - 1]
        BY InsertAtElements
      <4>2. \A k \in 1..(Len(q) + 1) : k < p \/ k = p
        BY <3>1
      <4>3. QED
        BY <4>1, <4>2
    <3>2. QED
      BY <2>1, <3>1
  <2>3. /\ Append(q, x) \in Seq(Item) /\ Len(Append(q, x)) = Len(q) + 1
        /\ \A k \in 1..(Len(q) + 1) :
             Append(q, x)[k] = IF k < Len(q) + 1 THEN q[k] ELSE x
    OBVIOUS
  <2>4. Append(q, x) = InsertAt(q, Len(q) + 1, x)
    BY <2>2, <2>3, SeqEqual
  <2>5. QED
    BY <1>2, <2>1, <2>4 DEF InsertPending
<1>3. QED
  BY <1>1, <1>2

LEMMA PlacesPlace ==
  ASSUME NEW q \in Seq(Item), NEW x \in Item, NEW r \in Places(q, x)
  PROVE  \E p \in 1..(Len(q) + 1) : r = InsertAt(q, p, x)
<1>1. CASE r = InsertPending(q, x)
  BY <1>1, InsertPendingPlace
<1>2. CASE \E p \in {k \in 1..Len(q) : q[k].mode = x.mode} : r = InsertAt(q, p, x)
  BY <1>2
<1>3. QED
  BY <1>1, <1>2 DEF Places

\* What clear keeps is a queue and consists of inputs with a receipt.
LEMMA KeptType ==
  ASSUME NEW q \in Seq(Item), NEW r \in Kept(q)
  PROVE  /\ r \in Seq(Item)
         /\ \A j \in 1..Len(r) : \E k \in 1..Len(q) : r[j] = q[k]
<1> DEFINE K == {k \in 1..Len(q) : Locked(q[k])}
           n == Cardinality(K)
<1>1. n \in Nat
  <2>1. K \in SUBSET (1..Len(q)) /\ Len(q) \in Int
    OBVIOUS
  <2>2. IsFiniteSet(K)
    BY <2>1, FS_Interval, FS_Subset
  <2>3. QED
    BY <2>2, FS_CardinalityType
<1>2. PICK f \in [1..n -> K] : r = [j \in 1..n |-> q[f[j]]]
  BY DEF Kept
<1>3. \A j \in 1..n : f[j] \in 1..Len(q)
  BY <1>2
<1> HIDE DEF n
<1>4. r \in Seq(Item) /\ Len(r) = n
  BY <1>1, <1>2, <1>3
<1>5. QED
  BY <1>2, <1>3, <1>4

LEMMA RememberType ==
  ASSUME NEW d \in Seq(Ids), Len(d) <= MaxDelivered, NEW i \in Ids
  PROVE  Remember(d, i) \in Seq(Ids) /\ Len(Remember(d, i)) <= MaxDelivered
<1>1. MaxDelivered \in Nat \ {0}
  BY ConstantsAssumption
<1>2. CASE i \in ToSet(d)
  BY <1>2 DEF Remember
<1>3. CASE i \notin ToSet(d) /\ Len(d) < MaxDelivered
  BY <1>1, <1>3 DEF Remember
<1>4. CASE i \notin ToSet(d) /\ ~(Len(d) < MaxDelivered)
  <2>1. d # <<>>
    BY <1>1, <1>4
  <2>2. Tail(d) \in Seq(Ids) /\ Len(Tail(d)) = Len(d) - 1
    BY <2>1
  <2>3. QED
    BY <1>1, <1>4, <2>2 DEF Remember
<1>5. QED
  BY <1>2, <1>3, <1>4

LEMMA ViewType ==
  ASSUME NEW q \in Seq(Item)
  PROVE  View(q) \in Seq(Ids \X Modes \X BOOLEAN)
<1>1. ASSUME NEW k \in 1..Len(q)
      PROVE  <<q[k].id, q[k].mode, q[k].paused>> \in Ids \X Modes \X BOOLEAN
  <2>1. q[k] \in Item
    OBVIOUS
  <2>2. q[k].id \in Ids /\ q[k].mode \in Modes /\ q[k].paused \in BOOLEAN
    BY <2>1 DEF Item
  <2>3. QED
    BY <2>2
<1>2. QED
  BY <1>1, IsASeq DEF View

-----------------------------------------------------------------------------
(* Types.  TypeOK is not inductive: a handler that is about to enqueue or  *)
(* dispatch must know the id of an input, and a goroutine between peek and *)
(* finish must hold one.                                                   *)

HoldingPCs == ActivePCs \ {"peek", "finish"}
WithInput == {"choose", "chooseDeferred", "enqueue", "dispatch", "direct", "dispatching", "move"}

QueueOK == queue \in Seq(Item) /\ fresh \in BOOLEAN /\ shown \in Seq(Ids \X Modes \X BOOLEAN)
DeliveredOK == delivered \in Seq(Ids) /\ Len(delivered) <= MaxDelivered
TimerOK == timer \in {"off", "recheck"} \cup Ids
WakesOK == wakes \in 0..MaxWakes
FlagsOK == processing \in BOOLEAN /\ dirty \in BOOLEAN
WorkersOK ==
  /\ wpc \in [Workers -> WorkerPCs] /\ held \in [Workers -> Item \cup {NoItem}]
  /\ \A w \in Workers : wpc[w] \in HoldingPCs => held[w] \in Item
ClientsOK ==
  /\ cl \in [Clients -> [pc : ClientPCs, id : Ids \cup {NoOne}, mode : Modes]]
  /\ \A c \in Clients : cl[c].pc \in WithInput => cl[c].id \in Ids
RunOK ==
  /\ run \in RunStates /\ retryRun \in BOOLEAN /\ deferring \in BOOLEAN
  /\ retryArmed \in BOOLEAN /\ archived \in BOOLEAN
  /\ dlock \in Clients \cup Workers \cup {NoOne}
BoundsOK == cmds \in 0..MaxCommands /\ faults \in 0..MaxFaults
AcceptedOK == accepted \in Seq([id : Ids, mode : Modes])
HandedOK == handed \in Seq(Ids)
SetsOK == gone \subseteq Ids /\ moved \subseteq Ids /\ parked \subseteq Ids /\ passed \subseteq Ids

TypeInv ==
  /\ QueueOK /\ DeliveredOK /\ TimerOK /\ WakesOK /\ FlagsOK /\ WorkersOK /\ ClientsOK
  /\ RunOK /\ BoundsOK /\ AcceptedOK /\ HandedOK /\ SetsOK

LEMMA TypeInvTypeOK == TypeInv /\ agent \in Agents => TypeOK
  BY DEF TypeInv, QueueOK, DeliveredOK, TimerOK, WakesOK, FlagsOK, WorkersOK, ClientsOK, RunOK,
         BoundsOK, AcceptedOK, HandedOK, SetsOK, TypeOK

LEMMA TypeInit == Init => TypeInv
<1> SUFFICES ASSUME Init PROVE TypeInv
  OBVIOUS
<1>1. QueueOK /\ DeliveredOK /\ AcceptedOK /\ HandedOK
  <2>1. \A S : <<>> \in Seq(S)
    OBVIOUS
  <2>2. queue = <<>> /\ shown = <<>> /\ fresh = FALSE /\ delivered = <<>>
        /\ accepted = <<>> /\ handed = <<>>
    BY DEF Init
  <2>3. Len(<<>>) <= MaxDelivered
    BY ConstantsAssumption
  <2>4. QED
    BY <2>1, <2>2, <2>3 DEF QueueOK, DeliveredOK, AcceptedOK, HandedOK
<1>2. TimerOK /\ WakesOK /\ FlagsOK /\ BoundsOK /\ RunOK /\ SetsOK
  <2>1. TimerOK /\ FlagsOK /\ SetsOK
    BY DEF Init, TimerOK, FlagsOK, SetsOK
  <2>2. WakesOK /\ BoundsOK
    BY ConstantsAssumption DEF Init, WakesOK, BoundsOK
  <2>3. RunOK
    BY DEF Init, RunOK, RunStates
  <2>4. QED
    BY <2>1, <2>2, <2>3
<1>3. WorkersOK
  <2>1. "idle" \in WorkerPCs /\ "idle" \notin HoldingPCs
    BY DEF WorkerPCs, HoldingPCs, ActivePCs, ClaimPCs, CallPCs, PrependPCs
  <2>2. wpc \in [Workers -> WorkerPCs] /\ \A w \in Workers : wpc[w] = "idle"
    BY <2>1 DEF Init
  <2>3. held \in [Workers -> Item \cup {NoItem}]
    BY DEF Init
  <2>4. QED
    BY <2>1, <2>2, <2>3 DEF WorkersOK
<1>4. ClientsOK
  <2> DEFINE start == [pc |-> "idle", id |-> NoOne, mode |-> "queue"]
  <2>1. start \in [pc : ClientPCs, id : Ids \cup {NoOne}, mode : Modes]
    BY DEF ClientPCs, Modes
  <2>2. start.pc \notin WithInput
    BY DEF WithInput
  <2> HIDE DEF start
  <2>3. cl = [c \in Clients |-> start]
    BY DEF Init, start
  <2>4. QED
    BY <2>1, <2>2, <2>3 DEF ClientsOK
<1>5. QED
  BY <1>1, <1>2, <1>3, <1>4 DEF TypeInv

\* What an action leaves alone keeps its type.
LEMMA Frames ==
  ASSUME TypeInv
  PROVE  /\ UNCHANGED queueVars => QueueOK'
         /\ UNCHANGED delivered => DeliveredOK'
         /\ UNCHANGED timer => TimerOK'
         /\ UNCHANGED wakes => WakesOK'
         /\ UNCHANGED <<processing, dirty>> => FlagsOK'
         /\ UNCHANGED <<wpc, held>> => WorkersOK'
         /\ UNCHANGED cl => ClientsOK'
         /\ UNCHANGED runVars => RunOK'
         /\ UNCHANGED bounds => BoundsOK'
         /\ UNCHANGED accepted => AcceptedOK'
         /\ UNCHANGED handed => HandedOK'
         /\ UNCHANGED <<gone, moved, parked, passed>> => SetsOK'
<1>1. /\ UNCHANGED queueVars => QueueOK'
      /\ UNCHANGED delivered => DeliveredOK'
      /\ UNCHANGED timer => TimerOK'
      /\ UNCHANGED wakes => WakesOK'
      /\ UNCHANGED <<processing, dirty>> => FlagsOK'
  BY DEF TypeInv, QueueOK, queueVars, DeliveredOK, TimerOK, WakesOK, FlagsOK
<1>2. /\ UNCHANGED <<wpc, held>> => WorkersOK'
      /\ UNCHANGED cl => ClientsOK'
      /\ UNCHANGED runVars => RunOK'
  BY DEF TypeInv, WorkersOK, ClientsOK, RunOK, runVars
<1>3. /\ UNCHANGED bounds => BoundsOK'
      /\ UNCHANGED accepted => AcceptedOK'
      /\ UNCHANGED handed => HandedOK'
      /\ UNCHANGED <<gone, moved, parked, passed>> => SetsOK'
  BY DEF TypeInv, BoundsOK, bounds, AcceptedOK, HandedOK, SetsOK
<1>4. QED
  BY <1>1, <1>2, <1>3

LEMMA ItemOps ==
  ASSUME NEW x \in Item, NEW p \in BOOLEAN
  PROVE  /\ Due(x) \in Item /\ Accepted(x) \in Item /\ Edited(x, p) \in Item
         /\ Later(x) \in Item /\ Failed(x) \in Item
         /\ Due(x).id = x.id /\ Accepted(x).id = x.id /\ Edited(x, p).id = x.id
         /\ Later(x).id = x.id /\ Failed(x).id = x.id
         /\ Due(x).receipt = x.receipt /\ Edited(x, p).receipt = x.receipt
         /\ Later(x).receipt = x.receipt /\ Failed(x).receipt = x.receipt
  BY DEF Item, Due, Accepted, Edited, Later, Failed

LEMMA NewItemType ==
  ASSUME NEW i \in Ids, NEW mode \in Modes
  PROVE  NewItem(i, mode) \in Item /\ NewItem(i, mode).id = i /\ ~NewItem(i, mode).receipt
  BY DEF NewItem, Item

LEMMA QueueItems ==
  ASSUME TypeInv
  PROVE  /\ queue \in Seq(Item)
         /\ \A k \in 1..Len(queue) : queue[k] \in Item /\ queue[k].id \in Ids
         /\ IdsIn(queue) \subseteq Ids
<1>1. queue \in Seq(Item) /\ \A k \in 1..Len(queue) : queue[k] \in Item
  BY DEF TypeInv, QueueOK
<1>2. \A k \in 1..Len(queue) : queue[k].id \in Ids
  BY <1>1 DEF Item
<1>3. QED
  BY <1>1, <1>2 DEF IdsIn

LEMMA Heads ==
  ASSUME TypeInv, queue # <<>>
  PROVE  Head(queue) \in Item /\ Tail(queue) \in Seq(Item) /\ Head(queue).id \in Ids
<1>1. Head(queue) \in Item /\ Tail(queue) \in Seq(Item)
  BY HeadTailProperties DEF TypeInv, QueueOK
<1>2. QED
  BY <1>1 DEF Item

LEMMA ShowType ==
  ASSUME TypeInv, NEW q \in Seq(Item), NEW b \in BOOLEAN, Show(q, b)
  PROVE  QueueOK'
  BY ViewType DEF TypeInv, QueueOK, Show

LEMMA MutateType ==
  ASSUME TypeInv, NEW q \in Seq(Item), Mutate(q)
  PROVE  QueueOK'
  BY DEF TypeInv, QueueOK, Mutate

LEMMA DropAllType ==
  ASSUME TypeInv, DropAll, UNCHANGED <<moved, parked, passed, processing>>
  PROVE  QueueOK' /\ TimerOK' /\ FlagsOK' /\ SetsOK'
<1>1. fresh' \in BOOLEAN
  BY Zenon DEF DropAll
<1>2. QueueOK'
  BY <1>1 DEF TypeInv, QueueOK, DropAll
<1>3. TimerOK' /\ FlagsOK'
  BY DEF TypeInv, TimerOK, FlagsOK, DropAll
<1>4. SetsOK'
  BY QueueItems DEF TypeInv, SetsOK, DropAll
<1>5. QED
  BY <1>2, <1>3, <1>4

LEMMA PassQueueType ==
  ASSUME TypeInv, PassQueue, UNCHANGED <<gone, moved, parked>>
  PROVE  SetsOK'
  BY QueueItems DEF TypeInv, SetsOK, PassQueue

LEMMA CommandType == ASSUME TypeInv, NEW op, Command(op) PROVE BoundsOK'
  BY ConstantsAssumption DEF TypeInv, BoundsOK, Command

LEMMA FailType == ASSUME TypeInv, NEW f, Fail(f) PROVE BoundsOK'
  BY ConstantsAssumption DEF TypeInv, BoundsOK, Fail

LEMMA WakeType == ASSUME TypeInv, Wake PROVE WakesOK'
  BY ConstantsAssumption DEF TypeInv, WakesOK, Wake

LEMMA ClientType ==
  ASSUME TypeInv, NEW c \in Clients, NEW pc \in ClientPCs, NEW i \in Ids \cup {NoOne},
         NEW mode \in Modes, Client(c, pc, i, mode), pc \in WithInput => i \in Ids
  PROVE  ClientsOK'
<1>1. [pc |-> pc, id |-> i, mode |-> mode] \in [pc : ClientPCs, id : Ids \cup {NoOne}, mode : Modes]
  OBVIOUS
<1>2. QED
  BY <1>1 DEF TypeInv, ClientsOK, Client

LEMMA ReturnType == ASSUME TypeInv, NEW c \in Clients, Return(c) PROVE ClientsOK'
  BY ClientType DEF Return, ClientPCs, WithInput, Modes

LEMMA HoldsType ==
  ASSUME TypeInv, NEW w \in Workers, NEW pc \in WorkerPCs, NEW x \in Item \cup {NoItem},
         Go(w, pc), Hold(w, x), pc \in HoldingPCs => x \in Item
  PROVE  WorkersOK'
  BY DEF TypeInv, WorkersOK, Go, Hold

LEMMA GoesType ==
  ASSUME TypeInv, NEW w \in Workers, NEW pc \in WorkerPCs, Go(w, pc), UNCHANGED held,
         pc \in HoldingPCs => held[w] \in Item
  PROVE  WorkersOK'
  BY DEF TypeInv, WorkersOK, Go

LEMMA TriggerType ==
  ASSUME TypeInv, Trigger(IdleWorkers)
  PROVE  FlagsOK' /\ WorkersOK'
<1>1. CASE processing
  BY <1>1 DEF Trigger, TypeInv, FlagsOK, WorkersOK
<1>2. CASE ~processing
  BY <1>2 DEF Trigger, IdleWorkers, TypeInv, FlagsOK, WorkersOK, WorkerPCs, ActivePCs, HoldingPCs
<1>3. QED
  BY <1>1, <1>2

-----------------------------------------------------------------------------
(* One lemma per action: the parts it leaves alone, then the others.       *)

LEMMA SendType ==
  ASSUME TypeInv, NEW c \in Clients, NEW i \in Ids, NEW mode \in Modes, Send(c, i, mode)
  PROVE  TypeInv'
<1>1. /\ QueueOK' /\ DeliveredOK' /\ TimerOK' /\ WakesOK' /\ FlagsOK'
      /\ WorkersOK' /\ RunOK' /\ AcceptedOK' /\ HandedOK' /\ SetsOK'
  BY Frames DEF Send, history, procVars
<1>2. ClientsOK'
  BY ClientType DEF Send, ClientPCs, WithInput, Modes
<1>3. BoundsOK'
  BY CommandType DEF Send
<1>4. QED
  BY <1>1, <1>2, <1>3 DEF TypeInv

LEMMA SendDirectType ==
  ASSUME TypeInv, NEW c \in Clients, NEW i \in Ids, SendDirect(c, i)
  PROVE  TypeInv'
<1>1. /\ QueueOK' /\ DeliveredOK' /\ TimerOK' /\ WakesOK' /\ FlagsOK'
      /\ WorkersOK' /\ RunOK' /\ AcceptedOK' /\ HandedOK' /\ SetsOK'
  BY Frames DEF SendDirect, history, procVars
<1>2. ClientsOK'
  BY ClientType DEF SendDirect, ClientPCs, WithInput, Modes
<1>3. BoundsOK'
  BY CommandType DEF SendDirect
<1>4. QED
  BY <1>1, <1>2, <1>3 DEF TypeInv

LEMMA AppendType ==
  ASSUME NEW S, NEW s \in Seq(S), NEW x \in S
  PROVE  Append(s, x) \in Seq(S)
  OBVIOUS

LEMMA ClientArgs ==
  ASSUME TypeInv, NEW c \in Clients
  PROVE  cl[c].mode \in Modes /\ cl[c].id \in Ids \cup {NoOne}
         /\ (cl[c].pc \in WithInput => cl[c].id \in Ids)
  BY DEF TypeInv, ClientsOK

LEMMA ChooseType ==
  ASSUME TypeInv, NEW c \in Clients, Choose(c)
  PROVE  TypeInv'
<1>1. /\ QueueOK' /\ DeliveredOK' /\ TimerOK' /\ WakesOK' /\ FlagsOK' /\ WorkersOK'
      /\ RunOK' /\ BoundsOK' /\ AcceptedOK' /\ HandedOK' /\ SetsOK'
  BY Frames DEF Choose, history, procVars
<1>2. ClientsOK'
  BY ClientType, ClientArgs DEF Choose, ClientPCs, WithInput
<1>3. QED
  BY <1>1, <1>2 DEF TypeInv

LEMMA EnqueueType ==
  ASSUME TypeInv, NEW c \in Clients, Enqueue(c)
  PROVE  TypeInv'
<1>1. /\ DeliveredOK' /\ TimerOK' /\ WakesOK' /\ FlagsOK' /\ WorkersOK'
      /\ RunOK' /\ BoundsOK' /\ HandedOK' /\ SetsOK'
  BY Frames DEF Enqueue, history, procVars
<1>2. QueueOK'
  <2>1. CASE UNCHANGED queueVars
    BY <2>1, Frames
  <2>2. CASE ~UNCHANGED queueVars
    <3>1. cl[c].id \in Ids /\ cl[c].mode \in Modes
      BY ClientArgs DEF Enqueue, WithInput
    <3>2. NewItem(cl[c].id, cl[c].mode) \in Item
      BY <3>1, NewItemType
    <3>3. InsertPending(queue, NewItem(cl[c].id, cl[c].mode)) \in Seq(Item)
      <4>1. PICK x \in Item : x = NewItem(cl[c].id, cl[c].mode)
        BY <3>2
      <4>2. queue \in Seq(Item)
        BY QueueItems
      <4>3. PICK p \in 1..(Len(queue) + 1) : InsertPending(queue, x) = InsertAt(queue, p, x)
        BY <4>2, InsertPendingPlace
      <4>4. InsertAt(queue, p, x) \in Seq(Item)
        BY <4>2, InsertAtElements
      <4>5. QED
        BY <4>1, <4>3, <4>4
    <3>4. QED
      BY <2>2, <3>3, MutateType DEF Enqueue
  <2>3. QED
    BY <2>1, <2>2
<1>3. AcceptedOK'
  <2>1. [id |-> cl[c].id, mode |-> cl[c].mode] \in [id : Ids, mode : Modes]
    BY ClientArgs DEF Enqueue, WithInput
  <2>2. accepted' = accepted \/ accepted' = Append(accepted, [id |-> cl[c].id, mode |-> cl[c].mode])
    BY DEF Enqueue, history
  <2>3. QED
    BY <2>1, <2>2, AppendType DEF TypeInv, AcceptedOK
<1>4. ClientsOK'
  BY ClientType, ReturnType, ClientArgs DEF Enqueue, ClientPCs, WithInput
<1>5. QED
  BY <1>1, <1>2, <1>3, <1>4 DEF TypeInv

LEMMA ClientDispatchType ==
  ASSUME TypeInv, NEW c \in Clients, ClientDispatch(c)
  PROVE  TypeInv'
<1>1. /\ QueueOK' /\ DeliveredOK' /\ TimerOK' /\ WakesOK' /\ FlagsOK'
      /\ WorkersOK' /\ BoundsOK' /\ AcceptedOK' /\ HandedOK' /\ SetsOK'
  BY Frames DEF ClientDispatch, history, procVars
<1>2. ClientsOK'
  BY ClientType, ReturnType, ClientArgs DEF ClientDispatch, ClientPCs, WithInput
<1>3. RunOK'
  BY DEF ClientDispatch, StopsRetry, TypeInv, RunOK
<1>4. QED
  BY <1>1, <1>2, <1>3 DEF TypeInv

LEMMA ClientDispatchedType ==
  ASSUME TypeInv, NEW c \in Clients, ClientDispatched(c)
  PROVE  TypeInv'
<1>1. /\ QueueOK' /\ DeliveredOK' /\ TimerOK' /\ WakesOK'
      /\ FlagsOK' /\ WorkersOK' /\ AcceptedOK'
  BY Frames DEF ClientDispatched, history, procVars
<1>2. ClientsOK'
  BY ReturnType DEF ClientDispatched
<1>3. RunOK'
  BY DEF ClientDispatched, StartRun, TypeInv, RunOK, RunStates
<1>4. HandedOK'
  <2>1. cl[c].id \in Ids
    BY ClientArgs DEF ClientDispatched, WithInput
  <2>2. handed' = handed \/ handed' = Append(handed, cl[c].id)
    BY DEF ClientDispatched
  <2>3. QED
    BY <2>1, <2>2, AppendType DEF TypeInv, HandedOK
<1>5. BoundsOK'
  BY FailType, Frames DEF ClientDispatched
<1>6. SetsOK'
  BY PassQueueType, Frames DEF ClientDispatched
<1>7. QED
  BY <1>1, <1>2, <1>3, <1>4, <1>5, <1>6 DEF TypeInv

LEMMA RemovePendingType ==
  ASSUME TypeInv, NEW c \in Clients, NEW i \in Ids, RemovePending(c, i)
  PROVE  TypeInv'
<1>1. /\ DeliveredOK' /\ TimerOK' /\ WakesOK' /\ FlagsOK'
      /\ WorkersOK' /\ RunOK' /\ AcceptedOK' /\ HandedOK'
  BY Frames DEF RemovePending, history, procVars
<1>2. QueueOK'
  <2>1. PICK k \in FirstWith(queue, i) : Mutate(RemoveAt(queue, k))
    BY DEF RemovePending
  <2>2. RemoveAt(queue, k) \in Seq(Item)
    BY <2>1, QueueItems, RemoveAtElements DEF FirstWith
  <2>3. QED
    BY <2>1, <2>2, MutateType
<1>3. ClientsOK'
  BY ClientType DEF RemovePending, ClientPCs, WithInput, Modes
<1>4. BoundsOK'
  BY CommandType DEF RemovePending
<1>5. SetsOK'
  BY DEF RemovePending, TypeInv, SetsOK
<1>6. QED
  BY <1>1, <1>2, <1>3, <1>4, <1>5 DEF TypeInv

LEMMA UpdateType ==
  ASSUME TypeInv, NEW c \in Clients, NEW i \in Ids, NEW p \in BOOLEAN, Update(c, i, p)
  PROVE  TypeInv'
<1>1. /\ DeliveredOK' /\ TimerOK' /\ WakesOK' /\ FlagsOK' /\ WorkersOK'
      /\ RunOK' /\ AcceptedOK' /\ HandedOK' /\ SetsOK'
  BY Frames DEF Update, history, procVars
<1>2. QueueOK'
  <2>1. PICK k \in FirstWith(queue, i) : Mutate([queue EXCEPT ![k] = Edited(queue[k], p)])
    BY DEF Update
  <2>2. k \in 1..Len(queue)
    BY <2>1 DEF FirstWith
  <2>3. Edited(queue[k], p) \in Item
    BY <2>2, QueueItems, ItemOps
  <2>4. [queue EXCEPT ![k] = Edited(queue[k], p)] \in Seq(Item)
    BY <2>2, <2>3, QueueItems
  <2>5. QED
    BY <2>1, <2>4, MutateType
<1>3. ClientsOK'
  BY ClientType DEF Update, ClientPCs, WithInput, Modes
<1>4. BoundsOK'
  BY CommandType DEF Update
<1>5. QED
  BY <1>1, <1>2, <1>3, <1>4 DEF TypeInv

LEMMA ReorderType ==
  ASSUME TypeInv, NEW c \in Clients, NEW i \in Ids, NEW mode \in Modes, Reorder(c, i, mode)
  PROVE  TypeInv'
<1>1. /\ QueueOK' /\ DeliveredOK' /\ TimerOK' /\ WakesOK' /\ FlagsOK'
      /\ WorkersOK' /\ RunOK' /\ AcceptedOK' /\ HandedOK' /\ SetsOK'
  BY Frames DEF Reorder, history, procVars
<1>2. ClientsOK'
  BY ClientType DEF Reorder, ClientPCs, WithInput, Modes
<1>3. BoundsOK'
  BY CommandType DEF Reorder
<1>4. QED
  BY <1>1, <1>2, <1>3 DEF TypeInv

LEMMA MoveType ==
  ASSUME TypeInv, NEW c \in Clients, Move(c)
  PROVE  TypeInv'
<1>1. /\ DeliveredOK' /\ TimerOK' /\ WakesOK' /\ FlagsOK' /\ WorkersOK'
      /\ RunOK' /\ BoundsOK' /\ AcceptedOK' /\ HandedOK'
  BY Frames DEF Move, history, procVars
<1>2. QueueOK'
  <2>1. CASE UNCHANGED queueVars
    BY <2>1, Frames
  <2>2. CASE ~UNCHANGED queueVars
    <3>1. cl[c].id \in Ids /\ cl[c].mode \in Modes
      BY ClientArgs DEF Move, WithInput
    <3> DEFINE x(k) == IF queue[k].mode = cl[c].mode THEN queue[k] ELSE NewItem(cl[c].id, cl[c].mode)
    <3>2. PICK k \in FirstWith(queue, cl[c].id) :
            \E q \in Places(RemoveAt(queue, k), x(k)) : Mutate(q)
      BY <2>2 DEF Move
    <3>3. k \in 1..Len(queue)
      BY <3>2 DEF FirstWith
    <3>4. x(k) \in Item
      BY <3>1, <3>3, QueueItems, NewItemType
    <3>5. RemoveAt(queue, k) \in Seq(Item)
      BY <3>3, QueueItems, RemoveAtElements
    <3> HIDE DEF x
    <3>6. PICK q \in Places(RemoveAt(queue, k), x(k)) : Mutate(q)
      BY <3>2
    <3>7. q \in Seq(Item)
      BY <3>4, <3>5, <3>6, PlacesPlace, InsertAtElements
    <3>8. QED
      BY <3>6, <3>7, MutateType
  <2>3. QED
    BY <2>1, <2>2
<1>3. ClientsOK'
  BY ClientType, ReturnType, ClientArgs DEF Move, ClientPCs, WithInput
<1>4. SetsOK'
  <2>1. cl[c].id \in Ids
    BY ClientArgs DEF Move, WithInput
  <2>2. QED
    BY <2>1 DEF Move, TypeInv, SetsOK
<1>5. QED
  BY <1>1, <1>2, <1>3, <1>4 DEF TypeInv

LEMMA ClearType ==
  ASSUME TypeInv, NEW c \in Clients, Clear(c)
  PROVE  TypeInv'
<1>1. /\ DeliveredOK' /\ TimerOK' /\ WakesOK' /\ WorkersOK'
      /\ RunOK' /\ AcceptedOK' /\ HandedOK'
  BY Frames DEF Clear, history, procVars
<1>2. QueueOK'
  <2>1. CASE UNCHANGED queueVars
    BY <2>1, Frames
  <2>2. CASE ~UNCHANGED queueVars
    <3>1. PICK q \in Kept(queue) : Mutate(q)
      BY <2>2 DEF Clear
    <3>2. q \in Seq(Item)
      BY <3>1, KeptType, QueueItems
    <3>3. QED
      BY <3>1, <3>2, MutateType
  <2>3. QED
    BY <2>1, <2>2
<1>3. ClientsOK'
  BY ClientType, ReturnType DEF Clear, ClientPCs, WithInput, Modes
<1>4. BoundsOK'
  BY CommandType DEF Clear
<1>5. SetsOK' /\ FlagsOK'
  <2>1. SetsOK'
    BY QueueItems DEF Clear, TypeInv, SetsOK
  <2>2. FlagsOK'
    BY DEF Clear, TypeInv, FlagsOK
  <2>3. QED
    BY <2>1, <2>2
<1>6. QED
  BY <1>1, <1>2, <1>3, <1>4, <1>5 DEF TypeInv

LEMMA CancelType ==
  ASSUME TypeInv, NEW c \in Clients, Cancel(c)
  PROVE  TypeInv'
<1>1. /\ DeliveredOK' /\ FlagsOK' /\ WorkersOK' /\ RunOK'
      /\ BoundsOK' /\ AcceptedOK' /\ HandedOK' /\ SetsOK'
  BY Frames DEF Cancel, history, procVars
<1>2. ClientsOK'
  BY ReturnType DEF Cancel
<1>3. QueueOK' /\ TimerOK' /\ WakesOK'
  BY ShowType, QueueItems, WakeType DEF Cancel, TimerOK
<1>4. QED
  BY <1>1, <1>2, <1>3 DEF TypeInv

LEMMA CancelOnlyType ==
  ASSUME TypeInv, NEW c \in Clients, CancelOnly(c)
  PROVE  TypeInv'
<1>1. /\ QueueOK' /\ DeliveredOK' /\ WakesOK' /\ FlagsOK' /\ WorkersOK'
      /\ RunOK' /\ BoundsOK' /\ AcceptedOK' /\ HandedOK' /\ SetsOK'
  BY Frames DEF CancelOnly, history, procVars
<1>2. ClientsOK'
  BY ReturnType DEF CancelOnly
<1>3. TimerOK'
  BY DEF CancelOnly, TimerOK
<1>4. QED
  BY <1>1, <1>2, <1>3 DEF TypeInv

LEMMA AbortType ==
  ASSUME TypeInv, NEW c \in Clients, Abort(c)
  PROVE  TypeInv'
<1>1. /\ QueueOK' /\ DeliveredOK' /\ TimerOK' /\ WakesOK' /\ FlagsOK'
      /\ WorkersOK' /\ AcceptedOK' /\ HandedOK' /\ SetsOK'
  BY Frames DEF Abort, history, procVars
<1>2. ClientsOK'
  BY ClientType DEF Abort, ClientPCs, WithInput, Modes
<1>3. BoundsOK'
  BY CommandType DEF Abort
<1>4. RunOK'
  BY DEF Abort, Aborted, TypeInv, RunOK, RunStates
<1>5. QED
  BY <1>1, <1>2, <1>3, <1>4 DEF TypeInv

LEMMA ExpireHeadRedirectType ==
  ASSUME TypeInv, NEW c \in Clients, ExpireHeadRedirect(c)
  PROVE  TypeInv'
<1>1. /\ DeliveredOK' /\ FlagsOK' /\ WorkersOK' /\ RunOK'
      /\ BoundsOK' /\ AcceptedOK' /\ HandedOK' /\ SetsOK'
  BY Frames DEF ExpireHeadRedirect, history, procVars
<1>2. ClientsOK'
  BY ReturnType DEF ExpireHeadRedirect
<1>3. QueueOK'
  <2>1. CASE UNCHANGED queueVars
    BY <2>1, Frames
  <2>2. CASE ~UNCHANGED queueVars
    <3>1. queue # <<>> /\ Show(<<Due(Head(queue))>> \o Tail(queue), TRUE)
      BY <2>2 DEF ExpireHeadRedirect
    <3>2. Due(Head(queue)) \in Item /\ Tail(queue) \in Seq(Item)
      BY <3>1, Heads, ItemOps
    <3>3. <<Due(Head(queue))>> \o Tail(queue) \in Seq(Item)
      BY <3>2
    <3>4. QED
      BY <3>1, <3>3, ShowType
  <2>3. QED
    BY <2>1, <2>2
<1>4. TimerOK' /\ WakesOK'
  BY WakeType, Frames DEF ExpireHeadRedirect, TimerOK
<1>5. QED
  BY <1>1, <1>2, <1>3, <1>4 DEF TypeInv

LEMMA ArchiveType ==
  ASSUME TypeInv, NEW c \in Clients, Archive(c)
  PROVE  TypeInv'
<1>1. /\ QueueOK' /\ DeliveredOK' /\ TimerOK' /\ WakesOK' /\ FlagsOK'
      /\ WorkersOK' /\ AcceptedOK' /\ HandedOK' /\ SetsOK'
  BY Frames DEF Archive, history, procVars
<1>2. ClientsOK'
  BY ClientType DEF Archive, ClientPCs, WithInput, Modes
<1>3. BoundsOK'
  BY CommandType DEF Archive
<1>4. RunOK'
  BY DEF Archive, Aborted, TypeInv, RunOK, RunStates
<1>5. QED
  BY <1>1, <1>2, <1>3, <1>4 DEF TypeInv

LEMMA ArchiveTimesOutType ==
  ASSUME TypeInv, NEW c \in Clients, ArchiveTimesOut(c)
  PROVE  TypeInv'
<1>1. /\ QueueOK' /\ DeliveredOK' /\ TimerOK' /\ WakesOK' /\ FlagsOK'
      /\ WorkersOK' /\ RunOK' /\ AcceptedOK' /\ HandedOK' /\ SetsOK'
  BY Frames DEF ArchiveTimesOut, history, procVars
<1>2. ClientsOK'
  BY ReturnType DEF ArchiveTimesOut
<1>3. BoundsOK'
  BY FailType DEF ArchiveTimesOut
<1>4. QED
  BY <1>1, <1>2, <1>3 DEF TypeInv

LEMMA ArchiveMarkType ==
  ASSUME TypeInv, NEW c \in Clients, ArchiveMark(c)
  PROVE  TypeInv'
<1>1. /\ QueueOK' /\ DeliveredOK' /\ TimerOK' /\ WakesOK' /\ FlagsOK'
      /\ WorkersOK' /\ BoundsOK' /\ AcceptedOK' /\ HandedOK' /\ SetsOK'
  BY Frames DEF ArchiveMark, history, procVars
<1>2. ClientsOK'
  BY ClientType DEF ArchiveMark, ClientPCs, WithInput, Modes
<1>3. RunOK'
  BY DEF ArchiveMark, TypeInv, RunOK
<1>4. QED
  BY <1>1, <1>2, <1>3 DEF TypeInv

LEMMA ArchiveClearType ==
  ASSUME TypeInv, NEW c \in Clients, ArchiveClear(c)
  PROVE  TypeInv'
<1>1. /\ DeliveredOK' /\ WakesOK' /\ WorkersOK' /\ RunOK'
      /\ BoundsOK' /\ AcceptedOK' /\ HandedOK'
  BY Frames DEF ArchiveClear, history, procVars
<1>2. ClientsOK'
  BY ReturnType DEF ArchiveClear
<1>3. QueueOK' /\ TimerOK' /\ FlagsOK' /\ SetsOK'
  BY DropAllType DEF ArchiveClear
<1>4. QED
  BY <1>1, <1>2, <1>3 DEF TypeInv

LEMMA FireWakeType ==
  ASSUME TypeInv, FireWake
  PROVE  TypeInv'
<1>1. /\ QueueOK' /\ DeliveredOK' /\ TimerOK' /\ ClientsOK' /\ RunOK'
      /\ BoundsOK' /\ AcceptedOK' /\ HandedOK' /\ SetsOK'
  BY Frames DEF FireWake, history, procVars
<1>2. WakesOK'
  BY ConstantsAssumption DEF FireWake, TypeInv, WakesOK
<1>3. FlagsOK' /\ WorkersOK'
  BY TriggerType DEF FireWake
<1>4. QED
  BY <1>1, <1>2, <1>3 DEF TypeInv

LEMMA ElapseType ==
  ASSUME TypeInv, NEW i \in Ids, Elapse(i)
  PROVE  TypeInv'
<1>1. /\ DeliveredOK' /\ TimerOK' /\ WakesOK' /\ FlagsOK' /\ WorkersOK' /\ ClientsOK'
      /\ RunOK' /\ BoundsOK' /\ AcceptedOK' /\ HandedOK' /\ SetsOK'
  BY Frames DEF Elapse, history, procVars
<1>2. QueueOK'
  <2>1. PICK k \in 1..Len(queue) : queue' = [queue EXCEPT ![k] = Due(queue[k])]
    BY DEF Elapse
  <2>2. Due(queue[k]) \in Item
    BY QueueItems, ItemOps
  <2>3. queue' \in Seq(Item)
    BY <2>1, <2>2, QueueItems
  <2>4. QED
    BY <2>3 DEF Elapse, TypeInv, QueueOK
<1>3. QED
  BY <1>1, <1>2 DEF TypeInv

LEMMA TimerFiresType ==
  ASSUME TypeInv, TimerFires
  PROVE  TypeInv'
<1>1. /\ QueueOK' /\ DeliveredOK' /\ FlagsOK' /\ WorkersOK' /\ ClientsOK'
      /\ RunOK' /\ BoundsOK' /\ AcceptedOK' /\ HandedOK' /\ SetsOK'
  BY Frames DEF TimerFires, history, procVars
<1>2. TimerOK'
  BY DEF TimerFires, TimerOK
<1>3. WakesOK'
  BY WakeType DEF TimerFires
<1>4. QED
  BY <1>1, <1>2, <1>3 DEF TypeInv

LEMMA RunBlocksType ==
  ASSUME TypeInv, RunBlocks
  PROVE  TypeInv'
<1>1. /\ QueueOK' /\ DeliveredOK' /\ TimerOK' /\ WakesOK' /\ FlagsOK' /\ WorkersOK'
      /\ ClientsOK' /\ BoundsOK' /\ AcceptedOK' /\ HandedOK' /\ SetsOK'
  BY Frames DEF RunBlocks, history, procVars
<1>2. RunOK'
  BY DEF RunBlocks, TypeInv, RunOK, RunStates
<1>3. QED
  BY <1>1, <1>2 DEF TypeInv

LEMMA RunUnblocksType ==
  ASSUME TypeInv, RunUnblocks
  PROVE  TypeInv'
<1>1. /\ QueueOK' /\ DeliveredOK' /\ TimerOK' /\ FlagsOK' /\ WorkersOK'
      /\ ClientsOK' /\ BoundsOK' /\ AcceptedOK' /\ HandedOK' /\ SetsOK'
  BY Frames DEF RunUnblocks, history, procVars
<1>2. RunOK'
  BY DEF RunUnblocks, TypeInv, RunOK, RunStates
<1>3. WakesOK'
  BY WakeType DEF RunUnblocks
<1>4. QED
  BY <1>1, <1>2, <1>3 DEF TypeInv

LEMMA RunDoneType ==
  ASSUME TypeInv, RunDone
  PROVE  TypeInv'
<1>1. /\ QueueOK' /\ DeliveredOK' /\ TimerOK' /\ WakesOK' /\ FlagsOK'
      /\ WorkersOK' /\ AcceptedOK' /\ HandedOK' /\ SetsOK'
  BY Frames DEF RunDone, history, procVars
<1>2. RunOK'
  BY DEF RunDone, TypeInv, RunOK, RunStates
<1>3. ClientsOK'
  <2>1. \A c \in Clients : cl[c] \in [pc : ClientPCs, id : Ids \cup {NoOne}, mode : Modes]
    BY DEF TypeInv, ClientsOK
  <2> DEFINE marked(c) == IF cl[c].pc = "archiveStop" THEN [cl[c] EXCEPT !.pc = "archiveMark"] ELSE cl[c]
  <2>2. \A c \in Clients : marked(c) \in [pc : ClientPCs, id : Ids \cup {NoOne}, mode : Modes]
    BY <2>1 DEF ClientPCs
  <2>3. \A c \in Clients : marked(c).pc \in WithInput => marked(c).id \in Ids
    BY <2>1 DEF TypeInv, ClientsOK, WithInput
  <2>4. cl' = [c \in Clients |-> marked(c)]
    BY DEF RunDone
  <2> HIDE DEF marked
  <2>5. QED
    BY <2>2, <2>3, <2>4 DEF ClientsOK
<1>4. BoundsOK'
  BY FailType, Frames DEF RunDone
<1>5. QED
  BY <1>1, <1>2, <1>3, <1>4 DEF TypeInv

LEMMA ReleaseRunType ==
  ASSUME TypeInv, ReleaseRun
  PROVE  TypeInv'
<1>1. /\ QueueOK' /\ DeliveredOK' /\ TimerOK' /\ FlagsOK' /\ WorkersOK'
      /\ ClientsOK' /\ BoundsOK' /\ AcceptedOK' /\ HandedOK'
  BY Frames DEF ReleaseRun, history, procVars
<1>2. RunOK'
  BY DEF ReleaseRun, TypeInv, RunOK, RunStates
<1>3. WakesOK'
  BY WakeType DEF ReleaseRun
<1>4. SetsOK'
  BY DEF ReleaseRun, TypeInv, SetsOK
<1>5. QED
  BY <1>1, <1>2, <1>3, <1>4 DEF TypeInv

LEMMA ToolEndsType ==
  ASSUME TypeInv, ToolEnds
  PROVE  TypeInv'
<1>1. /\ QueueOK' /\ DeliveredOK' /\ TimerOK' /\ FlagsOK' /\ WorkersOK'
      /\ ClientsOK' /\ BoundsOK' /\ AcceptedOK' /\ HandedOK' /\ SetsOK'
  BY Frames DEF ToolEnds, history, procVars
<1>2. RunOK'
  BY DEF ToolEnds, TypeInv, RunOK, RunStates
<1>3. WakesOK'
  BY WakeType, Frames DEF ToolEnds
<1>4. QED
  BY <1>1, <1>2, <1>3 DEF TypeInv

LEMMA AutoRetryType ==
  ASSUME TypeInv, AutoRetry
  PROVE  TypeInv'
<1>1. /\ QueueOK' /\ DeliveredOK' /\ TimerOK' /\ FlagsOK' /\ WorkersOK'
      /\ ClientsOK' /\ AcceptedOK' /\ HandedOK' /\ SetsOK'
  BY Frames DEF AutoRetry, history, procVars
<1>2. RunOK'
  BY DEF AutoRetry, GiveUpRetry, TypeInv, RunOK, RunStates, StartRun
<1>3. WakesOK' /\ BoundsOK'
  BY WakeType, FailType, Frames DEF AutoRetry, GiveUpRetry
<1>4. QED
  BY <1>1, <1>2, <1>3 DEF TypeInv

LEMMA UpdateRetryType ==
  ASSUME TypeInv, UpdateRetry
  PROVE  TypeInv'
<1>1. /\ QueueOK' /\ DeliveredOK' /\ TimerOK' /\ FlagsOK' /\ WorkersOK'
      /\ ClientsOK' /\ AcceptedOK' /\ HandedOK' /\ SetsOK'
  BY Frames DEF UpdateRetry, history, procVars
<1>2. RunOK'
  BY DEF UpdateRetry, TypeInv, RunOK, RunStates
<1>3. WakesOK' /\ BoundsOK'
  BY WakeType, CommandType, Frames DEF UpdateRetry
<1>4. QED
  BY <1>1, <1>2, <1>3 DEF TypeInv

LEMMA OtherRunType ==
  ASSUME TypeInv, OtherRun
  PROVE  TypeInv'
<1>1. /\ QueueOK' /\ DeliveredOK' /\ TimerOK' /\ WakesOK' /\ FlagsOK'
      /\ WorkersOK' /\ ClientsOK' /\ AcceptedOK' /\ HandedOK'
  BY Frames DEF OtherRun, history, procVars
<1>2. RunOK'
  BY DEF OtherRun, TypeInv, RunOK, RunStates, StartRun
<1>3. BoundsOK'
  BY CommandType DEF OtherRun
<1>4. SetsOK'
  BY PassQueueType DEF OtherRun
<1>5. QED
  BY <1>1, <1>2, <1>3, <1>4 DEF TypeInv

-----------------------------------------------------------------------------
(* The processor: between peek and finish it holds an item.                *)

LEMMA Holding ==
  ASSUME TypeInv, NEW w \in Workers
  PROVE  /\ wpc[w] \in HoldingPCs => held[w] \in Item /\ held[w].id \in Ids
         /\ held[w] \in Item \cup {NoItem}
<1>1. /\ wpc[w] \in HoldingPCs => held[w] \in Item
      /\ held[w] \in Item \cup {NoItem}
  BY DEF TypeInv, WorkersOK
<1>2. QED
  BY <1>1 DEF Item

LEMMA PeekType ==
  ASSUME TypeInv, NEW w \in Workers, Peek(w)
  PROVE  TypeInv'
<1>1. /\ QueueOK' /\ DeliveredOK' /\ WakesOK' /\ FlagsOK' /\ ClientsOK'
      /\ RunOK' /\ BoundsOK' /\ AcceptedOK' /\ HandedOK' /\ SetsOK'
  BY Frames DEF Peek, history, procVars
<1>2. TimerOK'
  BY Frames DEF Peek, TimerOK
<1>3. WorkersOK'
  <2> USE DEF WorkerPCs, HoldingPCs, ActivePCs, ClaimPCs, CallPCs, PrependPCs
  <2>1. CASE Go(w, "finish") /\ UNCHANGED held
    BY <2>1, GoesType
  <2>2. CASE ~(Go(w, "finish") /\ UNCHANGED held)
    <3>1. queue # <<>> /\ Hold(w, Head(queue))
          /\ \E pc \in {"arm", "claimReceipt", "readRun"} : Go(w, pc)
      BY <2>2 DEF Peek
    <3>2. QED
      BY <3>1, Heads, HoldsType
  <2>3. QED
    BY <2>1, <2>2
<1>4. QED
  BY <1>1, <1>2, <1>3 DEF TypeInv

LEMMA ArmType ==
  ASSUME TypeInv, NEW w \in Workers, Arm(w)
  PROVE  TypeInv'
<1>1. /\ QueueOK' /\ DeliveredOK' /\ WakesOK' /\ ClientsOK' /\ RunOK'
      /\ BoundsOK' /\ AcceptedOK' /\ HandedOK' /\ SetsOK'
  BY Frames DEF Arm, history, procVars
<1>2. TimerOK'
  BY Holding, Frames DEF Arm, TimerOK, TypeInv, WorkerPCs, HoldingPCs, ActivePCs, ClaimPCs, CallPCs, PrependPCs
<1>3. FlagsOK'
  BY DEF Arm, TypeInv, FlagsOK
<1>4. WorkersOK'
  BY GoesType, Holding DEF Arm, WorkerPCs, HoldingPCs, ActivePCs, ClaimPCs, CallPCs, PrependPCs
<1>5. QED
  BY <1>1, <1>2, <1>3, <1>4 DEF TypeInv

LEMMA ReadRunType ==
  ASSUME TypeInv, NEW w \in Workers, ReadRun(w)
  PROVE  TypeInv'
<1>1. /\ QueueOK' /\ DeliveredOK' /\ WakesOK' /\ FlagsOK' /\ ClientsOK'
      /\ RunOK' /\ BoundsOK' /\ AcceptedOK' /\ HandedOK' /\ SetsOK'
  BY Frames DEF ReadRun, history, procVars
<1>2. TimerOK'
  BY DEF ReadRun, TypeInv, TimerOK
<1>3. WorkersOK'
  <2> USE DEF WorkerPCs, HoldingPCs, ActivePCs, ClaimPCs, CallPCs, PrependPCs
  <2>1. \E pc \in {"getSession", "claimPi", "claimSteer", "finish"} : Go(w, pc)
    BY DEF ReadRun
  <2>2. held[w] \in Item /\ UNCHANGED held
    BY Holding DEF ReadRun
  <2>3. QED
    BY <2>1, <2>2, GoesType
<1>4. QED
  BY <1>1, <1>2, <1>3 DEF TypeInv

LEMMA GetSessionType ==
  ASSUME TypeInv, NEW w \in Workers, GetSession(w)
  PROVE  TypeInv'
<1>1. /\ DeliveredOK' /\ WakesOK' /\ ClientsOK'
      /\ RunOK' /\ AcceptedOK' /\ HandedOK'
  BY Frames DEF GetSession, history, procVars
<1>2. QueueOK' /\ TimerOK' /\ FlagsOK' /\ SetsOK'
  BY DropAllType, Frames DEF GetSession
<1>3. BoundsOK'
  BY FailType, Frames DEF GetSession
<1>4. WorkersOK'
  <2> USE DEF WorkerPCs, HoldingPCs, ActivePCs, ClaimPCs, CallPCs, PrependPCs
  <2>1. \E pc \in {"finish", "claimDispatch"} : Go(w, pc)
    BY DEF GetSession
  <2>2. held[w] \in Item /\ UNCHANGED held
    BY Holding DEF GetSession
  <2>3. QED
    BY <2>1, <2>2, GoesType
<1>5. QED
  BY <1>1, <1>2, <1>3, <1>4 DEF TypeInv

LEMMA ClaimType ==
  ASSUME TypeInv, NEW w \in Workers, Claim(w)
  PROVE  TypeInv'
<1>1. /\ DeliveredOK' /\ WakesOK' /\ FlagsOK' /\ ClientsOK'
      /\ RunOK' /\ BoundsOK' /\ AcceptedOK' /\ HandedOK'
  BY Frames DEF Claim, history, procVars
<1>2. QueueOK'
  <2>1. CASE UNCHANGED queueVars
    BY <2>1, Frames
  <2>2. CASE ~UNCHANGED queueVars
    BY <2>2, Heads, ShowType DEF Claim
  <2>3. QED
    BY <2>1, <2>2
<1>3. TimerOK' /\ SetsOK'
  <2>1. TimerOK'
    BY DEF Claim, TypeInv, TimerOK
  <2>2. SetsOK'
    BY DEF Claim, TypeInv, SetsOK
  <2>3. QED
    BY <2>1, <2>2
<1>4. WorkersOK'
  <2> USE DEF WorkerPCs, HoldingPCs, ActivePCs, ClaimPCs, CallPCs, PrependPCs
  <2>1. CASE Go(w, "peek") /\ UNCHANGED held
    BY <2>1, GoesType
  <2>2. CASE ~(Go(w, "peek") /\ UNCHANGED held)
    <3>1. queue # <<>> /\ Hold(w, Head(queue)) /\ Go(w, AfterClaim[wpc[w]])
      BY <2>2 DEF Claim
    <3>2. AfterClaim[wpc[w]] \in HoldingPCs
      BY DEF Claim, AfterClaim
    <3>3. QED
      BY <3>1, <3>2, Heads, HoldsType
  <2>3. QED
    BY <2>1, <2>2
<1>5. QED
  BY <1>1, <1>2, <1>3, <1>4 DEF TypeInv

LEMMA PersistType ==
  ASSUME TypeInv, NEW w \in Workers, Persist(w)
  PROVE  TypeInv'
<1>1. /\ QueueOK' /\ DeliveredOK' /\ TimerOK' /\ WakesOK' /\ FlagsOK'
      /\ ClientsOK' /\ RunOK' /\ AcceptedOK' /\ HandedOK' /\ SetsOK'
  BY Frames DEF Persist, history, procVars
<1>2. BoundsOK'
  BY FailType, Frames DEF Persist
<1>3. WorkersOK'
  <2> USE DEF WorkerPCs, HoldingPCs, ActivePCs, ClaimPCs, CallPCs, PrependPCs
  <2>1. held[w] \in Item
    BY Holding DEF Persist
  <2>2. /\ \E pc \in {"peek", "prependArm"} : Go(w, pc)
        /\ UNCHANGED held \/ \E x \in {Later(held[w])} : Hold(w, x)
    BY DEF Persist
  <2>3. CASE UNCHANGED held
    BY <2>1, <2>2, <2>3, GoesType
  <2>4. CASE ~UNCHANGED held
    BY <2>1, <2>2, <2>4, ItemOps, HoldsType
  <2>5. QED
    BY <2>3, <2>4
<1>4. QED
  BY <1>1, <1>2, <1>3 DEF TypeInv

LEMMA SteerType ==
  ASSUME TypeInv, NEW w \in Workers, Steer(w)
  PROVE  TypeInv'
<1>1. /\ QueueOK' /\ DeliveredOK' /\ TimerOK' /\ WakesOK' /\ FlagsOK'
      /\ ClientsOK' /\ RunOK' /\ AcceptedOK' /\ SetsOK'
  BY Frames DEF Steer, history, procVars
<1>2. HandedOK'
  <2>1. held[w].id \in Ids
    BY Holding DEF Steer, HoldingPCs, ActivePCs, CallPCs
  <2>2. handed' = handed \/ handed' = Append(handed, held[w].id)
    BY DEF Steer
  <2>3. QED
    BY <2>1, <2>2, AppendType DEF TypeInv, HandedOK
<1>3. BoundsOK'
  BY FailType, Frames DEF Steer
<1>4. WorkersOK'
  <2> USE DEF WorkerPCs, HoldingPCs, ActivePCs, ClaimPCs, CallPCs, PrependPCs
  <2>1. held[w] \in Item
    BY Holding DEF Steer
  <2>2. /\ \E pc \in {"markSteer", "prependPeek", "prependArm", "prependStop"} : Go(w, pc)
        /\ UNCHANGED held \/ \E x \in {Due(held[w]), Later(held[w]), Failed(held[w])} : Hold(w, x)
    BY DEF Steer
  <2>3. CASE UNCHANGED held
    BY <2>1, <2>2, <2>3, GoesType
  <2>4. CASE ~UNCHANGED held
    BY <2>1, <2>2, <2>4, ItemOps, HoldsType
  <2>5. QED
    BY <2>3, <2>4
<1>5. QED
  BY <1>1, <1>2, <1>3, <1>4 DEF TypeInv

LEMMA PiSendType ==
  ASSUME TypeInv, NEW w \in Workers, PiSend(w)
  PROVE  TypeInv'
<1>1. /\ QueueOK' /\ DeliveredOK' /\ TimerOK' /\ WakesOK' /\ FlagsOK'
      /\ ClientsOK' /\ RunOK' /\ AcceptedOK' /\ SetsOK'
  BY Frames DEF PiSend, history, procVars
<1>2. HandedOK'
  <2>1. held[w].id \in Ids
    BY Holding DEF PiSend, HoldingPCs, ActivePCs, CallPCs
  <2>2. handed' = handed \/ handed' = Append(handed, held[w].id)
    BY DEF PiSend
  <2>3. QED
    BY <2>1, <2>2, AppendType DEF TypeInv, HandedOK
<1>3. BoundsOK'
  BY FailType, Frames DEF PiSend
<1>4. WorkersOK'
  <2> USE DEF WorkerPCs, HoldingPCs, ActivePCs, ClaimPCs, CallPCs, PrependPCs
  <2>1. held[w] \in Item
    BY Holding DEF PiSend
  <2>2. /\ \E pc \in {"markPi", "prependStop"} : Go(w, pc)
        /\ UNCHANGED held \/ \E x \in {Failed(held[w])} : Hold(w, x)
    BY DEF PiSend
  <2>3. CASE UNCHANGED held
    BY <2>1, <2>2, <2>3, GoesType
  <2>4. CASE ~UNCHANGED held
    BY <2>1, <2>2, <2>4, ItemOps, HoldsType
  <2>5. QED
    BY <2>3, <2>4
<1>5. QED
  BY <1>1, <1>2, <1>3, <1>4 DEF TypeInv

LEMMA DispatchType ==
  ASSUME TypeInv, NEW w \in Workers, Dispatch(w)
  PROVE  TypeInv'
<1>1. /\ QueueOK' /\ DeliveredOK' /\ TimerOK' /\ WakesOK' /\ FlagsOK'
      /\ ClientsOK' /\ BoundsOK' /\ AcceptedOK' /\ HandedOK'
  BY Frames DEF Dispatch, history, procVars
<1>2. SetsOK'
  <2>1. held[w].id \in Ids
    BY Holding DEF Dispatch, HoldingPCs, ActivePCs, CallPCs
  <2>2. QED
    BY <2>1 DEF Dispatch, TypeInv, SetsOK
<1>3. RunOK'
  BY DEF Dispatch, StopsRetry, TypeInv, RunOK
<1>4. WorkersOK'
  <2> USE DEF WorkerPCs, HoldingPCs, ActivePCs, ClaimPCs, CallPCs, PrependPCs
  <2>1. /\ held[w] \in Item /\ UNCHANGED held
        /\ \E pc \in {"prependStop", "prependPeek", "dispatching"} : Go(w, pc)
    BY Holding DEF Dispatch
  <2>2. QED
    BY <2>1, GoesType
<1>5. QED
  BY <1>1, <1>2, <1>3, <1>4 DEF TypeInv

LEMMA DispatchedType ==
  ASSUME TypeInv, NEW w \in Workers, Dispatched(w)
  PROVE  TypeInv'
<1>1. /\ QueueOK' /\ DeliveredOK' /\ TimerOK' /\ WakesOK'
      /\ FlagsOK' /\ ClientsOK' /\ AcceptedOK'
  BY Frames DEF Dispatched, history, procVars
<1>2. SetsOK'
  <2>1. held[w].id \in Ids
    BY Holding DEF Dispatched, HoldingPCs, ActivePCs, CallPCs
  <2>2. QED
    BY <2>1 DEF Dispatched, TypeInv, SetsOK
<1>3. HandedOK'
  <2>1. held[w].id \in Ids
    BY Holding DEF Dispatched, HoldingPCs, ActivePCs, CallPCs
  <2>2. handed' = handed \/ handed' = Append(handed, held[w].id)
    BY DEF Dispatched
  <2>3. QED
    BY <2>1, <2>2, AppendType DEF TypeInv, HandedOK
<1>4. RunOK'
  BY DEF Dispatched, StartRun, TypeInv, RunOK, RunStates
<1>5. BoundsOK'
  BY FailType, Frames DEF Dispatched
<1>6. WorkersOK'
  <2> USE DEF WorkerPCs, HoldingPCs, ActivePCs, ClaimPCs, CallPCs, PrependPCs
  <2>1. /\ held[w] \in Item /\ UNCHANGED held
        /\ \E pc \in {"markDispatch", "prependStop"} : Go(w, pc)
    BY Holding DEF Dispatched
  <2>2. QED
    BY <2>1, GoesType
<1>7. QED
  BY <1>1, <1>2, <1>3, <1>4, <1>5, <1>6 DEF TypeInv

LEMMA MarkType ==
  ASSUME TypeInv, NEW w \in Workers, Mark(w)
  PROVE  TypeInv'
<1>1. /\ QueueOK' /\ TimerOK' /\ WakesOK' /\ FlagsOK' /\ ClientsOK'
      /\ RunOK' /\ BoundsOK' /\ AcceptedOK' /\ HandedOK' /\ SetsOK'
  BY Frames DEF Mark, history, procVars
<1>2. DeliveredOK'
  <2>1. held[w].id \in Ids
    BY Holding DEF Mark, HoldingPCs, ActivePCs, CallPCs
  <2>2. QED
    BY <2>1, RememberType DEF Mark, TypeInv, DeliveredOK
<1>3. WorkersOK'
  <2> USE DEF WorkerPCs, HoldingPCs, ActivePCs, ClaimPCs, CallPCs, PrependPCs
  <2>1. held[w] \in Item
    BY Holding DEF Mark
  <2>2. /\ \E pc \in {"persist", "peek"} : Go(w, pc)
        /\ UNCHANGED held \/ \E x \in {Accepted(held[w])} : Hold(w, x)
    BY DEF Mark
  <2>3. CASE UNCHANGED held
    BY <2>1, <2>2, <2>3, GoesType
  <2>4. CASE ~UNCHANGED held
    BY <2>1, <2>2, <2>4, ItemOps, HoldsType
  <2>5. QED
    BY <2>3, <2>4
<1>4. QED
  BY <1>1, <1>2, <1>3 DEF TypeInv

LEMMA PrependType ==
  ASSUME TypeInv, NEW w \in Workers, Prepend(w)
  PROVE  TypeInv'
<1>1. /\ DeliveredOK' /\ TimerOK' /\ WakesOK' /\ FlagsOK' /\ ClientsOK'
      /\ RunOK' /\ BoundsOK' /\ AcceptedOK' /\ HandedOK' /\ SetsOK'
  BY Frames DEF Prepend, history, procVars
<1>2. QueueOK'
  <2>1. held[w] \in Item
    BY Holding DEF Prepend, HoldingPCs, ActivePCs, PrependPCs
  <2>2. queue \in Seq(Item)
    BY QueueItems
  <2>3. PutBack(held[w]) \in Seq(Item)
    BY <2>1, <2>2 DEF PutBack
  <2>4. QED
    BY <2>3, ShowType DEF Prepend
<1>3. WorkersOK'
  <2> USE DEF WorkerPCs, HoldingPCs, ActivePCs, ClaimPCs, CallPCs, PrependPCs
  <2>1. AfterPrepend[wpc[w]] \in {"arm", "peek", "finish"}
    BY DEF Prepend, AfterPrepend
  <2>2. held[w] \in Item /\ UNCHANGED held /\ Go(w, AfterPrepend[wpc[w]])
    BY Holding DEF Prepend
  <2>3. QED
    BY <2>1, <2>2, GoesType
<1>4. QED
  BY <1>1, <1>2, <1>3 DEF TypeInv

LEMMA FinishType ==
  ASSUME TypeInv, NEW w \in Workers, Finish(w)
  PROVE  TypeInv'
<1>1. /\ QueueOK' /\ DeliveredOK' /\ TimerOK' /\ WakesOK' /\ ClientsOK'
      /\ RunOK' /\ BoundsOK' /\ AcceptedOK' /\ HandedOK' /\ SetsOK'
  BY Frames DEF Finish, history, procVars
<1>2. FlagsOK'
  BY DEF Finish, FlagsOK
<1>3. WorkersOK'
  <2> USE DEF WorkerPCs, HoldingPCs, ActivePCs, ClaimPCs, CallPCs, PrependPCs
  <2>1. Hold(w, NoItem) /\ \E pc \in {"restart", "idle"} : Go(w, pc)
    BY DEF Finish
  <2>2. QED
    BY <2>1, HoldsType
<1>4. QED
  BY <1>1, <1>2, <1>3 DEF TypeInv

LEMMA RestartType ==
  ASSUME TypeInv, NEW w \in Workers, Restart(w)
  PROVE  TypeInv'
<1>1. /\ QueueOK' /\ DeliveredOK' /\ TimerOK' /\ WakesOK' /\ ClientsOK'
      /\ RunOK' /\ BoundsOK' /\ AcceptedOK' /\ HandedOK' /\ SetsOK'
  BY Frames DEF Restart, history, procVars
<1>2. FlagsOK'
  BY DEF Restart, TypeInv, FlagsOK
<1>3. WorkersOK'
  <2> USE DEF WorkerPCs, HoldingPCs, ActivePCs, ClaimPCs, CallPCs, PrependPCs
  <2>1. UNCHANGED held /\ \E pc \in {"peek", "idle"} : Go(w, pc)
    BY DEF Restart
  <2>2. QED
    BY <2>1, GoesType
<1>4. QED
  BY <1>1, <1>2, <1>3 DEF TypeInv

-----------------------------------------------------------------------------
LEMMA TypeStep == TypeInv /\ [Next]_vars => TypeInv'
<1> SUFFICES ASSUME TypeInv, [Next]_vars PROVE TypeInv'
  OBVIOUS
<1>1. ASSUME NEW c \in Clients, ClientCommand(c) PROVE TypeInv'
  BY <1>1, SendType, SendDirectType, ReorderType, RemovePendingType, UpdateType, ClearType, AbortType, ArchiveType
     DEF ClientCommand
<1>2. ASSUME NEW c \in Clients, ClientStep(c) PROVE TypeInv'
  BY <1>2, ChooseType, EnqueueType, ClientDispatchType, ClientDispatchedType, MoveType, CancelType,
     CancelOnlyType, ExpireHeadRedirectType, ArchiveTimesOutType, ArchiveMarkType,
     ArchiveClearType DEF ClientStep
<1>3. ASSUME NEW w \in Workers, Processor(w) PROVE TypeInv'
  BY <1>3, PeekType, ArmType, ReadRunType, GetSessionType, ClaimType, PersistType, SteerType,
     PiSendType, DispatchType, DispatchedType, MarkType, PrependType, FinishType, RestartType
     DEF Processor
<1>4. ASSUME \/ \E i \in Ids : Elapse(i)
             \/ FireWake \/ TimerFires \/ AutoRetry \/ UpdateRetry \/ OtherRun
             \/ RunBlocks \/ RunUnblocks \/ ToolEnds \/ RunDone \/ ReleaseRun
      PROVE  TypeInv'
  BY <1>4, ElapseType, FireWakeType, TimerFiresType, AutoRetryType, UpdateRetryType,
     OtherRunType, RunBlocksType, RunUnblocksType, ToolEndsType, RunDoneType, ReleaseRunType
<1>5. CASE UNCHANGED vars
  BY <1>5, Frames DEF vars, state, procVars, history, TypeInv
<1>6. QED
  BY <1>1, <1>2, <1>3, <1>4, <1>5 DEF Next

\* Every variable keeps its type, and the list of delivered ids its bound: see TypeOK.
THEOREM TypeCorrect == Spec => []TypeOK
<1>1. Init => agent \in Agents
  BY DEF Init
<1>2. agent \in Agents /\ [Next]_vars => (agent \in Agents)'
  BY DEF Next, vars
<1>3. QED
  BY <1>1, <1>2, TypeInit, TypeStep, TypeInvTypeOK, PTL DEF Spec

=============================================================================
