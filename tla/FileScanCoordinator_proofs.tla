--------------------- MODULE FileScanCoordinator_proofs ---------------------
(***************************************************************************)
(* Proofs about the file scan coordinator, for any roots, keys, callers,   *)
(* slots and bounds: what answers show and what is cached, how scans are   *)
(* limited, and that the coordinator implements FileScans.                 *)
(***************************************************************************)
EXTENDS FileScanCoordinator, FiniteSetTheorems, TLAPS

\* TypeOK without the bounds of slots, which need SlotsCounted.
Typed ==
  /\ world \in [Roots -> Versions] /\ valid \in [Roots -> Versions]
  /\ gens \in [Roots -> Generations]
  /\ cache \in [Keys -> [live : BOOLEAN, val : Versions, gen : Generations]]
  /\ flights \in [Keys -> [Generations -> Flight]]
  /\ slots \in Int /\ gates \in [Roots -> BOOLEAN]
  /\ calls \in [Callers -> Call]
  /\ changed \in [Mutators -> [busy : BOOLEAN, root : Roots, ver : Versions]]

\* Phases of a flight that has seen the repository, and the root of a key.
Started == {"run", "freeGate", "finish"}
Root(k) == RootOf[k]

\* What is announced or about to be announced has happened.
WorldInv ==
  /\ \A r \in Roots : valid[r] <= world[r]
  /\ \A m \in Mutators : changed[m].busy => changed[m].ver <= world[changed[m].root]

\* A cached version is not from the future, and a usable one is not older than what was announced.
CacheInv ==
  \A k \in Keys :
    /\ cache[k].val <= world[Root(k)]
    /\ cache[k].live /\ cache[k].gen = gens[Root(k)] => valid[Root(k)] <= cache[k].val

\* The same of a flight of the current generation, which also saw no less than what is cached
\* under its key; there is none of a later generation, and none fails before it runs.
FlightInv ==
  \A k \in Keys : \A g \in Generations :
    /\ flights[k][g].val <= world[Root(k)]
    /\ flights[k][g].pc # "none" => g <= gens[Root(k)]
    /\ flights[k][g].err => flights[k][g].pc \in {"freeGate", "finish"}
    /\ flights[k][g].pc \in Started /\ ~flights[k][g].err /\ g = gens[Root(k)] =>
         valid[Root(k)] <= flights[k][g].val /\ cache[k].val <= flights[k][g].val

\* Who waits has joined a flight that has not started or sees enough; who has an answer has a
\* right one.
CallInv ==
  \A c \in Callers :
    /\ calls[c].pc = "idle" => calls[c].key = NoKey /\ calls[c].floor = 0
    /\ calls[c].pc # "idle" => calls[c].key \in Keys
    /\ calls[c].pc = "wait" =>
         /\ calls[c].floor <= valid[Root(calls[c].key)]
         /\ LET f == flights[calls[c].key][calls[c].gen] IN
              f.pc \in Started /\ ~f.err => calls[c].floor <= f.val
    /\ calls[c].pc = "answer" /\ ~calls[c].err =>
         calls[c].floor <= calls[c].val /\ calls[c].val <= world[Root(calls[c].key)]

ScanInv == Typed /\ WorldInv /\ CacheInv /\ FlightInv /\ CallInv

-----------------------------------------------------------------------------
\* What an update of one flight leaves of the others.
LEMMA FlyFacts ==
  ASSUME Typed, NEW k \in Keys, NEW g \in Generations, NEW f \in Flight, Fly(k, g, f)
  PROVE  /\ flights' \in [Keys -> [Generations -> Flight]]
         /\ \A j \in Keys : \A h \in Generations :
              flights'[j][h] = IF j = k /\ h = g THEN f ELSE flights[j][h]
BY DEF Typed, Fly

LEMMA Numbers == Versions \subseteq Nat /\ Generations \subseteq Nat /\ 0 \in Versions /\ 0 \in Generations
BY ScanAssumption DEF ScanAssumption, Versions, Generations

\* ScanInv holds initially.
LEMMA ScanInit == Init => ScanInv
<1> SUFFICES ASSUME Init PROVE ScanInv
  OBVIOUS
<1> USE ScanAssumption, Numbers DEF ScanAssumption, Init
<1>1. Typed
  <2>1. NoFlight \in Flight
    BY DEF NoFlight, Flight, FlightPCs
  <2>2. Idle(0) \in Call
    BY DEF Idle, Call, CallPCs
  <2>3. Done \in [busy : BOOLEAN, root : Roots, ver : Versions]
    BY DEF Done
  <2>4. flights \in [Keys -> [Generations -> Flight]]
    BY <2>1
  <2>5. calls \in [Callers -> Call]
    BY <2>2
  <2>6. changed \in [Mutators -> [busy : BOOLEAN, root : Roots, ver : Versions]]
    BY <2>3
  <2>7. cache \in [Keys -> [live : BOOLEAN, val : Versions, gen : Generations]]
    OBVIOUS
  <2>8. world \in [Roots -> Versions] /\ valid \in [Roots -> Versions] /\ gens \in [Roots -> Generations]
    OBVIOUS
  <2>9. slots \in Int /\ gates \in [Roots -> BOOLEAN]
    OBVIOUS
  <2> HIDE DEF Init
  <2> QED BY <2>4, <2>5, <2>6, <2>7, <2>8, <2>9 DEF Typed
<1>2. WorldInv
  <2>1. ~Done.busy
    BY DEF Done
  <2> QED BY <2>1 DEF WorldInv
<1>3. CacheInv
  BY DEF CacheInv, Root
<1>4. FlightInv
  BY DEF FlightInv, Root, NoFlight, Started
<1>5. CallInv
  BY DEF CallInv, Idle, Started
<1> QED BY <1>1, <1>2, <1>3, <1>4, <1>5 DEF ScanInv

\* A flight that moves on keeps ScanInv if, once started, it shows the repository of now or no
\* less than it showed before.
LEMMA FlightMoves ==
  ASSUME ScanInv, NEW k \in Keys, NEW g \in Generations, NEW f \in Flight, Fly(k, g, f),
         UNCHANGED <<world, valid, gens, cache, calls, changed>>,
         slots' \in Int, gates' \in [Roots -> BOOLEAN],
         f.val <= world[Root(k)], f.pc # "none" => g <= gens[Root(k)],
         f.err => f.pc \in {"freeGate", "finish"},
         f.pc \in Started /\ ~f.err =>
           \/ f.val = world[Root(k)]
           \/ /\ flights[k][g].pc \in Started /\ ~flights[k][g].err
              /\ flights[k][g].val <= f.val
  PROVE  ScanInv'
<1> USE ScanAssumption, Numbers DEF ScanAssumption, ScanInv
<1>1. /\ flights' \in [Keys -> [Generations -> Flight]]
      /\ \A j \in Keys : \A h \in Generations :
           flights'[j][h] = IF j = k /\ h = g THEN f ELSE flights[j][h]
  BY FlyFacts
<1>2. Typed'
  BY <1>1 DEF Typed
<1>3. WorldInv' /\ CacheInv'
  BY DEF WorldInv, CacheInv
<1>4. /\ f.val \in Nat /\ flights[k][g].val \in Nat
      /\ \A r \in Roots : world[r] \in Nat /\ valid[r] \in Nat /\ valid[r] <= world[r]
      /\ \A j \in Keys : cache[j].val \in Nat /\ Root(j) \in Roots /\ cache[j].val <= world[Root(j)]
      /\ \A c \in Callers : calls[c].floor \in Nat /\ calls[c].gen \in Generations
  <2>1. flights[k][g] \in Flight
    BY DEF Typed
  <2>2. \A c \in Callers : calls[c] \in Call
    BY DEF Typed
  <2> QED BY <2>1, <2>2 DEF Typed, WorldInv, CacheInv, Flight, Call, Root
<1>5. FlightInv'
  <2>1. SUFFICES ASSUME NEW j \in Keys, NEW h \in Generations
                 PROVE  /\ flights'[j][h].val <= world[Root(j)]
                        /\ flights'[j][h].pc # "none" => h <= gens[Root(j)]
                        /\ flights'[j][h].err => flights'[j][h].pc \in {"freeGate", "finish"}
                        /\ flights'[j][h].pc \in Started /\ ~flights'[j][h].err /\ h = gens[Root(j)] =>
                             valid[Root(j)] <= flights'[j][h].val /\ cache[j].val <= flights'[j][h].val
    BY DEF FlightInv
  <2>2. CASE j = k /\ h = g
    BY <1>1, <1>4, <2>2 DEF FlightInv
  <2>3. CASE ~(j = k /\ h = g)
    BY <1>1, <2>3 DEF FlightInv
  <2> QED BY <2>2, <2>3
<1>6. CallInv'
  <2>1. SUFFICES ASSUME NEW c \in Callers, calls[c].pc = "wait",
                        flights'[calls[c].key][calls[c].gen].pc \in Started,
                        ~flights'[calls[c].key][calls[c].gen].err
                 PROVE  calls[c].floor <= flights'[calls[c].key][calls[c].gen].val
    BY DEF CallInv
  <2>2. calls[c].key \in Keys /\ calls[c].floor <= valid[Root(calls[c].key)]
    BY <2>1 DEF CallInv
  <2>3. CASE calls[c].key = k /\ calls[c].gen = g
    BY <1>1, <1>4, <2>1, <2>2, <2>3 DEF CallInv
  <2>4. CASE ~(calls[c].key = k /\ calls[c].gen = g)
    <3>1. flights'[calls[c].key][calls[c].gen] = flights[calls[c].key][calls[c].gen]
      BY <1>1, <1>4, <2>2, <2>4
    <3> QED BY <2>1, <3>1 DEF CallInv
  <2> QED BY <2>3, <2>4
<1> QED BY <1>2, <1>3, <1>5, <1>6

\* Taking the gate keeps ScanInv.
LEMMA AcquireGateScan ==
  ASSUME ScanInv, NEW k \in Keys, NEW g \in Generations, AcquireGate(k, g)
  PROVE  ScanInv'
<1> USE ScanAssumption, Numbers DEF ScanAssumption, ScanInv
<1> DEFINE f == [flights[k][g] EXCEPT !.pc = "slot"]
<1>1. flights[k][g] \in Flight /\ RootOf[k] \in Roots /\ world[RootOf[k]] \in Versions
  BY DEF Typed
<1>2. f.pc = "slot" /\ f.val = flights[k][g].val /\ f.err = flights[k][g].err /\ f \in Flight
  BY <1>1 DEF Flight, FlightPCs
<1>3. Fly(k, g, f)
  BY DEF AcquireGate
<1> HIDE DEF f
<1>4. f.val <= world[Root(k)] /\ g <= gens[Root(k)] /\ f.val \in Nat
  BY <1>1, <1>2 DEF AcquireGate, FlightInv, Versions, Flight, Root
<1>5. slots' \in Int /\ gates' \in [Roots -> BOOLEAN]
  BY DEF AcquireGate, Typed
<1>6. f.pc \in Started /\ ~f.err =>
        \/ f.val = world[Root(k)]
        \/ /\ flights[k][g].pc \in Started /\ ~flights[k][g].err
           /\ flights[k][g].val <= f.val
  BY <1>1, <1>2, <1>4 DEF AcquireGate, Started, Root
<1>7. f.err => f.pc \in {"freeGate", "finish"}
  BY <1>1, <1>2 DEF AcquireGate, FlightInv
<1> QED BY <1>2, <1>3, <1>4, <1>5, <1>6, <1>7, FlightMoves DEF AcquireGate

\* A scan that starts sees what was announced.
LEMMA AcquireSlotScan ==
  ASSUME ScanInv, NEW k \in Keys, NEW g \in Generations, AcquireSlot(k, g)
  PROVE  ScanInv'
<1> USE ScanAssumption, Numbers DEF ScanAssumption, ScanInv
<1> DEFINE f == [flights[k][g] EXCEPT !.pc = "run", !.val = world[RootOf[k]]]
<1>1. flights[k][g] \in Flight /\ RootOf[k] \in Roots /\ world[RootOf[k]] \in Versions
  BY DEF Typed
<1>2. f.pc = "run" /\ f.val = world[RootOf[k]] /\ f.err = flights[k][g].err /\ f \in Flight
  BY <1>1 DEF Flight, FlightPCs
<1>3. Fly(k, g, f)
  BY DEF AcquireSlot
<1> HIDE DEF f
<1>4. f.val <= world[Root(k)] /\ g <= gens[Root(k)] /\ f.val \in Nat
  BY <1>1, <1>2 DEF AcquireSlot, FlightInv, Versions, Flight, Root
<1>5. slots' \in Int /\ gates' \in [Roots -> BOOLEAN]
  BY DEF AcquireSlot, Typed
<1>6. f.pc \in Started /\ ~f.err =>
        \/ f.val = world[Root(k)]
        \/ /\ flights[k][g].pc \in Started /\ ~flights[k][g].err
           /\ flights[k][g].val <= f.val
  BY <1>1, <1>2, <1>4 DEF AcquireSlot, Started, Root
<1>7. f.err => f.pc \in {"freeGate", "finish"}
  BY <1>1, <1>2 DEF AcquireSlot, FlightInv
<1> QED BY <1>2, <1>3, <1>4, <1>5, <1>6, <1>7, FlightMoves DEF AcquireSlot

\* A flight that fails shows nothing.
LEMMA ExpireScan ==
  ASSUME ScanInv, NEW k \in Keys, NEW g \in Generations, Expire(k, g)
  PROVE  ScanInv'
<1> USE ScanAssumption, Numbers DEF ScanAssumption, ScanInv
<1> DEFINE f == [flights[k][g] EXCEPT !.pc = "finish", !.err = TRUE]
<1>1. flights[k][g] \in Flight /\ RootOf[k] \in Roots /\ world[RootOf[k]] \in Versions
  BY DEF Typed
<1>2. f.pc = "finish" /\ f.val = flights[k][g].val /\ f.err = TRUE /\ f \in Flight
  BY <1>1 DEF Flight, FlightPCs
<1>3. Fly(k, g, f)
  BY DEF Expire
<1> HIDE DEF f
<1>4. f.val <= world[Root(k)] /\ g <= gens[Root(k)] /\ f.val \in Nat
  BY <1>1, <1>2 DEF Expire, FlightInv, Versions, Flight, Root
<1>5. slots' \in Int /\ gates' \in [Roots -> BOOLEAN]
  BY DEF Expire, Typed
<1>6. f.pc \in Started /\ ~f.err =>
        \/ f.val = world[Root(k)]
        \/ /\ flights[k][g].pc \in Started /\ ~flights[k][g].err
           /\ flights[k][g].val <= f.val
  BY <1>1, <1>2, <1>4 DEF Expire, Started, Root
<1>7. f.err => f.pc \in {"freeGate", "finish"}
  BY <1>1, <1>2 DEF Expire, FlightInv
<1> QED BY <1>2, <1>3, <1>4, <1>5, <1>6, <1>7, FlightMoves DEF Expire

\* Opening the gate keeps ScanInv.
LEMMA ReleaseGateScan ==
  ASSUME ScanInv, NEW k \in Keys, NEW g \in Generations, ReleaseGate(k, g)
  PROVE  ScanInv'
<1> USE ScanAssumption, Numbers DEF ScanAssumption, ScanInv
<1> DEFINE f == [flights[k][g] EXCEPT !.pc = "finish"]
<1>1. flights[k][g] \in Flight /\ RootOf[k] \in Roots /\ world[RootOf[k]] \in Versions
  BY DEF Typed
<1>2. f.pc = "finish" /\ f.val = flights[k][g].val /\ f.err = flights[k][g].err /\ f \in Flight
  BY <1>1 DEF Flight, FlightPCs
<1>3. Fly(k, g, f)
  BY DEF ReleaseGate
<1> HIDE DEF f
<1>4. f.val <= world[Root(k)] /\ g <= gens[Root(k)] /\ f.val \in Nat
  BY <1>1, <1>2 DEF ReleaseGate, FlightInv, Versions, Flight, Root
<1>5. slots' \in Int /\ gates' \in [Roots -> BOOLEAN]
  BY DEF ReleaseGate, Typed
<1>6. f.pc \in Started /\ ~f.err =>
        \/ f.val = world[Root(k)]
        \/ /\ flights[k][g].pc \in Started /\ ~flights[k][g].err
           /\ flights[k][g].val <= f.val
  BY <1>1, <1>2, <1>4 DEF ReleaseGate, Started, Root
<1>7. f.err => f.pc \in {"freeGate", "finish"}
  BY <1>1, <1>2 DEF ReleaseGate, FlightInv
<1> QED BY <1>2, <1>3, <1>4, <1>5, <1>6, <1>7, FlightMoves DEF ReleaseGate

\* What a runner returned is no older than what it found when it started.
LEMMA ExecuteScan ==
  ASSUME ScanInv, NEW k \in Keys, NEW g \in Generations, Execute(k, g)
  PROVE  ScanInv'
<1> USE ScanAssumption, Numbers DEF ScanAssumption, ScanInv
<1>1. flights[k][g] \in Flight /\ RootOf[k] \in Roots /\ world[RootOf[k]] \in Versions
  BY DEF Typed
<1>2. slots' \in Int /\ gates' \in [Roots -> BOOLEAN]
  BY DEF Execute, Typed
<1>3. g <= gens[Root(k)]
  BY DEF Execute, FlightInv
<1>4. CASE Fly(k, g, [pc |-> "freeGate", val |-> 0, err |-> TRUE])
  <2> DEFINE f == [pc |-> "freeGate", val |-> 0, err |-> TRUE]
  <2>1. f \in Flight
    BY DEF Flight, FlightPCs
  <2>2. f.err /\ f.pc = "freeGate" /\ f.val = 0 /\ Fly(k, g, f)
    BY <1>4
  <2> HIDE DEF f
  <2>3. f.val <= world[Root(k)]
    BY <1>1, <2>2 DEF Root, Versions
  <2> QED BY <1>2, <1>3, <2>1, <2>2, <2>3, FlightMoves DEF Execute
<1>5. CASE \E v \in flights[k][g].val..world[RootOf[k]] :
             Fly(k, g, [pc |-> "freeGate", val |-> v, err |-> FALSE])
  <2>1. PICK v \in flights[k][g].val..world[RootOf[k]] :
          Fly(k, g, [pc |-> "freeGate", val |-> v, err |-> FALSE])
    BY <1>5
  <2> DEFINE f == [pc |-> "freeGate", val |-> v, err |-> FALSE]
  <2>2. v \in Versions /\ flights[k][g].val <= v /\ v <= world[Root(k)]
    BY <1>1, <2>1 DEF Flight, Root, Versions
  <2>3. f \in Flight /\ f.val = v /\ ~f.err
    BY <2>2 DEF Flight, FlightPCs
  <2>4. Fly(k, g, f)
    BY <2>1
  <2> HIDE DEF f
  <2>5. f.pc \in Started /\ ~f.err =>
          \/ flights[k][g].pc \in Started /\ ~flights[k][g].err /\ flights[k][g].val <= f.val
          \/ f.val = world[Root(k)]
    BY <2>2, <2>3 DEF Execute, Started, FlightInv
  <2> QED BY <1>2, <1>3, <2>2, <2>3, <2>4, <2>5, FlightMoves DEF Execute
<1> QED BY <1>4, <1>5 DEF Execute

\* An edit can only make the repository newer.
LEMMA EditScan ==
  ASSUME ScanInv, NEW r \in Roots, world[r] < MaxVersion,
         world' = [world EXCEPT ![r] = @ + 1],
         UNCHANGED <<valid, gens, cache, flights, slots, gates, calls>>,
         changed' \in [Mutators -> [busy : BOOLEAN, root : Roots, ver : Versions]],
         \A m \in Mutators : changed'[m].busy => changed'[m].ver <= world'[changed'[m].root]
  PROVE  ScanInv'
<1> USE ScanAssumption, Numbers DEF ScanAssumption, ScanInv
<1>1. /\ world' \in [Roots -> Versions]
      /\ \A q \in Roots : world[q] \in Nat /\ world'[q] \in Nat /\ world[q] <= world'[q]
  BY DEF Typed, Versions
<1>2. Typed'
  BY <1>1 DEF Typed
<1>3. /\ \A q \in Roots : valid[q] \in Nat
      /\ \A k \in Keys : cache[k].val \in Nat /\ Root(k) \in Roots
      /\ \A k \in Keys : \A g \in Generations : flights[k][g].val \in Nat
      /\ \A c \in Callers : calls[c].val \in Nat
  <2>1. \A k \in Keys : \A g \in Generations : flights[k][g] \in Flight
    BY DEF Typed
  <2>2. \A c \in Callers : calls[c] \in Call
    BY DEF Typed
  <2>3. \A k \in Keys : cache[k].val \in Nat /\ Root(k) \in Roots
    BY DEF Typed, Root
  <2> QED BY <2>1, <2>2, <2>3 DEF Typed, Flight, Call
<1>4. WorldInv' /\ CacheInv'
  BY <1>1, <1>3 DEF WorldInv, CacheInv
<1>5. FlightInv'
  <2>1. \A k \in Keys : \A g \in Generations : flights[k][g].val <= world'[Root(k)]
    BY <1>1, <1>3 DEF FlightInv
  <2> QED BY <2>1 DEF FlightInv
<1>6. CallInv'
  <2>1. ASSUME NEW c \in Callers, calls[c].pc = "answer", ~calls[c].err
        PROVE  calls[c].val <= world'[Root(calls[c].key)]
    BY <1>1, <1>3, <2>1 DEF CallInv
  <2> QED BY <2>1 DEF CallInv
<1> QED BY <1>2, <1>4, <1>5, <1>6

\* A mutator's change is one of the changes of the repository.
LEMMA MutateScan ==
  ASSUME ScanInv, NEW m \in Mutators, NEW r \in Roots, Mutate(m, r)
  PROVE  ScanInv'
<1> USE ScanAssumption, Numbers DEF ScanAssumption, ScanInv
<1>1. world[r] \in Nat /\ world[r] + 1 \in Versions /\ world'[r] = world[r] + 1
  BY DEF Mutate, Typed, Versions
<1> DEFINE new == [busy |-> TRUE, root |-> r, ver |-> world[r] + 1]
<1>2. new \in [busy : BOOLEAN, root : Roots, ver : Versions]
  BY <1>1
<1>3. /\ changed' \in [Mutators -> [busy : BOOLEAN, root : Roots, ver : Versions]]
      /\ \A n \in Mutators : changed'[n] = IF n = m THEN new ELSE changed[n]
  BY <1>2 DEF Mutate, Typed
<1>4. \A q \in Roots : world[q] \in Nat /\ world'[q] \in Nat /\ world[q] <= world'[q]
  BY DEF Mutate, Typed, Versions
<1>5. ASSUME NEW n \in Mutators, changed'[n].busy
      PROVE  changed'[n].ver <= world'[changed'[n].root]
  <2>1. CASE n = m
    BY <1>1, <1>3, <2>1
  <2>2. CASE n # m
    <3>1. changed'[n] = changed[n] /\ changed[n].ver \in Nat /\ changed[n].root \in Roots
      BY <1>3, <2>2 DEF Typed
    <3> QED BY <1>4, <1>5, <3>1 DEF WorldInv
  <2> QED BY <2>1, <2>2
<1> QED BY <1>3, <1>5, EditScan DEF Mutate

\* Dropping an entry keeps what is said of caches.
LEMMA AgeScan ==
  ASSUME ScanInv, NEW k \in Keys, Age(k)
  PROVE  ScanInv'
<1> USE ScanAssumption, Numbers DEF ScanAssumption, ScanInv
<1>1. cache[k].val \in Versions
  BY DEF Typed
<1>2. Dropped(k) \in [live : BOOLEAN, val : Versions, gen : Generations]
  BY <1>1 DEF Dropped
<1>3. /\ cache' \in [Keys -> [live : BOOLEAN, val : Versions, gen : Generations]]
      /\ \A j \in Keys : cache'[j].val = cache[j].val /\ (cache'[j].live => cache'[j] = cache[j])
  BY <1>2 DEF Age, Typed, Dropped
<1>4. Typed'
  BY <1>3 DEF Age, Typed
<1>5. WorldInv' /\ CacheInv'
  BY <1>3 DEF Age, WorldInv, CacheInv
<1>6. FlightInv' /\ CallInv'
  BY <1>3 DEF Age, FlightInv, CallInv
<1> QED BY <1>4, <1>5, <1>6

\* After an invalidation no cached version and no flight of the root is of the new generation.
LEMMA InvalidateScan ==
  ASSUME ScanInv, NEW m \in Mutators, Invalidate(m)
  PROVE  ScanInv'
<1> USE ScanAssumption, Numbers DEF ScanAssumption, ScanInv
<1> DEFINE r == changed[m].root
<1>1. r \in Roots /\ changed[m].ver \in Versions /\ changed[m].ver <= world[r]
  BY DEF Typed, WorldInv, Invalidate
<1>2. \A k \in Keys : Dropped(k) \in [live : BOOLEAN, val : Versions, gen : Generations]
  BY DEF Dropped, Typed
<1>3. /\ cache' \in [Keys -> [live : BOOLEAN, val : Versions, gen : Generations]]
      /\ \A k \in Keys : cache'[k].val = cache[k].val
      /\ \A k \in Keys : cache'[k].live => cache'[k] = cache[k] /\ Root(k) # r
  BY <1>2 DEF Invalidate, Typed, Dropped, Root
<1>4. Done \in [busy : BOOLEAN, root : Roots, ver : Versions] /\ ~Done.busy
  BY DEF Done
<1>5. /\ changed' \in [Mutators -> [busy : BOOLEAN, root : Roots, ver : Versions]]
      /\ \A n \in Mutators : changed'[n].busy => changed'[n] = changed[n]
  BY <1>4 DEF Invalidate, Typed
<1>6. /\ valid' \in [Roots -> Versions]
      /\ \A q \in Roots : /\ valid'[q] <= world[q] /\ valid[q] <= valid'[q]
                          /\ q # r => valid'[q] = valid[q]
  BY <1>1 DEF Invalidate, Typed, WorldInv, Versions
<1>7. /\ gens' \in [Roots -> Generations] /\ gens'[r] = gens[r] + 1
      /\ \A q \in Roots : gens[q] \in Nat /\ (q # r => gens'[q] = gens[q])
  BY <1>1 DEF Invalidate, Typed, Generations
<1>8. UNCHANGED <<world, flights, slots, gates, calls>>
  BY DEF Invalidate
<1> HIDE DEF r
<1>9. Typed'
  BY <1>3, <1>5, <1>6, <1>7, <1>8 DEF Typed
<1>10. WorldInv'
  BY <1>5, <1>6, <1>8 DEF WorldInv
<1>11. \A k \in Keys : Root(k) \in Roots
  BY DEF Root
<1>12. CacheInv'
  BY <1>3, <1>6, <1>7, <1>8, <1>11 DEF CacheInv
<1>13. FlightInv'
  <2>1. ASSUME NEW k \in Keys, NEW g \in Generations, flights[k][g].pc # "none"
        PROVE  /\ g <= gens'[Root(k)]
               /\ g = gens'[Root(k)] => g = gens[Root(k)] /\ valid'[Root(k)] = valid[Root(k)]
    <3>1. g \in Nat /\ g <= gens[Root(k)] /\ Root(k) \in Roots
      BY <1>11, <2>1 DEF FlightInv
    <3> QED BY <1>1, <1>6, <1>7, <3>1
  <2> QED BY <1>3, <1>8, <2>1 DEF FlightInv, Started
<1>14. ASSUME NEW c \in Callers, calls[c].pc = "wait"
       PROVE  calls[c].floor <= valid'[Root(calls[c].key)]
  <2>1. calls[c].floor \in Nat /\ calls[c].key \in Keys /\ calls[c].floor <= valid[Root(calls[c].key)]
    BY <1>14 DEF CallInv, Typed, Call
  <2>2. \A q \in Roots : valid[q] \in Nat /\ valid'[q] \in Nat
    BY <1>6 DEF Typed
  <2> QED BY <1>6, <1>11, <2>1, <2>2
<1>15. CallInv'
  BY <1>8, <1>14 DEF CallInv
<1> QED BY <1>9, <1>10, <1>12, <1>13, <1>15

\* A caller that leaves keeps ScanInv.
LEMMA LeaveScan ==
  ASSUME ScanInv, NEW c \in Callers, NEW v \in Versions,
         calls' = [calls EXCEPT ![c] = Idle(v)],
         UNCHANGED <<world, valid, gens, cache, flights, slots, gates, changed>>
  PROVE  ScanInv'
<1> USE ScanAssumption, Numbers DEF ScanAssumption, ScanInv
<1>1. Idle(v) \in Call
  BY DEF Idle, Call, CallPCs
<1>2. /\ calls' \in [Callers -> Call]
      /\ \A d \in Callers : calls'[d] = IF d = c THEN Idle(v) ELSE calls[d]
  BY <1>1 DEF Typed
<1>3. Typed'
  BY <1>2 DEF Typed
<1>4. WorldInv' /\ CacheInv' /\ FlightInv'
  BY DEF WorldInv, CacheInv, FlightInv
<1>5. CallInv'
  <2>1. Idle(v).pc = "idle" /\ Idle(v).key = NoKey /\ Idle(v).floor = 0
    BY DEF Idle
  <2> QED BY <1>2, <2>1 DEF CallInv
<1> QED BY <1>3, <1>4, <1>5

\* A caller that returns or gives up keeps ScanInv.
LEMMA ReturnScan ==
  ASSUME ScanInv, NEW c \in Callers, Return(c) \/ Cancel(c)
  PROVE  ScanInv'
<1>1. calls[c].val \in Versions /\ 0 \in Versions
  BY Numbers DEF ScanInv, Typed, Call
<1>2. CASE Return(c)
  <2>1. (IF calls[c].err THEN 0 ELSE calls[c].val) \in Versions
    BY <1>1
  <2> QED BY <1>2, <2>1, LeaveScan DEF Return
<1>3. CASE Cancel(c)
  BY <1>1, <1>3, LeaveScan DEF Cancel
<1> QED BY <1>2, <1>3

\* A caller answered from the cache.
LEMMA HitScan ==
  ASSUME ScanInv, NEW c \in Callers, NEW k \in Keys, NEW d \in Call, Hit(k),
         d.pc = "answer", d.key = k, d.floor = valid[Root(k)], d.val = cache[k].val,
         calls' = [calls EXCEPT ![c] = d],
         UNCHANGED <<world, valid, gens, cache, flights, slots, gates, changed>>
  PROVE  ScanInv'
<1> USE ScanAssumption, Numbers DEF ScanAssumption, ScanInv
<1>1. /\ calls' \in [Callers -> Call]
      /\ \A e \in Callers : calls'[e] = IF e = c THEN d ELSE calls[e]
  BY DEF Typed
<1>2. Typed'
  BY <1>1 DEF Typed
<1>3. WorldInv' /\ CacheInv' /\ FlightInv'
  BY DEF WorldInv, CacheInv, FlightInv
<1>4. d.floor <= d.val /\ d.val <= world[Root(d.key)]
  BY DEF Hit, CacheInv, Root
<1>5. CallInv'
  BY <1>1, <1>4 DEF CallInv
<1> QED BY <1>2, <1>3, <1>5

\* A caller that joins the flight of the current generation or starts it.
LEMMA JoinScan ==
  ASSUME ScanInv, NEW c \in Callers, NEW k \in Keys, NEW d \in Call,
         d.pc = "wait", d.key = k, d.gen = gens[Root(k)], d.floor = valid[Root(k)],
         calls' = [calls EXCEPT ![c] = d],
         \/ UNCHANGED flights
         \/ /\ flights[k][gens[Root(k)]].pc = "none"
            /\ Fly(k, gens[Root(k)], [NoFlight EXCEPT !.pc = "gate"]),
         UNCHANGED <<world, valid, gens, cache, slots, gates, changed>>
  PROVE  ScanInv'
<1> USE ScanAssumption, Numbers DEF ScanAssumption, ScanInv
<1> DEFINE g == gens[Root(k)]
           new == [NoFlight EXCEPT !.pc = "gate"]
<1>1. /\ calls' \in [Callers -> Call]
      /\ \A e \in Callers : calls'[e] = IF e = c THEN d ELSE calls[e]
  BY DEF Typed
<1>2. g \in Generations /\ Root(k) \in Roots
  BY DEF Typed, Root
<1>3. new \in Flight /\ new.pc = "gate" /\ new.val = 0 /\ ~new.err
  BY DEF NoFlight, Flight, FlightPCs
<1> HIDE DEF new
<1>4. /\ flights' \in [Keys -> [Generations -> Flight]]
      /\ \A j \in Keys : \A h \in Generations :
           \/ flights'[j][h] = flights[j][h]
           \/ j = k /\ h = g /\ flights[k][g].pc = "none" /\ flights'[j][h] = new
  <2>1. CASE UNCHANGED flights
    BY <2>1 DEF Typed
  <2>2. CASE flights[k][g].pc = "none" /\ Fly(k, g, new)
    BY <1>2, <1>3, <2>2, FlyFacts
  <2> QED BY <2>1, <2>2 DEF new
<1>5. Typed'
  BY <1>1, <1>4 DEF Typed
<1>6. WorldInv' /\ CacheInv'
  BY DEF WorldInv, CacheInv
<1>7. \A r \in Roots : world[r] \in Nat /\ gens[r] \in Nat
  BY DEF Typed
<1> HIDE DEF g
<1>8. FlightInv'
  BY <1>2, <1>3, <1>4, <1>7 DEF FlightInv, Started, Root, g
<1>9. CallInv'
  <2>1. \A e \in Callers : calls[e].gen \in Generations /\ calls[e].floor \in Nat
    BY DEF Typed, Call
  <2>2. ASSUME NEW e \in Callers, calls'[e].pc = "wait",
               flights'[calls'[e].key][calls'[e].gen].pc \in Started,
               ~flights'[calls'[e].key][calls'[e].gen].err
        PROVE  calls'[e].floor <= flights'[calls'[e].key][calls'[e].gen].val
    <3>1. CASE e = c
      <4>1. calls'[e] = d /\ flights'[k][g] = flights[k][g]
        BY <1>1, <1>2, <1>3, <1>4, <2>2, <3>1 DEF Started, g
      <4> QED BY <1>2, <2>2, <4>1 DEF FlightInv, g
    <3>2. CASE e # c
      <4>1. calls'[e] = calls[e] /\ calls[e].key \in Keys /\ calls[e].gen \in Generations
        BY <1>1, <2>1, <2>2, <3>2 DEF CallInv
      <4>2. flights'[calls[e].key][calls[e].gen] = flights[calls[e].key][calls[e].gen]
        BY <1>3, <1>4, <2>2, <4>1 DEF Started
      <4> QED BY <2>2, <4>1, <4>2 DEF CallInv
    <3> QED BY <3>1, <3>2
  <2>3. valid[Root(k)] <= valid[Root(k)]
    BY <1>2 DEF Typed
  <2> QED BY <1>1, <2>2, <2>3 DEF CallInv
<1> QED BY <1>5, <1>6, <1>8, <1>9

\* A call that is answered at once or waits keeps ScanInv.
LEMMA ScanScan ==
  ASSUME ScanInv, NEW c \in Callers, NEW k \in Keys, NEW freshOnly \in BOOLEAN,
         Scan(c, k, freshOnly)
  PROVE  ScanInv'
<1> USE ScanAssumption, Numbers DEF ScanAssumption, ScanInv
<1> DEFINE g == gens[RootOf[k]]
           call == [pc |-> "wait", key |-> k, gen |-> g, floor |-> valid[RootOf[k]],
                    val |-> 0, err |-> FALSE]
           hit == [call EXCEPT !.pc = "answer", !.val = cache[k].val]
<1>1. g \in Generations /\ valid[RootOf[k]] \in Versions /\ cache[k].val \in Versions
  BY DEF Typed
<1>2. call \in Call /\ hit \in Call
  BY <1>1 DEF Call, CallPCs
<1>3. /\ call.pc = "wait" /\ call.key = k /\ call.gen = g /\ call.floor = valid[RootOf[k]]
      /\ hit.pc = "answer" /\ hit.key = k /\ hit.floor = valid[RootOf[k]] /\ hit.val = cache[k].val
  OBVIOUS
<1>4. \/ Hit(k) /\ calls' = [calls EXCEPT ![c] = hit] /\ UNCHANGED flights
      \/ /\ calls' = [calls EXCEPT ![c] = call]
         /\ \/ UNCHANGED flights
            \/ flights[k][g].pc = "none" /\ Fly(k, g, [NoFlight EXCEPT !.pc = "gate"])
  BY DEF Scan
<1>5. UNCHANGED <<world, valid, gens, cache, slots, gates, changed>>
  BY DEF Scan
<1> HIDE DEF call, hit
<1>6. CASE Hit(k) /\ calls' = [calls EXCEPT ![c] = hit] /\ UNCHANGED flights
  BY <1>2, <1>3, <1>5, <1>6, HitScan DEF Root
<1>7. CASE /\ calls' = [calls EXCEPT ![c] = call]
           /\ \/ UNCHANGED flights
              \/ flights[k][g].pc = "none" /\ Fly(k, g, [NoFlight EXCEPT !.pc = "gate"])
  BY <1>2, <1>3, <1>5, <1>7, JoinScan DEF Root
<1> QED BY <1>4, <1>6, <1>7

\* What a finished flight leaves: it is gone, and only its own result is new in the caches.
LEMMA FinishFacts ==
  ASSUME ScanInv, NEW k \in Keys, NEW g \in Generations, Finish(k, g)
  PROVE  /\ flights' \in [Keys -> [Generations -> Flight]]
         /\ \A j \in Keys : \A h \in Generations :
              flights'[j][h] = IF j = k /\ h = g THEN NoFlight ELSE flights[j][h]
         /\ cache' \in [Keys -> [live : BOOLEAN, val : Versions, gen : Generations]]
         /\ \A j \in Keys :
              \/ cache'[j].val = cache[j].val /\ (cache'[j].live => cache'[j] = cache[j])
              \/ /\ j = k /\ g = gens[Root(k)] /\ ~flights[k][g].err
                 /\ cache'[j].val = flights[k][g].val
<1> USE ScanAssumption, Numbers DEF ScanAssumption, ScanInv
<1>1. NoFlight \in Flight /\ Fly(k, g, NoFlight)
  BY DEF NoFlight, Flight, FlightPCs, Finish
<1>2. flights[k][g].val \in Versions
  BY DEF Typed, Flight
<1> DEFINE kept == [j \in Keys |-> IF cache[j].gen = gens[RootOf[j]] THEN cache[j] ELSE Dropped(j)]
           new == [live |-> TRUE, val |-> flights[k][g].val, gen |-> g]
<1>3. \A j \in Keys : Dropped(j) \in [live : BOOLEAN, val : Versions, gen : Generations]
  BY DEF Dropped, Typed
<1>4. /\ kept \in [Keys -> [live : BOOLEAN, val : Versions, gen : Generations]]
      /\ \A j \in Keys : kept[j].val = cache[j].val /\ (kept[j].live => kept[j] = cache[j])
  BY <1>3 DEF Dropped, Typed
<1>5. new \in [live : BOOLEAN, val : Versions, gen : Generations] /\ new.val = flights[k][g].val
  BY <1>2
<1>6. cache' = IF ~flights[k][g].err /\ g = gens[RootOf[k]] THEN [kept EXCEPT ![k] = new] ELSE kept
  BY DEF Finish
<1> HIDE DEF kept, new
<1>7. /\ cache' \in [Keys -> [live : BOOLEAN, val : Versions, gen : Generations]]
      /\ \A j \in Keys :
           \/ cache'[j] = kept[j]
           \/ j = k /\ g = gens[RootOf[k]] /\ ~flights[k][g].err /\ cache'[j] = new
  BY <1>4, <1>5, <1>6
<1>8. \A j \in Keys :
        \/ cache'[j].val = cache[j].val /\ (cache'[j].live => cache'[j] = cache[j])
        \/ /\ j = k /\ g = gens[Root(k)] /\ ~flights[k][g].err
           /\ cache'[j].val = flights[k][g].val
  BY <1>4, <1>5, <1>7 DEF Root
<1> QED BY <1>1, <1>7, <1>8, FlyFacts

\* A finished flight caches what is still valid and answers who joined it.
LEMMA FinishScan ==
  ASSUME ScanInv, NEW k \in Keys, NEW g \in Generations, Finish(k, g)
  PROVE  ScanInv'
<1> USE ScanAssumption, Numbers DEF ScanAssumption, ScanInv
<1> DEFINE f == flights[k][g]
<1>1. /\ flights' \in [Keys -> [Generations -> Flight]]
      /\ \A j \in Keys : \A h \in Generations :
           flights'[j][h] = IF j = k /\ h = g THEN NoFlight ELSE flights[j][h]
      /\ cache' \in [Keys -> [live : BOOLEAN, val : Versions, gen : Generations]]
      /\ \A j \in Keys :
           \/ cache'[j].val = cache[j].val /\ (cache'[j].live => cache'[j] = cache[j])
           \/ /\ j = k /\ g = gens[Root(k)] /\ ~f.err
              /\ cache'[j].val = f.val
  BY FinishFacts
<1>2. UNCHANGED <<world, valid, gens, slots, gates, changed>> /\ f.pc = "finish"
  BY DEF Finish
<1>3. f \in Flight /\ Root(k) \in Roots
  BY DEF Typed, Root
<1>4. f.val <= world[Root(k)]
  BY DEF FlightInv
<1>5. ~f.err /\ g = gens[Root(k)] => valid[Root(k)] <= f.val
  BY <1>2 DEF FlightInv, Started
<1>6. \A c \in Callers :
        \/ calls'[c] = calls[c] /\ ~(calls[c].pc = "wait" /\ calls[c].key = k /\ calls[c].gen = g)
        \/ /\ calls[c].pc = "wait" /\ calls[c].key = k /\ calls[c].gen = g
           /\ calls'[c] = [calls[c] EXCEPT !.pc = "answer", !.val = f.val, !.err = f.err]
  BY DEF Finish, Delivered
<1>7. \A c \in Callers : calls[c] \in Call
  BY DEF Typed
<1>8. calls' \in [Callers -> Call]
  <2>1. \A c \in Callers :
          [calls[c] EXCEPT !.pc = "answer", !.val = f.val, !.err = f.err] \in Call
    BY <1>3, <1>7 DEF Call, CallPCs, Flight
  <2> QED BY <1>7, <2>1 DEF Finish, Delivered
<1> HIDE DEF f
<1>9. Typed'
  BY <1>1, <1>2, <1>8 DEF Typed
<1>10. WorldInv'
  BY <1>2 DEF WorldInv
<1>11. CacheInv'
  BY <1>1, <1>2, <1>4, <1>5 DEF CacheInv
<1>12. FlightInv'
  <2>1. SUFFICES ASSUME NEW j \in Keys, NEW h \in Generations
                 PROVE  /\ flights'[j][h].val <= world[Root(j)]
                        /\ flights'[j][h].pc # "none" => h <= gens[Root(j)]
                        /\ flights'[j][h].err => flights'[j][h].pc \in {"freeGate", "finish"}
                        /\ flights'[j][h].pc \in Started /\ ~flights'[j][h].err /\ h = gens[Root(j)] =>
                             valid[Root(j)] <= flights'[j][h].val /\ cache'[j].val <= flights'[j][h].val
    BY <1>2 DEF FlightInv
  <2>2. CASE j = k /\ h = g
    <3>1. NoFlight.pc = "none" /\ NoFlight.val = 0 /\ ~NoFlight.err
      BY DEF NoFlight
    <3>2. 0 <= world[Root(j)]
      BY <1>3, <2>2 DEF Typed, Versions
    <3> QED BY <1>1, <2>2, <3>1, <3>2 DEF Started
  <2>3. CASE ~(j = k /\ h = g)
    <3>1. flights'[j][h] = flights[j][h]
      BY <1>1, <2>3
    <3>2. h = gens[Root(j)] => cache'[j].val = cache[j].val
      BY <1>1, <2>3
    <3> QED BY <3>1, <3>2 DEF FlightInv
  <2> QED BY <2>2, <2>3
<1>13. CallInv'
  <2>1. ASSUME NEW c \in Callers, calls[c].pc = "wait", calls[c].key = k, calls[c].gen = g,
               calls'[c] = [calls[c] EXCEPT !.pc = "answer", !.val = f.val, !.err = f.err]
        PROVE  /\ calls'[c].pc = "answer" /\ calls'[c].key = k
               /\ ~calls'[c].err => calls'[c].floor <= calls'[c].val /\ calls'[c].val <= world[Root(k)]
    <3>1. /\ calls'[c].pc = "answer" /\ calls'[c].key = k /\ calls'[c].floor = calls[c].floor
          /\ calls'[c].val = f.val /\ calls'[c].err = f.err
      BY <1>7, <2>1 DEF Call
    <3>2. ~f.err => calls[c].floor <= f.val
      BY <1>2, <2>1 DEF CallInv, Started, f
    <3> QED BY <1>4, <3>1, <3>2
  <2>2. ASSUME NEW c \in Callers, calls'[c] = calls[c],
               ~(calls[c].pc = "wait" /\ calls[c].key = k /\ calls[c].gen = g), calls[c].pc = "wait"
        PROVE  flights'[calls[c].key][calls[c].gen] = flights[calls[c].key][calls[c].gen]
    <3>1. calls[c].key \in Keys /\ calls[c].gen \in Generations
      BY <1>7, <2>2 DEF CallInv, Call
    <3> QED BY <1>1, <2>2, <3>1
  <2>3. SUFFICES ASSUME NEW c \in Callers
        PROVE /\ calls'[c].pc = "idle" => calls'[c].key = NoKey /\ calls'[c].floor = 0
              /\ calls'[c].pc # "idle" => calls'[c].key \in Keys
              /\ calls'[c].pc = "wait" =>
                   /\ calls'[c].floor <= valid[Root(calls'[c].key)]
                   /\ LET e == flights'[calls'[c].key][calls'[c].gen] IN
                        e.pc \in Started /\ ~e.err => calls'[c].floor <= e.val
              /\ calls'[c].pc = "answer" /\ ~calls'[c].err =>
                   calls'[c].floor <= calls'[c].val /\ calls'[c].val <= world[Root(calls'[c].key)]
    BY <1>2 DEF CallInv
  <2>4. CASE calls'[c] = calls[c] /\ ~(calls[c].pc = "wait" /\ calls[c].key = k /\ calls[c].gen = g)
    BY <2>2, <2>4 DEF CallInv
  <2>5. CASE /\ calls[c].pc = "wait" /\ calls[c].key = k /\ calls[c].gen = g
             /\ calls'[c] = [calls[c] EXCEPT !.pc = "answer", !.val = f.val, !.err = f.err]
    BY <2>1, <2>5
  <2> QED BY <1>6, <2>4, <2>5
<1> QED BY <1>9, <1>10, <1>11, <1>12, <1>13

\* Every step keeps ScanInv.
LEMMA ScanStep == ScanInv /\ [Next]_vars => ScanInv'
<1> SUFFICES ASSUME ScanInv, [Next]_vars PROVE ScanInv'
  OBVIOUS
<1>1. ASSUME NEW c \in Callers, NEW k \in Keys, NEW freshOnly \in BOOLEAN, Scan(c, k, freshOnly)
      PROVE  ScanInv'
  BY <1>1, ScanScan
<1>2. ASSUME NEW c \in Callers, Return(c) \/ Cancel(c) PROVE ScanInv'
  BY <1>2, ReturnScan
<1>3. ASSUME NEW k \in Keys, Age(k) PROVE ScanInv'
  BY <1>3, AgeScan
<1>4. ASSUME NEW k \in Keys, NEW g \in Generations, FlightStep(k, g) PROVE ScanInv'
  BY <1>4, AcquireGateScan, AcquireSlotScan, ExpireScan, ExecuteScan, ReleaseGateScan, FinishScan
     DEF FlightStep
<1>5. ASSUME NEW r \in Roots, Edit(r) PROVE ScanInv'
  <2>1. \A m \in Mutators : changed[m].root \in Roots /\ changed[m].ver \in Nat
    BY Numbers DEF ScanInv, Typed
  <2>2. \A q \in Roots : world[q] \in Nat /\ world[q] <= world'[q] /\ world'[q] \in Nat
    BY <1>5, ScanAssumption DEF ScanAssumption, ScanInv, Typed, Edit, Versions
  <2>3. \A m \in Mutators : changed'[m].busy => changed'[m].ver <= world'[changed'[m].root]
    BY <1>5, <2>1, <2>2 DEF ScanInv, WorldInv, Edit
  <2>4. changed' \in [Mutators -> [busy : BOOLEAN, root : Roots, ver : Versions]]
    BY <1>5 DEF ScanInv, Typed, Edit
  <2> QED BY <1>5, <2>3, <2>4, EditScan DEF Edit
<1>6. ASSUME NEW m \in Mutators, NEW r \in Roots, Mutate(m, r) PROVE ScanInv'
  BY <1>6, MutateScan
<1>7. ASSUME NEW m \in Mutators, Invalidate(m) PROVE ScanInv'
  BY <1>7, InvalidateScan
<1>8. CASE UNCHANGED vars
  BY <1>8 DEF vars, ScanInv, Typed, WorldInv, CacheInv, FlightInv, CallInv
<1> QED BY <1>1, <1>2, <1>3, <1>4, <1>5, <1>6, <1>7, <1>8 DEF Next

\* ScanInv holds of every behaviour.
LEMMA ScanAlways == Spec => []ScanInv
<1> QED BY ScanInit, ScanStep, PTL DEF Spec

\* No answer shows the repository as it was before an invalidation that had returned when the
\* call was made, whatever is cached or under way.
THEOREM ReadsCorrect == Spec => []ReadsAnnounced
<1>1. ScanInv => ReadsAnnounced
  BY DEF ScanInv, CallInv, ReadsAnnounced, Root
<1> QED BY <1>1, ScanAlways, PTL

\* What is cached under a key never goes back to an older version.
THEOREM CacheCorrect == Spec => CacheAdvances
<1>1. ScanInv /\ [Next]_vars => [\A k \in Keys : cache[k].val <= cache'[k].val]_vars
  <2> SUFFICES ASSUME ScanInv, Next PROVE \A k \in Keys : cache[k].val <= cache'[k].val
    OBVIOUS
  <2>1. \A k \in Keys : cache[k].val \in Nat
    BY Numbers DEF ScanInv, Typed
  <2>2. ASSUME NEW j \in Keys, NEW g \in Generations, Finish(j, g)
        PROVE  \A k \in Keys : cache[k].val <= cache'[k].val
    <3>1. g = gens[Root(j)] /\ ~flights[j][g].err => cache[j].val <= flights[j][g].val
      BY <2>2 DEF ScanInv, FlightInv, Finish, Started
    <3> QED BY <2>1, <2>2, <3>1, FinishFacts
  <2>3. ASSUME NEW j \in Keys, Age(j)
        PROVE  \A k \in Keys : cache'[k].val = cache[k].val
    BY <2>3 DEF Age, Dropped, ScanInv, Typed
  <2>4. ASSUME NEW m \in Mutators, Invalidate(m)
        PROVE  \A k \in Keys : cache'[k].val = cache[k].val
    BY <2>4 DEF Invalidate, Dropped
  <2>5. CASE UNCHANGED cache
    BY <2>1, <2>5
  <2>6. \/ \E j \in Keys, g \in Generations : Finish(j, g)
        \/ \E j \in Keys : Age(j)
        \/ \E m \in Mutators : Invalidate(m)
        \/ UNCHANGED cache
    BY DEF Next, FlightStep, Scan, Return, Cancel, AcquireGate, AcquireSlot, Expire, Execute,
           ReleaseGate, Edit, Mutate
  <2> QED BY <2>1, <2>2, <2>3, <2>4, <2>5, <2>6
<1> QED BY <1>1, ScanAlways, PTL DEF Spec, CacheAdvances

-----------------------------------------------------------------------------
(* The limits: one scan at a time for a root, as many as there are slots   *)
(* at all, and nobody waits in vain.                                       *)

\* The scans that hold a slot; as many slots are taken as there are such scans.
Scanning == {h \in Aloft : PC(h) = "run"}
SlotsCounted == IsFiniteSet(Scanning) /\ slots = Cardinality(Scanning) /\ slots <= Slots

GateInv == ScanInv /\ OneScanPerRoot /\ SlotsCounted

\* What a step of a flight changes of the phases.
LEMMA PhaseFacts ==
  ASSUME Typed, NEW k \in Keys, NEW g \in Generations, NEW f \in Flight, Fly(k, g, f)
  PROVE  /\ <<k, g>> \in Aloft
         /\ \A h \in Aloft : PC(h)' = IF h = <<k, g>> THEN f.pc ELSE PC(h)
         /\ Scanning' = IF f.pc = "run" THEN Scanning \cup {<<k, g>>} ELSE Scanning \ {<<k, g>>}
<1>1. \A j \in Keys : \A h \in Generations :
        flights'[j][h] = IF j = k /\ h = g THEN f ELSE flights[j][h]
  BY FlyFacts
<1>2. <<k, g>> \in Aloft
  BY DEF Aloft
<1>3. \A h \in Aloft : PC(h)' = IF h = <<k, g>> THEN f.pc ELSE PC(h)
  BY <1>1 DEF Aloft, PC
<1>4. Scanning' = IF f.pc = "run" THEN Scanning \cup {<<k, g>>} ELSE Scanning \ {<<k, g>>}
  BY <1>2, <1>3 DEF Scanning, Aloft
<1> QED BY <1>2, <1>3, <1>4

\* A flight that neither takes nor gives back the gate keeps the gates right.
LEMMA GateKept ==
  ASSUME GateInv, NEW k \in Keys, NEW g \in Generations, NEW f \in Flight, Fly(k, g, f),
         UNCHANGED gates, f.pc \in Holding <=> flights[k][g].pc \in Holding
  PROVE  OneScanPerRoot'
<1>1. \A h \in Aloft : PC(h)' = IF h = <<k, g>> THEN f.pc ELSE PC(h)
  BY PhaseFacts DEF GateInv, ScanInv
<1>2. PC(<<k, g>>) = flights[k][g].pc
  BY DEF PC
<1>3. \A h \in Aloft : PC(h)' \in Holding <=> PC(h) \in Holding
  BY <1>1, <1>2
<1> QED BY <1>3 DEF GateInv, OneScanPerRoot

\* A flight that does not run and does not start keeps the slots right.
LEMMA SlotsKept ==
  ASSUME GateInv, NEW k \in Keys, NEW g \in Generations, NEW f \in Flight, Fly(k, g, f),
         UNCHANGED slots, f.pc # "run", flights[k][g].pc # "run"
  PROVE  SlotsCounted'
<1>1. Scanning' = Scanning \ {<<k, g>>}
  BY PhaseFacts DEF GateInv, ScanInv
<1>2. <<k, g>> \notin Scanning
  BY DEF Scanning, PC
<1>3. Scanning' = Scanning
  BY <1>1, <1>2
<1> QED BY <1>3 DEF GateInv, SlotsCounted

\* The gate is shut by the flight that takes it.
LEMMA AcquireGateGates ==
  ASSUME GateInv, NEW k \in Keys, NEW g \in Generations, AcquireGate(k, g)
  PROVE  OneScanPerRoot' /\ SlotsCounted'
<1> DEFINE f == [flights[k][g] EXCEPT !.pc = "slot"]
<1>1. flights[k][g] \in Flight /\ gates \in [Roots -> BOOLEAN] /\ RootOf[k] \in Roots
  BY ScanAssumption DEF ScanAssumption, GateInv, ScanInv, Typed
<1>2. f \in Flight /\ f.pc = "slot"
  BY <1>1 DEF Flight, FlightPCs
<1>3. Fly(k, g, f) /\ flights[k][g].pc = "gate" /\ ~gates[RootOf[k]] /\ UNCHANGED slots
  BY DEF AcquireGate
<1> HIDE DEF f
<1>4. SlotsCounted'
  BY <1>2, <1>3, SlotsKept
<1>5. <<k, g>> \in Aloft /\ \A h \in Aloft : PC(h)' = IF h = <<k, g>> THEN "slot" ELSE PC(h)
  BY <1>2, <1>3, PhaseFacts DEF GateInv, ScanInv
<1>6. \A r \in Roots : gates'[r] = IF r = RootOf[k] THEN TRUE ELSE gates[r]
  BY <1>1 DEF AcquireGate
<1>7. \A h \in Aloft : RootOf[h[1]] = RootOf[k] => PC(h) \notin Holding
  BY <1>1, <1>3 DEF GateInv, OneScanPerRoot
<1>8. ASSUME NEW r \in Roots PROVE
        /\ \A e, d \in {h \in Aloft : RootOf[h[1]] = r /\ PC(h)' \in Holding} : e = d
        /\ gates'[r] <=> \E d \in Aloft : RootOf[d[1]] = r /\ PC(d)' \in Holding
  <2>1. CASE r = RootOf[k]
    <3>1. \A h \in Aloft : RootOf[h[1]] = r /\ PC(h)' \in Holding => h = <<k, g>>
      BY <1>5, <1>7, <2>1
    <3>2. PC(<<k, g>>)' \in Holding
      BY <1>5 DEF Holding
    <3>3. RootOf[<<k, g>>[1]] = r /\ gates'[r]
      BY <1>6, <2>1
    <3> QED BY <1>5, <3>1, <3>2, <3>3
  <2>2. CASE r # RootOf[k]
    <3>1. \A h \in Aloft : RootOf[h[1]] = r => PC(h)' = PC(h)
      BY <1>5, <2>2
    <3>2. gates'[r] = gates[r]
      BY <1>6, <2>2
    <3> QED BY <3>1, <3>2 DEF GateInv, OneScanPerRoot
  <2> QED BY <2>1, <2>2
<1>9. OneScanPerRoot'
  BY <1>8 DEF OneScanPerRoot
<1> QED BY <1>4, <1>9

\* The gate is opened by the flight that holds it.
LEMMA OpenGates ==
  ASSUME GateInv, NEW k \in Keys, NEW g \in Generations, NEW f \in Flight, Fly(k, g, f),
         flights[k][g].pc \in Holding, f.pc \notin Holding,
         gates' = [gates EXCEPT ![RootOf[k]] = FALSE]
  PROVE  OneScanPerRoot'
<1>1. gates \in [Roots -> BOOLEAN] /\ RootOf[k] \in Roots
  BY ScanAssumption DEF ScanAssumption, GateInv, ScanInv, Typed
<1>2. <<k, g>> \in Aloft /\ \A h \in Aloft : PC(h)' = IF h = <<k, g>> THEN f.pc ELSE PC(h)
  BY PhaseFacts DEF GateInv, ScanInv
<1>3. \A r \in Roots : gates'[r] = IF r = RootOf[k] THEN FALSE ELSE gates[r]
  BY <1>1
<1>4. PC(<<k, g>>) \in Holding /\ RootOf[<<k, g>>[1]] = RootOf[k]
  BY DEF PC
<1>5. \A h \in Aloft : RootOf[h[1]] = RootOf[k] /\ PC(h) \in Holding => h = <<k, g>>
  BY <1>1, <1>2, <1>4 DEF GateInv, OneScanPerRoot
<1>6. ASSUME NEW r \in Roots PROVE
        /\ \A e, d \in {h \in Aloft : RootOf[h[1]] = r /\ PC(h)' \in Holding} : e = d
        /\ gates'[r] <=> \E d \in Aloft : RootOf[d[1]] = r /\ PC(d)' \in Holding
  <2>1. CASE r = RootOf[k]
    <3>1. \A h \in Aloft : RootOf[h[1]] = r => PC(h)' \notin Holding
      BY <1>2, <1>5, <2>1
    <3> QED BY <1>3, <2>1, <3>1
  <2>2. CASE r # RootOf[k]
    <3>1. \A h \in Aloft : RootOf[h[1]] = r => PC(h)' = PC(h)
      BY <1>2, <2>2
    <3>2. gates'[r] = gates[r]
      BY <1>3, <2>2
    <3>3. /\ \A e, d \in {h \in Aloft : RootOf[h[1]] = r /\ PC(h) \in Holding} : e = d
          /\ gates[r] <=> \E d \in Aloft : RootOf[d[1]] = r /\ PC(d) \in Holding
      BY DEF GateInv, OneScanPerRoot
    <3> QED BY <3>1, <3>2, <3>3
  <2> QED BY <2>1, <2>2
<1> QED BY <1>6 DEF OneScanPerRoot

\* A scan that starts takes one slot.
LEMMA AcquireSlotGates ==
  ASSUME GateInv, NEW k \in Keys, NEW g \in Generations, AcquireSlot(k, g)
  PROVE  OneScanPerRoot' /\ SlotsCounted'
<1> DEFINE f == [flights[k][g] EXCEPT !.pc = "run", !.val = world[RootOf[k]]]
<1>1. flights[k][g] \in Flight /\ world[RootOf[k]] \in Versions
  BY ScanAssumption DEF ScanAssumption, GateInv, ScanInv, Typed
<1>2. f \in Flight /\ f.pc = "run"
  BY <1>1 DEF Flight, FlightPCs
<1>3. Fly(k, g, f) /\ flights[k][g].pc = "slot" /\ UNCHANGED gates /\ slots < Slots /\ slots' = slots + 1
  BY DEF AcquireSlot
<1> HIDE DEF f
<1>4. OneScanPerRoot'
  BY <1>2, <1>3, GateKept DEF Holding
<1>5. Scanning' = Scanning \cup {<<k, g>>} /\ <<k, g>> \notin Scanning
  <2>1. <<k, g>> \notin Scanning
    BY <1>3 DEF Scanning, PC
  <2> QED BY <1>2, <1>3, <2>1, PhaseFacts DEF GateInv, ScanInv
<1>6. IsFiniteSet(Scanning') /\ Cardinality(Scanning') = Cardinality(Scanning) + 1
  BY <1>5, FS_AddElement DEF GateInv, SlotsCounted
<1>7. slots \in Int /\ Slots \in Nat
  BY ScanAssumption DEF ScanAssumption, GateInv, ScanInv, Typed
<1>8. SlotsCounted'
  BY <1>3, <1>6, <1>7 DEF GateInv, SlotsCounted
<1> QED BY <1>4, <1>8

\* A scan that ends gives back one slot.
LEMMA ExecuteGates ==
  ASSUME GateInv, NEW k \in Keys, NEW g \in Generations, Execute(k, g)
  PROVE  OneScanPerRoot' /\ SlotsCounted'
<1>1. PICK f \in Flight : Fly(k, g, f) /\ f.pc = "freeGate"
  <2>1. flights[k][g] \in Flight /\ world[RootOf[k]] \in Versions
    BY ScanAssumption DEF ScanAssumption, GateInv, ScanInv, Typed
  <2>2. CASE Fly(k, g, [pc |-> "freeGate", val |-> 0, err |-> TRUE])
    <3>1. [pc |-> "freeGate", val |-> 0, err |-> TRUE] \in Flight
      BY Numbers DEF Flight, FlightPCs
    <3> QED BY <2>2, <3>1
  <2>3. CASE \E v \in flights[k][g].val..world[RootOf[k]] :
               Fly(k, g, [pc |-> "freeGate", val |-> v, err |-> FALSE])
    <3>1. PICK v \in flights[k][g].val..world[RootOf[k]] :
            Fly(k, g, [pc |-> "freeGate", val |-> v, err |-> FALSE])
      BY <2>3
    <3>2. v \in Versions
      BY <2>1, ScanAssumption DEF ScanAssumption, Flight, Versions
    <3>3. [pc |-> "freeGate", val |-> v, err |-> FALSE] \in Flight
      BY <3>2 DEF Flight, FlightPCs
    <3> QED BY <3>1, <3>3
  <2> QED BY <2>2, <2>3 DEF Execute
<1>2. flights[k][g].pc = "run" /\ UNCHANGED gates /\ slots' = slots - 1
  BY DEF Execute
<1>3. OneScanPerRoot'
  BY <1>1, <1>2, GateKept DEF Holding
<1>4. Scanning' = Scanning \ {<<k, g>>} /\ <<k, g>> \in Scanning
  <2>1. <<k, g>> \in Scanning
    BY <1>2 DEF Scanning, PC, Aloft
  <2> QED BY <1>1, <2>1, PhaseFacts DEF GateInv, ScanInv
<1>5. IsFiniteSet(Scanning') /\ Cardinality(Scanning') = Cardinality(Scanning) - 1
  BY <1>4, FS_RemoveElement DEF GateInv, SlotsCounted
<1>6. slots \in Int /\ Slots \in Nat
  BY ScanAssumption DEF ScanAssumption, GateInv, ScanInv, Typed
<1>7. SlotsCounted'
  BY <1>2, <1>5, <1>6 DEF GateInv, SlotsCounted
<1> QED BY <1>3, <1>7

\* A flight that stops waiting gives back the gate if it holds it.
LEMMA ExpireGates ==
  ASSUME GateInv, NEW k \in Keys, NEW g \in Generations, Expire(k, g)
  PROVE  OneScanPerRoot' /\ SlotsCounted'
<1> DEFINE f == [flights[k][g] EXCEPT !.pc = "finish", !.err = TRUE]
<1>1. flights[k][g] \in Flight
  BY DEF GateInv, ScanInv, Typed
<1>2. f \in Flight /\ f.pc = "finish"
  BY <1>1 DEF Flight, FlightPCs
<1>3. Fly(k, g, f) /\ UNCHANGED slots
  BY DEF Expire
<1> HIDE DEF f
<1>4. CASE flights[k][g].pc = "slot" /\ gates' = [gates EXCEPT ![RootOf[k]] = FALSE]
  BY <1>2, <1>3, <1>4, OpenGates, SlotsKept DEF Holding
<1>5. CASE flights[k][g].pc = "gate" /\ UNCHANGED gates
  BY <1>2, <1>3, <1>5, GateKept, SlotsKept DEF Holding
<1> QED BY <1>4, <1>5 DEF Expire

\* A flight that has run opens the gate.
LEMMA ReleaseGateGates ==
  ASSUME GateInv, NEW k \in Keys, NEW g \in Generations, ReleaseGate(k, g)
  PROVE  OneScanPerRoot' /\ SlotsCounted'
<1> DEFINE f == [flights[k][g] EXCEPT !.pc = "finish"]
<1>1. flights[k][g] \in Flight
  BY DEF GateInv, ScanInv, Typed
<1>2. f \in Flight /\ f.pc = "finish"
  BY <1>1 DEF Flight, FlightPCs
<1>3. /\ Fly(k, g, f) /\ flights[k][g].pc = "freeGate"
      /\ UNCHANGED slots /\ gates' = [gates EXCEPT ![RootOf[k]] = FALSE]
  BY DEF ReleaseGate
<1> HIDE DEF f
<1> QED BY <1>2, <1>3, OpenGates, SlotsKept DEF Holding

\* A flight that starts or ends holds neither the gate nor a slot.
LEMMA OutsideGates ==
  ASSUME GateInv, NEW k \in Keys, NEW g \in Generations, NEW f \in Flight, Fly(k, g, f),
         flights[k][g].pc \in {"none", "finish"}, f.pc \in {"none", "gate"},
         UNCHANGED <<slots, gates>>
  PROVE  OneScanPerRoot' /\ SlotsCounted'
BY GateKept, SlotsKept DEF Holding

\* Joining or starting a flight takes neither.
LEMMA ScanGates ==
  ASSUME GateInv, NEW c \in Callers, NEW k \in Keys, NEW freshOnly \in BOOLEAN,
         Scan(c, k, freshOnly)
  PROVE  OneScanPerRoot' /\ SlotsCounted'
<1> DEFINE f == [NoFlight EXCEPT !.pc = "gate"]
<1>1. f \in Flight /\ f.pc = "gate"
  BY Numbers DEF NoFlight, Flight, FlightPCs
<1>2. gens[RootOf[k]] \in Generations
  BY ScanAssumption DEF ScanAssumption, GateInv, ScanInv, Typed
<1>3. UNCHANGED <<slots, gates>>
  BY DEF Scan
<1>4. \/ UNCHANGED flights
      \/ flights[k][gens[RootOf[k]]].pc = "none" /\ Fly(k, gens[RootOf[k]], f)
  BY DEF Scan
<1> HIDE DEF f
<1>5. CASE UNCHANGED flights
  <2>1. Scanning' = Scanning
    BY <1>5 DEF Scanning, PC
  <2>2. SlotsCounted'
    BY <1>3, <2>1 DEF GateInv, SlotsCounted
  <2>3. OneScanPerRoot'
    BY <1>3, <1>5 DEF GateInv, OneScanPerRoot, PC
  <2> QED BY <2>2, <2>3
<1>6. ASSUME NEW g \in Generations, flights[k][g].pc = "none", Fly(k, g, f)
      PROVE  OneScanPerRoot' /\ SlotsCounted'
  BY <1>1, <1>3, <1>6, OutsideGates
<1> QED BY <1>2, <1>4, <1>5, <1>6

\* Every step keeps GateInv.
LEMMA GateStep == GateInv /\ [Next]_vars => GateInv'
<1> SUFFICES ASSUME GateInv, [Next]_vars PROVE GateInv'
  OBVIOUS
<1>1. ScanInv'
  BY ScanStep DEF GateInv
<1>2. ASSUME NEW c \in Callers, NEW k \in Keys, NEW freshOnly \in BOOLEAN, Scan(c, k, freshOnly)
      PROVE  OneScanPerRoot' /\ SlotsCounted'
  BY <1>2, ScanGates
<1>3. ASSUME NEW k \in Keys, NEW g \in Generations, FlightStep(k, g)
      PROVE  OneScanPerRoot' /\ SlotsCounted'
  <2>1. CASE Finish(k, g)
    <3>1. NoFlight \in Flight /\ NoFlight.pc = "none"
      BY Numbers DEF NoFlight, Flight, FlightPCs
    <3>2. flights[k][g].pc = "finish" /\ Fly(k, g, NoFlight) /\ UNCHANGED <<slots, gates>>
      BY <2>1 DEF Finish
    <3> QED BY <3>1, <3>2, OutsideGates
  <2>2. CASE ~Finish(k, g)
    BY <1>3, <2>2, AcquireGateGates, AcquireSlotGates, ExpireGates, ExecuteGates, ReleaseGateGates
       DEF FlightStep
  <2> QED BY <2>1, <2>2
<1>4. ASSUME UNCHANGED <<flights, slots, gates>>
      PROVE  OneScanPerRoot' /\ SlotsCounted'
  <2>1. OneScanPerRoot'
    BY <1>4 DEF GateInv, OneScanPerRoot, PC
  <2>2. SlotsCounted'
    BY <1>4 DEF GateInv, SlotsCounted, Scanning, PC
  <2> QED BY <2>1, <2>2
<1>5. \/ \E c \in Callers, k \in Keys, freshOnly \in BOOLEAN : Scan(c, k, freshOnly)
      \/ \E k \in Keys, g \in Generations : FlightStep(k, g)
      \/ UNCHANGED <<flights, slots, gates>>
  BY DEF Next, Return, Cancel, Age, Edit, Mutate, Invalidate, vars
<1> QED BY <1>1, <1>2, <1>3, <1>4, <1>5 DEF GateInv

\* GateInv holds initially.
LEMMA GateInit == Init => GateInv
<1> SUFFICES ASSUME Init PROVE GateInv
  OBVIOUS
<1>1. \A h \in Aloft : PC(h) = "none"
  BY DEF Init, Aloft, PC, NoFlight
<1>2. Scanning = {}
  BY <1>1 DEF Scanning
<1>3. SlotsCounted
  BY <1>2, FS_EmptySet, ScanAssumption DEF ScanAssumption, SlotsCounted, Init
<1>4. OneScanPerRoot
  BY <1>1 DEF OneScanPerRoot, Holding, Init
<1> QED BY <1>3, <1>4, ScanInit DEF GateInv

\* GateInv holds of every behaviour.
LEMMA GateAlways == Spec => []GateInv
<1> QED BY GateInit, GateStep, PTL DEF Spec

\* Scans of one root never overlap, and no path out of a flight leaves the gate shut.
THEOREM GatesCorrect == Spec => []OneScanPerRoot
<1>1. GateInv => OneScanPerRoot
  BY DEF GateInv
<1> QED BY <1>1, GateAlways, PTL

\* The variables have their types; above all, no more and no fewer slots are taken than there
\* are, because as many are taken as scans run.
THEOREM ScanTypesCorrect == Spec => []TypeOK
<1>1. GateInv => TypeOK
  <2> SUFFICES ASSUME GateInv PROVE TypeOK
    OBVIOUS
  <2>1. slots \in 0..Slots
    <3>1. Cardinality(Scanning) \in Nat
      BY FS_CardinalityType DEF GateInv, SlotsCounted
    <3> QED BY <3>1, ScanAssumption DEF ScanAssumption, GateInv, SlotsCounted
  <2> QED BY <2>1 DEF GateInv, ScanInv, Typed, TypeOK
<1> QED BY <1>1, GateAlways, PTL

-----------------------------------------------------------------------------
(* The coordinator implements FileScans: a scan asks, a return answers or  *)
(* gives up, a cancellation gives up, edits and mutations are changes, an  *)
(* invalidation announces, and what flights and caches do is not seen.     *)

\* A caller as FileScans sees it.
Seen(c) ==
  [key |-> calls[c].key, floor |-> calls[c].floor,
   answer |-> IF calls[c].pc = "idle" THEN calls[c].val ELSE 0]
Asked == [c \in Callers |-> Seen(c)]

\* A call asks, whether it is answered from the cache or waits.
LEMMA ScanAsks ==
  ASSUME ScanInv, NEW c \in Callers, NEW k \in Keys, NEW freshOnly \in BOOLEAN, Scan(c, k, freshOnly)
  PROVE  Requirements!Ask(c, k)
<1> DEFINE call == [pc |-> "wait", key |-> k, gen |-> gens[RootOf[k]], floor |-> valid[RootOf[k]],
                    val |-> 0, err |-> FALSE]
           hit == [call EXCEPT !.pc = "answer", !.val = cache[k].val]
<1>1. calls \in [Callers -> Call] /\ calls[c].pc = "idle" /\ calls[c].key = NoKey
  BY DEF ScanInv, Typed, CallInv, Scan
<1>2. calls' = [calls EXCEPT ![c] = call] \/ calls' = [calls EXCEPT ![c] = hit]
  BY DEF Scan
<1>3. /\ call.pc # "idle" /\ call.key = k /\ call.floor = valid[RootOf[k]]
      /\ hit.pc # "idle" /\ hit.key = k /\ hit.floor = valid[RootOf[k]]
  OBVIOUS
<1> HIDE DEF call, hit
<1>4. PICK d : d.pc # "idle" /\ d.key = k /\ d.floor = valid[RootOf[k]] /\ calls' = [calls EXCEPT ![c] = d]
  BY <1>2, <1>3
<1>5. \A e \in Callers : calls'[e] = IF e = c THEN d ELSE calls[e]
  BY <1>1, <1>4
<1>6. Asked' = [Asked EXCEPT ![c] = [key |-> k, floor |-> valid[RootOf[k]], answer |-> 0]]
  <2>1. \A e \in Callers : Seen(e)' = IF e = c
                                      THEN [key |-> k, floor |-> valid[RootOf[k]], answer |-> 0]
                                      ELSE Seen(e)
    BY <1>4, <1>5 DEF Seen
  <2> QED BY <2>1 DEF Asked
<1>7. Asked[c].key = NoKey
  BY <1>1 DEF Asked, Seen
<1> QED BY <1>6, <1>7 DEF Requirements!Ask, Scan, Asked, Seen

\* A caller that leaves is free again.
LEMMA LeaveFrees ==
  ASSUME ScanInv, NEW c \in Callers, NEW v, calls' = [calls EXCEPT ![c] = Idle(v)]
  PROVE  Asked' = [Asked EXCEPT ![c] = Requirements!Free(v)]
<1>1. \A e \in Callers : calls'[e] = IF e = c THEN Idle(v) ELSE calls[e]
  BY DEF ScanInv, Typed
<1>2. Idle(v).pc = "idle" /\ Idle(v).key = NoKey /\ Idle(v).floor = 0 /\ Idle(v).val = v
  BY DEF Idle
<1> QED BY <1>1, <1>2 DEF Asked, Seen, Requirements!Free

\* A result answers, an error or the caller's own deadline gives up.
LEMMA ReturnAnswers ==
  ASSUME ScanInv, NEW c \in Callers, Return(c) \/ Cancel(c)
  PROVE  Requirements!GiveUp(c) \/ \E v \in Versions : Requirements!Answer(c, v)
<1>1. calls[c] \in Call /\ calls[c].pc # "idle" /\ calls[c].key \in Keys
  BY DEF ScanInv, Typed, CallInv, Return, Cancel
<1>2. Asked[c].key = calls[c].key /\ Asked[c].floor = calls[c].floor /\ Asked[c].key # NoKey
  BY <1>1, ScanAssumption DEF ScanAssumption, Asked, Seen
<1>3. UNCHANGED <<world, valid>>
  BY DEF Return, Cancel
<1>4. CASE calls' = [calls EXCEPT ![c] = Idle(0)]
  BY <1>2, <1>3, <1>4, LeaveFrees DEF Requirements!GiveUp, Asked, Seen
<1>5. CASE calls[c].pc = "answer" /\ ~calls[c].err /\ calls' = [calls EXCEPT ![c] = Idle(calls[c].val)]
  <2>1. calls[c].floor <= calls[c].val /\ calls[c].val <= world[RootOf[calls[c].key]]
    BY <1>5 DEF ScanInv, CallInv, Root
  <2>2. calls[c].val \in Versions /\ calls[c].floor \in Versions /\ RootOf[calls[c].key] \in Roots
    BY <1>1, ScanAssumption DEF ScanAssumption, Call
  <2>3. world[RootOf[calls[c].key]] \in Versions
    BY <2>2 DEF ScanInv, Typed
  <2>4. PICK v \in Versions : v = calls[c].val
    BY <2>2
  <2>5. v \in calls[c].floor..world[RootOf[calls[c].key]]
    BY <2>1, <2>2, <2>3, <2>4, Numbers
  <2>6. v \in Asked[c].floor..world[RootOf[Asked[c].key]]
    BY <1>2, <2>5
  <2>7. Asked' = [Asked EXCEPT ![c] = Requirements!Free(v)]
    BY <1>5, <2>4, LeaveFrees
  <2>8. Requirements!Answer(c, v)
    BY <1>2, <1>3, <2>6, <2>7 DEF Requirements!Answer, Asked, Seen
  <2> QED BY <2>8
<1> QED BY <1>4, <1>5 DEF Return, Cancel

\* A finished flight is not seen before its callers return.
LEMMA FinishUnseen ==
  ASSUME ScanInv, NEW k \in Keys, NEW g \in Generations, Finish(k, g)
  PROVE  UNCHANGED <<world, valid, Asked>>
<1>1. \A c \in Callers : calls[c] \in Call
  BY DEF ScanInv, Typed
<1>2. \A c \in Callers :
        \/ calls'[c] = calls[c]
        \/ /\ calls[c].pc = "wait"
           /\ calls'[c] = [calls[c] EXCEPT !.pc = "answer", !.val = flights[k][g].val,
                                            !.err = flights[k][g].err]
  BY DEF Finish, Delivered
<1>3. \A c \in Callers : Seen(c)' = Seen(c)
  BY <1>1, <1>2 DEF Seen, Call
<1> QED BY <1>3 DEF Finish, Asked

\* The coordinator implements FileScans.
THEOREM CoordinatorImplements == Spec => Implements
<1>1. Init => Requirements!Init
  BY DEF Init, Requirements!Init, Requirements!Free, Idle
<1>2. ScanInv /\ [Next]_vars => [Requirements!Next]_(Requirements!vars)
  <2> SUFFICES ASSUME ScanInv, [Next]_vars
               PROVE  Requirements!Next \/ UNCHANGED <<world, valid, Asked>>
    BY DEF Requirements!vars, Asked, Seen
  <2>1. ASSUME NEW c \in Callers, NEW k \in Keys, NEW freshOnly \in BOOLEAN, Scan(c, k, freshOnly)
        PROVE  Requirements!Next
    BY <2>1, ScanAsks DEF Requirements!Next
  <2>2. ASSUME NEW c \in Callers, Return(c) \/ Cancel(c) PROVE Requirements!Next
    BY <2>2, ReturnAnswers DEF Requirements!Next, Versions
  <2>3. ASSUME NEW r \in Roots, Edit(r) \/ \E m \in Mutators : Mutate(m, r) PROVE Requirements!Next
    <3>1. Requirements!Change(r)
      BY <2>3 DEF Edit, Mutate, Requirements!Change
    <3> QED BY <3>1 DEF Requirements!Next
  <2>4. ASSUME NEW m \in Mutators, Invalidate(m) PROVE Requirements!Next
    <3> DEFINE r == changed[m].root
               v == IF valid[r] < changed[m].ver THEN changed[m].ver ELSE valid[r]
    <3>1. r \in Roots /\ changed[m].ver \in Versions /\ changed[m].ver <= world[r]
      BY <2>4 DEF ScanInv, Typed, WorldInv, Invalidate
    <3>2. valid[r] \in Versions /\ world[r] \in Versions /\ valid[r] <= world[r]
      BY <3>1 DEF ScanInv, Typed, WorldInv
    <3>3. v \in valid[r]..world[r] /\ v \in 0..MaxVersion
      BY <3>1, <3>2, Numbers DEF Versions
    <3>4. valid' = [valid EXCEPT ![r] = v] /\ UNCHANGED <<world, calls>>
      BY <2>4 DEF Invalidate
    <3>5. Requirements!Announce(r, v)
      BY <3>3, <3>4 DEF Requirements!Announce
    <3> QED BY <3>1, <3>3, <3>5 DEF Requirements!Next
  <2>5. ASSUME NEW k \in Keys, NEW g \in Generations, Finish(k, g) PROVE UNCHANGED <<world, valid, Asked>>
    BY <2>5, FinishUnseen
  <2>6. CASE UNCHANGED <<world, valid, calls>>
    BY <2>6 DEF Asked, Seen
  <2>7. \/ \E c \in Callers, k \in Keys, freshOnly \in BOOLEAN : Scan(c, k, freshOnly)
        \/ \E c \in Callers : Return(c) \/ Cancel(c)
        \/ \E r \in Roots : Edit(r) \/ \E m \in Mutators : Mutate(m, r)
        \/ \E m \in Mutators : Invalidate(m)
        \/ \E k \in Keys, g \in Generations : Finish(k, g)
        \/ UNCHANGED <<world, valid, calls>>
    <3>1. ASSUME NEW k \in Keys, NEW g \in Generations, FlightStep(k, g)
          PROVE  Finish(k, g) \/ UNCHANGED <<world, valid, calls>>
      BY <3>1 DEF FlightStep, AcquireGate, AcquireSlot, Expire, Execute, ReleaseGate
    <3>2. ASSUME NEW k \in Keys, Age(k) PROVE UNCHANGED <<world, valid, calls>>
      BY <3>2 DEF Age
    <3>3. CASE UNCHANGED vars BY <3>3 DEF vars
    <3> QED BY <3>1, <3>2, <3>3 DEF Next
  <2> QED BY <2>1, <2>2, <2>3, <2>4, <2>5, <2>6, <2>7
<1> QED BY <1>1, <1>2, ScanAlways, PTL DEF Spec, Implements, Requirements!Spec

=============================================================================
