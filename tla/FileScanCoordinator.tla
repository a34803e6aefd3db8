------------------------ MODULE FileScanCoordinator ------------------------
(***************************************************************************)
(* fileScanCoordinator of utils/git/git_scan_coordinator.go: equivalent    *)
(* Git scans share one flight, answers are cached for a short time, scans  *)
(* of one root run one after the other and at most Slots run at all.       *)
(*                                                                         *)
(* The three kinds of scan (status, diff stats, worktree status) have the  *)
(* same code over caches and flights of their own: a key of Keys stands    *)
(* for a kind with its root and its options.  A repository's contents are  *)
(* a version number, and a scan sees some version between its start and    *)
(* its end.  Steps of the coordinator are the critical sections of its     *)
(* mutex and the operations on its channels.  Definitions marked "variant" *)
(* are plausible wrong versions, for mutation runs.                        *)
(***************************************************************************)
EXTENDS Naturals

CONSTANTS
  Roots,        \* normalised repository roots
  Keys,         \* scan keys: kind, root and options
  RootOf,       \* the root of a key
  Callers,      \* goroutines in status, stats or worktreeStatus
  Mutators,     \* goroutines that change files and then call InvalidateFileScans
  Slots,        \* concurrency
  NoKey,        \* the key of a caller that asks nothing
  MaxVersion,   \* bound: changes of a root
  MaxGeneration \* bound: invalidations of a root

ASSUME ScanAssumption ==
  /\ Roots # {}
  /\ RootOf \in [Keys -> Roots]
  /\ Slots \in Nat \ {0}
  /\ MaxVersion \in Nat /\ MaxGeneration \in Nat
  /\ NoKey \notin Keys

VARIABLES
  world,    \* the version of each repository
  valid,    \* history: the version that the last invalidation of a root followed
  gens,     \* generations
  cache,    \* statusCache, statsCache, worktreeCache; live: present and younger than the TTL
  flights,  \* statusFlights, statsFlights, worktreeFlights, by key and generation
  slots,    \* len(c.slots)
  gates,    \* len(rootGates[root]) = 1
  calls,    \* the callers
  changed   \* the mutators: the root changed but not invalidated, with the version

vars == <<world, valid, gens, cache, flights, slots, gates, calls, changed>>

Versions == 0..MaxVersion
Generations == 0..MaxGeneration
FlightPCs == {"none", "gate", "slot", "run", "freeGate", "finish"}
Flight == [pc : FlightPCs, val : Versions, err : BOOLEAN]
Done == [busy |-> FALSE, root |-> CHOOSE r \in Roots : TRUE, ver |-> 0]
NoFlight == [pc |-> "none", val |-> 0, err |-> FALSE]
CallPCs == {"idle", "wait", "answer"}
Call == [pc : CallPCs, key : Keys \cup {NoKey}, gen : Generations,
         floor : Versions, val : Versions, err : BOOLEAN]
Idle(v) == [pc |-> "idle", key |-> NoKey, gen |-> 0, floor |-> 0, val |-> v, err |-> FALSE]

Init ==
  /\ world = [r \in Roots |-> 0] /\ valid = [r \in Roots |-> 0] /\ gens = [r \in Roots |-> 0]
  /\ cache = [k \in Keys |-> [live |-> FALSE, val |-> 0, gen |-> 0]]
  /\ flights = [k \in Keys |-> [g \in Generations |-> NoFlight]]
  /\ slots = 0 /\ gates = [r \in Roots |-> FALSE]
  /\ calls = [c \in Callers |-> Idle(0)]
  /\ changed = [m \in Mutators |-> Done]

Fly(k, g, f) == flights' = [flights EXCEPT ![k] = [@ EXCEPT ![g] = f]]

\* an entry is deleted, or too old to be used; val stays as history
Dropped(k) == [live |-> FALSE, val |-> cache[k].val, gen |-> 0]

-----------------------------------------------------------------------------
(* Callers.                                                                *)

Hit(k) == cache[k].live /\ cache[k].gen = gens[RootOf[k]]

\* one critical section: answer from the cache, join a flight, or start one
Scan(c, k, freshOnly) ==
  LET g == gens[RootOf[k]]
      asked == [pc |-> "wait", key |-> k, gen |-> g, floor |-> valid[RootOf[k]], val |-> 0,
                err |-> FALSE]
  IN
  /\ calls[c].pc = "idle"
  /\ \/ /\ Hit(k) /\ ~freshOnly
        /\ calls' = [calls EXCEPT ![c] = [asked EXCEPT !.pc = "answer", !.val = cache[k].val]]
        /\ UNCHANGED flights
     \/ /\ ~Hit(k) \/ freshOnly
        /\ calls' = [calls EXCEPT ![c] = asked]
        /\ IF flights[k][g].pc # "none" THEN UNCHANGED flights
                                        ELSE Fly(k, g, [NoFlight EXCEPT !.pc = "gate"])
  /\ UNCHANGED <<world, valid, gens, cache, slots, gates, changed>>

\* the result is cloned and returned, or the error is; val stays as history
Return(c) ==
  /\ calls[c].pc = "answer"
  /\ calls' = [calls EXCEPT ![c] = Idle(IF calls[c].err THEN 0 ELSE calls[c].val)]
  /\ UNCHANGED <<world, valid, gens, cache, flights, slots, gates, changed>>

\* the caller's own context ends; the flight goes on
Cancel(c) ==
  /\ calls[c].pc \in {"wait", "answer"}
  /\ calls' = [calls EXCEPT ![c] = Idle(0)]
  /\ UNCHANGED <<world, valid, gens, cache, flights, slots, gates, changed>>

-----------------------------------------------------------------------------
(* Flights.                                                                *)

AcquireGate(k, g) ==
  /\ flights[k][g].pc = "gate" /\ ~gates[RootOf[k]]
  /\ gates' = [gates EXCEPT ![RootOf[k]] = TRUE]
  /\ Fly(k, g, [flights[k][g] EXCEPT !.pc = "slot"])
  /\ UNCHANGED <<world, valid, gens, cache, slots, calls, changed>>

\* variant: the number of scans is not limited
SlotAlways(k, g) ==
  /\ flights[k][g].pc = "slot" /\ slots' = slots + 1
  /\ Fly(k, g, [flights[k][g] EXCEPT !.pc = "run", !.val = world[RootOf[k]]])
  /\ UNCHANGED <<world, valid, gens, cache, gates, calls, changed>>

\* and the scan starts
AcquireSlot(k, g) ==
  /\ flights[k][g].pc = "slot" /\ slots < Slots /\ slots' = slots + 1
  /\ Fly(k, g, [flights[k][g] EXCEPT !.pc = "run", !.val = world[RootOf[k]]])
  /\ UNCHANGED <<world, valid, gens, cache, gates, calls, changed>>

\* variant: the gate is kept
ExpireHoldingGate(k, g) ==
  /\ flights[k][g].pc \in {"gate", "slot"}
  /\ Fly(k, g, [flights[k][g] EXCEPT !.pc = "finish", !.err = TRUE])
  /\ UNCHANGED <<world, valid, gens, cache, slots, gates, calls, changed>>

\* the flight's deadline passes while it waits
Expire(k, g) ==
  /\ flights[k][g].pc \in {"gate", "slot"}
  /\ IF flights[k][g].pc = "slot" THEN gates' = [gates EXCEPT ![RootOf[k]] = FALSE]
                                  ELSE UNCHANGED gates
  /\ Fly(k, g, [flights[k][g] EXCEPT !.pc = "finish", !.err = TRUE])
  /\ UNCHANGED <<world, valid, gens, cache, slots, calls, changed>>

\* the runner returns what it saw, or an error, and the slot is given back
Execute(k, g) ==
  /\ flights[k][g].pc = "run" /\ slots' = slots - 1
  /\ \/ \E v \in flights[k][g].val..world[RootOf[k]] :
          Fly(k, g, [pc |-> "freeGate", val |-> v, err |-> FALSE])
     \/ Fly(k, g, [pc |-> "freeGate", val |-> 0, err |-> TRUE])
  /\ UNCHANGED <<world, valid, gens, cache, gates, calls, changed>>

\* variant: the slot is returned, the gate is not
KeepGate(k, g) ==
  /\ flights[k][g].pc = "freeGate"
  /\ Fly(k, g, [flights[k][g] EXCEPT !.pc = "finish"])
  /\ UNCHANGED <<world, valid, gens, cache, slots, gates, calls, changed>>

\* then the gate
ReleaseGate(k, g) ==
  /\ flights[k][g].pc = "freeGate" /\ gates' = [gates EXCEPT ![RootOf[k]] = FALSE]
  /\ Fly(k, g, [flights[k][g] EXCEPT !.pc = "finish"])
  /\ UNCHANGED <<world, valid, gens, cache, slots, calls, changed>>

\* who waits for a flight, gets its result
Delivered(k, g) ==
  [c \in Callers |->
     IF calls[c].pc = "wait" /\ calls[c].key = k /\ calls[c].gen = g
       THEN [calls[c] EXCEPT !.pc = "answer", !.val = flights[k][g].val, !.err = flights[k][g].err]
       ELSE calls[c]]

\* variant: a result is cached whatever was invalidated meanwhile
FinishLate(k, g) ==
  /\ flights[k][g].pc = "finish"
  /\ cache' = IF ~flights[k][g].err
                THEN [cache EXCEPT ![k] = [live |-> TRUE, val |-> flights[k][g].val, gen |-> g]]
                ELSE cache
  /\ Fly(k, g, NoFlight) /\ calls' = Delivered(k, g)
  /\ UNCHANGED <<world, valid, gens, slots, gates, changed>>

\* one critical section: cache a result that is still valid, remove the flight, drop stale
\* entries of all keys, wake the waiting callers
Finish(k, g) ==
  LET f == flights[k][g]
      kept == [j \in Keys |-> IF cache[j].gen = gens[RootOf[j]] THEN cache[j] ELSE Dropped(j)]
  IN
  /\ f.pc = "finish"
  /\ cache' = IF ~f.err /\ g = gens[RootOf[k]]
                THEN [kept EXCEPT ![k] = [live |-> TRUE, val |-> f.val, gen |-> g]]
                ELSE kept
  /\ Fly(k, g, NoFlight)
  /\ calls' = Delivered(k, g)
  /\ UNCHANGED <<world, valid, gens, slots, gates, changed>>

\* an entry reaches its TTL
Age(k) ==
  /\ cache[k].live /\ cache' = [cache EXCEPT ![k] = Dropped(k)]
  /\ UNCHANGED <<world, valid, gens, flights, slots, gates, calls, changed>>

-----------------------------------------------------------------------------
(* The repositories.                                                       *)

\* somebody else edits files: an agent, an editor, a shell
Edit(r) ==
  /\ world[r] < MaxVersion /\ world' = [world EXCEPT ![r] = @ + 1]
  /\ UNCHANGED <<valid, gens, cache, flights, slots, gates, calls, changed>>

\* the file manager or the worktree service changes files ...
Mutate(m, r) ==
  /\ ~changed[m].busy /\ world[r] < MaxVersion
  /\ world' = [world EXCEPT ![r] = @ + 1]
  /\ changed' = [changed EXCEPT ![m] = [busy |-> TRUE, root |-> r, ver |-> world[r] + 1]]
  /\ UNCHANGED <<valid, gens, cache, flights, slots, gates, calls>>

\* variant: the generation stays
DropOnly(m) ==
  LET r == changed[m].root IN
  /\ changed[m].busy /\ gens[r] < MaxGeneration
  /\ valid' = [valid EXCEPT ![r] = IF @ < changed[m].ver THEN changed[m].ver ELSE @]
  /\ cache' = [k \in Keys |-> IF RootOf[k] = r THEN Dropped(k) ELSE cache[k]]
  /\ changed' = [changed EXCEPT ![m] = Done]
  /\ UNCHANGED <<world, gens, flights, slots, gates, calls>>

\* ... and calls InvalidateFileScans
Invalidate(m) ==
  LET r == changed[m].root IN
  /\ changed[m].busy /\ gens[r] < MaxGeneration
  /\ gens' = [gens EXCEPT ![r] = @ + 1]
  /\ valid' = [valid EXCEPT ![r] = IF @ < changed[m].ver THEN changed[m].ver ELSE @]
  /\ cache' = [k \in Keys |-> IF RootOf[k] = r THEN Dropped(k) ELSE cache[k]]
  /\ changed' = [changed EXCEPT ![m] = Done]
  /\ UNCHANGED <<world, flights, slots, gates, calls>>

-----------------------------------------------------------------------------
FlightStep(k, g) ==
  \/ AcquireGate(k, g) \/ AcquireSlot(k, g) \/ Expire(k, g) \/ Execute(k, g)
  \/ ReleaseGate(k, g) \/ Finish(k, g)

Next ==
  \/ \E c \in Callers :
       \/ \E k \in Keys, freshOnly \in BOOLEAN : Scan(c, k, freshOnly)
       \/ Return(c) \/ Cancel(c)
  \/ \E k \in Keys : Age(k) \/ \E g \in Generations : FlightStep(k, g)
  \/ \E r \in Roots : Edit(r) \/ \E m \in Mutators : Mutate(m, r)
  \/ \E m \in Mutators : Invalidate(m)

Spec == Init /\ [][Next]_vars

\* Flights run on, and who waits in a channel's queue is served in turn.  Nobody's deadline
\* need pass.
Progress(k, g) ==
  \/ AcquireGate(k, g) \/ AcquireSlot(k, g) \/ Execute(k, g)
  \/ ReleaseGate(k, g) \/ Finish(k, g)
Fairness == \A k \in Keys : \A g \in Generations : SF_vars(Progress(k, g))
FairSpec == Spec /\ Fairness

-----------------------------------------------------------------------------
(* Properties.                                                             *)

\* Types of the variables.
TypeOK ==
  /\ world \in [Roots -> Versions] /\ valid \in [Roots -> Versions]
  /\ gens \in [Roots -> Generations]
  /\ cache \in [Keys -> [live : BOOLEAN, val : Versions, gen : Generations]]
  /\ flights \in [Keys -> [Generations -> Flight]]
  /\ slots \in 0..Slots /\ gates \in [Roots -> BOOLEAN]
  /\ calls \in [Callers -> Call]
  /\ changed \in [Mutators -> [busy : BOOLEAN, root : Roots, ver : Versions]]

\* A caller that asks after a mutation was announced never sees the repository as it was
\* before: neither a cached answer nor a flight that started earlier may serve it.
ReadsAnnounced ==
  \A c \in Callers :
    calls[c].pc = "answer" /\ ~calls[c].err =>
      calls[c].floor <= calls[c].val /\ calls[c].val <= world[RootOf[calls[c].key]]

\* What is cached under a key never goes back to an older version: an overtaken flight of an
\* earlier generation does not overwrite what a later one found.
CacheAdvances == [][\A k \in Keys : cache[k].val <= cache'[k].val]_vars

Holding == {"slot", "run", "freeGate"}
Aloft == Keys \X Generations
PC(f) == flights[f[1]][f[2]].pc

\* Git commands of one repository never overlap, across kinds, options and generations,
\* and the gate is shut exactly while one flight holds it: no path out of a flight leaks it.
OneScanPerRoot ==
  \A r \in Roots :
    /\ \A e, f \in {h \in Aloft : RootOf[h[1]] = r /\ PC(h) \in Holding} : e = f
    /\ gates[r] <=> \E f \in Aloft : RootOf[f[1]] = r /\ PC(f) \in Holding

\* Every call is answered, without anybody's deadline passing, however many others queue for
\* the same root and the slots.
EveryCallAnswered == \A c \in Callers : calls[c].pc = "wait" ~> calls[c].pc # "wait"

Requirements == INSTANCE FileScans WITH
  asked <- [c \in Callers |->
              [key |-> calls[c].key, floor |-> calls[c].floor,
               answer |-> IF calls[c].pc = "idle" THEN calls[c].val ELSE 0]]

\* The coordinator implements FileScans.
Implements == Requirements!Spec

=============================================================================
