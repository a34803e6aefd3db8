----------------------------- MODULE FileScans -----------------------------
(***************************************************************************)
(* What the callers of utils/git's scans may rely on: an answer shows the  *)
(* repository as it was at some moment not before the last invalidation    *)
(* that had returned when the call was made, and not after the answer.     *)
(* Contents of a repository are version numbers.                           *)
(***************************************************************************)
EXTENDS Naturals

CONSTANTS Roots, Keys, RootOf, Callers, NoKey, MaxVersion

VARIABLES
  world,   \* the version of each repository
  valid,   \* the newest version that an invalidation has announced
  asked    \* the calls: what is asked, the version announced before, the last answer

vars == <<world, valid, asked>>

Free(v) == [key |-> NoKey, floor |-> 0, answer |-> v]

Init ==
  /\ world = [r \in Roots |-> 0] /\ valid = [r \in Roots |-> 0]
  /\ asked = [c \in Callers |-> Free(0)]

\* a file changes
Change(r) ==
  /\ world[r] < MaxVersion /\ world' = [world EXCEPT ![r] = @ + 1]
  /\ UNCHANGED <<valid, asked>>

\* who changed files announces it
Announce(r, v) ==
  /\ v \in valid[r]..world[r] /\ valid' = [valid EXCEPT ![r] = v]
  /\ UNCHANGED <<world, asked>>

Ask(c, k) ==
  /\ asked[c].key = NoKey
  /\ asked' = [asked EXCEPT ![c] = [key |-> k, floor |-> valid[RootOf[k]], answer |-> 0]]
  /\ UNCHANGED <<world, valid>>

Answer(c, v) ==
  /\ asked[c].key # NoKey /\ v \in asked[c].floor..world[RootOf[asked[c].key]]
  /\ asked' = [asked EXCEPT ![c] = Free(v)]
  /\ UNCHANGED <<world, valid>>

\* the caller's context ends, or the scan fails
GiveUp(c) ==
  /\ asked[c].key # NoKey /\ asked' = [asked EXCEPT ![c] = Free(0)]
  /\ UNCHANGED <<world, valid>>

Next ==
  \/ \E r \in Roots : Change(r) \/ \E v \in 0..MaxVersion : Announce(r, v)
  \/ \E c \in Callers :
       \/ \E k \in Keys : Ask(c, k)
       \/ \E v \in 0..MaxVersion : Answer(c, v)
       \/ GiveUp(c)

Spec == Init /\ [][Next]_vars

=============================================================================
