---------------------------- MODULE Hydration_proofs ----------------------------
(***************************************************************************)
(* Proofs about the page of Hydration: its types with the order of its     *)
(* three clocks; that no item of an earlier history stays or comes back;   *)
(* and that only frames take the cursor past an item the page lacks.  A    *)
(* helper of the page gets one lemma for each of the two invariants (IInv: *)
(* WellFormed is preserved, blocks and epoch are left alone; CInv: what it *)
(* returns Follows the page), an action one step.                          *)
(***************************************************************************)
EXTENDS Hydration, FiniteSetTheorems, WellFoundedInduction, TLAPS

Epochs == 0..MaxEpoch
Events == 0..MaxEvents
Pending == [rev : Revisions, mode : Modes]
Attempt == [rev : Revisions, count : 0..MaxAttempts, wait : BOOLEAN, aged : BOOLEAN]
Frame == [op : {"session", "resync", "item"}, rev : Revisions, epoch : Epochs, item : Items,
          content : Content]
Page == [observed : Revisions, applied : Revisions, hydrated : Revisions, known : Revisions,
         epoch : Epochs, cursor : Events, blocks : Rows, pending : Pending, attempt : Attempt,
         timer : BOOLEAN, focused : BOOLEAN, sync : Load, panel : Load]

\* Nothing in rows is older than the epoch e.
From(rows, e) == \A i \in Items : rows[i] # Absent => rows[i].gen >= e

\* A load of the page, when the server is at revision R and epoch E.
GoodLoad(l, R, E) ==
  /\ l \in Load /\ l.ans.rev <= R /\ l.ans.epoch <= E
  /\ l.pc = "answered" => From(l.ans.rows, l.ans.epoch)

\* The page then, apart from what it shows.
WellFormed(p, R, E) ==
  /\ p \in Page
  /\ p.hydrated <= p.applied /\ p.applied <= p.observed /\ p.observed <= R
  /\ GoodLoad(p.sync, R, E) /\ GoodLoad(p.panel, R, E)

\* A frame: an item it carries was written in the epoch it names.
GoodFrame(f, R) ==
  /\ f \in Frame /\ f.rev <= R
  /\ f.op = "item" => f.content.gen >= f.epoch

ServerInv ==
  /\ server \in [rev : Revisions, epoch : Epochs, seq : Events, rows : Rows]
  /\ From(server.rows, server.epoch)
  /\ unsent \in [item : Items, content : Content]
  /\ unsent.content # Absent => unsent.content.gen = server.epoch
WireInv ==
  /\ \A f \in notes : GoodFrame(f, server.rev)
  /\ stream \in [open : BOOLEAN, focus : BOOLEAN, beat : BOOLEAN, wire : Seq(Frame)]
  /\ Len(stream.wire) <= MaxWire
  /\ \A k \in 1..Len(stream.wire) : GoodFrame(stream.wire[k], server.rev)
ReplyInv ==
  reply \in [rev : Revisions, op : {"none", "reconcile", "goal"}] /\ reply.rev <= server.rev
PageInv == WellFormed(page, server.rev, server.epoch) /\ From(page.blocks, page.epoch)

IInv == ServerInv /\ WireInv /\ ReplyInv /\ PageInv

-----------------------------------------------------------------------------
(* The helpers of the sync.                                                *)

\* The larger of two numbers is one of them, and not below either.
LEMMA LargerIs ==
  ASSUME NEW m \in Nat, NEW n \in Nat
  PROVE  /\ Larger(m, n) \in {m, n}
         /\ m <= Larger(m, n) /\ n <= Larger(m, n)
BY DEF Larger

\* Constants of the types.
LEMMA Constants ==
  /\ MaxRevision \in Nat \ {0} /\ MaxEpoch \in Nat \ {0} /\ MaxEvents \in Nat \ {0}
  /\ MaxAttempts \in Nat \ {0}
  /\ 0 \in Revisions /\ 0 \in Epochs /\ 0 \in Events /\ 1 \in Revisions /\ 1 \in Epochs /\ 1 \in Events
  /\ Revisions \subseteq Nat /\ Epochs \subseteq Nat /\ Events \subseteq Nat
  /\ Absent \in Content
  /\ First \in Items
BY HydrationAssumption DEF HydrationAssumption, Revisions, Epochs, Events, Absent, Content, First

\* The empty values of a load, a request and an attempt.
LEMMA Nothing ==
  ASSUME NEW R \in Revisions, NEW E \in Epochs
  PROVE  /\ [i \in Items |-> Absent] \in Rows
         /\ NoAnswer \in Answer /\ NoPending \in Pending /\ NoAttempt \in Attempt
         /\ GoodLoad(NoLoad, R, E)
<1>1. [i \in Items |-> Absent] \in Rows
  BY Constants DEF Rows
<1>2. NoAnswer \in Answer
  BY <1>1, Constants DEF NoAnswer, Answer, Epochs, Events
<1>3. NoLoad \in Load
  BY <1>2, Constants DEF NoLoad, Load, Modes, Epochs, Events
<1>4. NoPending \in Pending /\ NoAttempt \in Attempt
  BY Constants DEF NoPending, Pending, NoAttempt, Attempt, Modes
<1>5. NoLoad.ans.rev = 0 /\ NoLoad.ans.epoch = 0 /\ NoLoad.pc = "idle"
  BY DEF NoLoad, NoAnswer
<1> QED
  BY <1>1, <1>2, <1>3, <1>4, <1>5, Constants DEF GoodLoad

\* A load asked with no answer yet is good.
LEMMA NewLoad ==
  ASSUME NEW R \in Revisions, NEW E \in Epochs, NEW l \in Load,
         l.ans = NoAnswer, l.pc # "answered"
  PROVE  GoodLoad(l, R, E)
<1>1. l.ans.rev = 0 /\ l.ans.epoch = 0
  BY DEF NoAnswer
<1> QED
  BY <1>1, Constants DEF GoodLoad

\* What a well-formed page has under the name of a load.
LEMMA LoadOf ==
  ASSUME NEW R, NEW E, NEW p, WellFormed(p, R, E), NEW who \in Loads
  PROVE  GoodLoad(p[who], R, E) /\ p[who] \in Load
BY DEF Loads, WellFormed, GoodLoad

\* A load may be replaced by a good one; the rest of the page stays.
LEMMA SetLoad ==
  ASSUME NEW R \in Revisions, NEW E \in Epochs, NEW p, WellFormed(p, R, E), NEW who \in Loads,
         NEW l, GoodLoad(l, R, E), NEW q, q = [p EXCEPT ![who] = l]
  PROVE  /\ WellFormed(q, R, E) /\ q.blocks = p.blocks /\ q.epoch = p.epoch
         /\ q[who] = l /\ q[Other(who)] = p[Other(who)]
<1>1. l \in Load /\ p \in Page
  BY DEF GoodLoad, WellFormed
<1>2. CASE who = "sync"
  BY <1>1, <1>2 DEF WellFormed, Page, Other
<1>3. CASE who = "panel"
  BY <1>1, <1>3 DEF WellFormed, Page, Other
<1> QED
  BY <1>2, <1>3 DEF Loads

\* A later state of the server keeps a good load good, and a page well-formed.
LEMMA Later ==
  ASSUME NEW R \in Revisions, NEW E \in Epochs, NEW S \in Revisions, NEW F \in Epochs,
         R <= S, E <= F, NEW p, WellFormed(p, R, E)
  PROVE  WellFormed(p, S, F)
<1>1. ASSUME NEW l, GoodLoad(l, R, E) PROVE GoodLoad(l, S, F)
  <2>1. l \in Load /\ l.ans.rev \in Revisions /\ l.ans.epoch \in Epochs
    BY <1>1 DEF GoodLoad, Load, Answer, Epochs
  <2>2. /\ l.ans.rev \in Nat /\ l.ans.epoch \in Nat
        /\ R \in Nat /\ S \in Nat /\ E \in Nat /\ F \in Nat
    BY <2>1, Constants
  <2>3. l.ans.rev <= R /\ l.ans.epoch <= E
    BY <1>1 DEF GoodLoad
  <2>4. l.ans.rev <= S /\ l.ans.epoch <= F
    BY <2>2, <2>3
  <2> QED
    BY <1>1, <2>4 DEF GoodLoad
<1>2. p.observed \in Nat /\ R \in Nat /\ S \in Nat /\ p.observed <= R
  BY Constants DEF WellFormed, Page
<1>3. p.observed <= S
  BY <1>2
<1> QED
  BY <1>1, <1>3 DEF WellFormed

\* A revision is observed.
LEMMA Observed ==
  ASSUME NEW R \in Revisions, NEW E \in Epochs, NEW p, WellFormed(p, R, E),
         NEW r \in Revisions, r <= R
  PROVE  /\ WellFormed(Observe(p, r), R, E)
         /\ Observe(p, r).blocks = p.blocks /\ Observe(p, r).epoch = p.epoch
         /\ Observe(p, r).sync = p.sync /\ Observe(p, r).panel = p.panel
         /\ Observe(p, r).observed >= r /\ Observe(p, r).applied = p.applied
         /\ Observe(p, r).hydrated = p.hydrated
<1>1. p \in Page /\ p.observed \in Nat /\ p.applied \in Nat /\ p.hydrated \in Nat /\ r \in Nat /\ R \in Nat
  BY Constants DEF WellFormed, Page
<1> DEFINE o == Larger(p.observed, r)
<1>2. o \in {p.observed, r} /\ p.observed <= o /\ r <= o
  BY <1>1, LargerIs
<1>3. o \in Revisions /\ o <= R /\ p.applied <= o /\ o \in Nat
  BY <1>1, <1>2 DEF WellFormed, Page
<1>4. Observe(p, r) = [p EXCEPT !.observed = o]
  BY DEF Observe
<1> HIDE DEF o
<1> QED
  BY <1>1, <1>2, <1>3, <1>4 DEF WellFormed, Page

\* A revision is applied.
LEMMA Applied ==
  ASSUME NEW R \in Revisions, NEW E \in Epochs, NEW p, WellFormed(p, R, E),
         NEW r \in Revisions, r <= R
  PROVE  /\ WellFormed(MarkApplied(p, r), R, E)
         /\ MarkApplied(p, r).blocks = p.blocks /\ MarkApplied(p, r).epoch = p.epoch
         /\ MarkApplied(p, r).sync = p.sync /\ MarkApplied(p, r).panel = p.panel
         /\ MarkApplied(p, r).applied >= r /\ MarkApplied(p, r).hydrated = p.hydrated
<1> DEFINE q == Observe(p, r)
<1>1. /\ WellFormed(q, R, E) /\ q.blocks = p.blocks /\ q.epoch = p.epoch
      /\ q.sync = p.sync /\ q.panel = p.panel /\ q.observed >= r /\ q.hydrated = p.hydrated
  BY Observed
<1>2. MarkApplied(p, r) = [q EXCEPT !.applied = Larger(q.applied, r)]
  BY DEF MarkApplied
<1> HIDE DEF q
<1>3. q \in Page /\ q.observed \in Nat /\ q.applied \in Nat /\ q.hydrated \in Nat /\ r \in Nat /\ R \in Nat
  BY <1>1, Constants DEF WellFormed, Page
<1> DEFINE a == Larger(q.applied, r)
<1>4. a \in {q.applied, r} /\ q.applied <= a /\ r <= a
  BY <1>3, LargerIs
<1>5. a \in Revisions /\ a <= q.observed /\ a \in Nat
  BY <1>1, <1>3, <1>4 DEF WellFormed, Page
<1>6. MarkApplied(p, r) = [q EXCEPT !.applied = a]
  BY <1>2
<1> HIDE DEF a
<1> QED
  BY <1>1, <1>3, <1>4, <1>5, <1>6 DEF WellFormed, Page

\* Nothing is pending any more.
LEMMA SettledPage ==
  ASSUME NEW R \in Revisions, NEW E \in Epochs, NEW p, WellFormed(p, R, E)
  PROVE  /\ WellFormed(Settled(p), R, E)
         /\ Settled(p).blocks = p.blocks /\ Settled(p).epoch = p.epoch
         /\ Settled(p).sync = p.sync /\ Settled(p).panel = p.panel
<1>1. p \in Page
  BY DEF WellFormed
<1>2. NoPending \in Pending
  BY Nothing
<1>3. Settled(p) \in Page
  BY <1>1, <1>2 DEF Settled, Page
<1> QED
  BY <1>1, <1>3 DEF WellFormed, Settled, Page

\* The attempts start again, and the timer may be set or stopped.
LEMMA FreshAttempt ==
  ASSUME NEW R \in Revisions, NEW E \in Epochs, NEW p, WellFormed(p, R, E),
         NEW a \in Attempt, NEW q,
         \/ q = [p EXCEPT !.attempt = a]
         \/ q = [p EXCEPT !.attempt = a, !.timer = FALSE]
         \/ q = [p EXCEPT !.timer = FALSE, !.attempt = a]
         \/ q = [p EXCEPT !.timer = TRUE, !.attempt = a]
  PROVE  /\ WellFormed(q, R, E) /\ q.blocks = p.blocks /\ q.epoch = p.epoch
         /\ q.sync = p.sync /\ q.panel = p.panel
<1>1. p \in Page
  BY DEF WellFormed
<1>2. q \in Page
  BY <1>1, Zenon DEF Page
<1> QED
  BY <1>1, <1>2 DEF WellFormed, Page

\* A revision is hydrated.
LEMMA Hydrated ==
  ASSUME NEW R \in Revisions, NEW E \in Epochs, NEW p, WellFormed(p, R, E),
         NEW r \in Revisions, r <= R
  PROVE  /\ WellFormed(MarkHydrated(p, r), R, E)
         /\ MarkHydrated(p, r).blocks = p.blocks /\ MarkHydrated(p, r).epoch = p.epoch
         /\ MarkHydrated(p, r).sync = p.sync /\ MarkHydrated(p, r).panel = p.panel
<1> DEFINE m == MarkApplied(p, r)
           h == Larger(m.hydrated, r)
           q == [m EXCEPT !.hydrated = h]
           s == IF q.pending.rev <= r THEN Settled(q) ELSE q
           Same(x) == /\ WellFormed(x, R, E) /\ x.blocks = p.blocks /\ x.epoch = p.epoch
                      /\ x.sync = p.sync /\ x.panel = p.panel
<1>1. Same(m) /\ m.applied >= r
  BY Applied
<1>2. MarkHydrated(p, r) = IF s.pending = NoPending /\ r >= s.observed
                             THEN [s EXCEPT !.attempt = NoAttempt, !.timer = FALSE] ELSE s
  BY DEF MarkHydrated
<1>3. Same(q)
  <2> HIDE DEF m
  <2>1. m \in Page /\ m.applied \in Nat /\ m.hydrated \in Nat /\ r \in Nat
    BY <1>1, Constants DEF WellFormed, Page
  <2>2. h \in {m.hydrated, r}
    BY <2>1, LargerIs
  <2>3. h \in Revisions /\ h <= m.applied
    BY <1>1, <2>1, <2>2 DEF WellFormed, Page
  <2> HIDE DEF h
  <2> QED
    BY <1>1, <2>1, <2>3 DEF WellFormed, Page
<1>4. Same(s)
  <2> HIDE DEF q
  <2>1. Same(Settled(q))
    BY <1>3, SettledPage
  <2> QED
    BY <1>3, <2>1
<1> HIDE DEF s
<1> DEFINE u == [s EXCEPT !.attempt = NoAttempt, !.timer = FALSE]
<1>5. MarkHydrated(p, r) \in {s, u}
  BY <1>2
<1>6. NoAttempt \in Attempt /\ u = [s EXCEPT !.attempt = NoAttempt, !.timer = FALSE]
  BY Nothing
<1> HIDE DEF u
<1>7. /\ WellFormed(u, R, E) /\ u.blocks = s.blocks /\ u.epoch = s.epoch
      /\ u.sync = s.sync /\ u.panel = s.panel
  BY <1>4, <1>6, FreshAttempt DEF WellFormed, Page
<1> QED
  BY <1>4, <1>5, <1>7

\* An attempt is counted only while the circuit is closed.
LEMMA Counted ==
  ASSUME NEW p \in Page, ~Exhausted(p), NEW r \in Revisions
  PROVE  Attempted(p.attempt, r) \in Attempt
<1>1. p.attempt \in Attempt
  BY DEF Page
<1>2. p.attempt.aged \/ p.attempt.count + 1 \in 0..MaxAttempts
  BY <1>1, Constants DEF Exhausted, Attempt
<1>3. (IF p.attempt.aged THEN 1 ELSE p.attempt.count + 1) \in 0..MaxAttempts
  BY <1>2, Constants
<1> QED
  BY <1>3 DEF Attempted, Attempt

\* A trailing load is scheduled.
LEMMA Scheduled ==
  ASSUME NEW R \in Revisions, NEW E \in Epochs, NEW p, WellFormed(p, R, E)
  PROVE  /\ WellFormed(Schedule(p), R, E)
         /\ Schedule(p).blocks = p.blocks /\ Schedule(p).epoch = p.epoch
         /\ Schedule(p).sync = p.sync /\ Schedule(p).panel = p.panel
<1> DEFINE a == IF p.attempt.aged THEN NoAttempt ELSE p.attempt
           q == [p EXCEPT !.timer = TRUE, !.attempt = a]
<1>1. a \in Attempt
  BY Nothing DEF WellFormed, Page
<1>2. Schedule(p) \in {p, q}
  BY DEF Schedule
<1>3. q = [p EXCEPT !.timer = TRUE, !.attempt = a]
  OBVIOUS
<1> HIDE DEF a, q
<1>4. /\ WellFormed(q, R, E) /\ q.blocks = p.blocks /\ q.epoch = p.epoch
      /\ q.sync = p.sync /\ q.panel = p.panel
  BY <1>1, <1>3, FreshAttempt DEF WellFormed, Page
<1> QED
  BY <1>2, <1>4

\* A load begins: of a snapshot ...
LEMMA Snapshots ==
  ASSUME NEW R \in Revisions, NEW E \in Epochs, NEW p, WellFormed(p, R, E),
         NEW who \in Loads, NEW min \in Revisions
  PROVE  /\ WellFormed(Snapshot(p, who, min), R, E)
         /\ Snapshot(p, who, min).blocks = p.blocks /\ Snapshot(p, who, min).epoch = p.epoch
<1> DEFINE mine == [NoLoad EXCEPT !.pc = "asked", !.kind = "snapshot", !.min = min]
           other == p[Other(who)]
<1>1. GoodLoad(NoLoad, R, E) /\ NoLoad \in Load
  BY Nothing DEF GoodLoad
<1>2. mine \in Load /\ mine.ans = NoAnswer /\ mine.pc # "answered"
  BY <1>1 DEF Load, Modes, NoLoad
<1>3. GoodLoad(mine, R, E)
  BY <1>2, NewLoad
<1>4. GoodLoad(other, R, E)
  BY LoadOf DEF Other, Loads
<1>5. \/ Snapshot(p, who, min) = [p EXCEPT ![who] = mine]
      \/ Snapshot(p, who, min) = [p EXCEPT ![who] = other]
  BY DEF Snapshot
<1> HIDE DEF mine, other
<1> QED
  BY <1>3, <1>4, <1>5, SetLoad DEF WellFormed, Page

\* ... or of what lies behind the cursor.
LEMMA CatchUpLoad ==
  ASSUME NEW R \in Revisions, NEW E \in Epochs, NEW p, WellFormed(p, R, E), NEW l,
         \/ l = [NoLoad EXCEPT !.pc = "asked", !.epoch = p.epoch, !.after = p.cursor,
                               !.trailing = FALSE]
         \/ l = [NoLoad EXCEPT !.pc = "asked", !.epoch = p.epoch, !.after = p.cursor,
                               !.trailing = TRUE]
  PROVE  GoodLoad(l, R, E)
<1>1. NoLoad \in Load /\ NoLoad.ans = NoAnswer
  BY Nothing DEF GoodLoad, NoLoad
<1>2. p.epoch \in 0..MaxEpoch /\ p.cursor \in 0..MaxEvents
  BY DEF WellFormed, Page, Epochs, Events
<1>3. l \in Load /\ l.ans = NoAnswer /\ l.pc # "answered"
  BY <1>1, <1>2 DEF Load
<1> QED
  BY <1>3, NewLoad

LEMMA CatchesUp ==
  ASSUME NEW R \in Revisions, NEW E \in Epochs, NEW p, WellFormed(p, R, E), NEW who \in Loads
  PROVE  /\ WellFormed(CatchUp(p, who, FALSE), R, E)
         /\ CatchUp(p, who, FALSE).blocks = p.blocks /\ CatchUp(p, who, FALSE).epoch = p.epoch
<1>1. PICK l : l = [NoLoad EXCEPT !.pc = "asked", !.epoch = p.epoch, !.after = p.cursor,
                                  !.trailing = FALSE]
  OBVIOUS
<1>2. GoodLoad(l, R, E)
  BY <1>1, CatchUpLoad
<1>3. p \in Page /\ p.observed \in Revisions
  BY DEF WellFormed, Page
<1>4. PICK q, s : q = [p EXCEPT ![who] = l] /\ s = Snapshot(p, who, p.observed)
  OBVIOUS
<1>5. CatchUp(p, who, FALSE) = q \/ CatchUp(p, who, FALSE) = s
  BY <1>1, <1>4 DEF CatchUp
<1>6. WellFormed(q, R, E) /\ q.blocks = p.blocks /\ q.epoch = p.epoch
  BY <1>2, <1>3, <1>4, SetLoad DEF Page, Loads
<1>7. WellFormed(s, R, E) /\ s.blocks = p.blocks /\ s.epoch = p.epoch
  BY <1>3, <1>4, Snapshots
<1> QED
  BY <1>5, <1>6, <1>7

LEMMA CatchesUpAgain ==
  ASSUME NEW R \in Revisions, NEW E \in Epochs, NEW p, WellFormed(p, R, E), NEW who \in Loads
  PROVE  /\ WellFormed(CatchUp(p, who, TRUE), R, E)
         /\ CatchUp(p, who, TRUE).blocks = p.blocks /\ CatchUp(p, who, TRUE).epoch = p.epoch
<1>1. PICK l : l = [NoLoad EXCEPT !.pc = "asked", !.epoch = p.epoch, !.after = p.cursor,
                                  !.trailing = TRUE]
  OBVIOUS
<1>2. GoodLoad(l, R, E)
  BY <1>1, CatchUpLoad
<1>3. p \in Page /\ p.observed \in Revisions
  BY DEF WellFormed, Page
<1>4. PICK q, s : q = [p EXCEPT ![who] = l] /\ s = Snapshot(p, who, p.observed)
  OBVIOUS
<1>5. CatchUp(p, who, TRUE) = q \/ CatchUp(p, who, TRUE) = s
  BY <1>1, <1>4 DEF CatchUp
<1>6. WellFormed(q, R, E) /\ q.blocks = p.blocks /\ q.epoch = p.epoch
  BY <1>2, <1>3, <1>4, SetLoad DEF Page, Loads
<1>7. WellFormed(s, R, E) /\ s.blocks = p.blocks /\ s.epoch = p.epoch
  BY <1>3, <1>4, Snapshots
<1> QED
  BY <1>5, <1>6, <1>7

\* The sync starts the load that is pending.
LEMMA Started ==
  ASSUME NEW R \in Revisions, NEW E \in Epochs, NEW p, WellFormed(p, R, E)
  PROVE  /\ WellFormed(Start(p), R, E)
         /\ Start(p).blocks = p.blocks /\ Start(p).epoch = p.epoch
<1>1. CASE Exhausted(p)
  BY <1>1 DEF Start
<1>2. CASE ~Exhausted(p)
  <2> DEFINE a == Attempted(p.attempt, p.pending.rev)
             q == [p EXCEPT !.timer = FALSE, !.attempt = a]
  <2>1. p \in Page /\ p.pending \in Pending /\ p.pending.rev \in Revisions
    BY DEF WellFormed, Page, Pending
  <2>2. a \in Attempt
    BY <1>2, <2>1, Counted
  <2>3. \/ Start(p) = p \/ Start(p) = Snapshot(q, "sync", p.pending.rev)
        \/ Start(p) = CatchUp(q, "sync", FALSE)
    BY DEF Start
  <2>4. q = [p EXCEPT !.timer = FALSE, !.attempt = a]
    OBVIOUS
  <2> "sync" \in Loads
    BY DEF Loads
  <2> HIDE DEF a, q
  <2>5. WellFormed(q, R, E) /\ q.blocks = p.blocks /\ q.epoch = p.epoch
    BY <2>2, <2>4, FreshAttempt DEF WellFormed, Page
  <2>6. /\ WellFormed(Snapshot(q, "sync", p.pending.rev), R, E)
        /\ Snapshot(q, "sync", p.pending.rev).blocks = p.blocks
        /\ Snapshot(q, "sync", p.pending.rev).epoch = p.epoch
    BY <2>1, <2>5, Snapshots
  <2>7. /\ WellFormed(CatchUp(q, "sync", FALSE), R, E)
        /\ CatchUp(q, "sync", FALSE).blocks = p.blocks /\ CatchUp(q, "sync", FALSE).epoch = p.epoch
    BY <2>5, CatchesUp
  <2> QED
    BY <2>3, <2>6, <2>7
<1> QED
  BY <1>1, <1>2

\* A load is requested.
LEMMA Requested ==
  ASSUME NEW R \in Revisions, NEW E \in Epochs, NEW p, WellFormed(p, R, E),
         NEW r \in Revisions, r <= R, NEW mode \in Modes
  PROVE  /\ WellFormed(Request(p, r, mode), R, E)
         /\ Request(p, r, mode).blocks = p.blocks /\ Request(p, r, mode).epoch = p.epoch
<1> DEFINE q == Observe(p, r)
           m == IF "snapshot" \in {mode, q.pending.mode} THEN "snapshot" ELSE "catchUp"
           w == [q EXCEPT !.pending = [rev |-> q.observed, mode |-> m]]
           d == Settled(q)
           a == [d EXCEPT !.attempt = NoAttempt]
           c == [a EXCEPT !.sync = NoLoad]
           Same(x) == WellFormed(x, R, E) /\ x.blocks = p.blocks /\ x.epoch = p.epoch
<1>1. Same(q)
  BY Observed
<1>2. Same(d)
  <2> HIDE DEF q
  <2> QED
    BY <1>1, SettledPage
<1>3. Same(a)
  <2>1. a = [d EXCEPT !.attempt = NoAttempt] /\ NoAttempt \in Attempt
    BY Nothing
  <2> HIDE DEF d, a
  <2> QED
    BY <1>2, <2>1, FreshAttempt DEF WellFormed, Page
<1>4. Same(c)
  <2>1. c = [a EXCEPT !["sync"] = NoLoad] /\ GoodLoad(NoLoad, R, E) /\ "sync" \in Loads
    BY Nothing DEF Loads
  <2> HIDE DEF a, c
  <2> QED
    BY <1>3, <2>1, SetLoad DEF WellFormed, Page
<1>5. Same(w)
  <2> HIDE DEF q
  <2>1. q \in Page /\ q.observed \in Revisions /\ m \in Modes
    BY <1>1 DEF WellFormed, Page, Modes
  <2> HIDE DEF m
  <2>2. [rev |-> q.observed, mode |-> m] \in Pending
    BY <2>1 DEF Pending
  <2>3. w \in Page
    BY <2>1, <2>2 DEF Page
  <2> QED
    BY <1>1, <2>1, <2>3 DEF WellFormed, Page
<1>6. \/ Request(p, r, mode) = c \/ Request(p, r, mode) = w
      \/ Request(p, r, mode) = Schedule(w) \/ Request(p, r, mode) = Start(w)
  <2>1. c = [d EXCEPT !.attempt = NoAttempt, !.sync = NoLoad]
    OBVIOUS
  <2> HIDE DEF c
  <2> QED
    BY <2>1 DEF Request
<1> HIDE DEF c, w
<1> QED
  BY <1>4, <1>5, <1>6, Scheduled, Started

\* Nothing is pending and the sync has no load.
LEMMA CancelledPage ==
  ASSUME NEW R \in Revisions, NEW E \in Epochs, NEW p, WellFormed(p, R, E)
  PROVE  WellFormed(Cancelled(p), R, E) /\ Cancelled(p).blocks = p.blocks /\ Cancelled(p).epoch = p.epoch
<1> DEFINE d == Settled(p)
           a == [d EXCEPT !.attempt = NoAttempt]
           c == [a EXCEPT !.sync = NoLoad]
           Same(x) == WellFormed(x, R, E) /\ x.blocks = p.blocks /\ x.epoch = p.epoch
<1>2. Same(d)
  BY SettledPage
<1>3. Same(a)
  <2>1. a = [d EXCEPT !.attempt = NoAttempt] /\ NoAttempt \in Attempt
    BY Nothing
  <2> HIDE DEF d, a
  <2> QED
    BY <1>2, <2>1, FreshAttempt DEF WellFormed, Page
<1>4. Same(c)
  <2>1. c = [a EXCEPT !["sync"] = NoLoad] /\ GoodLoad(NoLoad, R, E) /\ "sync" \in Loads
    BY Nothing DEF Loads
  <2> HIDE DEF a, c
  <2> QED
    BY <1>3, <2>1, SetLoad DEF WellFormed, Page
<1>5. Cancelled(p) = c
  BY DEF Cancelled
<1> HIDE DEF c
<1> QED
  BY <1>4, <1>5

-----------------------------------------------------------------------------
(* Loads and frames arrive.                                                *)

\* A load is over.
LEMMA OverPage ==
  ASSUME NEW R \in Revisions, NEW E \in Epochs, NEW p, WellFormed(p, R, E), NEW who \in Loads
  PROVE  /\ WellFormed(Over(p, who), R, E)
         /\ Over(p, who).blocks = p.blocks /\ Over(p, who).epoch = p.epoch
         /\ Over(p, who)[Other(who)] = p[Other(who)]
<1>1. Over(p, who) = [p EXCEPT ![who] = NoLoad] /\ GoodLoad(NoLoad, R, E)
  BY Nothing DEF Over
<1> QED
  BY <1>1, SetLoad DEF WellFormed, Page

\* It has ended, and the other one goes on.
LEMMA EndedPage ==
  ASSUME NEW R \in Revisions, NEW E \in Epochs, NEW p, WellFormed(p, R, E), NEW who \in Loads
  PROVE  /\ WellFormed(Ended(p, who), R, E)
         /\ Ended(p, who).blocks = p.blocks /\ Ended(p, who).epoch = p.epoch
         /\ Ended(p, who)[Other(who)] = p[Other(who)]
<1> DEFINE q == Over(p, who)
           d == Settled(q)
           a == [d EXCEPT !.attempt = NoAttempt]
           Same(x) == /\ WellFormed(x, R, E) /\ x.blocks = p.blocks /\ x.epoch = p.epoch
                      /\ x.sync = q.sync /\ x.panel = q.panel
<1>1. Same(q) /\ q[Other(who)] = p[Other(who)]
  BY OverPage
<1>2. Same(d) /\ Same(Schedule(q))
  <2> HIDE DEF q
  <2> QED
    BY <1>1, SettledPage, Scheduled
<1>3. Same(a)
  <2>1. a = [d EXCEPT !.attempt = NoAttempt] /\ NoAttempt \in Attempt
    BY Nothing
  <2> HIDE DEF d, a
  <2> QED
    BY <1>2, <2>1, FreshAttempt DEF WellFormed, Page
<1>4. \/ Ended(p, who) = q \/ Ended(p, who) = a \/ Ended(p, who) = Schedule(q)
  BY DEF Ended
<1> HIDE DEF q, a
<1>5. Same(Ended(p, who))
  BY <1>1, <1>2, <1>3, <1>4
<1> QED
  BY <1>1, <1>5 DEF Loads, Other

\* The page shows other blocks, and knows another revision, cursor or epoch.
LEMMA Repainted ==
  ASSUME NEW R \in Revisions, NEW E \in Epochs, NEW p, WellFormed(p, R, E),
         NEW b \in Rows, NEW c \in Events, NEW e \in Epochs, NEW k \in Revisions
  PROVE  \A q \in {[p EXCEPT !.blocks = b], [p EXCEPT !.cursor = c], [p EXCEPT !.epoch = e],
                   [p EXCEPT !.known = k]} :
           /\ WellFormed(q, R, E) /\ q.sync = p.sync /\ q.panel = p.panel
           /\ q.blocks \in {b, p.blocks} /\ q.epoch \in {e, p.epoch}
<1> TAKE q \in {[p EXCEPT !.blocks = b], [p EXCEPT !.cursor = c], [p EXCEPT !.epoch = e],
                [p EXCEPT !.known = k]}
<1>1. p \in Page
  BY DEF WellFormed
<1>2. q \in Page
  BY <1>1 DEF Page
<1> QED
  BY <1>1, <1>2 DEF WellFormed, Page

\* Items are merged into the page.
LEMMA MergedPage ==
  ASSUME NEW R \in Revisions, NEW E \in Epochs, NEW p, WellFormed(p, R, E), NEW rows \in Rows
  PROVE  /\ WellFormed(Merged(p, rows), R, E)
         /\ Merged(p, rows).sync = p.sync /\ Merged(p, rows).panel = p.panel
         /\ Merged(p, rows).epoch = p.epoch
         /\ \A i \in Items : Merged(p, rows).blocks[i] \in {rows[i], p.blocks[i]}
<1> DEFINE b == [i \in Items |-> IF rows[i] # Absent /\ Newer(p, i, rows[i]) THEN rows[i]
                                                                         ELSE p.blocks[i]]
<1>1. p \in Page /\ p.blocks \in Rows
  BY DEF WellFormed, Page
<1>2. b \in Rows /\ \A i \in Items : b[i] \in {rows[i], p.blocks[i]}
  BY <1>1 DEF Rows
<1>3. Merged(p, rows) = [p EXCEPT !.blocks = b]
  BY DEF Merged
<1> HIDE DEF b
<1>4. Merged(p, rows) \in Page
  BY <1>1, <1>2, <1>3 DEF Page
<1> QED
  BY <1>1, <1>2, <1>3, <1>4 DEF WellFormed, Page

\* What is merged out of two sources is as young as they are.
LEMMA FromEither ==
  ASSUME NEW a \in Rows, NEW b \in Rows, NEW c \in Rows, NEW e, From(a, e), From(b, e),
         \A i \in Items : c[i] \in {a[i], b[i]}
  PROVE  From(c, e)
BY DEF From

\* The cursor advances; another revision is known.
LEMMA Advanced ==
  ASSUME NEW R \in Revisions, NEW E \in Epochs, NEW p, WellFormed(p, R, E), NEW c \in Events
  PROVE  LET q == [p EXCEPT !.cursor = Larger(@, c)] IN
         /\ WellFormed(q, R, E) /\ q.sync = p.sync /\ q.panel = p.panel
         /\ q.blocks = p.blocks /\ q.epoch = p.epoch
<1> DEFINE d == Larger(p.cursor, c)
           q == [p EXCEPT !.cursor = d]
<1>1. p \in Page /\ p.cursor \in Nat /\ c \in Nat
  BY Constants DEF WellFormed, Page
<1>2. d \in {p.cursor, c}
  BY <1>1, LargerIs
<1>3. d \in Events
  BY <1>1, <1>2 DEF Page
<1> HIDE DEF d
<1>4. q \in Page
  BY <1>1, <1>3 DEF Page
<1>5. /\ WellFormed(q, R, E) /\ q.sync = p.sync /\ q.panel = p.panel
      /\ q.blocks = p.blocks /\ q.epoch = p.epoch
  BY <1>1, <1>4 DEF WellFormed, Page
<1> QED
  BY <1>5 DEF d

LEMMA Learnt ==
  ASSUME NEW R \in Revisions, NEW E \in Epochs, NEW p, WellFormed(p, R, E), NEW k \in Revisions
  PROVE  LET q == [p EXCEPT !.known = k] IN
         /\ WellFormed(q, R, E) /\ q.sync = p.sync /\ q.panel = p.panel
         /\ q.blocks = p.blocks /\ q.epoch = p.epoch
<1> DEFINE q == [p EXCEPT !.known = k]
<1>1. p \in Page
  BY DEF WellFormed
<1>2. q \in Page
  BY <1>1 DEF Page
<1> QED
  BY <1>1, <1>2 DEF WellFormed, Page

\* A catch-up page brings nothing older than the epoch the page is in.
LEMMA CaughtUpPage ==
  ASSUME NEW R \in Revisions, NEW E \in Epochs, NEW p, WellFormed(p, R, E),
         From(p.blocks, p.epoch), NEW who \in Loads, p[who].pc = "answered"
  PROVE  WellFormed(CaughtUp(p, who), R, E) /\ From(CaughtUp(p, who).blocks, CaughtUp(p, who).epoch)
<1> DEFINE load == p[who]
           a == load.ans
           m == Merged(p, a.rows)
           q == [m EXCEPT !.cursor = Larger(@, a.cursor)]
           k == [q EXCEPT !.known = a.rev]
           s == IF ShouldApply(p, a.rev) THEN MarkApplied(k, a.rev) ELSE q
           h == MarkHydrated(s, a.rev)
           next == [load EXCEPT !.pc = "asked", !.after = a.cursor, !.target = a.target,
                                !.ans = NoAnswer]
           more == [s EXCEPT ![who] = next]
           Fine(x) == WellFormed(x, R, E) /\ From(x.blocks, x.epoch)
<1>1. GoodLoad(load, R, E) /\ load \in Load
  BY LoadOf
<1>2. /\ a \in Answer /\ a.rev \in Revisions /\ a.rev <= R /\ From(a.rows, a.epoch)
      /\ a.rows \in Rows /\ a.cursor \in Events /\ a.target \in Events
  BY <1>1 DEF GoodLoad, Load, Answer, Events
<1>3. p.epoch = load.epoch /\ a.epoch = load.epoch => Fine(m)
  <2> SUFFICES ASSUME p.epoch = load.epoch, a.epoch = load.epoch PROVE Fine(m)
    OBVIOUS
  <2> HIDE DEF load, a
  <2>1. /\ WellFormed(m, R, E) /\ m.epoch = p.epoch
        /\ \A i \in Items : m.blocks[i] \in {a.rows[i], p.blocks[i]}
    BY <1>2, MergedPage
  <2> HIDE DEF m
  <2>2. m.blocks \in Rows /\ p.blocks \in Rows
    BY <2>1 DEF WellFormed, Page
  <2>3. From(a.rows, m.epoch) /\ From(p.blocks, m.epoch)
    BY <1>2, <2>1 
  <2> QED
    BY <1>2, <2>1, <2>2, <2>3, FromEither
<1>4. Fine(m) => Fine(q)
  <2> HIDE DEF m, load, a
  <2> QED
    BY <1>2, Advanced
<1>5. Fine(q) => Fine(k)
  <2> HIDE DEF q, load, a
  <2> QED
    BY <1>2, Learnt
<1>6. Fine(q) => Fine(s)
  <2> HIDE DEF q, load, a
  <2>1. Fine(k) => Fine(MarkApplied(k, a.rev))
    <3> HIDE DEF k
    <3> QED
      BY <1>2, Applied
  <2> HIDE DEF k
  <2> QED
    BY <1>5, <2>1
<1>7. Fine(s) => Fine(h)
  <2> HIDE DEF s, load, a
  <2> QED
    BY <1>2, Hydrated
<1>8. Fine(s) => Fine(more)
  <2>1. next \in Load /\ next.ans = NoAnswer /\ next.pc # "answered"
    <3>1. NoAnswer \in Answer
      BY Nothing
    <3> HIDE DEF load, a
    <3> QED
      BY <1>1, <1>2, <3>1 DEF Load, Events
  <2> HIDE DEF next
  <2>2. GoodLoad(next, R, E)
    BY <2>1, NewLoad
  <2>3. more = [s EXCEPT ![who] = next]
    OBVIOUS
  <2> HIDE DEF s, more
  <2> SUFFICES ASSUME Fine(s) PROVE Fine(more)
    OBVIOUS
  <2>4. s \in Page
    BY DEF WellFormed
  <2>5. more.blocks = s.blocks /\ more.epoch = s.epoch
    BY <2>3, <2>4 DEF Page, Loads
  <2>6. WellFormed(more, R, E)
    BY <2>2, <2>3, <2>4, SetLoad DEF Page, Loads
  <2> QED
    BY <2>5, <2>6
<1>9. Fine(h) => Fine(CatchUp(h, who, TRUE)) /\ Fine(Ended(h, who))
  <2> HIDE DEF h
  <2>1. ASSUME NEW x, Fine(x) PROVE Fine(CatchUp(x, who, TRUE))
    <3>1. PICK c : c = CatchUp(x, who, TRUE)
      OBVIOUS
    <3>2. WellFormed(c, R, E) /\ c.blocks = x.blocks /\ c.epoch = x.epoch
      BY <2>1, <3>1, CatchesUpAgain
    <3> QED
      BY <2>1, <3>1, <3>2
  <2>2. ASSUME NEW x, Fine(x) PROVE Fine(Ended(x, who))
    <3>1. /\ WellFormed(Ended(x, who), R, E)
          /\ Ended(x, who).blocks = x.blocks /\ Ended(x, who).epoch = x.epoch
      BY <2>2, EndedPage
    <3> QED
      BY <2>2, <3>1
  <2> QED
    BY <2>1, <2>2
<1>10. Fine(Ended(p, who)) /\ Fine(Snapshot(p, who, p.observed))
  <2>1. p.observed \in Revisions
    BY DEF WellFormed, Page
  <2> QED
    BY <2>1, EndedPage, Snapshots
<1>11. CaughtUp(p, who) = IF p.epoch # load.epoch THEN Ended(p, who)
                          ELSE IF a.epoch # load.epoch THEN Snapshot(p, who, p.observed)
                          ELSE IF a.more THEN more
                          ELSE IF ~load.trailing /\ a.rev < h.observed THEN CatchUp(h, who, TRUE)
                          ELSE Ended(h, who)
  BY DEF CaughtUp
<1> HIDE DEF h, more, s, q, m, load, a
<1> QED
  BY <1>3, <1>4, <1>6, <1>7, <1>8, <1>9, <1>10, <1>11

\* A snapshot brings the page into an epoch with nothing older than it.  The other load goes on.
LEMMA SnapshottedPage ==
  ASSUME NEW R \in Revisions, NEW E \in Epochs, NEW p, WellFormed(p, R, E),
         From(p.blocks, p.epoch), NEW who \in Loads, p[who].pc = "answered"
  PROVE  /\ WellFormed(Snapshotted(p, who), R, E)
         /\ From(Snapshotted(p, who).blocks, Snapshotted(p, who).epoch)
         /\ Snapshotted(p, who)[Other(who)] = p[Other(who)]
<1> DEFINE a == p[who].ans
           b == [p EXCEPT !.known = a.rev, !.blocks = a.rows]
           h == MarkHydrated(b, a.rev)
           c == Larger(h.cursor, a.cursor)
           q == [h EXCEPT !.epoch = a.epoch, !.cursor = c]
           Mine(x) == x.sync = p.sync /\ x.panel = p.panel
<1>1. GoodLoad(p[who], R, E) /\ p[who] \in Load
  BY LoadOf
<1>2. /\ a \in Answer /\ a.rev \in Revisions /\ a.rev <= R /\ From(a.rows, a.epoch)
      /\ a.rows \in Rows /\ a.cursor \in Events /\ a.epoch \in Epochs
  BY <1>1 DEF GoodLoad, Load, Answer, Events, Epochs
<1>3. p \in Page
  BY DEF WellFormed
<1>4. WellFormed(b, R, E) /\ b.blocks = a.rows /\ Mine(b)
  <2> HIDE DEF a
  <2>1. b \in Page
    BY <1>2, <1>3 DEF Page
  <2> QED
    BY <1>2, <1>3, <2>1 DEF WellFormed, Page
<1>5. WellFormed(h, R, E) /\ h.blocks = a.rows /\ Mine(h)
  <2> HIDE DEF a, b
  <2> QED
    BY <1>2, <1>4, Hydrated
<1>6. WellFormed(q, R, E) /\ q.blocks = a.rows /\ q.epoch = a.epoch /\ Mine(q)
  <2> HIDE DEF h, a
  <2>1. h \in Page /\ h.cursor \in Nat /\ a.cursor \in Nat
    BY <1>2, <1>5, Constants DEF WellFormed, Page
  <2>2. c \in {h.cursor, a.cursor}
    BY <2>1, LargerIs
  <2>3. c \in Events
    BY <1>2, <2>1, <2>2 DEF Page
  <2> HIDE DEF c
  <2>4. q \in Page
    BY <1>2, <2>1, <2>3 DEF Page
  <2> QED
    BY <1>5, <2>1, <2>4 DEF WellFormed, Page
<1>7. /\ WellFormed(Ended(q, who), R, E) /\ Ended(q, who).blocks = a.rows
      /\ Ended(q, who).epoch = a.epoch /\ Ended(q, who)[Other(who)] = p[Other(who)]
  <2> HIDE DEF q, a
  <2>1. q[Other(who)] = p[Other(who)]
    BY <1>6 DEF Other
  <2> QED
    BY <1>6, <2>1, EndedPage
<1>8. LET o == Observe(p, a.rev) IN
      /\ WellFormed(Ended(o, who), R, E) /\ Ended(o, who).blocks = p.blocks
      /\ Ended(o, who).epoch = p.epoch /\ Ended(o, who)[Other(who)] = p[Other(who)]
  <2> DEFINE o == Observe(p, a.rev)
  <2> HIDE DEF a
  <2>1. WellFormed(o, R, E) /\ o.blocks = p.blocks /\ o.epoch = p.epoch /\ Mine(o)
    BY <1>2, Observed
  <2> HIDE DEF o
  <2>2. o[Other(who)] = p[Other(who)]
    BY <2>1 DEF Other
  <2>3. /\ WellFormed(Ended(o, who), R, E) /\ Ended(o, who).blocks = p.blocks
        /\ Ended(o, who).epoch = p.epoch /\ Ended(o, who)[Other(who)] = p[Other(who)]
    BY <2>1, <2>2, EndedPage
  <2> QED
    BY <2>3 DEF o
<1>9. Snapshotted(p, who) \in {Ended(q, who), Ended(Observe(p, a.rev), who)}
  BY DEF Snapshotted
<1> HIDE DEF q, a
<1> QED
  BY <1>2, <1>7, <1>8, <1>9

\* A frame shows its item where the page is in the epoch of the frame, or in none yet.
LEMMA ShownPage ==
  ASSUME NEW R \in Revisions, NEW E \in Epochs, NEW p, WellFormed(p, R, E),
         From(p.blocks, p.epoch), NEW f, GoodFrame(f, R), f.op = "item",
         p.epoch = 0 \/ f.epoch = p.epoch
  PROVE  /\ WellFormed(Shown(p, f), R, E) /\ From(Shown(p, f).blocks, Shown(p, f).epoch)
<1> DEFINE b == [p.blocks EXCEPT ![f.item] = f.content]
           c == IF p.epoch # 0 THEN Larger(p.cursor, f.content.seq) ELSE p.cursor
           q == [p EXCEPT !.blocks = b, !.cursor = c]
<1>1. p \in Page /\ p.blocks \in Rows /\ p.cursor \in Events /\ p.epoch \in Epochs
  BY DEF WellFormed, Page
<1>2. f \in Frame /\ f.item \in Items /\ f.content \in Content /\ f.content.gen >= f.epoch
  BY DEF GoodFrame, Frame
<1>3. f.content.seq \in Events /\ f.content.gen \in Nat
  BY <1>2 DEF Content, Events
<1>4. b \in Rows /\ From(b, p.epoch)
  <2>1. b \in Rows
    BY <1>1, <1>2 DEF Rows
  <2>2. f.content.gen >= p.epoch
    BY <1>1, <1>2, <1>3, Constants
  <2> QED
    BY <1>1, <2>1, <2>2 DEF From, Rows
<1>5. c \in Events
  BY <1>1, <1>3, Constants, LargerIs
<1>6. Shown(p, f) \in {p, q}
  <2>1. q = [p EXCEPT !.blocks[f.item] = f.content,
                      !.cursor = IF p.epoch # 0 THEN Larger(@, f.content.seq) ELSE @]
    OBVIOUS
  <2> QED
    BY <2>1 DEF Shown
<1> HIDE DEF b, c
<1>7. q \in Page /\ q.blocks = b /\ q.epoch = p.epoch
  BY <1>1, <1>4, <1>5 DEF Page
<1>8. WellFormed(q, R, E)
  BY <1>1, <1>7 DEF WellFormed, Page
<1> HIDE DEF q
<1> QED
  BY <1>4, <1>6, <1>7, <1>8

\* A frame arrives.
LEMMA FramedPage ==
  ASSUME NEW R \in Revisions, NEW E \in Epochs, NEW p, WellFormed(p, R, E),
         From(p.blocks, p.epoch), NEW f, GoodFrame(f, R)
  PROVE  WellFormed(Framed(p, f), R, E) /\ From(Framed(p, f).blocks, Framed(p, f).epoch)
<1> DEFINE o == Observe(p, f.rev)
           q == [o EXCEPT !.known = f.rev]
           s == IF f.op = "item" THEN Shown(q, f) ELSE q
           Fine(x) == WellFormed(x, R, E) /\ From(x.blocks, x.epoch)
<1>1. f.rev \in Revisions /\ f.rev <= R /\ "snapshot" \in Modes
  BY DEF GoodFrame, Frame, Modes
<1>2. Fine(o) /\ o.epoch = p.epoch
  BY <1>1, Observed
<1>3. Fine(q) /\ q.epoch = p.epoch
  <2> HIDE DEF o
  <2> QED
    BY <1>1, <1>2, Learnt
<1>4. Fine(Request(p, f.rev, "snapshot"))
  BY <1>1, Requested
<1> HIDE DEF q
<1>5. Fine(Request(q, f.rev, "snapshot"))
  BY <1>1, <1>3, Requested
<1>6. p.epoch = 0 \/ f.epoch = p.epoch => Fine(MarkApplied(s, f.rev))
  <2> SUFFICES ASSUME p.epoch = 0 \/ f.epoch = p.epoch PROVE Fine(MarkApplied(s, f.rev))
    OBVIOUS
  <2>1. Fine(s)
    BY <1>3, ShownPage
  <2> HIDE DEF s
  <2> QED
    BY <1>1, <2>1, Applied
<1>7. \/ Framed(p, f) = p \/ Framed(p, f) = o \/ Framed(p, f) = q
      \/ Framed(p, f) = Request(p, f.rev, "snapshot")
      \/ Framed(p, f) = Request(q, f.rev, "snapshot")
      \/ (p.epoch = 0 \/ f.epoch = p.epoch) /\ Framed(p, f) = MarkApplied(s, f.rev)
  BY DEF Framed, q
<1> HIDE DEF o, s
<1> QED
  BY <1>2, <1>3, <1>4, <1>5, <1>6, <1>7

\* The answer of a reconciliation arrives.
LEMMA ReconciledPage ==
  ASSUME NEW R \in Revisions, NEW E \in Epochs, NEW p, WellFormed(p, R, E),
         From(p.blocks, p.epoch), NEW r \in Revisions, r <= R
  PROVE  /\ WellFormed(Reconciled(p, r), R, E)
         /\ From(Reconciled(p, r).blocks, Reconciled(p, r).epoch)
         /\ WellFormed(MarkApplied([p EXCEPT !.known = r], r), R, E)
         /\ From(MarkApplied([p EXCEPT !.known = r], r).blocks,
                 MarkApplied([p EXCEPT !.known = r], r).epoch)
<1> DEFINE k == [p EXCEPT !.known = r]
           q == MarkApplied(k, r)
           Fine(x) == WellFormed(x, R, E) /\ From(x.blocks, x.epoch)
<1>1. Fine(k)
  BY Learnt
<1>2. Fine(q)
  <2> HIDE DEF k
  <2> QED
    BY <1>1, Applied
<1>3. \/ Reconciled(p, r) = p \/ Reconciled(p, r) = q \/ Reconciled(p, r) = Request(q, r, "catchUp")
  BY DEF Reconciled
<1>4. Fine(Request(q, r, "catchUp"))
  <2> HIDE DEF q
  <2> QED
    BY <1>2, Requested DEF Modes
<1>5. Fine(Reconciled(p, r))
  <2> HIDE DEF q
  <2> QED
    BY <1>2, <1>3, <1>4
<1> QED
  BY <1>2, <1>5

-----------------------------------------------------------------------------
(* The page of a catch-up.                                                 *)

\* A set of numbers has a smallest one.
LEMMA Least ==
  ASSUME NEW S, S \subseteq Nat, S # {}
  PROVE  \E x \in S : \A y \in S : x <= y
<1>1. IsWellFoundedOn(OpToRel(<, Nat), Nat)
  BY NatLessThanWellFounded
<1>2. PICK x \in S : \A y \in S : ~ (<<y, x>> \in OpToRel(<, Nat))
  BY <1>1, WFMin
<1>3. ASSUME NEW y \in S PROVE x <= y
  <2>1. x \in Nat /\ y \in Nat
    OBVIOUS
  <2>2. ~ (y < x)
    BY <1>2, <2>1 DEF OpToRel
  <2> QED
    BY <2>1, <2>2
<1> QED
  BY <1>3

\* A bounded one has a largest.
LEMMA Largest ==
  ASSUME NEW n \in Nat, NEW S, S \subseteq 0..n, S # {}
  PROVE  Max(S) \in S
<1> DEFINE T == {n - x : x \in S}
<1>1. T \subseteq Nat /\ T # {}
  OBVIOUS
<1>2. PICK t \in T : \A u \in T : t <= u
  <2> HIDE DEF T
  <2> QED
    BY <1>1, Least
<1>3. PICK x \in S : t = n - x
  BY <1>2
<1>4. ASSUME NEW y \in S PROVE x >= y
  <2>1. n - y \in T
    OBVIOUS
  <2>2. t <= n - y
    BY <1>2, <2>1
  <2>3. x \in Nat /\ y \in Nat
    OBVIOUS
  <2> QED
    BY <1>3, <2>2, <2>3
<1>5. \E z \in S : \A y \in S : z >= y
  BY <1>4
<1> QED
  BY <1>5 DEF Max

\* Of the items behind the cursor, a page takes at least one; where it does not take them all, its
\* cursor is that of the last one.
LEMMA SomeOnPage ==
  ASSUME NEW rows \in Rows, NEW after \in SUBSET Items,
         NEW within, within = {i \in after :
           Cardinality({j \in after : rows[j].seq < rows[i].seq}) < PageSize},
         within # after
  PROVE  /\ Max({rows[i].seq : i \in within}) \in Events
         /\ \E j \in within : Max({rows[i].seq : i \in within}) = rows[j].seq
<1>1. \A i \in Items : rows[i].seq \in Events /\ rows[i].seq \in Nat
  BY Constants DEF Rows, Content, Events
<1> DEFINE T == {rows[i].seq : i \in after}
           S == {rows[i].seq : i \in within}
<1>2. T \subseteq Nat /\ T # {}
  BY <1>1
<1>3. PICK t \in T : \A u \in T : t <= u
  <2> HIDE DEF T
  <2> QED
    BY <1>2, Least
<1>4. PICK i \in after : t = rows[i].seq
  BY <1>3
<1>5. {j \in after : rows[j].seq < rows[i].seq} = {}
  <2> SUFFICES ASSUME NEW j \in after, rows[j].seq < rows[i].seq PROVE FALSE
    OBVIOUS
  <2>1. t <= rows[j].seq
    BY <1>3
  <2> QED
    BY <1>1, <1>4, <2>1
<1>6. i \in within
  <2>1. Cardinality({}) = 0
    BY FS_EmptySet
  <2> QED
    BY <1>5, <2>1, HydrationAssumption DEF HydrationAssumption
<1>7. S # {} /\ S \subseteq 0..MaxEvents
  BY <1>1, <1>6 DEF Events
<1>8. Max(S) \in S
  <2> HIDE DEF S
  <2> QED
    BY <1>7, Largest, Constants
<1>9. Max(S) \in Events
  BY <1>7, <1>8 DEF Events
<1>10. \E j \in within : Max(S) = rows[j].seq
  BY <1>8
<1> QED
  BY <1>9, <1>10

\* It takes the first ones.
LEMMA FirstOnPage ==
  ASSUME NEW rows \in Rows, NEW after \in SUBSET Items,
         NEW within, within = {i \in after :
           Cardinality({j \in after : rows[j].seq < rows[i].seq}) < PageSize},
         NEW j \in within, NEW i \in after, rows[i].seq <= rows[j].seq
  PROVE  i \in within
<1>1. \A k \in Items : rows[k].seq \in Nat
  BY Constants DEF Rows, Content, Events
<1> DEFINE Before(k) == {h \in after : rows[h].seq < rows[k].seq}
<1>2. Before(i) \subseteq Before(j) /\ Before(j) \subseteq Items
  BY <1>1
<1>3. IsFiniteSet(Items) /\ PageSize \in Nat
  BY HydrationAssumption DEF HydrationAssumption
<1>4. IsFiniteSet(Before(j)) /\ Cardinality(Before(j)) < PageSize
  <2>1. Cardinality(Before(j)) < PageSize
    OBVIOUS
  <2> HIDE DEF Before
  <2> QED
    BY <1>2, <1>3, <2>1, FS_Subset
<1>5. /\ Cardinality(Before(i)) <= Cardinality(Before(j))
      /\ Cardinality(Before(i)) \in Nat /\ Cardinality(Before(j)) \in Nat
  <2> HIDE DEF Before
  <2> QED
    BY <1>2, <1>4, FS_Subset, FS_CardinalityType
<1>6. Cardinality(Before(i)) < PageSize
  BY <1>3, <1>4, <1>5
<1> QED
  BY <1>6

-----------------------------------------------------------------------------
(* The steps.                                                              *)

\* Other variables than the page, the row or its messages do not matter.
LEMMA Frames ==
  /\ UNCHANGED <<server, unsent>> => (ServerInv => ServerInv')
  /\ UNCHANGED <<server, notes, stream>> => (WireInv => WireInv')
  /\ UNCHANGED <<server, reply>> => (ReplyInv => ReplyInv')
  /\ UNCHANGED <<server, page>> => (PageInv => PageInv')
<1>1. UNCHANGED <<server, unsent>> => (ServerInv => ServerInv')
  BY DEF ServerInv
<1>2. UNCHANGED <<server, notes, stream>> => (WireInv => WireInv')
  BY DEF WireInv
<1>3. UNCHANGED <<server, reply>> => (ReplyInv => ReplyInv')
  BY DEF ReplyInv
<1>4. UNCHANGED <<server, page>> => (PageInv => PageInv')
  BY DEF PageInv
<1> QED
  BY <1>1, <1>2, <1>3, <1>4

\* The row goes on, and what is known of it does not change.
LEMMA ServerMoves ==
  ASSUME IInv, server' \in [rev : Revisions, epoch : Epochs, seq : Events, rows : Rows],
         server.rev <= server'.rev, server.epoch <= server'.epoch,
         UNCHANGED <<notes, stream, page, reply>>
  PROVE  WireInv' /\ ReplyInv' /\ PageInv'
<1>1. /\ server.rev \in Revisions /\ server'.rev \in Revisions
      /\ server.epoch \in Epochs /\ server'.epoch \in Epochs
      /\ server.rev \in Nat /\ server'.rev \in Nat
  BY Constants DEF IInv, ServerInv
<1>2. ASSUME NEW f, GoodFrame(f, server.rev) PROVE GoodFrame(f, server'.rev)
  <2>1. f.rev \in Nat /\ f.rev <= server.rev
    BY <1>2, Constants DEF GoodFrame, Frame
  <2>2. f.rev <= server'.rev
    BY <1>1, <2>1
  <2> QED
    BY <1>2, <2>2 DEF GoodFrame
<1>3. WireInv'
  BY <1>2 DEF IInv, WireInv
<1>4. ReplyInv'
  <2>1. reply.rev \in Nat /\ reply.rev <= server.rev
    BY Constants DEF IInv, ReplyInv
  <2>2. reply.rev <= server'.rev
    BY <1>1, <2>1
  <2> QED
    BY <2>2 DEF IInv, ReplyInv
<1>5. WellFormed(page, server.rev, server.epoch) /\ From(page.blocks, page.epoch)
  BY DEF IInv, PageInv
<1>6. WellFormed(page, server'.rev, server'.epoch)
  BY <1>1, <1>5, Later
<1>7. PageInv'
  BY <1>5, <1>6 DEF PageInv
<1> QED
  BY <1>3, <1>4, <1>7

\* The list of sessions was loaded, and nothing else.
LEMMA InitGood == Init => IInv
<1> SUFFICES ASSUME Init PROVE IInv
  OBVIOUS
<1> USE DEF Init
<1>1. [i \in Items |-> Absent] \in Rows /\ NoPending \in Pending /\ NoAttempt \in Attempt
  BY Nothing, Constants
<1>2. GoodLoad(NoLoad, 1, 1) /\ NoLoad \in Load
  BY Nothing, Constants DEF GoodLoad
<1>3. [gen |-> 1, seq |-> 1] \in Content
  BY Constants DEF Content, Epochs, Events
<1>4. server.rows \in Rows /\ From(server.rows, server.epoch)
  BY <1>3, Constants DEF Rows, From
<1>5. ServerInv
  BY <1>4, Constants DEF ServerInv
<1>6. WireInv
  BY HydrationAssumption DEF WireInv, HydrationAssumption
<1>7. ReplyInv
  BY Constants DEF ReplyInv, NoReply
<1>8. page \in Page
  BY <1>1, <1>2, Constants DEF Page
<1>9. WellFormed(page, server.rev, server.epoch)
  BY <1>2, <1>8 DEF WellFormed
<1>10. From(page.blocks, page.epoch)
  BY DEF From
<1> QED
  BY <1>5, <1>6, <1>7, <1>9, <1>10 DEF IInv, PageInv

\* A step of the page: what it leaves alone and what the page becomes.
LEMMA PageStep ==
  ASSUME IInv, UNCHANGED <<server, unsent, notes>>,
         UNCHANGED stream \/ WireInv', UNCHANGED reply \/ ReplyInv',
         WellFormed(page', server.rev, server.epoch), From(page'.blocks, page'.epoch)
  PROVE  IInv'
<1>1. ServerInv' /\ WireInv' /\ ReplyInv'
  BY Frames DEF IInv
<1>2. PageInv'
  BY DEF PageInv
<1> QED
  BY <1>1, <1>2 DEF IInv

\* The row, as every step finds it.
LEMMA Known ==
  ASSUME IInv
  PROVE  /\ server \in [rev : Revisions, epoch : Epochs, seq : Events, rows : Rows]
         /\ server.rev \in Revisions /\ server.epoch \in Epochs /\ server.seq \in Events
         /\ server.rows \in Rows /\ From(server.rows, server.epoch)
         /\ server.rev \in Nat /\ server.epoch \in Nat /\ server.seq \in Nat
         /\ WellFormed(page, server.rev, server.epoch) /\ From(page.blocks, page.epoch)
         /\ page \in Page
BY Constants DEF IInv, ServerInv, PageInv, WellFormed

LEMMA ProjectGood == ASSUME IInv, NEW i \in Items, Project(i) PROVE IInv'
<1> DEFINE c == [gen |-> server.epoch, seq |-> server.seq + 1]
<1>1. /\ server.rev + 1 \in Revisions /\ server.seq + 1 \in Events
  BY Known, Constants DEF Project, Revisions, Events
<1>2. c \in Content /\ c.gen = server.epoch
  BY <1>1, Known DEF Content, Epochs, Events
<1>3. /\ server' = [server EXCEPT !.rev = @ + 1, !.seq = @ + 1, !.rows[i] = c]
      /\ unsent' = [item |-> i, content |-> c]
      /\ UNCHANGED <<notes, stream, page, reply>>
  BY DEF Project
<1> HIDE DEF c
<1>4. /\ server' \in [rev : Revisions, epoch : Epochs, seq : Events, rows : Rows]
      /\ server'.epoch = server.epoch /\ server'.rev = server.rev + 1
      /\ server'.rows = [server.rows EXCEPT ![i] = c]
  BY <1>1, <1>2, <1>3, Known DEF Rows
<1>5. From(server'.rows, server'.epoch)
  BY <1>2, <1>4, Known DEF From, Rows
<1>6. unsent' \in [item : Items, content : Content] /\ unsent'.content.gen = server'.epoch
  BY <1>2, <1>3, <1>4
<1>7. server.rev <= server'.rev /\ server.epoch <= server'.epoch
  BY <1>4, Known
<1>8. WireInv' /\ ReplyInv' /\ PageInv'
  BY <1>3, <1>4, <1>7, ServerMoves
<1>9. ServerInv'
  BY <1>4, <1>5, <1>6 DEF ServerInv
<1> QED
  BY <1>8, <1>9 DEF IInv

LEMMA TouchGood == ASSUME IInv, Touch PROVE IInv'
<1>1. server.rev + 1 \in Revisions
  BY Known, Constants DEF Touch, Revisions
<1>2. server' = [server EXCEPT !.rev = @ + 1] /\ UNCHANGED <<unsent, notes, stream, page, reply>>
  BY DEF Touch
<1>3. /\ server' \in [rev : Revisions, epoch : Epochs, seq : Events, rows : Rows]
      /\ server'.epoch = server.epoch /\ server'.rev = server.rev + 1 /\ server'.rows = server.rows
  BY <1>1, <1>2, Known
<1>4. server.rev <= server'.rev /\ server.epoch <= server'.epoch
  BY <1>3, Known
<1>5. WireInv' /\ ReplyInv' /\ PageInv'
  BY <1>2, <1>3, <1>4, ServerMoves
<1>6. ServerInv'
  BY <1>2, <1>3 DEF ServerInv, IInv
<1> QED
  BY <1>5, <1>6 DEF IInv

LEMMA RewriteGood ==
  ASSUME IInv, NEW gone \in Items, NEW sourced \in BOOLEAN, Rewrite(gone, sourced)
  PROVE  IInv'
<1> DEFINE s(i) == IF sourced THEN 0 ELSE server.rows[i].seq
           b == [i \in Items |-> IF i # gone /\ server.rows[i] # Absent
                                   THEN [gen |-> server.epoch + 1, seq |-> s(i)] ELSE Absent]
<1>1. server.rev + 1 \in Revisions /\ server.epoch + 1 \in Epochs
  BY Known, Constants DEF Rewrite, Revisions, Epochs
<1>2. \A i \in Items : s(i) \in Events
  BY Known, Constants DEF Rows, Content, Events
<1>3. server' = [server EXCEPT !.rev = @ + 1, !.epoch = @ + 1, !.rows = b]
  BY DEF Rewrite
<1>4. UNCHANGED <<unsent, notes, stream, page, reply>> /\ unsent.content = Absent
  BY DEF Rewrite
<1>5. b \in Rows /\ From(b, server.epoch + 1)
  <2> HIDE DEF s
  <2>1. \A i \in Items : [gen |-> server.epoch + 1, seq |-> s(i)] \in Content
    BY <1>1, <1>2 DEF Content, Epochs, Events
  <2>2. b \in Rows
    BY <2>1, Constants DEF Rows
  <2>3. From(b, server.epoch + 1)
    BY Known DEF From
  <2> QED
    BY <2>2, <2>3
<1> HIDE DEF b
<1>6. /\ server' \in [rev : Revisions, epoch : Epochs, seq : Events, rows : Rows]
      /\ server'.epoch = server.epoch + 1 /\ server'.rev = server.rev + 1 /\ server'.rows = b
  BY <1>1, <1>3, <1>5, Known
<1>7. server.rev <= server'.rev /\ server.epoch <= server'.epoch
  BY <1>6, Known
<1>8. WireInv' /\ ReplyInv' /\ PageInv'
  BY <1>4, <1>6, <1>7, ServerMoves
<1>9. ServerInv'
  BY <1>4, <1>5, <1>6 DEF ServerInv, IInv
<1> QED
  BY <1>8, <1>9 DEF IInv

\* A good frame may be sent.
LEMMA SentGood ==
  ASSUME IInv, NEW f, GoodFrame(f, server.rev), Sent(f),
         UNCHANGED server, notes' \subseteq notes
  PROVE  WireInv'
<1>1. f \in Frame /\ stream.wire \in Seq(Frame) /\ Len(stream.wire) \in Nat
  BY DEF GoodFrame, IInv, WireInv
<1>2. MaxWire \in Nat
  BY HydrationAssumption DEF HydrationAssumption
<1>3. \A g \in notes' : GoodFrame(g, server'.rev)
  BY DEF IInv, WireInv
<1>4. CASE UNCHANGED stream
  BY <1>3, <1>4 DEF IInv, WireInv
<1>5. CASE Len(stream.wire) < MaxWire /\ stream' = [stream EXCEPT !.wire = Append(@, f)]
  <2>1. /\ stream' \in [open : BOOLEAN, focus : BOOLEAN, beat : BOOLEAN, wire : Seq(Frame)]
        /\ stream'.wire = Append(stream.wire, f)
    <3>1. Append(stream.wire, f) \in Seq(Frame)
      BY <1>1
    <3> QED
      BY <1>5, <3>1, Zenon DEF IInv, WireInv
  <2>2. /\ Len(stream'.wire) = Len(stream.wire) + 1
        /\ \A k \in 1..Len(stream'.wire) :
             stream'.wire[k] = IF k = Len(stream.wire) + 1 THEN f ELSE stream.wire[k]
    BY <1>1, <2>1
  <2>3. Len(stream'.wire) <= MaxWire
    BY <1>1, <1>2, <1>5, <2>2
  <2>4. \A k \in 1..Len(stream'.wire) : GoodFrame(stream'.wire[k], server'.rev)
    <3> TAKE k \in 1..Len(stream'.wire)
    <3>1. k = Len(stream.wire) + 1 \/ k \in 1..Len(stream.wire)
      BY <1>1, <2>2
    <3>2. CASE k = Len(stream.wire) + 1
      BY <2>2, <3>2
    <3>3. CASE k \in 1..Len(stream.wire)
      <4>1. stream'.wire[k] = stream.wire[k]
        BY <1>1, <2>2, <3>3
      <4> QED
        BY <3>3, <4>1 DEF IInv, WireInv
    <3> QED
      BY <3>1, <3>2, <3>3
  <2> QED
    BY <1>3, <2>1, <2>3, <2>4 DEF WireInv
<1> QED
  BY <1>4, <1>5 DEF Sent

LEMMA BroadcastGood == ASSUME IInv, Broadcast PROVE IInv'
<1> DEFINE f == [op |-> "item", rev |-> server.rev, epoch |-> server.epoch,
                 item |-> unsent.item, content |-> unsent.content]
<1>1. unsent \in [item : Items, content : Content] /\ unsent.content # Absent
  BY DEF Broadcast, IInv, ServerInv
<1>2. unsent.content.gen = server.epoch
  BY <1>1 DEF IInv, ServerInv
<1>3. GoodFrame(f, server.rev)
  BY <1>1, <1>2, Known DEF GoodFrame, Frame
<1>4. /\ Sent(f) /\ unsent' = [unsent EXCEPT !.content = Absent]
      /\ UNCHANGED <<server, notes, page, reply>>
  BY DEF Broadcast
<1> HIDE DEF f
<1>5. WireInv'
  BY <1>3, <1>4, SentGood
<1>6. ServerInv'
  <2>1. unsent' \in [item : Items, content : Content] /\ unsent'.content = Absent
    BY <1>1, <1>4, Constants
  <2> QED
    BY <1>4, <2>1 DEF IInv, ServerInv
<1>7. ReplyInv' /\ PageInv'
  BY <1>4, Frames DEF IInv
<1> QED
  BY <1>5, <1>6, <1>7 DEF IInv

LEMMA NoteGood == ASSUME IInv, NEW op \in {"session", "resync"}, Note(op) PROVE IInv'
<1> DEFINE f == [op |-> op, rev |-> server.rev, epoch |-> server.epoch,
                 item |-> unsent.item, content |-> Absent]
<1>1. unsent.item \in Items
  BY DEF IInv, ServerInv
<1>2. GoodFrame(f, server.rev)
  BY <1>1, Known, Constants DEF GoodFrame, Frame
<1>3. notes' = {f} /\ UNCHANGED <<server, unsent, stream, page, reply>>
  BY DEF Note
<1> HIDE DEF f
<1>4. WireInv'
  BY <1>2, <1>3 DEF IInv, WireInv
<1>5. ServerInv' /\ ReplyInv' /\ PageInv'
  BY <1>3, Frames DEF IInv
<1> QED
  BY <1>4, <1>5 DEF IInv

LEMMA SendNoteGood == ASSUME IInv, NEW f \in notes, SendNote(f) PROVE IInv'
<1>1. GoodFrame(f, server.rev)
  BY DEF IInv, WireInv
<1>2. Sent(f) /\ notes' \subseteq notes /\ UNCHANGED <<server, unsent, page, reply>>
  BY DEF SendNote
<1>3. WireInv'
  BY <1>1, <1>2, SentGood
<1>4. ServerInv' /\ ReplyInv' /\ PageInv'
  BY <1>2, Frames DEF IInv
<1> QED
  BY <1>3, <1>4 DEF IInv

\* Both loads may be replaced.
LEMMA SetLoads ==
  ASSUME NEW R \in Revisions, NEW E \in Epochs, NEW p, WellFormed(p, R, E), NEW who \in Loads,
         NEW l, GoodLoad(l, R, E), NEW m, GoodLoad(m, R, E),
         NEW r, r = [p EXCEPT ![who] = l, ![Other(who)] = m]
  PROVE  WellFormed(r, R, E) /\ r.blocks = p.blocks /\ r.epoch = p.epoch
<1>1. p \in Page /\ Other(who) \in Loads
  BY DEF WellFormed, Other, Loads
<1>2. PICK q : q = [p EXCEPT ![who] = l]
  OBVIOUS
<1>3. PICK o \in Loads : o = Other(who)
  BY <1>1
<1>4. WellFormed(q, R, E)
  BY <1>2, SetLoad
<1>5. WellFormed([q EXCEPT ![o] = m], R, E)
  BY <1>4, SetLoad, Zenon
<1>6. WellFormed(r, R, E)
  <2>1. r = [q EXCEPT ![o] = m]
    BY <1>2, <1>3
  <2> QED
    BY <1>5, <2>1, Zenon
<1>7. r.blocks = p.blocks /\ r.epoch = p.epoch
  BY <1>1, <1>3 DEF Page, Loads
<1> QED
  BY <1>6, <1>7

\* A load of the page goes on, and the other one with it where both wait for the same answer.
LEMMA LoadsStep ==
  ASSUME IInv, NEW who \in Loads, NEW load, GoodLoad(load, server.rev, server.epoch),
         page' = [page EXCEPT ![who] = load, ![Other(who)] = IF Shared THEN load ELSE @],
         UNCHANGED <<server, unsent, notes, stream, reply>>
  PROVE  IInv'
<1> DEFINE other == IF Shared THEN load ELSE page[Other(who)]
<1>1. Other(who) \in Loads /\ Other(who) # who /\ page \in Page
  BY Known DEF Other, Loads
<1>2. GoodLoad(page[Other(who)], server.rev, server.epoch)
  BY <1>1, Known, LoadOf
<1>3. PICK m : m = other
  OBVIOUS
<1>4. GoodLoad(m, server.rev, server.epoch)
  BY <1>2, <1>3
<1>5. page' = [page EXCEPT ![who] = load, ![Other(who)] = m]
  BY <1>1, <1>3 DEF Page, Loads
<1>6. PICK r : r = [page EXCEPT ![who] = load, ![Other(who)] = m]
  OBVIOUS
<1>7. WellFormed(r, server.rev, server.epoch) /\ r.blocks = page.blocks /\ r.epoch = page.epoch
  <2>1. /\ server.rev \in Revisions /\ server.epoch \in Epochs
        /\ WellFormed(page, server.rev, server.epoch)
    BY Known
  <2> QED
    BY <1>1, <1>4, <1>6, <2>1, SetLoads DEF Page, Loads
<1>8. page' = r
  BY <1>5, <1>6
<1>9. From(page'.blocks, page'.epoch)
  BY <1>7, <1>8, Known
<1> QED
  BY <1>7, <1>8, <1>9, PageStep

LEMMA AnswerCatchUpGood == ASSUME IInv, NEW who \in Loads, AnswerCatchUp(who) PROVE IInv'
<1> DEFINE load == page[who]
           target == IF load.target = 0 THEN server.seq ELSE load.target
           after == {i \in Items : server.rows[i].seq > load.after /\ server.rows[i].seq <= target}
           within == {i \in after : Cardinality({j \in after : server.rows[j].seq < server.rows[i].seq})
                                      < PageSize}
           more == within # after
           read == IF load.epoch # server.epoch THEN {} ELSE within
           cursor == IF more THEN Max({server.rows[i].seq : i \in within}) ELSE target
           rows == [i \in Items |-> IF i \in read THEN server.rows[i] ELSE Absent]
           ans == [rev |-> server.rev, epoch |-> server.epoch, target |-> target, more |-> more,
                   cursor |-> cursor, rows |-> rows]
           mine == [load EXCEPT !.pc = "answered", !.ans = ans]
<1>1. load \in Load
  BY Known, LoadOf
<1>2. target \in Events
  BY <1>1, Known DEF Load, Events
<1>3. cursor \in Events
  <2>1. after \in SUBSET Items
    OBVIOUS
  <2> HIDE DEF after
  <2>2. more => Max({server.rows[i].seq : i \in within}) \in Events
    BY <2>1, Known, SomeOnPage
  <2> QED
    BY <1>2, <2>2
<1>4. rows \in Rows /\ From(rows, server.epoch)
  <2> HIDE DEF read
  <2>1. rows \in Rows
    BY Known, Constants DEF Rows
  <2>2. From(rows, server.epoch)
    BY Known DEF From
  <2> QED
    BY <2>1, <2>2
<1>5. more \in BOOLEAN
  OBVIOUS
<1>6. /\ page' = [page EXCEPT ![who].pc = "answered", ![who].ans = ans]
      /\ UNCHANGED <<server, unsent, notes, stream, reply>>
  BY DEF AnswerCatchUp
<1> HIDE DEF target, more, cursor, rows
<1>7. /\ ans \in Answer /\ ans.rev = server.rev /\ ans.epoch = server.epoch /\ ans.rows = rows
  BY <1>2, <1>3, <1>4, <1>5, Known DEF Answer, Epochs, Events
<1> HIDE DEF ans
<1>8. mine \in Load /\ mine.ans = ans
  BY <1>1, <1>7 DEF Load
<1>9. GoodLoad(mine, server.rev, server.epoch)
  BY <1>4, <1>7, <1>8, Known DEF GoodLoad
<1>10. page' = [page EXCEPT ![who] = mine]
  BY <1>6, Known DEF Page, Loads
<1> HIDE DEF mine
<1>11. /\ WellFormed(page', server.rev, server.epoch)
       /\ page'.blocks = page.blocks /\ page'.epoch = page.epoch
  BY <1>9, <1>10, Known, SetLoad DEF Page, Loads
<1>12. From(page'.blocks, page'.epoch)
  BY <1>11, Known
<1> QED
  BY <1>6, <1>11, <1>12, PageStep

LEMMA ReadRecordGood == ASSUME IInv, NEW who \in Loads, ReadRecord(who) PROVE IInv'
<1> DEFINE ans == [page[who].ans EXCEPT !.rev = server.rev, !.epoch = server.epoch,
                                        !.cursor = server.seq]
           load == [page[who] EXCEPT !.pc = "read", !.ans = ans]
<1>1. page[who] \in Load
  BY Known, LoadOf
<1>2. ans \in Answer /\ ans.rev = server.rev /\ ans.epoch = server.epoch
  BY <1>1, Known DEF Load, Answer, Epochs, Events
<1>3. /\ page' = [page EXCEPT ![who] = load, ![Other(who)] = IF Shared THEN load ELSE @]
      /\ UNCHANGED <<server, unsent, notes, stream, reply>>
  BY DEF ReadRecord
<1> HIDE DEF ans
<1>4. load \in Load /\ load.ans = ans /\ load.pc = "read"
  BY <1>1, <1>2 DEF Load
<1>5. GoodLoad(load, server.rev, server.epoch)
  BY <1>2, <1>4, Known DEF GoodLoad
<1> HIDE DEF load
<1> QED
  BY <1>3, <1>5, LoadsStep

LEMMA ReadRowsGood == ASSUME IInv, NEW who \in Loads, ReadRows(who) PROVE IInv'
<1> DEFINE ans == [page[who].ans EXCEPT !.rows = server.rows]
           load == [page[who] EXCEPT !.pc = "answered", !.ans = ans]
<1>1. page[who] \in Load /\ GoodLoad(page[who], server.rev, server.epoch)
  BY Known, LoadOf
<1>2. /\ ans \in Answer /\ ans.rev <= server.rev /\ ans.epoch <= server.epoch
      /\ ans.rows = server.rows
  BY <1>1, Known DEF Load, Answer, GoodLoad
<1>3. From(ans.rows, ans.epoch)
  <2>1. ans.epoch \in Nat /\ ans.epoch <= server.epoch
    BY <1>2, Constants DEF Answer, Epochs
  <2>2. \A i \in Items : server.rows[i].gen \in Nat
    BY Known, Constants DEF Rows, Content, Epochs
  <2> HIDE DEF ans
  <2> QED
    BY <1>2, <2>1, <2>2, Known DEF From
<1>4. /\ page' = [page EXCEPT ![who] = load, ![Other(who)] = IF Shared THEN load ELSE @]
      /\ UNCHANGED <<server, unsent, notes, stream, reply>>
  BY DEF ReadRows
<1> HIDE DEF ans
<1>5. load \in Load /\ load.ans = ans
  BY <1>1, <1>2 DEF Load
<1>6. GoodLoad(load, server.rev, server.epoch)
  BY <1>2, <1>3, <1>5 DEF GoodLoad
<1> HIDE DEF load
<1> QED
  BY <1>4, <1>6, LoadsStep

LEMMA RespondGood == ASSUME IInv, NEW who \in Loads, Respond(who) PROVE IInv'
<1> DEFINE R == server.rev
           E == server.epoch
           s == Snapshotted(page, who)
           t == Snapshotted(s, Other(who))
           Fine(x) == WellFormed(x, R, E) /\ From(x.blocks, x.epoch)
<1>1. page[who].pc = "answered" /\ UNCHANGED <<server, unsent, notes, stream, reply>>
  BY DEF Respond
<1>2. Fine(CaughtUp(page, who))
  BY <1>1, Known, CaughtUpPage
<1>3. Fine(s) /\ s[Other(who)] = page[Other(who)]
  BY <1>1, Known, SnapshottedPage
<1>4. Shared => Fine(t)
  <2> SUFFICES ASSUME Shared PROVE Fine(t)
    OBVIOUS
  <2>1. page[Other(who)] = page[who] /\ Other(who) \in Loads
    BY DEF Shared, Other, Loads
  <2>2. s[Other(who)].pc = "answered"
    BY <1>1, <1>3, <2>1
  <2> HIDE DEF s
  <2> QED
    BY <1>3, <2>1, <2>2, Known, SnapshottedPage
<1>5. \/ page' = CaughtUp(page, who) \/ page' = s
      \/ Shared /\ page' = t
  BY DEF Respond
<1> HIDE DEF s, t
<1>6. Fine(page')
  BY <1>2, <1>3, <1>4, <1>5
<1> QED
  BY <1>1, <1>6, PageStep

LEMMA FailGood == ASSUME IInv, NEW who \in Loads, Fail(who) PROVE IInv'
<1> DEFINE o == Over(page, "panel")
           Fine(x) == /\ WellFormed(x, server.rev, server.epoch)
                      /\ x.blocks = page.blocks /\ x.epoch = page.epoch
<1>1. "panel" \in Loads /\ "sync" \in Loads
  BY DEF Loads
<1>2. Fine(o)
  BY <1>1, Known, OverPage
<1>3. Fine(Ended(o, "sync"))
  <2> HIDE DEF o
  <2> QED
    BY <1>1, <1>2, Known, EndedPage
<1>4. Fine(Ended(page, who))
  BY Known, EndedPage
<1>5. /\ page' = Ended(o, "sync") \/ page' = Ended(page, who)
      /\ UNCHANGED <<server, unsent, notes, stream, reply>>
  BY DEF Fail
<1> HIDE DEF o
<1>6. Fine(page')
  BY <1>3, <1>4, <1>5
<1> QED
  BY <1>5, <1>6, Known, PageStep

LEMMA HeartbeatGood == ASSUME IInv, Heartbeat PROVE IInv'
<1>1. /\ stream' = [stream EXCEPT !.focus = stream.beat]
      /\ UNCHANGED <<server, unsent, notes, page, reply>>
  BY DEF Heartbeat
<1>2. stream.beat \in BOOLEAN
  BY DEF IInv, WireInv
<1>3. /\ stream' \in [open : BOOLEAN, focus : BOOLEAN, beat : BOOLEAN, wire : Seq(Frame)]
      /\ stream'.wire = stream.wire
  BY <1>1, <1>2, Zenon DEF IInv, WireInv
<1>4. WireInv'
  BY <1>1, <1>3 DEF IInv, WireInv
<1>5. ServerInv' /\ ReplyInv' /\ PageInv'
  BY <1>1, Frames DEF IInv
<1> QED
  BY <1>4, <1>5 DEF IInv

LEMMA DeliverGood == ASSUME IInv, Deliver PROVE IInv'
<1>1. /\ stream.wire # <<>> /\ page' = Framed(page, Head(stream.wire))
      /\ stream' = [stream EXCEPT !.wire = Tail(@)]
      /\ UNCHANGED <<server, unsent, notes, reply>>
  BY DEF Deliver
<1>2. stream.wire \in Seq(Frame) /\ Len(stream.wire) \in Nat /\ Len(stream.wire) > 0
  BY <1>1 DEF IInv, WireInv
<1>3. GoodFrame(Head(stream.wire), server.rev)
  <2>1. Head(stream.wire) = stream.wire[1] /\ 1 \in 1..Len(stream.wire)
    BY <1>2
  <2> QED
    BY <2>1 DEF IInv, WireInv
<1>4. WellFormed(page', server.rev, server.epoch) /\ From(page'.blocks, page'.epoch)
  BY <1>1, <1>3, Known, FramedPage
<1>5. WireInv'
  <2>1. /\ Tail(stream.wire) \in Seq(Frame) /\ Len(Tail(stream.wire)) = Len(stream.wire) - 1
        /\ \A k \in 1..Len(Tail(stream.wire)) :
             /\ k + 1 \in 1..Len(stream.wire) /\ Tail(stream.wire)[k] = stream.wire[k + 1]
    BY <1>1, <1>2
  <2>2. /\ stream' \in [open : BOOLEAN, focus : BOOLEAN, beat : BOOLEAN, wire : Seq(Frame)]
        /\ stream'.wire = Tail(stream.wire)
    BY <1>1, <2>1, Zenon DEF IInv, WireInv
  <2>3. Len(stream'.wire) <= MaxWire
    BY <1>2, <2>1, <2>2, HydrationAssumption DEF IInv, WireInv, HydrationAssumption
  <2>4. \A k \in 1..Len(stream'.wire) : GoodFrame(stream'.wire[k], server.rev)
    BY <2>1, <2>2 DEF IInv, WireInv
  <2> QED
    BY <1>1, <2>2, <2>3, <2>4 DEF IInv, WireInv
<1> QED
  BY <1>1, <1>4, <1>5, PageStep

LEMMA TimersGood == ASSUME IInv, Fire \/ Elapse \/ Age PROVE IInv'
<1> DEFINE Fine(x) == /\ WellFormed(x, server.rev, server.epoch)
                      /\ x.blocks = page.blocks /\ x.epoch = page.epoch
<1>1. UNCHANGED <<server, unsent, notes, stream, reply>>
  BY DEF Fire, Elapse, Age
<1>2. page.attempt \in Attempt
  BY Known DEF Page
<1>3. ASSUME Fire PROVE Fine(page')
  <2> DEFINE q == [page EXCEPT !.timer = FALSE]
  <2>1. q \in Page
    BY Known DEF Page
  <2>2. Fine(q)
    BY <2>1, Known DEF WellFormed, Page
  <2>3. page' = Start(q)
    BY <1>3 DEF Fire
  <2> HIDE DEF q
  <2>4. Fine(Start(q))
    BY <2>2, Known, Started
  <2> QED
    BY <2>3, <2>4
<1>4. ASSUME Elapse PROVE Fine(page')
  <2> DEFINE a == [page.attempt EXCEPT !.wait = FALSE]
  <2>1. a \in Attempt
    BY <1>2 DEF Attempt
  <2>2. page' = [page EXCEPT !.attempt = a]
    BY <1>4 DEF Elapse
  <2> HIDE DEF a
  <2>3. server.rev \in Revisions /\ server.epoch \in Epochs /\ WellFormed(page, server.rev, server.epoch)
    BY Known
  <2> QED
    BY <2>1, <2>2, <2>3, FreshAttempt DEF WellFormed, Page
<1>5. ASSUME Age PROVE Fine(page')
  <2> DEFINE a == [page.attempt EXCEPT !.aged = TRUE]
  <2>1. a \in Attempt
    BY <1>2 DEF Attempt
  <2>2. page' = [page EXCEPT !.attempt = a]
    BY <1>5 DEF Age
  <2> HIDE DEF a
  <2>3. server.rev \in Revisions /\ server.epoch \in Epochs /\ WellFormed(page, server.rev, server.epoch)
    BY Known
  <2> QED
    BY <2>1, <2>2, <2>3, FreshAttempt DEF WellFormed, Page
<1>6. Fine(page')
  BY <1>3, <1>4, <1>5
<1> QED
  BY <1>1, <1>6, Known, PageStep

\* The focus of the stream changes, or its heartbeat.
LEMMA StreamGood ==
  ASSUME IInv, UNCHANGED <<server, notes>>,
         \E o, f, b \in BOOLEAN, w \in {stream.wire, <<>>} :
           stream' = [open |-> o, focus |-> f, beat |-> b, wire |-> w]
  PROVE  WireInv'
<1>1. PICK o, f, b \in BOOLEAN, w \in {stream.wire, <<>>} :
        stream' = [open |-> o, focus |-> f, beat |-> b, wire |-> w]
  OBVIOUS
<1>2. w \in Seq(Frame) /\ Len(w) <= MaxWire
  <2>1. stream.wire \in Seq(Frame) /\ Len(stream.wire) <= MaxWire
    BY DEF IInv, WireInv
  <2>2. <<>> \in Seq(Frame) /\ Len(<<>>) = 0 /\ 0 <= MaxWire
    BY HydrationAssumption DEF HydrationAssumption
  <2> QED
    BY <2>1, <2>2
<1>3. /\ stream' \in [open : BOOLEAN, focus : BOOLEAN, beat : BOOLEAN, wire : Seq(Frame)]
      /\ stream'.wire = w
  BY <1>1, <1>2, Zenon
<1>4. \A k \in 1..Len(w) : GoodFrame(w[k], server.rev)
  BY DEF IInv, WireInv
<1> QED
  BY <1>2, <1>3, <1>4 DEF IInv, WireInv

LEMMA FocusGood == ASSUME IInv, Focus PROVE IInv'
<1> DEFINE q == [page EXCEPT !.focused = TRUE]
<1>1. /\ page' = CatchUp(q, "panel", FALSE)
      /\ stream' = [stream EXCEPT !.beat = stream.open]
      /\ UNCHANGED <<server, unsent, notes, reply>>
  BY DEF Focus
<1>2. q \in Page
  BY Known DEF Page
<1>3. WellFormed(q, server.rev, server.epoch) /\ q.blocks = page.blocks /\ q.epoch = page.epoch
  BY <1>2, Known DEF WellFormed, Page
<1> HIDE DEF q
<1>4. server.rev \in Revisions /\ server.epoch \in Epochs /\ "panel" \in Loads
  BY Known DEF Loads
<1>5. /\ WellFormed(page', server.rev, server.epoch)
      /\ page'.blocks = page.blocks /\ page'.epoch = page.epoch
  <2>1. PICK c : c = CatchUp(q, "panel", FALSE)
    OBVIOUS
  <2>2. WellFormed(c, server.rev, server.epoch) /\ c.blocks = q.blocks /\ c.epoch = q.epoch
    BY <1>3, <1>4, <2>1, CatchesUp
  <2> QED
    BY <1>1, <1>3, <2>1, <2>2
<1>6. stream \in [open : BOOLEAN, focus : BOOLEAN, beat : BOOLEAN, wire : Seq(Frame)]
  BY DEF IInv, WireInv
<1>7. /\ stream' = [open |-> stream.open, focus |-> stream.focus, beat |-> stream.open,
                    wire |-> stream.wire]
      /\ stream.open \in BOOLEAN /\ stream.focus \in BOOLEAN /\ stream.wire \in {stream.wire, <<>>}
  BY <1>1, <1>6
<1>8. WireInv'
  BY <1>1, <1>7, StreamGood, Zenon
<1> QED
  BY <1>1, <1>5, <1>8, Known, PageStep

LEMMA LeaveGood == ASSUME IInv, NEW aborted \in BOOLEAN, Leave(aborted) PROVE IInv'
<1> DEFINE q == [page EXCEPT !.focused = FALSE]
           c == Cancelled(q)
           panel == IF aborted THEN NoLoad ELSE c.panel
           Fine(x) == /\ WellFormed(x, server.rev, server.epoch)
                      /\ x.blocks = page.blocks /\ x.epoch = page.epoch
<1>1. /\ page' = [c EXCEPT !.panel = panel]
      /\ stream' = [stream EXCEPT !.beat = FALSE]
      /\ UNCHANGED <<server, unsent, notes, reply>>
  BY DEF Leave
<1>2. q \in Page
  BY Known DEF Page
<1>3. Fine(q)
  BY <1>2, Known DEF WellFormed, Page
<1>4. server.rev \in Revisions /\ server.epoch \in Epochs /\ "panel" \in Loads
  BY Known DEF Loads
<1>5. Fine(c)
  <2> HIDE DEF q
  <2> QED
    BY <1>3, <1>4, CancelledPage
<1> HIDE DEF c
<1>6. GoodLoad(panel, server.rev, server.epoch)
  BY <1>4, <1>5, Nothing DEF WellFormed
<1>7. page' = [c EXCEPT !["panel"] = panel]
  BY <1>1
<1> HIDE DEF panel
<1>8. Fine(page')
  <2>1. c \in Page
    BY <1>5 DEF WellFormed
  <2>2. page'.blocks = c.blocks /\ page'.epoch = c.epoch
    BY <1>7, <2>1 DEF Page
  <2>3. WellFormed(page', server.rev, server.epoch)
    BY <1>4, <1>5, <1>6, <1>7, SetLoad
  <2> QED
    BY <1>5, <2>2, <2>3
<1>9. stream \in [open : BOOLEAN, focus : BOOLEAN, beat : BOOLEAN, wire : Seq(Frame)]
  BY DEF IInv, WireInv
<1>10. /\ stream' = [open |-> stream.open, focus |-> stream.focus, beat |-> FALSE,
                     wire |-> stream.wire]
       /\ stream.open \in BOOLEAN /\ stream.focus \in BOOLEAN /\ stream.wire \in {stream.wire, <<>>}
  BY <1>1, <1>9
<1>11. WireInv'
  BY <1>1, <1>10, StreamGood, FALSE \in BOOLEAN, Zenon
<1> QED
  BY <1>1, <1>8, <1>11, Known, PageStep

LEMMA RefreshGood == ASSUME IInv, Refresh PROVE IInv'
<1>1. /\ page' = CatchUp(page, "panel", FALSE)
      /\ UNCHANGED <<server, unsent, notes, stream, reply>>
  BY DEF Refresh
<1>2. /\ server.rev \in Revisions /\ server.epoch \in Epochs /\ "panel" \in Loads
      /\ WellFormed(page, server.rev, server.epoch)
  BY Known DEF Loads
<1>3. PICK p, R, E : p = page /\ R = server.rev /\ E = server.epoch
  OBVIOUS
<1>4. WellFormed(p, R, E) /\ R \in Revisions /\ E \in Epochs
  BY <1>2, <1>3
<1>5. \A w \in Loads :
        /\ WellFormed(CatchUp(p, w, FALSE), R, E)
        /\ CatchUp(p, w, FALSE).blocks = p.blocks /\ CatchUp(p, w, FALSE).epoch = p.epoch
  BY <1>4, CatchesUp
<1>6. /\ WellFormed(page', server.rev, server.epoch)
      /\ page'.blocks = page.blocks /\ page'.epoch = page.epoch
  BY <1>1, <1>2, <1>3, <1>5
<1>7. From(page'.blocks, page'.epoch)
  BY <1>6, Known
<1> QED
  BY <1>1, <1>6, <1>7, PageStep

LEMMA AskGood == ASSUME IInv, NEW op \in {"reconcile", "goal"}, Ask(op) PROVE IInv'
<1>1. reply' = [op |-> op, rev |-> server.rev] /\ UNCHANGED <<server, unsent, notes, stream, page>>
  BY DEF Ask
<1>2. ReplyInv'
  BY <1>1, Known DEF ReplyInv
<1>3. ServerInv' /\ WireInv' /\ PageInv'
  BY <1>1, Frames DEF IInv
<1> QED
  BY <1>2, <1>3 DEF IInv

LEMMA AnsweredGood == ASSUME IInv, Answered PROVE IInv'
<1>1. /\ reply' = NoReply /\ UNCHANGED <<server, unsent, notes, stream>>
      /\ \/ page' = MarkApplied([page EXCEPT !.known = reply.rev], reply.rev)
         \/ page' = Reconciled(page, reply.rev)
  BY DEF Answered
<1>2. reply.rev \in Revisions /\ reply.rev <= server.rev
  BY DEF IInv, ReplyInv
<1>3. WellFormed(page', server.rev, server.epoch) /\ From(page'.blocks, page'.epoch)
  BY <1>1, <1>2, Known, ReconciledPage
<1>4. ReplyInv'
  BY <1>1, Known, Constants DEF ReplyInv, NoReply
<1> QED
  BY <1>1, <1>3, <1>4, PageStep

LEMMA ConnectionGood == ASSUME IInv, Disconnect \/ Reconnect PROVE IInv'
<1>1. UNCHANGED <<server, unsent, notes, page, reply>>
  BY DEF Disconnect, Reconnect
<1>2. /\ stream \in [open : BOOLEAN, focus : BOOLEAN, beat : BOOLEAN, wire : Seq(Frame)]
      /\ page.focused \in BOOLEAN
  BY Known DEF IInv, WireInv, Page
<1>3. CASE Disconnect
  <2>1. stream' = [open |-> FALSE, focus |-> FALSE, beat |-> FALSE, wire |-> <<>>]
    BY <1>3 DEF Disconnect
  <2>2. WireInv'
    BY <1>1, <2>1, StreamGood, FALSE \in BOOLEAN, Zenon
  <2> QED
    BY <1>1, <2>2, Frames DEF IInv
<1>4. CASE Reconnect
  <2>1. /\ stream' = [open |-> TRUE, focus |-> stream.focus, beat |-> page.focused,
                      wire |-> stream.wire]
        /\ stream.focus \in BOOLEAN /\ stream.wire \in {stream.wire, <<>>}
    BY <1>2, <1>4 DEF Reconnect
  <2>2. WireInv'
    BY <1>1, <1>2, <2>1, StreamGood, TRUE \in BOOLEAN, Zenon
  <2> QED
    BY <1>1, <2>2, Frames DEF IInv
<1> QED
  BY <1>3, <1>4

\* Every step keeps the invariant.
LEMMA NextGood == ASSUME IInv, [Next]_vars PROVE IInv'
<1>1. CASE UNCHANGED vars
  BY <1>1, Frames DEF IInv, vars
<1>2. ASSUME NEW i \in Items, Project(i) PROVE IInv'
  BY <1>2, ProjectGood
<1>3. CASE Broadcast \/ Touch
  BY <1>3, BroadcastGood, TouchGood
<1>4. ASSUME NEW gone \in Items, NEW sourced \in BOOLEAN, Rewrite(gone, sourced) PROVE IInv'
  BY <1>4, RewriteGood
<1>5. ASSUME NEW op \in {"session", "resync"}, Note(op) PROVE IInv'
  BY <1>5, NoteGood
<1>6. ASSUME NEW f \in notes, SendNote(f) PROVE IInv'
  BY <1>6, SendNoteGood
<1>7. ASSUME NEW who \in Loads, Serve(who) \/ Fail(who) PROVE IInv'
  BY <1>7, AnswerCatchUpGood, ReadRecordGood, ReadRowsGood, RespondGood, FailGood DEF Serve
<1>8. CASE Heartbeat \/ Deliver \/ Fire \/ Elapse \/ Age
  BY <1>8, HeartbeatGood, DeliverGood, TimersGood
<1>9. ASSUME NEW aborted \in BOOLEAN, Leave(aborted) PROVE IInv'
  BY <1>9, LeaveGood
<1>10. ASSUME NEW op \in {"reconcile", "goal"}, Ask(op) PROVE IInv'
  BY <1>10, AskGood
<1>11. CASE Focus \/ Refresh \/ Answered \/ Disconnect \/ Reconnect
  BY <1>11, FocusGood, RefreshGood, AnsweredGood, ConnectionGood
<1> QED
  BY <1>1, <1>2, <1>3, <1>4, <1>5, <1>6, <1>7, <1>8, <1>9, <1>10, <1>11, Zenon DEF Next

LEMMA Inductive == Spec => []IInv
BY InitGood, NextGood, PTL DEF Spec

-----------------------------------------------------------------------------
(* What it gives.                                                          *)

\* The types of the row, of the page and its loads; and the page's three clocks are in order, and
\* never ahead of the server: a revision is hydrated only if it is applied, and applied only if it
\* is observed.
THEOREM PageTypesCorrect == Spec => []TypeOK
<1>1. IInv => TypeOK
  <2> SUFFICES ASSUME IInv PROVE TypeOK
    OBVIOUS
  <2>1. \A who \in Loads : page[who] \in Load
    BY Known, LoadOf
  <2>2. /\ server.rows \in Rows /\ server.rev \in Revisions /\ page.blocks \in Rows
        /\ page.pending \in Pending /\ page.attempt \in Attempt
    BY Known DEF Page
  <2>3. Len(stream.wire) <= MaxWire
    BY DEF IInv, WireInv
  <2>4. page.hydrated <= page.applied /\ page.applied <= page.observed /\ page.observed <= server.rev
    BY Known DEF WellFormed
  <2> QED
    BY <2>1, <2>2, <2>3, <2>4 DEF TypeOK, Pending, Attempt
<1> QED
  BY <1>1, Inductive, PTL

\* No item of an earlier history stays on the page, or comes back to it, once the page takes itself
\* to be in a later epoch: whatever loads and frames cross each other, are lost or fail.
THEOREM NoGhostsCorrect == Spec => []NoGhosts
<1>1. IInv => NoGhosts
  BY DEF IInv, PageInv, From, NoGhosts
<1> QED
  BY <1>1, Inductive, PTL

-----------------------------------------------------------------------------
(* The cursor.                                                             *)

\* c is what the row of i holds, or older.
Behind(c, i) == c = server.rows[i] \/ c.seq < server.rows[i].seq

\* An answer that is under way, and one whose record was read before its items.
Underway(l) == l.pc \in {"read", "answered"}
Read(l) == Underway(l) /\ l.kind = "snapshot"

\* An item on its way is in the row, or older than what is.
RowsNumbered ==
  /\ server.epoch >= 1
  /\ \A i \in Items : server.rows[i].seq <= server.seq
  /\ unsent.content # Absent => unsent.content = server.rows[unsent.item]
FrameBehind(f) ==
  f.op = "item" => /\ f.content.seq <= server.seq /\ f.epoch <= server.epoch
                   /\ f.epoch = server.epoch => Behind(f.content, f.item)
WireBehind ==
  /\ \A f \in notes : f.op # "item"
  /\ \A k \in 1..Len(stream.wire) : FrameBehind(stream.wire[k])

\* So is what the page shows.
PageBehind(p) ==
  /\ p.cursor <= server.seq /\ p.epoch <= server.epoch
  /\ p.epoch = server.epoch => \A i \in Items : Behind(p.blocks[i], i)

\* A load starts behind a cursor that the page had, and its answer counts events that there are.
Numbered(l, cursor) ==
  /\ l.after <= cursor /\ l.target <= server.seq
  /\ l.ans.cursor <= server.seq /\ l.ans.target <= server.seq

\* Whoever read a record has its number of events, and no smaller one than an earlier revision had.
Since(l, rev, seq) == Read(l) /\ l.ans.rev >= rev => l.ans.cursor >= seq
Now(l) == Read(l) /\ l.ans.rev = server.rev => l.ans.cursor = server.seq
AfterFrames(l) ==
  \A k \in 1..Len(stream.wire) :
    stream.wire[k].op = "item" => Since(l, stream.wire[k].rev, stream.wire[k].content.seq)

\* What an answer of the current epoch has, and what it leaves to later events.
Covers(l) ==
  l.pc = "answered" /\ l.ans.epoch = server.epoch =>
    IF l.kind = "snapshot"
      THEN \A i \in Items : \/ l.ans.rows[i] = server.rows[i]
                            \/ /\ l.ans.rows[i].seq < server.rows[i].seq
                               /\ l.ans.cursor < server.rows[i].seq
      ELSE l.epoch = server.epoch =>
             \A i \in Items :
               /\ l.ans.rows[i] # Absent => Behind(l.ans.rows[i], i)
               /\ l.after < server.rows[i].seq /\ server.rows[i].seq <= l.ans.cursor
                    => l.ans.rows[i] = server.rows[i]

LoadCurrent(l, p) ==
  /\ Numbered(l, p.cursor) /\ Now(l) /\ Since(l, p.observed, p.cursor) /\ AfterFrames(l)
  /\ Covers(l)
Ordered(l, m) == Underway(m) => Since(l, m.ans.rev, m.ans.cursor)

LoadsCurrent(p) ==
  /\ LoadCurrent(p.sync, p) /\ LoadCurrent(p.panel, p)
  /\ Ordered(p.sync, p.panel) /\ Ordered(p.panel, p.sync)

PageCurrent(p) == PageBehind(p) /\ LoadsCurrent(p)

CInv == RowsNumbered /\ WireBehind /\ PageCurrent(page)

\* A load that is not asked or has no answer yet.
Unanswered(l, cursor) ==
  ~Underway(l) /\ l.after <= cursor /\ l.target <= server.seq /\ l.ans = NoAnswer

\* q is p after helpers that show nothing: the loads it has are those of p, or new ones.
Follows(p, q) ==
  /\ q.blocks = p.blocks /\ q.epoch = p.epoch /\ q.cursor = p.cursor /\ p.observed <= q.observed
  /\ \A who \in Loads : q[who] \in {p.sync, p.panel} \/ Unanswered(q[who], p.cursor)

\* The order of a page and what follows it.
LEMMA FollowsAgain ==
  ASSUME NEW R, NEW E, NEW p, WellFormed(p, R, E), NEW q, WellFormed(q, R, E),
         NEW s, WellFormed(s, R, E), Follows(p, q), Follows(q, s)
  PROVE  Follows(p, s)
<1>1. /\ p.observed \in Nat /\ q.observed \in Nat /\ s.observed \in Nat
      /\ p.observed <= q.observed /\ q.observed <= s.observed
  BY Constants DEF WellFormed, Page, Follows
<1>2. p.observed <= s.observed
  BY <1>1
<1>3. "sync" \in Loads /\ "panel" \in Loads
  BY DEF Loads
<1> QED
  BY <1>2, <1>3 DEF Follows

LEMMA FollowsItself ==
  ASSUME NEW R, NEW E, NEW p, WellFormed(p, R, E)
  PROVE  Follows(p, p)
BY Constants DEF Follows, WellFormed, Page, Loads

\* What has the same loads, items, epoch and cursor, and has observed no less, follows.
LEMMA FollowsSame ==
  ASSUME NEW p, NEW q, q.blocks = p.blocks, q.epoch = p.epoch, q.cursor = p.cursor,
         p.observed <= q.observed, q.sync = p.sync, q.panel = p.panel
  PROVE  Follows(p, q)
BY DEF Follows, Loads

\* No load is unanswered.
LEMMA NoLoadUnanswered ==
  ASSUME ServerInv, NEW c \in Events
  PROVE  Unanswered(NoLoad, c)
<1>1. NoLoad.pc = "idle" /\ NoLoad.after = 0 /\ NoLoad.target = 0 /\ NoLoad.ans = NoAnswer
  BY DEF NoLoad
<1>2. server.seq \in Nat /\ c \in Nat
  BY Constants DEF ServerInv
<1> QED
  BY <1>1, <1>2 DEF Unanswered, Underway

\* A new load takes the place of one.
LEMMA FollowsLoad ==
  ASSUME NEW R, NEW E, NEW p, WellFormed(p, R, E), NEW who \in Loads, NEW l,
         l \in {p.sync, p.panel} \/ Unanswered(l, p.cursor), NEW q, q = [p EXCEPT ![who] = l]
  PROVE  Follows(p, q)
<1>1. p \in Page /\ p.observed <= p.observed
  <2>1. p \in Page
    BY DEF WellFormed
  <2>2. p.observed \in Nat
    BY <2>1, Constants DEF Page
  <2> QED
    BY <2>1, <2>2
<1>2. /\ q.blocks = p.blocks /\ q.epoch = p.epoch /\ q.cursor = p.cursor
      /\ q.observed = p.observed
  BY <1>1 DEF Page, Loads
<1>3. q[who] = l /\ \A w \in Loads : w # who => q[w] = p[w]
  BY <1>1 DEF Page, Loads
<1>4. \A w \in Loads : p[w] \in {p.sync, p.panel}
  BY DEF Loads
<1> QED
  BY <1>1, <1>2, <1>3, <1>4 DEF Follows

LEMMA ObserveFollows ==
  ASSUME NEW R \in Revisions, NEW E \in Epochs, NEW p, WellFormed(p, R, E), NEW r \in Revisions
  PROVE  Follows(p, Observe(p, r)) /\ Observe(p, r).observed >= r
<1>1. PICK o : o = Larger(p.observed, r)
  OBVIOUS
<1>2. p \in Page /\ p.observed \in Nat /\ r \in Nat
  BY Constants DEF WellFormed, Page
<1>3. o >= p.observed /\ o >= r /\ o \in Nat
  BY <1>1, <1>2, LargerIs DEF Larger
<1>4. PICK q : q = [p EXCEPT !.observed = o]
  OBVIOUS
<1>5. /\ q.blocks = p.blocks /\ q.epoch = p.epoch /\ q.cursor = p.cursor
      /\ q.sync = p.sync /\ q.panel = p.panel /\ q.observed = o
  BY <1>2, <1>4 DEF Page
<1>6. p.observed <= q.observed /\ q.observed >= r
  BY <1>2, <1>3, <1>5
<1>7. Follows(p, q)
  BY <1>5, <1>6, FollowsSame
<1>8. Observe(p, r) = q
  BY <1>1, <1>4 DEF Observe
<1> QED
  BY <1>6, <1>7, <1>8

LEMMA AppliedFollows ==
  ASSUME NEW R \in Revisions, NEW E \in Epochs, NEW p, WellFormed(p, R, E),
         NEW r \in Revisions, r <= R
  PROVE  Follows(p, MarkApplied(p, r)) /\ MarkApplied(p, r).observed >= r
<1>1. PICK q : q = Observe(p, r)
  OBVIOUS
<1>2. WellFormed(q, R, E) /\ Follows(p, q) /\ q.observed >= r
  BY <1>1, Observed, ObserveFollows
<1>3. PICK s : s = MarkApplied(p, r)
  OBVIOUS
<1>4. q \in Page
  BY <1>2 DEF WellFormed
<1>5. s = [q EXCEPT !.applied = Larger(q.applied, r)]
  BY <1>1, <1>3 DEF MarkApplied
<1>6. /\ s.blocks = q.blocks /\ s.epoch = q.epoch /\ s.cursor = q.cursor
      /\ s.sync = q.sync /\ s.panel = q.panel /\ s.observed = q.observed
  BY <1>4, <1>5 DEF Page
<1>7. Follows(p, s)
  BY <1>2, <1>6 DEF Follows, Loads
<1> QED
  BY <1>2, <1>3, <1>6, <1>7

\* What differs in the request, the attempts, the timer and the like alone follows.
LEMMA FollowsApart ==
  ASSUME NEW R, NEW E, NEW p, WellFormed(p, R, E), NEW q, NEW x, NEW y,
         \/ q = [p EXCEPT !.hydrated = x]
         \/ q = [p EXCEPT !.pending = x]
         \/ q = [p EXCEPT !.pending = x, !.timer = y]
         \/ q = [p EXCEPT !.attempt = x]
         \/ q = [p EXCEPT !.attempt = x, !.timer = y]
         \/ q = [p EXCEPT !.timer = y, !.attempt = x]
         \/ q = [p EXCEPT !.timer = y]
         \/ q = [p EXCEPT !.known = x]
         \/ q = [p EXCEPT !.focused = y]
  PROVE  Follows(p, q) /\ q.observed = p.observed
<1>1. p \in Page /\ p.observed <= p.observed
  BY Constants DEF WellFormed, Page
<1>2. /\ q.blocks = p.blocks /\ q.epoch = p.epoch /\ q.cursor = p.cursor
      /\ q.sync = p.sync /\ q.panel = p.panel /\ q.observed = p.observed
  BY <1>1 DEF Page
<1> QED
  BY <1>1, <1>2, FollowsSame

LEMMA SettledFollows ==
  ASSUME NEW R, NEW E, NEW p, WellFormed(p, R, E)
  PROVE  Follows(p, Settled(p))
<1>1. PICK q : q = Settled(p)
  OBVIOUS
<1>2. q = [p EXCEPT !.pending = NoPending, !.timer = FALSE]
  BY <1>1 DEF Settled
<1>3. Follows(p, q)
  BY <1>2, FollowsApart
<1> QED
  BY <1>1, <1>3

LEMMA HydratedFollows ==
  ASSUME NEW R \in Revisions, NEW E \in Epochs, NEW p, WellFormed(p, R, E),
         NEW r \in Revisions, r <= R
  PROVE  Follows(p, MarkHydrated(p, r)) /\ MarkHydrated(p, r).observed >= r
<1>1. PICK m : m = MarkApplied(p, r)
  OBVIOUS
<1>2. WellFormed(m, R, E) /\ Follows(p, m) /\ m.observed >= r
  BY <1>1, Applied, AppliedFollows
<1>3. PICK q : q = [m EXCEPT !.hydrated = Larger(m.hydrated, r)]
  OBVIOUS
<1>4. PICK d : d = Settled(q)
  OBVIOUS
<1>5. PICK s : s = IF q.pending.rev <= r THEN d ELSE q
  OBVIOUS
<1>6. PICK u : u = [s EXCEPT !.attempt = NoAttempt, !.timer = FALSE]
  OBVIOUS
<1>7. MarkHydrated(p, r) \in {s, u}
  BY <1>1, <1>3, <1>4, <1>5, <1>6 DEF MarkHydrated
<1>8. m \in Page
  BY <1>2 DEF WellFormed
<1> DEFINE Same(x) == /\ x.blocks = m.blocks /\ x.epoch = m.epoch /\ x.cursor = m.cursor
                      /\ x.sync = m.sync /\ x.panel = m.panel /\ x.observed = m.observed
<1>9. Same(q) /\ Same(d)
  BY <1>3, <1>4, <1>8 DEF Page, Settled
<1>10. Same(s)
  BY <1>5, <1>9
<1>11. Same(u)
  <2>1. \/ u = [q EXCEPT !.attempt = NoAttempt, !.timer = FALSE]
        \/ u = [d EXCEPT !.attempt = NoAttempt, !.timer = FALSE]
    BY <1>5, <1>6
  <2> QED
    BY <1>3, <1>4, <1>8, <2>1 DEF Page, Settled
<1>12. ASSUME NEW x, Same(x) PROVE Follows(p, x) /\ x.observed >= r
  BY <1>2, <1>12 DEF Follows, Loads
<1> HIDE DEF Same
<1> QED
  BY <1>7, <1>10, <1>11, <1>12

LEMMA ScheduledFollows ==
  ASSUME NEW R, NEW E, NEW p, WellFormed(p, R, E)
  PROVE  Follows(p, Schedule(p))
<1>1. PICK a : a = IF p.attempt.aged THEN NoAttempt ELSE p.attempt
  OBVIOUS
<1>2. PICK q : q = [p EXCEPT !.timer = TRUE, !.attempt = a]
  OBVIOUS
<1>3. Schedule(p) \in {p, q}
  BY <1>1, <1>2 DEF Schedule
<1>4. Follows(p, p)
  BY FollowsItself
<1>5. Follows(p, q)
  <2>1. p \in Page /\ p.observed <= p.observed
    <3>1. p \in Page
      BY DEF WellFormed
    <3>2. p.observed \in Nat
      BY <3>1, Constants DEF Page
    <3> QED
      BY <3>1, <3>2
  <2>2. /\ q.blocks = p.blocks /\ q.epoch = p.epoch /\ q.cursor = p.cursor
        /\ q.sync = p.sync /\ q.panel = p.panel /\ q.observed = p.observed
    BY <1>2, <2>1 DEF Page
  <2> QED
    BY <2>1, <2>2, FollowsSame
<1> QED
  BY <1>3, <1>4, <1>5

LEMMA SnapshotFollows ==
  ASSUME ServerInv, NEW R, NEW E, NEW p, WellFormed(p, R, E), NEW who \in Loads, NEW min
  PROVE  Follows(p, Snapshot(p, who, min))
<1>1. PICK mine : mine = [NoLoad EXCEPT !.pc = "asked", !.kind = "snapshot", !.min = min]
  OBVIOUS
<1>2. PICK other : other = p[Other(who)]
  OBVIOUS
<1>3. PICK q, s : q = [p EXCEPT ![who] = mine] /\ s = [p EXCEPT ![who] = other]
  OBVIOUS
<1>4. Snapshot(p, who, min) \in {q, s}
  BY <1>1, <1>2, <1>3 DEF Snapshot
<1>5. Unanswered(mine, p.cursor)
  <2>1. /\ mine.pc = "asked" /\ mine.after = 0 /\ mine.target = 0 /\ mine.ans = NoAnswer
    BY <1>1 DEF NoLoad
  <2>2. server.seq \in Nat /\ p.cursor \in Nat
    BY Constants DEF ServerInv, WellFormed, Page
  <2> QED
    BY <2>1, <2>2 DEF Unanswered, Underway
<1>6. other \in {p.sync, p.panel}
  BY <1>2 DEF Other
<1>7. Follows(p, q)
  <2>1. q = [p EXCEPT ![who] = mine]
    BY <1>3
  <2> QED
    BY <1>5, <2>1, FollowsLoad
<1>8. Follows(p, s)
  <2>1. s = [p EXCEPT ![who] = other]
    BY <1>3
  <2> QED
    BY <1>6, <2>1, FollowsLoad
<1> QED
  BY <1>4, <1>7, <1>8

LEMMA CatchUpFollows ==
  ASSUME ServerInv, NEW R, NEW E, NEW p, WellFormed(p, R, E), NEW who \in Loads
  PROVE  Follows(p, CatchUp(p, who, FALSE))
<1>1. PICK mine : mine = [NoLoad EXCEPT !.pc = "asked", !.epoch = p.epoch, !.after = p.cursor,
                                        !.trailing = FALSE]
  OBVIOUS
<1>2. PICK q, s : q = [p EXCEPT ![who] = mine] /\ s = Snapshot(p, who, p.observed)
  OBVIOUS
<1>3. CatchUp(p, who, FALSE) = q \/ CatchUp(p, who, FALSE) = s
  BY <1>1, <1>2 DEF CatchUp
<1>4. Unanswered(mine, p.cursor)
  <2>1. /\ mine.pc = "asked" /\ mine.after = p.cursor /\ mine.target = 0 /\ mine.ans = NoAnswer
    BY <1>1 DEF NoLoad
  <2>2. server.seq \in Nat /\ p.cursor \in Nat
    BY Constants DEF ServerInv, WellFormed, Page
  <2> QED
    BY <2>1, <2>2 DEF Unanswered, Underway
<1>5. Follows(p, q)
  <2>1. q = [p EXCEPT ![who] = mine]
    BY <1>2
  <2> QED
    BY <1>4, <2>1, FollowsLoad
<1>6. Follows(p, s)
  BY <1>2, SnapshotFollows
<1> QED
  BY <1>3, <1>5, <1>6

LEMMA CatchUpAgainFollows ==
  ASSUME ServerInv, NEW R, NEW E, NEW p, WellFormed(p, R, E), NEW who \in Loads
  PROVE  Follows(p, CatchUp(p, who, TRUE))
<1>1. PICK mine : mine = [NoLoad EXCEPT !.pc = "asked", !.epoch = p.epoch, !.after = p.cursor,
                                        !.trailing = TRUE]
  OBVIOUS
<1>2. PICK q, s : q = [p EXCEPT ![who] = mine] /\ s = Snapshot(p, who, p.observed)
  OBVIOUS
<1>3. CatchUp(p, who, TRUE) = q \/ CatchUp(p, who, TRUE) = s
  BY <1>1, <1>2 DEF CatchUp
<1>4. Unanswered(mine, p.cursor)
  <2>1. /\ mine.pc = "asked" /\ mine.after = p.cursor /\ mine.target = 0 /\ mine.ans = NoAnswer
    BY <1>1 DEF NoLoad
  <2>2. server.seq \in Nat /\ p.cursor \in Nat
    BY Constants DEF ServerInv, WellFormed, Page
  <2> QED
    BY <2>1, <2>2 DEF Unanswered, Underway
<1>5. Follows(p, q)
  <2>1. q = [p EXCEPT ![who] = mine]
    BY <1>2
  <2> QED
    BY <1>4, <2>1, FollowsLoad
<1>6. Follows(p, s)
  BY <1>2, SnapshotFollows
<1> QED
  BY <1>3, <1>5, <1>6


LEMMA StartFollows ==
  ASSUME ServerInv, NEW R \in Revisions, NEW E \in Epochs, NEW p, WellFormed(p, R, E)
  PROVE  Follows(p, Start(p))
<1>1. CASE Exhausted(p)
  BY <1>1, FollowsItself DEF Start
<1>2. CASE ~Exhausted(p)
  <2>1. p \in Page /\ p.pending.rev \in Revisions
    BY DEF WellFormed, Page, Pending
  <2>2. PICK a : a = Attempted(p.attempt, p.pending.rev)
    OBVIOUS
  <2>3. PICK q : q = [p EXCEPT !.timer = FALSE, !.attempt = a]
    OBVIOUS
  <2>4. PICK s : s = Snapshot(q, "sync", p.pending.rev)
    OBVIOUS
  <2>5. PICK c : c = CatchUp(q, "sync", FALSE)
    OBVIOUS
  <2>6. Start(p) \in {p, s, c}
    BY <2>2, <2>3, <2>4, <2>5 DEF Start
  <2>7. "sync" \in Loads
    BY DEF Loads
  <2>8. a \in Attempt
    BY <1>2, <2>1, <2>2, Counted
  <2>9. WellFormed(q, R, E)
    BY <2>3, <2>8, FreshAttempt
  <2>10. Follows(p, q)
    BY <2>3, FollowsApart
  <2>11. WellFormed(s, R, E) /\ Follows(q, s)
    BY <2>1, <2>4, <2>7, <2>9, Snapshots, SnapshotFollows
  <2>12. WellFormed(c, R, E) /\ Follows(q, c)
    BY <2>5, <2>7, <2>9, CatchesUp, CatchUpFollows
  <2>13. Follows(p, p) /\ Follows(p, s) /\ Follows(p, c)
    BY <2>9, <2>10, <2>11, <2>12, FollowsAgain, FollowsItself
  <2> QED
    BY <2>6, <2>13
<1> QED
  BY <1>1, <1>2

\* Nothing is pending, nothing is attempted, and the sync has no load.
LEMMA NothingFollows ==
  ASSUME ServerInv, NEW R \in Revisions, NEW E \in Epochs, NEW p, WellFormed(p, R, E)
  PROVE  /\ Follows(p, [Settled(p) EXCEPT !.attempt = NoAttempt, !.sync = NoLoad])
         /\ WellFormed([Settled(p) EXCEPT !.attempt = NoAttempt, !.sync = NoLoad], R, E)
<1>1. PICK d : d = Settled(p)
  OBVIOUS
<1>2. PICK a : a = [d EXCEPT !.attempt = NoAttempt]
  OBVIOUS
<1>3. PICK c : c = [a EXCEPT !["sync"] = NoLoad]
  OBVIOUS
<1>4. WellFormed(d, R, E) /\ Follows(p, d)
  BY <1>1, SettledPage, SettledFollows
<1>5. NoAttempt \in Attempt /\ GoodLoad(NoLoad, R, E) /\ "sync" \in Loads
  BY Nothing DEF Loads
<1>6. WellFormed(a, R, E) /\ Follows(d, a)
  <2>1. WellFormed(a, R, E)
    BY <1>2, <1>4, <1>5, FreshAttempt
  <2>2. Follows(d, a)
    BY <1>2, <1>4, FollowsApart
  <2> QED
    BY <2>1, <2>2
<1>7. WellFormed(c, R, E)
  BY <1>3, <1>5, <1>6, SetLoad
<1>8. Follows(a, c)
  <2>1. a.cursor \in Events
    BY <1>6 DEF WellFormed, Page
  <2>2. Unanswered(NoLoad, a.cursor)
    BY <2>1, NoLoadUnanswered
  <2> QED
    BY <1>3, <1>5, <1>6, <2>2, FollowsLoad
<1>9. Follows(p, c)
  BY <1>4, <1>6, <1>7, <1>8, FollowsAgain
<1>10. c = [Settled(p) EXCEPT !.attempt = NoAttempt, !.sync = NoLoad]
  BY <1>1, <1>2, <1>3
<1> QED
  BY <1>7, <1>9, <1>10

LEMMA RequestFollows ==
  ASSUME ServerInv, NEW R \in Revisions, NEW E \in Epochs, NEW p, WellFormed(p, R, E),
         NEW r \in Revisions, r <= R, NEW mode \in Modes
  PROVE  Follows(p, Request(p, r, mode))
<1>1. PICK q : q = Observe(p, r)
  OBVIOUS
<1>2. PICK m : m = IF "snapshot" \in {mode, q.pending.mode} THEN "snapshot" ELSE "catchUp"
  OBVIOUS
<1>3. PICK x : x = [rev |-> q.observed, mode |-> m]
  OBVIOUS
<1>4. PICK w : w = [q EXCEPT !.pending = x]
  OBVIOUS
<1>5. PICK c : c = [Settled(q) EXCEPT !.attempt = NoAttempt, !.sync = NoLoad]
  OBVIOUS
<1>6. Request(p, r, mode) \in {c, w, Schedule(w), Start(w)}
  BY <1>1, <1>2, <1>3, <1>4, <1>5 DEF Request
<1>7. WellFormed(q, R, E) /\ Follows(p, q)
  BY <1>1, Observed, ObserveFollows
<1>8. WellFormed(c, R, E) /\ Follows(q, c)
  BY <1>5, <1>7, NothingFollows
<1>9. WellFormed(w, R, E)
  <2>1. q \in Page /\ q.observed \in Revisions /\ m \in Modes
    BY <1>2, <1>7 DEF WellFormed, Page, Modes
  <2>2. x \in Pending
    BY <1>3, <2>1 DEF Pending
  <2>3. w \in Page
    BY <1>4, <2>1, <2>2 DEF Page
  <2>4. /\ w.hydrated = q.hydrated /\ w.applied = q.applied /\ w.observed = q.observed
        /\ w.sync = q.sync /\ w.panel = q.panel
    BY <1>4, <2>1 DEF Page
  <2> QED
    BY <1>7, <2>3, <2>4 DEF WellFormed
<1>10. Follows(q, w)
  BY <1>4, <1>7, FollowsApart
<1>11. PICK s : s = Schedule(w)
  OBVIOUS
<1>12. PICK u : u = Start(w)
  OBVIOUS
<1>13. WellFormed(s, R, E) /\ Follows(w, s)
  BY <1>9, <1>11, Scheduled, ScheduledFollows
<1>14. WellFormed(u, R, E) /\ Follows(w, u)
  BY <1>9, <1>12, Started, StartFollows
<1>15. Follows(p, w)
  BY <1>7, <1>9, <1>10, FollowsAgain
<1>16. Follows(p, c) /\ Follows(p, s) /\ Follows(p, u)
  BY <1>7, <1>8, <1>9, <1>13, <1>14, <1>15, FollowsAgain
<1> QED
  BY <1>6, <1>11, <1>12, <1>15, <1>16

LEMMA CancelledFollows ==
  ASSUME ServerInv, NEW R \in Revisions, NEW E \in Epochs, NEW p, WellFormed(p, R, E)
  PROVE  Follows(p, Cancelled(p))
BY NothingFollows DEF Cancelled

\* A load is over, the other one goes on.
LEMMA EndedFollows ==
  ASSUME ServerInv, NEW R \in Revisions, NEW E \in Epochs, NEW p, WellFormed(p, R, E),
         NEW who \in Loads
  PROVE  Follows(p, Over(p, who)) /\ Follows(p, Ended(p, who))
<1>1. PICK q : q = Over(p, who)
  OBVIOUS
<1>2. PICK d : d = Settled(q)
  OBVIOUS
<1>3. PICK a : a = [d EXCEPT !.attempt = NoAttempt]
  OBVIOUS
<1>4. PICK s : s = Schedule(q)
  OBVIOUS
<1>5. Ended(p, who) \in {q, a, s}
  BY <1>1, <1>2, <1>3, <1>4 DEF Ended
<1>6. WellFormed(q, R, E)
  BY <1>1, OverPage
<1>7. Follows(p, q)
  <2>1. q = [p EXCEPT ![who] = NoLoad]
    BY <1>1 DEF Over
  <2>2. p.cursor \in Events
    BY DEF WellFormed, Page
  <2>3. Unanswered(NoLoad, p.cursor)
    BY <2>2, NoLoadUnanswered
  <2> QED
    BY <2>1, <2>3, FollowsLoad
<1>8. WellFormed(d, R, E) /\ Follows(q, d)
  BY <1>2, <1>6, SettledPage, SettledFollows
<1>9. WellFormed(a, R, E)
  <2>1. NoAttempt \in Attempt
    BY Nothing
  <2> QED
    BY <1>3, <1>8, <2>1, FreshAttempt
<1>10. Follows(d, a)
  BY <1>3, <1>8, FollowsApart
<1>11. WellFormed(s, R, E) /\ Follows(q, s)
  BY <1>4, <1>6, Scheduled, ScheduledFollows
<1>12. Follows(p, d)
  BY <1>6, <1>7, <1>8, FollowsAgain
<1>13. Follows(p, a) /\ Follows(p, s)
  BY <1>6, <1>7, <1>8, <1>9, <1>10, <1>11, <1>12, FollowsAgain
<1> QED
  BY <1>1, <1>5, <1>7, <1>13

-----------------------------------------------------------------------------
(* The page keeps up with the row.                                         *)

\* What Recoverable says, of the page p.
CanCatchUp(p) ==
  p.epoch = server.epoch =>
    \A i \in Items : server.rows[i] # p.blocks[i] => server.rows[i].seq > p.cursor

\* The numbers of a load.
LEMMA LoadNumbers ==
  ASSUME NEW l \in Load
  PROVE  /\ l.ans.rev \in Nat /\ l.ans.cursor \in Nat /\ l.ans.epoch \in Nat /\ l.ans.target \in Nat
         /\ l.after \in Nat /\ l.target \in Nat /\ l.epoch \in Nat
         /\ l.ans \in Answer /\ l.ans.rows \in Rows
<1>1. l.ans \in Answer
  BY DEF Load
<1> QED
  BY <1>1, Constants DEF Load, Answer, Epochs, Events

\* Those of the page and of the row.
LEMMA PageNumbers ==
  ASSUME NEW R, NEW E, NEW p, WellFormed(p, R, E)
  PROVE  /\ p \in Page /\ p.observed \in Nat /\ p.cursor \in Nat /\ p.epoch \in Nat
         /\ p.cursor \in Events /\ p.blocks \in Rows /\ p.sync \in Load /\ p.panel \in Load
         /\ \A i \in Items : p.blocks[i].seq \in Nat
<1>1. p \in Page
  BY DEF WellFormed
<1>2. /\ p.cursor \in Events /\ p.blocks \in Rows /\ p.sync \in Load /\ p.panel \in Load
      /\ p.observed \in Revisions /\ p.epoch \in Epochs
  BY <1>1 DEF Page
<1>3. \A i \in Items : p.blocks[i].seq \in Nat
  BY <1>2, Constants DEF Rows, Content, Events
<1> QED
  BY <1>1, <1>2, <1>3, Constants

LEMMA RowNumbers ==
  ASSUME ServerInv
  PROVE  /\ server.rev \in Nat /\ server.epoch \in Nat /\ server.seq \in Nat
         /\ server.rev \in Revisions /\ server.epoch \in Epochs /\ server.rows \in Rows
         /\ \A i \in Items : server.rows[i].seq \in Nat /\ server.rows[i] \in Content
<1>1. /\ server.rev \in Revisions /\ server.epoch \in Epochs /\ server.rows \in Rows
      /\ server.seq \in Events
  BY DEF ServerInv
<1>2. \A i \in Items : server.rows[i].seq \in Nat /\ server.rows[i] \in Content
  BY <1>1, Constants DEF Rows, Content, Events
<1> QED
  BY <1>1, <1>2, Constants

\* A load without answer is current on every page that has not a smaller cursor.
LEMMA UnansweredCurrent ==
  ASSUME ServerInv, NEW c \in Nat, NEW l \in Load, Unanswered(l, c), NEW p, p.cursor \in Nat,
         c <= p.cursor
  PROVE  LoadCurrent(l, p)
<1>1. l.after <= p.cursor /\ l.target <= server.seq
  <2>1. l.after \in Nat /\ l.after <= c /\ l.target <= server.seq
    BY LoadNumbers DEF Unanswered
  <2> QED
    BY <2>1
<1>2. l.ans.cursor <= server.seq /\ l.ans.target <= server.seq
  <2>1. l.ans.cursor = 0 /\ l.ans.target = 0
    BY DEF Unanswered, NoAnswer
  <2> QED
    BY <2>1, RowNumbers
<1>3. Numbered(l, p.cursor)
  BY <1>1, <1>2 DEF Numbered
<1>4. ~Read(l) /\ l.pc # "answered"
  BY DEF Unanswered, Underway, Read
<1>5. Now(l) /\ Since(l, p.observed, p.cursor) /\ AfterFrames(l)
  BY <1>4 DEF Now, Since, AfterFrames
<1>6. Covers(l)
  BY <1>4 DEF Covers
<1> QED
  BY <1>3, <1>5, <1>6 DEF LoadCurrent

\* A load that stays is current where the cursor and the revision that is observed advance, if
\* what it read has that cursor too.
LEMMA StaysCurrent ==
  ASSUME ServerInv, NEW R, NEW E, NEW p, WellFormed(p, R, E), NEW q, WellFormed(q, R, E),
         NEW l \in Load, LoadCurrent(l, p), p.cursor <= q.cursor, Since(l, q.observed, q.cursor)
  PROVE  LoadCurrent(l, q)
<1>1. l.after <= q.cursor
  <2>1. l.after \in Nat /\ p.cursor \in Nat /\ q.cursor \in Nat /\ l.after <= p.cursor
    BY LoadNumbers, PageNumbers DEF LoadCurrent, Numbered
  <2> QED
    BY <2>1
<1> QED
  BY <1>1 DEF LoadCurrent, Numbered

LEMMA SinceLater ==
  ASSUME NEW l \in Load, NEW r \in Nat, NEW s \in Nat, NEW c, r <= s, Since(l, r, c)
  PROVE  Since(l, s, c)
<1>1. l.ans.rev \in Nat
  BY LoadNumbers
<1>2. l.ans.rev >= s => l.ans.rev >= r
  BY <1>1
<1> QED
  BY <1>2 DEF Since

\* What two loads of the page read is in the order of the revisions.
LEMMA LoadsOrdered ==
  ASSUME NEW R, NEW E, NEW p, WellFormed(p, R, E), LoadsCurrent(p),
         NEW l \in {p.sync, p.panel}, NEW m \in {p.sync, p.panel}
  PROVE  Ordered(l, m)
<1>1. l \in Load /\ m \in Load
  BY PageNumbers
<1>2. CASE l = m
  <2>1. l.ans.cursor \in Nat
    BY <1>1, LoadNumbers
  <2> QED
    BY <1>2, <2>1 DEF Ordered, Since
<1>3. CASE l # m
  BY <1>3 DEF LoadsCurrent
<1> QED
  BY <1>2, <1>3

\* A page that follows a current one is current, and can catch up as that one can.
LEMMA FollowsCurrent ==
  ASSUME ServerInv, NEW R, NEW E, NEW p, WellFormed(p, R, E), PageCurrent(p),
         NEW q, WellFormed(q, R, E), Follows(p, q)
  PROVE  PageCurrent(q) /\ (CanCatchUp(p) => CanCatchUp(q))
<1>1. /\ q.blocks = p.blocks /\ q.epoch = p.epoch /\ q.cursor = p.cursor
      /\ p.observed <= q.observed
  BY DEF Follows
<1>2. PageBehind(p) /\ LoadsCurrent(p)
  BY DEF PageCurrent
<1>3. PageBehind(q)
  BY <1>1, <1>2 DEF PageBehind
<1>4. CanCatchUp(p) => CanCatchUp(q)
  BY <1>1 DEF CanCatchUp
<1>5. /\ p.cursor \in Nat /\ p.observed \in Nat /\ q.cursor \in Nat /\ q.observed \in Nat
      /\ p.sync \in Load /\ p.panel \in Load /\ q.sync \in Load /\ q.panel \in Load
  BY PageNumbers
<1>6. ASSUME NEW l \in {p.sync, p.panel} PROVE LoadCurrent(l, q)
  <2>1. LoadCurrent(l, p) /\ l \in Load
    BY <1>2, <1>5 DEF LoadsCurrent
  <2>2. Since(l, p.observed, q.cursor)
    BY <1>1, <2>1 DEF LoadCurrent
  <2>3. Since(l, q.observed, q.cursor)
    BY <1>1, <1>5, <2>1, <2>2, SinceLater
  <2>4. p.cursor <= q.cursor
    BY <1>1, <1>5
  <2> QED
    BY <2>1, <2>3, <2>4, StaysCurrent
<1>7. /\ q.sync \in {p.sync, p.panel} \/ Unanswered(q.sync, p.cursor)
      /\ q.panel \in {p.sync, p.panel} \/ Unanswered(q.panel, p.cursor)
  BY DEF Follows, Loads
<1>8. ASSUME NEW l \in Load, Unanswered(l, p.cursor) PROVE LoadCurrent(l, q)
  <2>1. p.cursor <= q.cursor
    BY <1>1, <1>5
  <2> QED
    BY <1>5, <1>8, <2>1, UnansweredCurrent
<1>9. LoadCurrent(q.sync, q) /\ LoadCurrent(q.panel, q)
  BY <1>5, <1>6, <1>7, <1>8
<1>10. ASSUME NEW l, NEW m,
              l \in {p.sync, p.panel} \/ Unanswered(l, p.cursor),
              m \in {p.sync, p.panel} \/ Unanswered(m, p.cursor)
       PROVE  Ordered(l, m)
  <2>1. CASE Unanswered(l, p.cursor) \/ Unanswered(m, p.cursor)
    BY <2>1 DEF Unanswered, Underway, Read, Ordered, Since
  <2>2. CASE l \in {p.sync, p.panel} /\ m \in {p.sync, p.panel}
    BY <1>2, <2>2, LoadsOrdered
  <2> QED
    BY <1>10, <2>1, <2>2
<1>11. Ordered(q.sync, q.panel) /\ Ordered(q.panel, q.sync)
  BY <1>7, <1>10
<1> QED
  BY <1>3, <1>4, <1>9, <1>11 DEF PageCurrent, LoadsCurrent

\* The same loads on a page that advances: to the cursor c of something that was read at the
\* revision r.
LEMMA AdvanceCurrent ==
  ASSUME ServerInv, NEW R, NEW E, NEW p, WellFormed(p, R, E), LoadsCurrent(p),
         NEW q, WellFormed(q, R, E), q.sync = p.sync, q.panel = p.panel,
         NEW r \in Nat, NEW c \in Nat, \A l \in {p.sync, p.panel} : Since(l, r, c),
         p.observed <= q.observed, r <= q.observed, q.cursor \in {p.cursor, c},
         p.cursor <= q.cursor
  PROVE  LoadsCurrent(q)
<1>1. /\ p.observed \in Nat /\ q.observed \in Nat /\ p.sync \in Load /\ p.panel \in Load
  BY PageNumbers
<1>2. ASSUME NEW l \in {p.sync, p.panel} PROVE LoadCurrent(l, q)
  <2>1. LoadCurrent(l, p) /\ l \in Load
    BY <1>1 DEF LoadsCurrent
  <2>2. Since(l, q.observed, c)
    BY <1>1, <2>1, SinceLater
  <2>3. Since(l, q.observed, p.cursor)
    <3>1. Since(l, p.observed, p.cursor)
      BY <2>1 DEF LoadCurrent
    <3> QED
      BY <1>1, <2>1, <3>1, SinceLater
  <2>4. Since(l, q.observed, q.cursor)
    BY <2>2, <2>3
  <2> QED
    BY <2>1, <2>4, StaysCurrent
<1>3. LoadCurrent(q.sync, q) /\ LoadCurrent(q.panel, q)
  BY <1>2
<1>4. Ordered(q.sync, q.panel) /\ Ordered(q.panel, q.sync)
  BY DEF LoadsCurrent
<1> QED
  BY <1>3, <1>4 DEF LoadsCurrent

\* A catch-up page was merged: the page advances, and skips nothing that it lacks.
LEMMA MergedCurrent ==
  ASSUME ServerInv, NEW R, NEW E, NEW p, WellFormed(p, R, E), PageCurrent(p),
         NEW l \in {p.sync, p.panel}, l.pc = "answered", l.kind = "catchUp",
         p.epoch = l.epoch, l.ans.epoch = l.epoch,
         NEW s, WellFormed(s, R, E), s.epoch = p.epoch, s.sync = p.sync, s.panel = p.panel,
         s.cursor = Larger(p.cursor, l.ans.cursor),
         p.observed <= s.observed, l.ans.rev <= s.observed,
         \A i \in Items : s.blocks[i] = IF l.ans.rows[i] # Absent /\ Newer(p, i, l.ans.rows[i])
                                          THEN l.ans.rows[i] ELSE p.blocks[i]
  PROVE  PageCurrent(s) /\ (CanCatchUp(p) => CanCatchUp(s))
<1>1. /\ p.cursor \in Nat /\ l \in Load /\ PageBehind(p) /\ LoadsCurrent(p)
  BY PageNumbers DEF PageCurrent
<1>2. l.ans.rev \in Nat /\ l.ans.cursor \in Nat /\ l.ans.rows \in Rows /\ l.after \in Nat
  BY <1>1, LoadNumbers
<1>3. LoadCurrent(l, p)
  BY <1>1 DEF LoadsCurrent
<1>4. /\ s.cursor \in {p.cursor, l.ans.cursor} /\ p.cursor <= s.cursor
      /\ l.ans.cursor <= s.cursor
  BY <1>1, <1>2, LargerIs
<1>5. LoadsCurrent(s)
  <2>1. \A m \in {p.sync, p.panel} : Since(m, l.ans.rev, l.ans.cursor)
    <3> TAKE m \in {p.sync, p.panel}
    <3>1. Ordered(m, l)
      BY <1>1, LoadsOrdered
    <3>2. Underway(l)
      BY DEF Underway
    <3> QED
      BY <3>1, <3>2 DEF Ordered
  <2> QED
    BY <1>1, <1>2, <1>4, <2>1, AdvanceCurrent
<1>6. s.cursor <= server.seq
  BY <1>1, <1>3, <1>4 DEF PageBehind, LoadCurrent, Numbered
<1>7. p.epoch = server.epoch =>
        \A i \in Items :
          /\ l.ans.rows[i] # Absent => Behind(l.ans.rows[i], i)
          /\ l.after < server.rows[i].seq /\ server.rows[i].seq <= l.ans.cursor
               => l.ans.rows[i] = server.rows[i]
  BY <1>3 DEF LoadCurrent, Covers
<1>8. PageBehind(s)
  <2>1. s.epoch <= server.epoch
    BY <1>1 DEF PageBehind
  <2>2. ASSUME s.epoch = server.epoch, NEW i \in Items PROVE Behind(s.blocks[i], i)
    <3>1. Behind(p.blocks[i], i)
      BY <1>1, <2>2 DEF PageBehind
    <3>2. l.ans.rows[i] # Absent => Behind(l.ans.rows[i], i)
      BY <1>7, <2>2
    <3> QED
      BY <3>1, <3>2
  <2> QED
    BY <1>6, <2>1, <2>2 DEF PageBehind
<1>9. ASSUME CanCatchUp(p), s.epoch = server.epoch, NEW i \in Items,
             server.rows[i] # s.blocks[i], ~(server.rows[i].seq > s.cursor)
      PROVE  FALSE
  <2>1. PICK w : w = server.rows[i]
    OBVIOUS
  <2>2. PICK b : b = p.blocks[i]
    OBVIOUS
  <2>3. PICK c : c = l.ans.rows[i]
    OBVIOUS
  <2>4. w.seq \in Nat /\ b.seq \in Nat /\ c.seq \in Nat
    <3>1. c \in Content
      BY <1>2, <2>3 DEF Rows
    <3>2. c.seq \in Nat
      BY <3>1, Constants DEF Content, Events
    <3> QED
      BY <2>1, <2>2, <3>2, RowNumbers, PageNumbers
  <2>5. w.seq <= s.cursor /\ s.cursor \in Nat
    BY <1>1, <1>2, <1>4, <1>9, <2>1, <2>4
  <2>6. w # b => w.seq > p.cursor
    BY <1>9, <2>1, <2>2 DEF CanCatchUp
  <2>7. b = w \/ b.seq < w.seq
    BY <1>1, <1>9, <2>1, <2>2 DEF PageBehind, Behind
  <2>8. c # Absent => c = w \/ c.seq < w.seq
    BY <1>7, <1>9, <2>1, <2>3 DEF Behind
  <2>9. l.after < w.seq /\ w.seq <= l.ans.cursor => c = w
    BY <1>7, <1>9, <2>1, <2>3
  <2>10. w # IF c # Absent /\ b.seq <= c.seq THEN c ELSE b
    BY <1>9, <2>1, <2>2, <2>3 DEF Newer
  <2>11. CASE w = b
    BY <2>4, <2>8, <2>10, <2>11
  <2>12. CASE w # b
    <3>1. w.seq > p.cursor /\ b.seq < w.seq
      BY <2>6, <2>7, <2>12
    <3>2. l.after < w.seq /\ w.seq <= l.ans.cursor
      <4>1. l.after <= p.cursor
        BY <1>3 DEF LoadCurrent, Numbered
      <4> QED
        BY <1>1, <1>2, <1>4, <2>4, <2>5, <3>1, <4>1
    <3>3. w # Absent
      BY <1>1, <2>4, <3>1 DEF Absent
    <3> QED
      BY <2>4, <2>9, <2>10, <3>1, <3>2, <3>3
  <2> QED
    BY <2>11, <2>12
<1>10. CanCatchUp(p) => CanCatchUp(s)
  BY <1>9 DEF CanCatchUp
<1> QED
  BY <1>5, <1>8, <1>10 DEF PageCurrent

\* A catch-up page arrives: what the page becomes can catch up as it could before.
LEMMA CaughtUpCurrent ==
  ASSUME ServerInv, NEW R \in Revisions, NEW E \in Epochs, NEW p, WellFormed(p, R, E),
         PageCurrent(p), NEW who \in Loads, p[who].pc = "answered", p[who].kind = "catchUp"
  PROVE  PageCurrent(CaughtUp(p, who)) /\ (CanCatchUp(p) => CanCatchUp(CaughtUp(p, who)))
<1> DEFINE Fine(x) == WellFormed(x, R, E) /\ PageCurrent(x) /\ (CanCatchUp(p) => CanCatchUp(x))
<1>1. PICK l : l = p[who]
  OBVIOUS
<1>2. PICK a : a = l.ans
  OBVIOUS
<1>3. PICK m : m = Merged(p, a.rows)
  OBVIOUS
<1>4. PICK q : q = [m EXCEPT !.cursor = Larger(@, a.cursor)]
  OBVIOUS
<1>5. PICK k : k = [q EXCEPT !.known = a.rev]
  OBVIOUS
<1>6. PICK t : t = MarkApplied(k, a.rev)
  OBVIOUS
<1>7. PICK s : s = IF ShouldApply(p, a.rev) THEN t ELSE q
  OBVIOUS
<1>8. PICK h : h = MarkHydrated(s, a.rev)
  OBVIOUS
<1>9. PICK next : next = [l EXCEPT !.pc = "asked", !.after = a.cursor, !.target = a.target,
                                   !.ans = NoAnswer]
  OBVIOUS
<1>10. PICK more : more = [s EXCEPT ![who] = next]
  OBVIOUS
<1>11. /\ l \in Load /\ l \in {p.sync, p.panel} /\ l.pc = "answered" /\ l.kind = "catchUp"
       /\ GoodLoad(l, R, E)
  BY <1>1, LoadOf DEF Loads
<1>12. /\ a \in Answer /\ a.rev \in Revisions /\ a.rev <= R /\ a.rows \in Rows
       /\ a.cursor \in Events /\ a.target \in Events
  BY <1>2, <1>11 DEF GoodLoad, Load, Answer, Events
<1>13. CaughtUp(p, who) = IF p.epoch # l.epoch THEN Ended(p, who)
                          ELSE IF a.epoch # l.epoch THEN Snapshot(p, who, p.observed)
                          ELSE IF a.more THEN more
                          ELSE IF ~l.trailing /\ a.rev < h.observed THEN CatchUp(h, who, TRUE)
                          ELSE Ended(h, who)
  BY <1>1, <1>2, <1>3, <1>4, <1>5, <1>6, <1>7, <1>8, <1>9, <1>10 DEF CaughtUp
<1>14. Fine(p)
  OBVIOUS
<1>15. ASSUME NEW x, Fine(x), NEW y, WellFormed(y, R, E), Follows(x, y) PROVE Fine(y)
  BY <1>15, FollowsCurrent
<1>16. Fine(Ended(p, who)) /\ Fine(Snapshot(p, who, p.observed))
  <2>1. p.observed \in Revisions
    BY DEF WellFormed, Page
  <2>2. PICK x : x = Ended(p, who)
    OBVIOUS
  <2>3. PICK y : y = Snapshot(p, who, p.observed)
    OBVIOUS
  <2>4. Fine(x)
    BY <1>14, <1>15, <2>2, EndedPage, EndedFollows
  <2>5. Fine(y)
    BY <1>14, <1>15, <2>1, <2>3, Snapshots, SnapshotFollows
  <2> QED
    BY <2>2, <2>3, <2>4, <2>5
<1>17. ASSUME p.epoch = l.epoch, a.epoch = l.epoch
       PROVE  Fine(s) /\ s.cursor = Larger(p.cursor, a.cursor)
  <2>1. /\ WellFormed(m, R, E) /\ m.sync = p.sync /\ m.panel = p.panel /\ m.epoch = p.epoch
    BY <1>3, <1>12, MergedPage
  <2>2. /\ m.cursor = p.cursor /\ m.observed = p.observed /\ m.applied = p.applied
        /\ \A i \in Items : m.blocks[i] = IF a.rows[i] # Absent /\ Newer(p, i, a.rows[i])
                                            THEN a.rows[i] ELSE p.blocks[i]
    BY <1>3, PageNumbers DEF Merged, Page
  <2>3. /\ WellFormed(q, R, E) /\ q.sync = m.sync /\ q.panel = m.panel
        /\ q.blocks = m.blocks /\ q.epoch = m.epoch
    BY <1>4, <1>12, <2>1, Advanced
  <2>4. q.cursor = Larger(m.cursor, a.cursor) /\ q.observed = m.observed
    <3>1. m \in Page
      BY <2>1 DEF WellFormed
    <3> QED
      BY <1>4, <3>1 DEF Page
  <2>5. /\ WellFormed(k, R, E) /\ k.sync = q.sync /\ k.panel = q.panel
        /\ k.blocks = q.blocks /\ k.epoch = q.epoch
    BY <1>5, <1>12, <2>3, Learnt
  <2>6. k.cursor = q.cursor /\ k.observed = q.observed
    <3>1. q \in Page
      BY <2>3 DEF WellFormed
    <3> QED
      BY <1>5, <3>1 DEF Page
  <2>7. WellFormed(t, R, E) /\ t.sync = k.sync /\ t.panel = k.panel
    BY <1>6, <1>12, <2>5, Applied
  <2>8. Follows(k, t) /\ t.observed >= a.rev
    BY <1>6, <1>12, <2>5, AppliedFollows
  <2>9. WellFormed(s, R, E) /\ s.sync = p.sync /\ s.panel = p.panel
    BY <1>7, <2>1, <2>3, <2>5, <2>7
  <2>10. /\ s.blocks = m.blocks /\ s.epoch = p.epoch /\ s.cursor = Larger(p.cursor, a.cursor)
    BY <1>7, <2>1, <2>2, <2>3, <2>4, <2>5, <2>6, <2>8 DEF Follows
  <2>11. p.observed <= s.observed /\ a.rev <= s.observed
    <3>1. /\ p.observed \in Nat /\ p.applied \in Nat /\ a.rev \in Nat /\ p.applied <= p.observed
      BY <1>12, Constants DEF WellFormed, Page
    <3>2. CASE ShouldApply(p, a.rev)
      <4>1. p.observed <= t.observed
        BY <2>2, <2>4, <2>6, <2>8 DEF Follows
      <4>2. t.observed \in Nat
        BY <2>7, PageNumbers
      <4> QED
        BY <1>7, <2>8, <3>1, <3>2, <4>1, <4>2
    <3>3. CASE ~ShouldApply(p, a.rev)
      <4>1. s.observed = p.observed /\ a.rev < p.applied
        BY <1>7, <2>2, <2>4, <3>1, <3>3 DEF ShouldApply
      <4> QED
        BY <3>1, <4>1
    <3> QED
      BY <3>2, <3>3
  <2>12. \A i \in Items : s.blocks[i] = IF l.ans.rows[i] # Absent /\ Newer(p, i, l.ans.rows[i])
                                          THEN l.ans.rows[i] ELSE p.blocks[i]
    BY <1>2, <2>2, <2>10
  <2>13. /\ l.ans.epoch = l.epoch /\ s.cursor = Larger(p.cursor, l.ans.cursor)
         /\ l.ans.rev <= s.observed
    BY <1>2, <1>17, <2>10, <2>11
  <2>14. PageCurrent(s) /\ (CanCatchUp(p) => CanCatchUp(s))
    BY <1>11, <1>17, <2>9, <2>10, <2>11, <2>12, <2>13, MergedCurrent
  <2> QED
    BY <2>9, <2>10, <2>14
<1>18. ASSUME Fine(s), s.cursor = Larger(p.cursor, a.cursor) PROVE Fine(more)
  <2>1. next \in Load /\ next.ans = NoAnswer /\ next.pc = "asked" /\ next.after = a.cursor
        /\ next.target = a.target
    <3>1. NoAnswer \in Answer
      BY Nothing
    <3> QED
      BY <1>9, <1>11, <1>12, <3>1 DEF Load, Events
  <2>2. GoodLoad(next, R, E)
    BY <2>1, NewLoad
  <2>3. WellFormed(more, R, E)
    BY <1>10, <1>18, <2>2, SetLoad
  <2>4. Unanswered(next, s.cursor)
    <3>1. a.cursor <= s.cursor
      <4>1. a.cursor \in Nat /\ p.cursor \in Nat
        BY <1>12, Constants, PageNumbers
      <4> QED
        BY <1>18, <4>1, LargerIs
    <3>2. a.target <= server.seq
      BY <1>2, <1>11 DEF PageCurrent, LoadsCurrent, LoadCurrent, Numbered
    <3> QED
      BY <2>1, <3>1, <3>2 DEF Unanswered, Underway
  <2>5. Follows(s, more)
    BY <1>10, <1>18, <2>4, FollowsLoad
  <2> QED
    BY <1>15, <1>18, <2>3, <2>5
<1>19. ASSUME Fine(s) PROVE Fine(CatchUp(h, who, TRUE)) /\ Fine(Ended(h, who))
  <2>1. Fine(h)
    <3>1. WellFormed(h, R, E) /\ Follows(s, h)
      BY <1>8, <1>12, <1>19, Hydrated, HydratedFollows
    <3> QED
      BY <1>15, <1>19, <3>1
  <2>2. PICK c : c = CatchUp(h, who, TRUE)
    OBVIOUS
  <2>3. PICK e : e = Ended(h, who)
    OBVIOUS
  <2>4. WellFormed(c, R, E) /\ Follows(h, c)
    BY <2>1, <2>2, CatchesUpAgain, CatchUpAgainFollows
  <2>5. WellFormed(e, R, E) /\ Follows(h, e)
    BY <2>1, <2>3, EndedPage, EndedFollows
  <2>6. Fine(c) /\ Fine(e)
    BY <1>15, <2>1, <2>4, <2>5
  <2> QED
    BY <2>2, <2>3, <2>6
<1>20. Fine(CaughtUp(p, who))
  <2> HIDE DEF Fine
  <2> QED
    BY <1>13, <1>16, <1>17, <1>18, <1>19
<1> QED
  BY <1>20

\* A snapshot arrives: it is refused, or the page has what the snapshot does not leave to later
\* events.
LEMMA SnapshottedCurrent ==
  ASSUME ServerInv, NEW R \in Revisions, NEW E \in Epochs, E <= server.epoch,
         NEW p, WellFormed(p, R, E), PageCurrent(p),
         NEW who \in Loads, p[who].pc = "answered", p[who].kind = "snapshot"
  PROVE  PageCurrent(Snapshotted(p, who)) /\ (CanCatchUp(p) => CanCatchUp(Snapshotted(p, who)))
<1> DEFINE Fine(x) == WellFormed(x, R, E) /\ PageCurrent(x) /\ (CanCatchUp(p) => CanCatchUp(x))
<1>1. PICK l : l = p[who]
  OBVIOUS
<1>2. PICK a : a = l.ans
  OBVIOUS
<1>3. PICK b : b = [p EXCEPT !.known = a.rev, !.blocks = a.rows]
  OBVIOUS
<1>4. PICK h : h = MarkHydrated(b, a.rev)
  OBVIOUS
<1>5. PICK c : c = Larger(h.cursor, a.cursor)
  OBVIOUS
<1>6. PICK q : q = [h EXCEPT !.epoch = a.epoch, !.cursor = c]
  OBVIOUS
<1>7. PICK o : o = Observe(p, a.rev)
  OBVIOUS
<1>8. /\ l \in Load /\ l \in {p.sync, p.panel} /\ l.pc = "answered" /\ l.kind = "snapshot"
      /\ GoodLoad(l, R, E)
  BY <1>1, LoadOf DEF Loads
<1>9. /\ a \in Answer /\ a.rev \in Revisions /\ a.rev <= R /\ a.rows \in Rows
      /\ a.cursor \in Events /\ a.epoch \in Epochs /\ a.epoch <= E
      /\ a.rev \in Nat /\ a.cursor \in Nat /\ a.epoch \in Nat /\ E \in Nat
  BY <1>2, <1>8, Constants, LoadNumbers DEF GoodLoad, Load, Answer, Events, Epochs
<1>10. Snapshotted(p, who) = IF a.rev < l.min \/ a.rev < p.observed THEN Ended(o, who)
                             ELSE Ended(q, who)
  BY <1>1, <1>2, <1>3, <1>4, <1>5, <1>6, <1>7 DEF Snapshotted
<1>11. ASSUME NEW x, Fine(x), NEW y, WellFormed(y, R, E), Follows(x, y) PROVE Fine(y)
  BY <1>11, FollowsCurrent
<1>12. Fine(Ended(o, who))
  <2>1. WellFormed(o, R, E) /\ Follows(p, o)
    BY <1>7, <1>9, Observed, ObserveFollows
  <2>2. Fine(o)
    BY <1>11, <2>1
  <2>3. PICK e : e = Ended(o, who)
    OBVIOUS
  <2>4. WellFormed(e, R, E) /\ Follows(o, e)
    BY <2>1, <2>3, EndedPage, EndedFollows
  <2> QED
    BY <1>11, <2>2, <2>3, <2>4
<1>13. ASSUME a.rev >= p.observed PROVE Fine(Ended(q, who))
  <2>1. p \in Page
    BY DEF WellFormed
  <2>2. /\ b \in Page /\ b.cursor = p.cursor /\ b.observed = p.observed /\ b.blocks = a.rows
        /\ b.sync = p.sync /\ b.panel = p.panel
    BY <1>3, <1>9, <2>1 DEF Page
  <2>3. b.hydrated = p.hydrated /\ b.applied = p.applied
    BY <1>3, <2>1 DEF Page
  <2>4. WellFormed(b, R, E)
    BY <2>2, <2>3 DEF WellFormed
  <2>5. /\ WellFormed(h, R, E) /\ h.blocks = a.rows /\ h.sync = p.sync /\ h.panel = p.panel
        /\ h.observed >= a.rev /\ h.observed >= p.observed /\ h.cursor = p.cursor
    <3>1. WellFormed(h, R, E) /\ h.blocks = b.blocks /\ h.sync = b.sync /\ h.panel = b.panel
      BY <1>4, <1>9, <2>4, Hydrated
    <3>2. Follows(b, h) /\ h.observed >= a.rev
      BY <1>4, <1>9, <2>4, HydratedFollows
    <3>3. h.observed \in Nat /\ p.observed \in Nat
      BY <3>1, PageNumbers
    <3> QED
      BY <2>2, <3>1, <3>2, <3>3 DEF Follows
  <2>6. LoadCurrent(l, p) /\ p.cursor \in Nat /\ LoadsCurrent(p) /\ p.observed \in Nat
    BY <1>8, PageNumbers DEF PageCurrent, LoadsCurrent
  <2>7. p.cursor <= a.cursor
    <3>1. Since(l, p.observed, p.cursor) /\ Read(l)
      BY <1>8, <2>6 DEF LoadCurrent, Read, Underway
    <3> QED
      BY <1>2, <1>9, <1>13, <2>6, <3>1 DEF Since
  <2>8. c = a.cursor
    <3>1. c = Larger(p.cursor, a.cursor)
      BY <1>5, <2>5
    <3> QED
      BY <1>9, <2>6, <2>7, <3>1 DEF Larger
  <2>9. h \in Page
    BY <2>5 DEF WellFormed
  <2>10. /\ q \in Page /\ q.cursor = a.cursor /\ q.observed = h.observed /\ q.blocks = a.rows
         /\ q.sync = p.sync /\ q.panel = p.panel /\ q.epoch = a.epoch
    <3>1. q \in Page /\ q.cursor = c /\ q.observed = h.observed /\ q.epoch = a.epoch
      BY <1>6, <1>9, <2>8, <2>9 DEF Page
    <3>2. q.blocks = h.blocks /\ q.sync = h.sync /\ q.panel = h.panel
      BY <1>6, <2>9 DEF Page
    <3> QED
      BY <2>5, <2>8, <3>1, <3>2
  <2>11. q.hydrated = h.hydrated /\ q.applied = h.applied
    BY <1>6, <2>9 DEF Page
  <2>12. WellFormed(q, R, E)
    BY <2>5, <2>10, <2>11 DEF WellFormed
  <2>13. LoadsCurrent(q)
    <3>1. \A m \in {p.sync, p.panel} : Since(m, a.rev, a.cursor)
      <4> TAKE m \in {p.sync, p.panel}
      <4>1. Ordered(m, l)
        BY <1>8, <2>6, LoadsOrdered
      <4>2. Underway(l)
        BY <1>8 DEF Underway
      <4> QED
        BY <1>2, <4>1, <4>2 DEF Ordered
    <3>2. q.observed \in Nat
      BY <2>12, PageNumbers
    <3>3. p.observed <= q.observed /\ a.rev <= q.observed
      BY <1>9, <2>5, <2>6, <2>10, <3>2
    <3> QED
      BY <1>9, <2>6, <2>7, <2>10, <2>12, <3>1, <3>3, AdvanceCurrent
  <2>14. a.epoch = server.epoch =>
           \A i \in Items : \/ a.rows[i] = server.rows[i]
                            \/ /\ a.rows[i].seq < server.rows[i].seq
                               /\ a.cursor < server.rows[i].seq
    BY <1>2, <1>8, <2>6 DEF LoadCurrent, Covers
  <2>15. PageBehind(q)
    <3>1. a.cursor <= server.seq
      BY <1>2, <2>6 DEF LoadCurrent, Numbered
    <3>2. a.epoch <= server.epoch
      BY <1>9, RowNumbers
    <3> QED
      BY <2>10, <2>14, <3>1, <3>2 DEF PageBehind, Behind
  <2>16. CanCatchUp(q)
    <3>1. ASSUME a.epoch = server.epoch, NEW i \in Items, server.rows[i] # a.rows[i]
          PROVE  server.rows[i].seq > a.cursor
      BY <1>9, <2>14, <3>1, RowNumbers
    <3> QED
      BY <2>10, <3>1 DEF CanCatchUp
  <2>17. Fine(q)
    BY <2>12, <2>13, <2>15, <2>16 DEF PageCurrent
  <2>18. PICK e : e = Ended(q, who)
    OBVIOUS
  <2>19. WellFormed(e, R, E) /\ Follows(q, e)
    BY <2>12, <2>18, EndedPage, EndedFollows
  <2> QED
    BY <1>11, <2>17, <2>18, <2>19
<1>14. Fine(Snapshotted(p, who))
  <2>1. a.rev < p.observed \/ a.rev >= p.observed
    BY <1>9, PageNumbers
  <2> HIDE DEF Fine
  <2> QED
    BY <1>10, <1>12, <1>13, <2>1
<1> QED
  BY <1>14

\* A frame shows its item: the page advances to it.
LEMMA ShownCurrent ==
  ASSUME ServerInv, server.epoch >= 1, NEW R \in Revisions, NEW E \in Epochs,
         NEW p, WellFormed(p, R, E), From(p.blocks, p.epoch), PageCurrent(p),
         NEW f, GoodFrame(f, R), FrameBehind(f), f.op = "item",
         p.epoch = 0 \/ f.epoch = p.epoch,
         \A l \in {p.sync, p.panel} : Since(l, f.rev, f.content.seq)
  PROVE  PageCurrent(MarkApplied(Shown(p, f), f.rev))
<1>1. PICK q : q = Shown(p, f)
  OBVIOUS
<1>2. PICK s : s = MarkApplied(q, f.rev)
  OBVIOUS
<1>3. /\ f \in Frame /\ f.rev \in Revisions /\ f.rev <= R /\ f.rev \in Nat /\ f.item \in Items
      /\ f.content \in Content /\ f.content.seq \in Nat /\ f.content.seq <= server.seq
  <2>1. f \in Frame /\ f.rev \in Revisions /\ f.rev <= R /\ f.content \in Content /\ f.item \in Items
    BY DEF GoodFrame, Frame
  <2> QED
    BY <2>1, Constants DEF FrameBehind, Content, Events
<1>4. WellFormed(q, R, E)
  BY <1>1, ShownPage
<1>5. p \in Page /\ p.blocks \in Rows /\ p.cursor \in Nat /\ p.observed \in Nat
  BY PageNumbers
<1>6. /\ q.sync = p.sync /\ q.panel = p.panel /\ q.epoch = p.epoch /\ q.observed = p.observed
      /\ q.cursor \in {p.cursor, f.content.seq} /\ p.cursor <= q.cursor
      /\ \A i \in Items : q.blocks[i] = p.blocks[i] \/ (i = f.item /\ q.blocks[i] = f.content)
  <2>1. PICK c : c = IF p.epoch # 0 THEN Larger(p.cursor, f.content.seq) ELSE p.cursor
    OBVIOUS
  <2>2. c \in {p.cursor, f.content.seq} /\ p.cursor <= c
    BY <1>3, <1>5, <2>1, LargerIs
  <2>3. PICK b : b = [p.blocks EXCEPT ![f.item] = f.content]
    OBVIOUS
  <2>4. \A i \in Items : b[i] = p.blocks[i] \/ (i = f.item /\ b[i] = f.content)
    BY <1>3, <1>5, <2>3 DEF Rows
  <2>5. PICK x : x = [p EXCEPT !.blocks = b, !.cursor = c]
    OBVIOUS
  <2>6. x = [p EXCEPT !.blocks[f.item] = f.content,
                      !.cursor = IF p.epoch # 0 THEN Larger(@, f.content.seq) ELSE @]
    BY <2>1, <2>3, <2>5
  <2>7. q \in {p, x}
    BY <1>1, <2>6 DEF Shown
  <2>8. /\ x.sync = p.sync /\ x.panel = p.panel /\ x.epoch = p.epoch /\ x.observed = p.observed
        /\ x.cursor = c /\ x.blocks = b
    BY <1>5, <2>5 DEF Page
  <2>9. p.cursor <= p.cursor
    BY <1>5
  <2> QED
    BY <2>2, <2>4, <2>7, <2>8, <2>9
<1>7. WellFormed(s, R, E) /\ s.sync = q.sync /\ s.panel = q.panel
  BY <1>2, <1>3, <1>4, Applied
<1>8. Follows(q, s) /\ s.observed >= f.rev
  BY <1>2, <1>3, <1>4, AppliedFollows
<1>9. /\ s.blocks = q.blocks /\ s.epoch = p.epoch /\ s.cursor = q.cursor
      /\ p.observed <= s.observed /\ f.rev <= s.observed /\ s.sync = p.sync /\ s.panel = p.panel
  <2>1. s.observed \in Nat
    BY <1>7, PageNumbers
  <2> QED
    BY <1>3, <1>6, <1>7, <1>8, <2>1 DEF Follows
<1>10. LoadsCurrent(s)
  <2>1. LoadsCurrent(p)
    BY DEF PageCurrent
  <2>2. s.cursor \in {p.cursor, f.content.seq} /\ p.cursor <= s.cursor
    BY <1>6, <1>9
  <2> QED
    BY <1>3, <1>7, <1>9, <2>1, <2>2, AdvanceCurrent
<1>11. PageBehind(s)
  <2>1. PageBehind(p)
    BY DEF PageCurrent
  <2>2. s.cursor <= server.seq
    BY <1>3, <1>6, <1>9, <2>1 DEF PageBehind
  <2>3. s.epoch <= server.epoch
    BY <1>9, <2>1 DEF PageBehind
  <2>4. ASSUME s.epoch = server.epoch, NEW i \in Items PROVE Behind(s.blocks[i], i)
    <3>1. Behind(p.blocks[i], i)
      BY <1>9, <2>1, <2>4 DEF PageBehind
    <3>2. p.epoch # 0
      BY <1>9, <2>4, RowNumbers
    <3>3. f.epoch = server.epoch
      BY <1>9, <2>4, <3>2
    <3>4. Behind(f.content, f.item)
      BY <3>3 DEF FrameBehind
    <3> QED
      BY <1>6, <1>9, <3>1, <3>4
  <2> QED
    BY <2>2, <2>3, <2>4 DEF PageBehind
<1>12. PageCurrent(s)
  BY <1>10, <1>11 DEF PageCurrent
<1> QED
  BY <1>1, <1>2, <1>12

\* A frame arrives.
LEMMA FramedCurrent ==
  ASSUME ServerInv, server.epoch >= 1, NEW R \in Revisions, NEW E \in Epochs,
         NEW p, WellFormed(p, R, E), From(p.blocks, p.epoch), PageCurrent(p),
         NEW f, GoodFrame(f, R), FrameBehind(f),
         f.op = "item" => \A l \in {p.sync, p.panel} : Since(l, f.rev, f.content.seq)
  PROVE  /\ PageCurrent(Framed(p, f))
         /\ f.op # "item" => (CanCatchUp(p) => CanCatchUp(Framed(p, f)))
<1> DEFINE Fine(x) == WellFormed(x, R, E) /\ PageCurrent(x) /\ (CanCatchUp(p) => CanCatchUp(x))
<1>1. PICK o : o = Observe(p, f.rev)
  OBVIOUS
<1>2. PICK q : q = [o EXCEPT !.known = f.rev]
  OBVIOUS
<1>3. PICK u : u = Request(p, f.rev, "snapshot")
  OBVIOUS
<1>4. PICK v : v = Request(q, f.rev, "snapshot")
  OBVIOUS
<1>5. PICK m : m = MarkApplied(q, f.rev)
  OBVIOUS
<1>6. PICK s : s = MarkApplied(Shown(q, f), f.rev)
  OBVIOUS
<1>7. \/ Framed(p, f) \in {p, o, q, u, v}
      \/ /\ p.epoch = 0 \/ f.epoch = p.epoch
         /\ Framed(p, f) = IF f.op = "item" THEN s ELSE m
  BY <1>1, <1>2, <1>3, <1>4, <1>5, <1>6 DEF Framed
<1>8. f.rev \in Revisions /\ f.rev <= R /\ "snapshot" \in Modes
  BY DEF GoodFrame, Frame, Modes
<1>9. ASSUME NEW x, Fine(x), NEW y, WellFormed(y, R, E), Follows(x, y) PROVE Fine(y)
  BY <1>9, FollowsCurrent
<1>10. Fine(p)
  OBVIOUS
<1>11. WellFormed(o, R, E) /\ Follows(p, o) /\ o.sync = p.sync /\ o.panel = p.panel
  BY <1>1, <1>8, Observed, ObserveFollows
<1>12. Fine(o)
  BY <1>9, <1>10, <1>11
<1>13. /\ WellFormed(q, R, E) /\ Follows(o, q)
       /\ q.sync = o.sync /\ q.panel = o.panel /\ q.blocks = o.blocks /\ q.epoch = o.epoch
  <2>1. /\ WellFormed(q, R, E)
        /\ q.sync = o.sync /\ q.panel = o.panel /\ q.blocks = o.blocks /\ q.epoch = o.epoch
    BY <1>2, <1>8, <1>11, Learnt
  <2>2. Follows(o, q)
    BY <1>2, <1>11, FollowsApart
  <2> QED
    BY <2>1, <2>2
<1>14. Fine(q)
  BY <1>9, <1>12, <1>13
<1>15. Fine(u)
  <2>1. WellFormed(u, R, E) /\ Follows(p, u)
    BY <1>3, <1>8, Requested, RequestFollows
  <2> QED
    BY <1>9, <1>10, <2>1
<1>16. Fine(v)
  <2>1. WellFormed(v, R, E) /\ Follows(q, v)
    BY <1>4, <1>8, <1>13, Requested, RequestFollows
  <2> QED
    BY <1>9, <1>14, <2>1
<1>17. Fine(m)
  <2>1. WellFormed(m, R, E) /\ Follows(q, m)
    BY <1>5, <1>8, <1>13, Applied, AppliedFollows
  <2> QED
    BY <1>9, <1>14, <2>1
<1>18. ASSUME f.op = "item", p.epoch = 0 \/ f.epoch = p.epoch PROVE PageCurrent(s)
  <2>1. /\ q.epoch = p.epoch /\ q.blocks = p.blocks /\ q.sync = p.sync /\ q.panel = p.panel
    BY <1>11, <1>13 DEF Follows
  <2>2. From(q.blocks, q.epoch)
    BY <2>1
  <2>3. q.epoch = 0 \/ f.epoch = q.epoch
    BY <1>18, <2>1
  <2>4. \A l \in {q.sync, q.panel} : Since(l, f.rev, f.content.seq)
    BY <1>18, <2>1
  <2>5. PageCurrent(q)
    BY <1>14
  <2> QED
    BY <1>6, <1>13, <1>18, <2>2, <2>3, <2>4, <2>5, ShownCurrent
<1>19. CASE Framed(p, f) \in {p, o, q, u, v}
  BY <1>10, <1>12, <1>14, <1>15, <1>16, <1>19
<1>20. CASE /\ p.epoch = 0 \/ f.epoch = p.epoch
            /\ Framed(p, f) = IF f.op = "item" THEN s ELSE m
  BY <1>17, <1>18, <1>20
<1> QED
  BY <1>7, <1>19, <1>20

\* The answer of a reconciliation arrives, or of a goal.
LEMMA ReconciledFollows ==
  ASSUME ServerInv, NEW R \in Revisions, NEW E \in Epochs, NEW p, WellFormed(p, R, E),
         NEW r \in Revisions, r <= R
  PROVE  Follows(p, Reconciled(p, r)) /\ Follows(p, MarkApplied([p EXCEPT !.known = r], r))
<1>1. PICK k : k = [p EXCEPT !.known = r]
  OBVIOUS
<1>2. PICK q : q = MarkApplied(k, r)
  OBVIOUS
<1>3. PICK s : s = Request(q, r, "catchUp")
  OBVIOUS
<1>4. Reconciled(p, r) \in {p, q, s}
  BY <1>1, <1>2, <1>3 DEF Reconciled
<1>5. WellFormed(k, R, E)
  BY <1>1, Learnt
<1>6. Follows(p, k)
  BY <1>1, FollowsApart
<1>7. WellFormed(q, R, E) /\ Follows(k, q)
  BY <1>2, <1>5, Applied, AppliedFollows
<1>8. "catchUp" \in Modes
  BY DEF Modes
<1>9. WellFormed(s, R, E) /\ Follows(q, s)
  BY <1>3, <1>7, <1>8, Requested, RequestFollows
<1>10. Follows(p, p) /\ Follows(p, q)
  BY <1>5, <1>6, <1>7, FollowsAgain, FollowsItself
<1>11. Follows(p, s)
  BY <1>7, <1>9, <1>10, FollowsAgain
<1> QED
  BY <1>1, <1>2, <1>4, <1>10, <1>11

-----------------------------------------------------------------------------
(* The row and the stream move on.                                         *)

\* The page after a step, named.
LEMMA NextPage ==
  ASSUME NEW q, page' = q, PageCurrent(q)'
  PROVE  PageCurrent(page)'
BY DEF PageCurrent, PageBehind, LoadsCurrent, LoadCurrent, Ordered, Numbered, Now, Since, AfterFrames,
       Covers, Behind, Read, Underway

\* The row has another revision, no smaller epoch and number of events; and in the same epoch what
\* an item gets is a new event.
RowAdvances ==
  /\ server'.rev > server.rev /\ server.epoch <= server'.epoch /\ server.seq <= server'.seq
  /\ server'.epoch = server.epoch =>
       \A i \in Items : server'.rows[i] = server.rows[i] \/ server'.rows[i].seq > server.seq

LEMMA BehindStays ==
  ASSUME ServerInv, ServerInv', RowsNumbered, RowAdvances, server'.epoch = server.epoch,
         NEW i \in Items, NEW c \in Content, Behind(c, i)
  PROVE  Behind(c, i)'
<1>1. PICK v : v = server.rows[i]
  OBVIOUS
<1>2. PICK w : w = server'.rows[i]
  OBVIOUS
<1>3. c.seq \in Nat /\ v.seq \in Nat /\ w.seq \in Nat /\ server.seq \in Nat /\ v.seq <= server.seq
  <2>1. c.seq \in Nat
    BY Constants DEF Content, Events
  <2>2. v.seq \in Nat /\ server.seq \in Nat /\ v.seq <= server.seq
    BY <1>1, RowNumbers DEF RowsNumbered
  <2>3. w.seq \in Nat
    BY <1>2, Constants DEF ServerInv, Rows, Content, Events
  <2> QED
    BY <2>1, <2>2, <2>3
<1>4. c = v \/ c.seq < v.seq
  BY <1>1 DEF Behind
<1>5. w = v \/ w.seq > server.seq
  BY <1>1, <1>2 DEF RowAdvances
<1>6. c = w \/ c.seq < w.seq
  BY <1>3, <1>4, <1>5
<1> QED
  BY <1>2, <1>6 DEF Behind

\* What an answer has and leaves out is so for the row that goes on.
LEMMA CoversStays ==
  ASSUME ServerInv, ServerInv', RowsNumbered, RowAdvances,
         NEW l \in Load, GoodLoad(l, server.rev, server.epoch), l.ans.cursor <= server.seq, Covers(l)
  PROVE  Covers(l)'
<1> SUFFICES ASSUME l.pc = "answered", l.ans.epoch = server'.epoch
             PROVE  Covers(l)'
  BY DEF Covers
<1>1. l.ans.epoch = server.epoch /\ server'.epoch = server.epoch
  <2>1. /\ l.ans.epoch \in Nat /\ server.epoch \in Nat /\ server'.epoch \in Nat
        /\ l.ans.epoch <= server.epoch /\ server.epoch <= server'.epoch
    BY LoadNumbers, Constants DEF GoodLoad, RowAdvances, ServerInv
  <2> QED
    BY <2>1
<1>2. /\ l.ans.cursor \in Nat /\ l.ans.rows \in Rows /\ server.seq \in Nat
  BY LoadNumbers, RowNumbers
<1>3. CASE l.kind = "snapshot"
  <2>1. ASSUME NEW i \in Items
        PROVE  \/ l.ans.rows[i] = server'.rows[i]
               \/ /\ l.ans.rows[i].seq < server'.rows[i].seq /\ l.ans.cursor < server'.rows[i].seq
    <3>1. PICK v : v = server.rows[i]
      OBVIOUS
    <3>2. PICK w : w = server'.rows[i]
      OBVIOUS
    <3>3. PICK c : c = l.ans.rows[i]
      OBVIOUS
    <3>4. c \in Content
      BY <1>2, <3>3 DEF Rows
    <3>5. c.seq \in Nat
      BY <3>4, Constants DEF Content, Events
    <3>6. v.seq \in Nat /\ v.seq <= server.seq
      BY <3>1, RowNumbers DEF RowsNumbered
    <3>7. w.seq \in Nat
      BY <3>2, Constants DEF ServerInv, Rows, Content, Events
    <3>8. c = v \/ (c.seq < v.seq /\ l.ans.cursor < v.seq)
      BY <1>1, <1>3, <3>1, <3>3 DEF Covers
    <3>9. w = v \/ w.seq > server.seq
      BY <1>1, <3>1, <3>2 DEF RowAdvances
    <3>10. c = w \/ (c.seq < w.seq /\ l.ans.cursor < w.seq)
      BY <1>2, <3>5, <3>6, <3>7, <3>8, <3>9
    <3> QED
      BY <3>2, <3>3, <3>10
  <2> QED
    BY <1>3, <2>1 DEF Covers
<1>4. CASE l.kind # "snapshot"
  <2>1. ASSUME l.epoch = server'.epoch, NEW i \in Items, l.ans.rows[i] # Absent
        PROVE  Behind(l.ans.rows[i], i)'
    <3>1. Behind(l.ans.rows[i], i)
      BY <1>1, <1>4, <2>1 DEF Covers
    <3>2. l.ans.rows[i] \in Content
      BY <1>2 DEF Rows
    <3>3. PICK c \in Content : c = l.ans.rows[i]
      BY <3>2
    <3>4. Behind(c, i)
      BY <3>1, <3>3
    <3>5. Behind(c, i)'
      BY <1>1, <3>4, BehindStays
    <3> QED
      BY <3>3, <3>5 DEF Behind
  <2>2. ASSUME l.epoch = server'.epoch, NEW i \in Items,
               l.after < server'.rows[i].seq, server'.rows[i].seq <= l.ans.cursor
        PROVE  l.ans.rows[i] = server'.rows[i]
    <3>1. server'.rows[i].seq \in Nat
      BY Constants DEF ServerInv, Rows, Content, Events
    <3>2. server'.rows[i] = server.rows[i]
      BY <1>1, <1>2, <2>2, <3>1 DEF RowAdvances
    <3> QED
      BY <1>1, <1>4, <2>2, <3>2 DEF Covers
  <2>3. l.epoch = server'.epoch =>
          \A i \in Items :
            /\ l.ans.rows[i] # Absent => Behind(l.ans.rows[i], i)'
            /\ l.after < server'.rows[i].seq /\ server'.rows[i].seq <= l.ans.cursor
                 => l.ans.rows[i] = server'.rows[i]
    BY <2>1, <2>2
  <2> QED
    BY <1>4, <2>3 DEF Covers, Behind
<1> QED
  BY <1>3, <1>4

\* A load stays current.
LEMMA LoadStays ==
  ASSUME ServerInv, ServerInv', RowsNumbered, RowAdvances, UNCHANGED stream,
         NEW l \in Load, GoodLoad(l, server.rev, server.epoch), NEW p, LoadCurrent(l, p)
  PROVE  LoadCurrent(l, p)'
<1>1. Numbered(l, p.cursor) /\ Since(l, p.observed, p.cursor) /\ AfterFrames(l) /\ Covers(l)
  BY DEF LoadCurrent
<1>2. /\ l.ans.cursor \in Nat /\ l.ans.target \in Nat /\ l.target \in Nat /\ l.ans.rev \in Nat
      /\ server.seq \in Nat /\ server'.seq \in Nat /\ server.rev \in Nat /\ server'.rev \in Nat
  BY LoadNumbers, RowNumbers, Constants DEF ServerInv
<1>3. Numbered(l, p.cursor)'
  BY <1>1, <1>2 DEF Numbered, RowAdvances
<1>4. Now(l)'
  BY <1>2 DEF Now, GoodLoad, RowAdvances
<1>5. AfterFrames(l)'
  BY <1>1 DEF AfterFrames, Since, Read, Underway
<1>6. Since(l, p.observed, p.cursor)'
  BY <1>1 DEF Since, Read, Underway
<1>7. Covers(l)'
  BY <1>1, CoversStays DEF Numbered
<1> QED
  BY <1>3, <1>4, <1>5, <1>6, <1>7 DEF LoadCurrent

\* So does the page, and it can catch up as before.
LEMMA PageStays ==
  ASSUME ServerInv, ServerInv', RowsNumbered, RowAdvances, UNCHANGED <<stream, page>>,
         WellFormed(page, server.rev, server.epoch), PageCurrent(page)
  PROVE  PageCurrent(page)' /\ (CanCatchUp(page) => CanCatchUp(page)')
<1>1. PICK p : p = page
  OBVIOUS
<1>2. WellFormed(p, server.rev, server.epoch) /\ PageCurrent(p)
  BY <1>1
<1>3. /\ p.sync \in Load /\ p.panel \in Load /\ p.blocks \in Rows /\ p.cursor \in Nat
      /\ p.epoch \in Nat /\ PageBehind(p) /\ LoadsCurrent(p)
  BY <1>2, PageNumbers DEF PageCurrent
<1>4. LoadsCurrent(p)'
  <2>1. LoadCurrent(p.sync, p)' /\ LoadCurrent(p.panel, p)'
    <3>1. PICK l \in Load : l = p.sync
      BY <1>3
    <3>2. PICK m \in Load : m = p.panel
      BY <1>3
    <3>3. LoadCurrent(l, p) /\ LoadCurrent(m, p)
      BY <1>3, <3>1, <3>2 DEF LoadsCurrent
    <3>4. GoodLoad(l, server.rev, server.epoch) /\ GoodLoad(m, server.rev, server.epoch)
      BY <1>2, <3>1, <3>2 DEF WellFormed
    <3>5. LoadCurrent(l, p)' /\ LoadCurrent(m, p)'
      BY <3>3, <3>4, LoadStays
    <3> QED
      BY <3>1, <3>2, <3>5
  <2>2. Ordered(p.sync, p.panel)' /\ Ordered(p.panel, p.sync)'
    BY <1>3 DEF LoadsCurrent, Ordered, Since, Read, Underway
  <2> QED
    BY <2>1, <2>2 DEF LoadsCurrent
<1>5. PageBehind(p)'
  <2>1. /\ server.seq \in Nat /\ server'.seq \in Nat /\ server.epoch \in Nat /\ server'.epoch \in Nat
    BY RowNumbers, Constants DEF ServerInv
  <2>2. p.cursor <= server'.seq /\ p.epoch <= server'.epoch
    BY <1>3, <2>1 DEF PageBehind, RowAdvances
  <2>3. ASSUME p.epoch = server'.epoch, NEW i \in Items PROVE Behind(p.blocks[i], i)'
    <3>1. p.epoch = server.epoch /\ server'.epoch = server.epoch
      BY <1>3, <2>1, <2>3 DEF PageBehind, RowAdvances
    <3>2. p.blocks[i] \in Content /\ Behind(p.blocks[i], i)
      BY <1>3, <3>1 DEF PageBehind, Rows
    <3>3. PICK c \in Content : c = p.blocks[i]
      BY <3>2
    <3>4. Behind(c, i)
      BY <3>2, <3>3
    <3>5. Behind(c, i)'
      BY <3>1, <3>4, BehindStays
    <3> QED
      BY <3>3, <3>5 DEF Behind
  <2> QED
    BY <2>2, <2>3 DEF PageBehind, Behind
<1>6. PageCurrent(p)'
  BY <1>4, <1>5 DEF PageCurrent
<1>7. ASSUME CanCatchUp(p), p.epoch = server'.epoch, NEW i \in Items, server'.rows[i] # p.blocks[i]
      PROVE  server'.rows[i].seq > p.cursor
  <2>1. /\ server.seq \in Nat /\ server.epoch \in Nat /\ server'.epoch \in Nat
        /\ server'.rows[i].seq \in Nat
    BY RowNumbers, Constants DEF ServerInv, Rows, Content, Events
  <2>2. p.epoch = server.epoch /\ server'.epoch = server.epoch
    BY <1>3, <1>7, <2>1 DEF PageBehind, RowAdvances
  <2>3. CASE server'.rows[i] = server.rows[i]
    BY <1>7, <2>2, <2>3 DEF CanCatchUp
  <2>4. CASE server'.rows[i].seq > server.seq
    BY <1>3, <2>1, <2>4 DEF PageBehind
  <2> QED
    BY <2>2, <2>3, <2>4 DEF RowAdvances
<1>8. PageCurrent(page)'
  <2>1. page' = p
    BY <1>1
  <2> QED
    BY <1>6, <2>1, NextPage
<1>9. CanCatchUp(page) => CanCatchUp(page)'
  BY <1>1, <1>7 DEF CanCatchUp
<1> QED
  BY <1>8, <1>9

\* And the frames under way.
LEMMA WireStays ==
  ASSUME ServerInv, ServerInv', RowsNumbered, RowAdvances, UNCHANGED <<stream, notes>>,
         WireInv, WireBehind
  PROVE  WireBehind'
<1>1. ASSUME NEW k \in 1..Len(stream.wire) PROVE FrameBehind(stream.wire[k])'
  <2>1. PICK f : f = stream.wire[k]
    OBVIOUS
  <2>2. FrameBehind(f) /\ GoodFrame(f, server.rev)
    BY <2>1 DEF WireBehind, WireInv
  <2>3. f.content \in Content /\ f.item \in Items /\ f.epoch \in Nat /\ f.content.seq \in Nat
    <3>1. f.content \in Content /\ f.item \in Items /\ f.epoch \in Epochs
      BY <2>2 DEF GoodFrame, Frame
    <3> QED
      BY <3>1, Constants DEF Content, Events
  <2>4. ASSUME f.op = "item" PROVE f.content.seq <= server'.seq /\ f.epoch <= server'.epoch
    <3>1. /\ server.seq \in Nat /\ server'.seq \in Nat /\ server.epoch \in Nat
          /\ server'.epoch \in Nat
      BY RowNumbers, Constants DEF ServerInv
    <3> QED
      BY <2>2, <2>3, <2>4, <3>1 DEF FrameBehind, RowAdvances
  <2>5. ASSUME f.op = "item", f.epoch = server'.epoch PROVE Behind(f.content, f.item)'
    <3>1. f.epoch = server.epoch /\ server'.epoch = server.epoch
      <4>1. server.epoch \in Nat /\ server'.epoch \in Nat
        BY RowNumbers, Constants DEF ServerInv
      <4> QED
        BY <2>2, <2>3, <2>5, <4>1 DEF FrameBehind, RowAdvances
    <3>2. Behind(f.content, f.item)
      BY <2>2, <2>5, <3>1 DEF FrameBehind
    <3>3. PICK c \in Content : c = f.content
      BY <2>3
    <3>4. PICK i \in Items : i = f.item
      BY <2>3
    <3>5. Behind(c, i)'
      BY <3>1, <3>2, <3>3, <3>4, BehindStays
    <3> QED
      BY <3>3, <3>4, <3>5 DEF Behind
  <2>6. FrameBehind(f)'
    BY <2>4, <2>5 DEF FrameBehind, Behind
  <2>7. stream'.wire[k] = f
    BY <2>1
  <2> QED
    BY <2>6, <2>7 DEF FrameBehind, Behind
<1>2. \A f \in notes' : f.op # "item"
  BY DEF WireBehind
<1>3. Len(stream'.wire) = Len(stream.wire)
  OBVIOUS
<1> QED
  BY <1>1, <1>2, <1>3 DEF WireBehind, FrameBehind, Behind

\* A step that changes the row alone.
LEMMA RowStep ==
  ASSUME IInv, IInv', CInv, RowAdvances, RowsNumbered', UNCHANGED <<stream, notes, page>>
  PROVE  CInv' /\ (Recoverable => Recoverable')
<1>1. ServerInv /\ ServerInv' /\ WireInv /\ WellFormed(page, server.rev, server.epoch)
  BY DEF IInv, PageInv
<1>2. RowsNumbered /\ WireBehind /\ PageCurrent(page)
  BY DEF CInv
<1>3. WireBehind'
  BY <1>1, <1>2, WireStays
<1>4. PageCurrent(page)' /\ (CanCatchUp(page) => CanCatchUp(page)')
  BY <1>1, <1>2, PageStays
<1> QED
  BY <1>3, <1>4 DEF CInv, Recoverable, CanCatchUp

LEMMA ProjectCurrent ==
  ASSUME IInv, CInv, NEW i \in Items, Project(i)
  PROVE  CInv' /\ (Recoverable => Recoverable')
<1> DEFINE c == [gen |-> server.epoch, seq |-> server.seq + 1]
<1>1. /\ server' = [server EXCEPT !.rev = @ + 1, !.seq = @ + 1, !.rows[i] = c]
      /\ unsent' = [item |-> i, content |-> c]
      /\ UNCHANGED <<notes, stream, page>>
  BY DEF Project
<1>2. c.seq = server.seq + 1
  OBVIOUS
<1> HIDE DEF c
<1>3. /\ server'.rev = server.rev + 1 /\ server'.epoch = server.epoch
      /\ server'.seq = server.seq + 1 /\ server'.rows = [server.rows EXCEPT ![i] = c]
  BY <1>1, Known
<1>4. server'.rows[i] = c /\ \A j \in Items : j # i => server'.rows[j] = server.rows[j]
  BY <1>3, Known DEF Rows
<1>5. server.rev \in Nat /\ server.seq \in Nat /\ server.epoch \in Nat
  BY Known
<1>6. \A j \in Items : server'.rows[j] = server.rows[j] \/ server'.rows[j].seq > server.seq
  BY <1>2, <1>4, <1>5
<1>7. RowAdvances
  BY <1>3, <1>5, <1>6 DEF RowAdvances
<1>8. RowsNumbered'
  <2>1. RowsNumbered /\ ServerInv
    BY DEF CInv, IInv
  <2>2. \A j \in Items : server'.rows[j].seq <= server'.seq
    BY <1>2, <1>3, <1>4, <1>5, <2>1, RowNumbers DEF RowsNumbered
  <2>3. unsent'.content = server'.rows[unsent'.item]
    BY <1>1, <1>4
  <2>4. server'.epoch >= 1
    BY <1>3, <2>1 DEF RowsNumbered
  <2> QED
    BY <2>2, <2>3, <2>4 DEF RowsNumbered
<1>9. IInv'
  BY ProjectGood
<1> QED
  BY <1>1, <1>7, <1>8, <1>9, RowStep

LEMMA TouchCurrent == ASSUME IInv, CInv, Touch PROVE CInv' /\ (Recoverable => Recoverable')
<1>1. server' = [server EXCEPT !.rev = @ + 1] /\ UNCHANGED <<unsent, notes, stream, page>>
  BY DEF Touch
<1>2. /\ server'.rev = server.rev + 1 /\ server'.epoch = server.epoch
      /\ server'.seq = server.seq /\ server'.rows = server.rows
  BY <1>1, Known
<1>3. server.rev \in Nat /\ server.seq \in Nat /\ server.epoch \in Nat
  BY Known
<1>4. RowAdvances
  BY <1>2, <1>3 DEF RowAdvances
<1>5. RowsNumbered'
  BY <1>1, <1>2 DEF CInv, RowsNumbered
<1>6. IInv'
  BY TouchGood
<1> QED
  BY <1>1, <1>4, <1>5, <1>6, RowStep

LEMMA RewriteCurrent ==
  ASSUME IInv, CInv, NEW gone \in Items, NEW sourced \in BOOLEAN, Rewrite(gone, sourced)
  PROVE  CInv' /\ (Recoverable => Recoverable')
<1> DEFINE s(i) == IF sourced THEN 0 ELSE server.rows[i].seq
           b == [i \in Items |-> IF i # gone /\ server.rows[i] # Absent
                                   THEN [gen |-> server.epoch + 1, seq |-> s(i)] ELSE Absent]
<1>1. server' = [server EXCEPT !.rev = @ + 1, !.epoch = @ + 1, !.rows = b]
  BY DEF Rewrite
<1>2. UNCHANGED <<unsent, notes, stream, page>> /\ unsent.content = Absent
  BY DEF Rewrite
<1>3. ServerInv /\ RowsNumbered
  BY DEF IInv, CInv
<1>4. server.rev \in Nat /\ server.seq \in Nat /\ server.epoch \in Nat
  BY Known
<1>5. \A i \in Items : b[i].seq <= server.seq
  <2>1. \A i \in Items : s(i) <= server.seq
    BY <1>3, <1>4 DEF RowsNumbered
  <2> HIDE DEF s
  <2> QED
    BY <1>4, <2>1 DEF Absent
<1> HIDE DEF b
<1>6. /\ server'.rev = server.rev + 1 /\ server'.epoch = server.epoch + 1
      /\ server'.seq = server.seq /\ server'.rows = b
  BY <1>1, Known
<1>7. RowAdvances
  BY <1>4, <1>6 DEF RowAdvances
<1>8. RowsNumbered'
  <2>1. server'.epoch >= 1
    BY <1>4, <1>6
  <2>2. \A i \in Items : server'.rows[i].seq <= server'.seq
    BY <1>5, <1>6
  <2>3. unsent'.content = Absent
    BY <1>2
  <2> QED
    BY <2>1, <2>2, <2>3 DEF RowsNumbered
<1>9. IInv'
  BY RewriteGood
<1> QED
  BY <1>2, <1>7, <1>8, <1>9, RowStep

\* A step that leaves the row alone.
LEMMA PageMoves ==
  ASSUME UNCHANGED server, NEW q, page' = q, PageCurrent(q),
         AfterFrames(q.sync)', AfterFrames(q.panel)'
  PROVE  PageCurrent(page)' /\ (CanCatchUp(q) => CanCatchUp(page)')
<1>1. PageBehind(q)'
  BY DEF PageCurrent, PageBehind, Behind
<1>2. LoadCurrent(q.sync, q)' /\ LoadCurrent(q.panel, q)'
  <2>1. ASSUME NEW l, LoadCurrent(l, q), AfterFrames(l)' PROVE LoadCurrent(l, q)'
    <3>1. Numbered(l, q.cursor)' /\ Now(l)' /\ Since(l, q.observed, q.cursor)'
      BY <2>1 DEF LoadCurrent, Numbered, Now, Since, Read, Underway
    <3>2. Covers(l)'
      BY <2>1 DEF LoadCurrent, Covers, Behind
    <3> QED
      BY <2>1, <3>1, <3>2 DEF LoadCurrent
  <2>2. PICK l : l = q.sync
    OBVIOUS
  <2>3. PICK m : m = q.panel
    OBVIOUS
  <2>4. LoadCurrent(l, q) /\ LoadCurrent(m, q)
    BY <2>2, <2>3 DEF PageCurrent, LoadsCurrent
  <2>5. AfterFrames(l)' /\ AfterFrames(m)'
    BY <2>2, <2>3
  <2>6. LoadCurrent(l, q)' /\ LoadCurrent(m, q)'
    BY <2>1, <2>4, <2>5
  <2> QED
    BY <2>2, <2>3, <2>6
<1>3. Ordered(q.sync, q.panel)' /\ Ordered(q.panel, q.sync)'
  BY DEF PageCurrent, LoadsCurrent, Ordered, Since, Read, Underway
<1>4. PageCurrent(q)'
  BY <1>1, <1>2, <1>3 DEF PageCurrent, LoadsCurrent
<1>5. PageCurrent(page)'
  BY <1>4, NextPage
<1>6. CanCatchUp(q) => CanCatchUp(page)'
  BY DEF CanCatchUp
<1> QED
  BY <1>5, <1>6

\* A step of the page alone: to a page that follows the one it was, or keeps up as it did.
LEMMA PageStepCurrent ==
  ASSUME CInv, UNCHANGED <<server, unsent, notes>>, stream'.wire = stream.wire,
         PageCurrent(page'), CanCatchUp(page) => CanCatchUp(page')
  PROVE  CInv' /\ (Recoverable => Recoverable')
<1>1. PICK q : q = page'
  OBVIOUS
<1>2. PageCurrent(q) /\ (CanCatchUp(page) => CanCatchUp(q))
  BY <1>1
<1>3. AfterFrames(q.sync)' /\ AfterFrames(q.panel)'
  BY <1>2 DEF PageCurrent, LoadsCurrent, LoadCurrent, AfterFrames, Since, Read, Underway
<1>4. PageCurrent(page)' /\ (CanCatchUp(q) => CanCatchUp(page)')
  BY <1>1, <1>2, <1>3, PageMoves
<1>5. RowsNumbered' /\ WireBehind'
  BY DEF CInv, RowsNumbered, WireBehind, FrameBehind, Behind
<1> QED
  BY <1>2, <1>4, <1>5 DEF CInv, Recoverable, CanCatchUp

LEMMA FollowsStep ==
  ASSUME IInv, CInv, UNCHANGED <<server, unsent, notes>>, stream'.wire = stream.wire,
         NEW q, page' = q, WellFormed(q, server.rev, server.epoch), Follows(page, q)
  PROVE  CInv' /\ (Recoverable => Recoverable')
<1>1. PICK p : p = page
  OBVIOUS
<1>2. PICK R : R = server.rev
  OBVIOUS
<1>3. PICK E : E = server.epoch
  OBVIOUS
<1>4. WellFormed(p, R, E) /\ WellFormed(q, R, E)
  BY <1>1, <1>2, <1>3, Known
<1>5. Follows(p, q)
  BY <1>1
<1>6. PageCurrent(p) /\ ServerInv
  BY <1>1 DEF CInv, IInv
<1>7. PageCurrent(q) /\ (CanCatchUp(p) => CanCatchUp(q))
  BY <1>4, <1>5, <1>6, FollowsCurrent
<1>8. PageCurrent(page') /\ (CanCatchUp(page) => CanCatchUp(page'))
  BY <1>1, <1>7
<1> QED
  BY <1>8, PageStepCurrent

\* A step of the stream: a frame f that is behind the row may be under way then.
LEMMA StreamStep ==
  ASSUME IInv, CInv, UNCHANGED <<server, page>>, NEW f, FrameBehind(f),
         f.op = "item" => f.rev = server.rev,
         \A k \in 1..Len(stream'.wire) :
           stream'.wire[k] = f \/ \E j \in 1..Len(stream.wire) : stream'.wire[k] = stream.wire[j],
         \A g \in notes' : g.op # "item", unsent' = unsent \/ unsent'.content = Absent
  PROVE  CInv' /\ (Recoverable => Recoverable')
<1>1. PICK p : p = page
  OBVIOUS
<1>2. /\ PageCurrent(p) /\ WellFormed(p, server.rev, server.epoch) /\ ServerInv
      /\ RowsNumbered /\ WireBehind
  BY <1>1, Known DEF CInv, IInv
<1>3. p.sync \in Load /\ p.panel \in Load
  BY <1>2, PageNumbers
<1>4. ASSUME NEW l \in Load, GoodLoad(l, server.rev, server.epoch), LoadCurrent(l, p)
      PROVE  AfterFrames(l)'
  <2>1. ASSUME f.op = "item" PROVE Since(l, f.rev, f.content.seq)
    <3>1. ASSUME Read(l), l.ans.rev >= f.rev PROVE l.ans.cursor >= f.content.seq
      <4>1. l.ans.rev \in Nat /\ server.rev \in Nat /\ l.ans.rev <= server.rev
        BY <1>2, <1>4, LoadNumbers, RowNumbers DEF GoodLoad
      <4>2. l.ans.rev = server.rev
        BY <2>1, <3>1, <4>1
      <4>3. l.ans.cursor = server.seq
        BY <1>4, <3>1, <4>2 DEF LoadCurrent, Now
      <4> QED
        BY <2>1, <4>3 DEF FrameBehind
    <3> QED
      BY <3>1 DEF Since
  <2>2. ASSUME NEW j \in 1..Len(stream.wire), stream.wire[j].op = "item"
        PROVE  Since(l, stream.wire[j].rev, stream.wire[j].content.seq)
    BY <1>4, <2>2 DEF LoadCurrent, AfterFrames
  <2>3. ASSUME NEW k \in 1..Len(stream'.wire), stream'.wire[k].op = "item"
        PROVE  Since(l, stream'.wire[k].rev, stream'.wire[k].content.seq)
    <3>1. CASE stream'.wire[k] = f
      BY <2>1, <2>3, <3>1
    <3>2. CASE \E j \in 1..Len(stream.wire) : stream'.wire[k] = stream.wire[j]
      BY <2>2, <2>3, <3>2
    <3> QED
      BY <3>1, <3>2
  <2> QED
    BY <2>3 DEF AfterFrames, Since, Read, Underway
<1>5. AfterFrames(p.sync)' /\ AfterFrames(p.panel)'
  <2>1. PICK l \in Load : l = p.sync
    BY <1>3
  <2>2. PICK m \in Load : m = p.panel
    BY <1>3
  <2>3. /\ LoadCurrent(l, p) /\ LoadCurrent(m, p)
        /\ GoodLoad(l, server.rev, server.epoch) /\ GoodLoad(m, server.rev, server.epoch)
    BY <1>2, <2>1, <2>2 DEF PageCurrent, LoadsCurrent, WellFormed
  <2>4. AfterFrames(l)' /\ AfterFrames(m)'
    BY <1>4, <2>3
  <2> QED
    BY <2>1, <2>2, <2>4
<1>6. PageCurrent(page)' /\ (CanCatchUp(p) => CanCatchUp(page)')
  <2>1. page' = p
    BY <1>1
  <2> QED
    BY <1>2, <1>5, <2>1, PageMoves
<1>7. RowsNumbered'
  BY <1>2 DEF RowsNumbered
<1>8. WireBehind'
  <2>1. \A k \in 1..Len(stream'.wire) : FrameBehind(stream'.wire[k])
    BY <1>2 DEF WireBehind
  <2>2. ASSUME NEW k \in 1..Len(stream'.wire) PROVE FrameBehind(stream.wire[k])'
    <3>1. PICK g : g = stream'.wire[k]
      OBVIOUS
    <3>2. FrameBehind(g)
      BY <2>1, <3>1
    <3>3. FrameBehind(g)'
      BY <3>2 DEF FrameBehind, Behind
    <3> QED
      BY <3>1, <3>3 DEF FrameBehind, Behind
  <2> QED
    BY <2>2 DEF WireBehind, FrameBehind, Behind
<1> QED
  BY <1>1, <1>6, <1>7, <1>8 DEF CInv, Recoverable, CanCatchUp

\* A frame that is sent is the last one under way.
LEMMA SentLast ==
  ASSUME IInv, NEW f \in Frame, Sent(f)
  PROVE  \A k \in 1..Len(stream'.wire) :
           stream'.wire[k] = f \/ \E j \in 1..Len(stream.wire) : stream'.wire[k] = stream.wire[j]
<1>1. stream.wire \in Seq(Frame) /\ Len(stream.wire) \in Nat
  BY DEF IInv, WireInv
<1>2. CASE UNCHANGED stream
  BY <1>2
<1>3. CASE Len(stream.wire) < MaxWire /\ stream' = [stream EXCEPT !.wire = Append(@, f)]
  <2>1. stream'.wire = Append(stream.wire, f)
    BY <1>3, Zenon DEF IInv, WireInv
  <2>2. /\ Len(stream'.wire) = Len(stream.wire) + 1
        /\ \A k \in 1..Len(stream'.wire) :
             stream'.wire[k] = IF k = Len(stream.wire) + 1 THEN f ELSE stream.wire[k]
    BY <1>1, <2>1
  <2> TAKE k \in 1..Len(stream'.wire)
  <2>3. k = Len(stream.wire) + 1 \/ k \in 1..Len(stream.wire)
    BY <1>1, <2>2
  <2>4. CASE k = Len(stream.wire) + 1
    BY <2>2, <2>4
  <2>5. CASE k \in 1..Len(stream.wire)
    <3>1. stream'.wire[k] = stream.wire[k]
      BY <1>1, <2>2, <2>5
    <3> QED
      BY <2>5, <3>1
  <2> QED
    BY <2>3, <2>4, <2>5
<1> QED
  BY <1>2, <1>3 DEF Sent

LEMMA BroadcastCurrent == ASSUME IInv, CInv, Broadcast PROVE CInv' /\ (Recoverable => Recoverable')
<1>1. PICK f : f = [op |-> "item", rev |-> server.rev, epoch |-> server.epoch,
                    item |-> unsent.item, content |-> unsent.content]
  OBVIOUS
<1>2. unsent \in [item : Items, content : Content] /\ unsent.content # Absent
  BY DEF Broadcast, IInv, ServerInv
<1>3. f \in Frame /\ f.rev = server.rev
  BY <1>1, <1>2, Known DEF Frame
<1>4. /\ Sent(f) /\ unsent' = [unsent EXCEPT !.content = Absent]
      /\ UNCHANGED <<server, notes, page>>
  BY <1>1 DEF Broadcast
<1>5. FrameBehind(f)
  <2>1. RowsNumbered
    BY DEF CInv
  <2>2. /\ f.content = server.rows[f.item] /\ f.item \in Items /\ f.epoch = server.epoch
        /\ server.epoch \in Nat
    BY <1>1, <1>2, <2>1, Known DEF RowsNumbered
  <2>3. f.content.seq <= server.seq /\ f.epoch <= server.epoch
    BY <2>1, <2>2 DEF RowsNumbered
  <2> QED
    BY <2>2, <2>3 DEF FrameBehind, Behind
<1>6. unsent'.content = Absent
  BY <1>2, <1>4
<1>7. \A g \in notes' : g.op # "item"
  BY <1>4 DEF CInv, WireBehind
<1>8. \A k \in 1..Len(stream'.wire) :
        stream'.wire[k] = f \/ \E j \in 1..Len(stream.wire) : stream'.wire[k] = stream.wire[j]
  BY <1>3, <1>4, SentLast
<1>9. UNCHANGED <<server, page>>
  BY <1>4
<1> QED
  BY <1>3, <1>5, <1>6, <1>7, <1>8, <1>9, StreamStep

LEMMA SendNoteCurrent ==
  ASSUME IInv, CInv, NEW f \in notes, SendNote(f)
  PROVE  CInv' /\ (Recoverable => Recoverable')
<1>1. Sent(f) /\ notes' \subseteq notes /\ UNCHANGED <<server, unsent, page>>
  BY DEF SendNote
<1>2. f \in Frame /\ f.op # "item"
  BY DEF IInv, CInv, WireInv, GoodFrame, WireBehind
<1>3. FrameBehind(f)
  BY <1>2 DEF FrameBehind
<1>4. \A g \in notes' : g.op # "item"
  BY <1>1 DEF CInv, WireBehind
<1>5. \A k \in 1..Len(stream'.wire) :
        stream'.wire[k] = f \/ \E j \in 1..Len(stream.wire) : stream'.wire[k] = stream.wire[j]
  BY <1>1, <1>2, SentLast
<1> QED
  BY <1>1, <1>2, <1>3, <1>4, <1>5, StreamStep

\* Steps that change other things of the stream, or read a record for a frame, or for an answer.
LEMMA QuietCurrent ==
  ASSUME IInv, CInv,
         \/ Heartbeat \/ Disconnect \/ Reconnect
         \/ \E op \in {"session", "resync"} : Note(op)
         \/ \E op \in {"reconcile", "goal"} : Ask(op)
  PROVE  CInv' /\ (Recoverable => Recoverable')
<1>1. UNCHANGED <<server, unsent, page>>
  BY DEF Heartbeat, Disconnect, Reconnect, Note, Ask
<1>2. PICK f : f = [op |-> "session"]
  OBVIOUS
<1>3. FrameBehind(f) /\ f.op # "item"
  BY <1>2 DEF FrameBehind
<1>4. \A g \in notes' : g.op # "item"
  <2>1. CASE UNCHANGED notes
    BY <2>1 DEF CInv, WireBehind
  <2>2. ASSUME NEW op \in {"session", "resync"}, Note(op) PROVE \A g \in notes' : g.op # "item"
    BY <2>2 DEF Note
  <2> QED
    BY <2>1, <2>2 DEF Heartbeat, Disconnect, Reconnect, Ask
<1>5. stream'.wire = stream.wire \/ stream'.wire = <<>>
  <2>1. stream \in [open : BOOLEAN, focus : BOOLEAN, beat : BOOLEAN, wire : Seq(Frame)]
    BY DEF IInv, WireInv
  <2>2. CASE Heartbeat
    <3>1. stream' = [stream EXCEPT !.focus = stream.beat]
      BY <2>2 DEF Heartbeat
    <3> QED
      BY <2>1, <3>1, Zenon
  <2>3. CASE Disconnect
    BY <2>3 DEF Disconnect
  <2>4. CASE Reconnect
    <3>1. stream' = [stream EXCEPT !.open = TRUE, !.beat = page.focused]
      BY <2>4 DEF Reconnect
    <3> QED
      BY <2>1, <3>1
  <2>5. CASE UNCHANGED stream
    BY <2>5
  <2> QED
    BY <2>2, <2>3, <2>4, <2>5 DEF Note, Ask
<1>6. \A k \in 1..Len(stream'.wire) :
        stream'.wire[k] = f \/ \E j \in 1..Len(stream.wire) : stream'.wire[k] = stream.wire[j]
  <2>1. CASE stream'.wire = stream.wire
    BY <2>1
  <2>2. CASE stream'.wire = <<>>
    <3>1. Len(stream'.wire) = 0
      BY <2>2
    <3> QED
      BY <3>1
  <2> QED
    BY <1>5, <2>1, <2>2
<1>7. UNCHANGED <<server, page>> /\ UNCHANGED unsent
  BY <1>1
<1> QED
  BY <1>3, <1>4, <1>6, <1>7, StreamStep

\* The page, the revision and the epoch of a state, named.
LEMMA Named ==
  ASSUME IInv, CInv
  PROVE  \E p, R, E : /\ p = page /\ R = server.rev /\ E = server.epoch
                      /\ R \in Revisions /\ E \in Epochs /\ WellFormed(p, R, E)
                      /\ From(p.blocks, p.epoch) /\ PageCurrent(p)
BY Known DEF CInv

LEMMA RespondCurrent ==
  ASSUME IInv, CInv, NEW who \in Loads, Respond(who)
  PROVE  CInv' /\ (Recoverable => Recoverable')
<1>1. PICK p, R, E : /\ p = page /\ R = server.rev /\ E = server.epoch
                     /\ R \in Revisions /\ E \in Epochs /\ WellFormed(p, R, E)
                     /\ From(p.blocks, p.epoch) /\ PageCurrent(p)
  BY Named
<1>2. PICK o \in Loads : o = Other(who)
  BY DEF Other, Loads
<1>3. PICK c : c = CaughtUp(p, who)
  OBVIOUS
<1>4. PICK s : s = Snapshotted(p, who)
  OBVIOUS
<1>5. PICK t : t = Snapshotted(s, o)
  OBVIOUS
<1>6. UNCHANGED <<server, unsent, notes, stream>> /\ p[who].pc = "answered"
  BY <1>1 DEF Respond
<1>7. ServerInv /\ E <= server.epoch
  BY <1>1, Known DEF IInv
<1>8. ASSUME p[who].kind = "catchUp" PROVE PageCurrent(c) /\ (CanCatchUp(p) => CanCatchUp(c))
  BY <1>1, <1>3, <1>6, <1>7, <1>8, CaughtUpCurrent
<1>9. ASSUME p[who].kind = "snapshot" PROVE PageCurrent(s) /\ (CanCatchUp(p) => CanCatchUp(s))
  BY <1>1, <1>4, <1>6, <1>7, <1>9, SnapshottedCurrent
<1>10. /\ WellFormed(s, R, E) /\ From(s.blocks, s.epoch) /\ s[o] = p[o]
  BY <1>1, <1>2, <1>4, <1>6, SnapshottedPage
<1>11. ASSUME p.sync = p.panel, p[who].kind = "snapshot"
       PROVE  PageCurrent(t) /\ (CanCatchUp(p) => CanCatchUp(t))
  <2>1. p[o] = p[who]
    BY <1>11 DEF Loads
  <2>2. s[o].pc = "answered" /\ s[o].kind = "snapshot"
    BY <1>6, <1>10, <1>11, <2>1
  <2>3. PageCurrent(t) /\ (CanCatchUp(s) => CanCatchUp(t))
    BY <1>1, <1>5, <1>7, <1>9, <1>10, <1>11, <2>2, SnapshottedCurrent
  <2> QED
    BY <1>9, <1>11, <2>3
<1>12. p[who].kind \in {"catchUp", "snapshot"}
  <2>1. p[who] \in Load
    BY <1>1, LoadOf
  <2> QED
    BY <2>1 DEF Load, Modes
<1>13. \/ p[who].kind = "catchUp" /\ page' = c
       \/ p[who].kind = "snapshot" /\ page' = s
       \/ p[who].kind = "snapshot" /\ p.sync = p.panel /\ page' = t
  BY <1>1, <1>2, <1>3, <1>4, <1>5, <1>12 DEF Respond, Shared
<1>14. PageCurrent(page') /\ (CanCatchUp(page) => CanCatchUp(page'))
  BY <1>1, <1>8, <1>9, <1>11, <1>13
<1>15. stream'.wire = stream.wire /\ UNCHANGED <<server, unsent, notes>>
  BY <1>6
<1> QED
  BY <1>14, <1>15, PageStepCurrent

LEMMA FailCurrent ==
  ASSUME IInv, CInv, NEW who \in Loads, Fail(who)
  PROVE  CInv' /\ (Recoverable => Recoverable')
<1>1. PICK p, R, E : /\ p = page /\ R = server.rev /\ E = server.epoch
                     /\ R \in Revisions /\ E \in Epochs /\ WellFormed(p, R, E)
                     /\ From(p.blocks, p.epoch) /\ PageCurrent(p)
  BY Named
<1>2. PICK o : o = Over(p, "panel")
  OBVIOUS
<1>3. PICK s : s = Ended(o, "sync")
  OBVIOUS
<1>4. PICK e : e = Ended(p, who)
  OBVIOUS
<1>5. ServerInv /\ "panel" \in Loads /\ "sync" \in Loads
  BY DEF IInv, Loads
<1>6. WellFormed(o, R, E) /\ Follows(p, o)
  BY <1>1, <1>2, <1>5, OverPage, EndedFollows
<1>7. WellFormed(s, R, E) /\ Follows(o, s)
  BY <1>1, <1>3, <1>5, <1>6, EndedPage, EndedFollows
<1>8. WellFormed(e, R, E) /\ Follows(p, e)
  BY <1>1, <1>4, <1>5, EndedPage, EndedFollows
<1>9. Follows(p, s)
  BY <1>1, <1>6, <1>7, FollowsAgain
<1>10. page' = s \/ page' = e
  BY <1>1, <1>2, <1>3, <1>4 DEF Fail
<1>11. PICK q : q = page'
  OBVIOUS
<1>12. WellFormed(q, server.rev, server.epoch) /\ Follows(page, q)
  BY <1>1, <1>7, <1>8, <1>9, <1>10, <1>11
<1>13. stream'.wire = stream.wire /\ UNCHANGED <<server, unsent, notes>>
  BY DEF Fail
<1> QED
  BY <1>11, <1>12, <1>13, FollowsStep

LEMMA TimersCurrent ==
  ASSUME IInv, CInv, Fire \/ Elapse \/ Age
  PROVE  CInv' /\ (Recoverable => Recoverable')
<1>1. PICK p, R, E : /\ p = page /\ R = server.rev /\ E = server.epoch
                     /\ R \in Revisions /\ E \in Epochs /\ WellFormed(p, R, E)
                     /\ From(p.blocks, p.epoch) /\ PageCurrent(p)
  BY Named
<1>2. PICK q : q = page'
  OBVIOUS
<1>3. ServerInv /\ IInv'
  BY TimersGood DEF IInv
<1>4. stream'.wire = stream.wire /\ UNCHANGED <<server, unsent, notes>>
  BY DEF Fire, Elapse, Age
<1>5. WellFormed(q, R, E)
  BY <1>1, <1>2, <1>3, <1>4 DEF IInv, PageInv
<1>6. CASE Fire
  <2>1. PICK x : x = [p EXCEPT !.timer = FALSE]
    OBVIOUS
  <2>2. Follows(p, x)
    BY <1>1, <2>1, FollowsApart
  <2>3. p \in Page
    BY <1>1 DEF WellFormed
  <2>4. /\ x \in Page /\ x.hydrated = p.hydrated /\ x.applied = p.applied
        /\ x.observed = p.observed /\ x.sync = p.sync /\ x.panel = p.panel
    BY <2>1, <2>3 DEF Page
  <2>5. WellFormed(x, R, E)
    BY <1>1, <2>4 DEF WellFormed
  <2>6. q = Start(x)
    BY <1>1, <1>2, <1>6, <2>1 DEF Fire
  <2>7. Follows(x, q)
    BY <1>1, <1>3, <2>5, <2>6, StartFollows
  <2> QED
    BY <1>1, <1>5, <2>2, <2>5, <2>7, FollowsAgain, <1>2, <1>4, FollowsStep
<1>7. CASE Elapse \/ Age
  <2>1. PICK a : q = [p EXCEPT !.attempt = a]
    <3>1. CASE Elapse
      <4>1. PICK a : a = [p.attempt EXCEPT !.wait = FALSE]
        OBVIOUS
      <4>2. q = [p EXCEPT !.attempt = a]
        BY <1>1, <1>2, <3>1, <4>1 DEF Elapse
      <4> QED
        BY <4>2
    <3>2. CASE Age
      <4>1. PICK a : a = [p.attempt EXCEPT !.aged = TRUE]
        OBVIOUS
      <4>2. q = [p EXCEPT !.attempt = a]
        BY <1>1, <1>2, <3>2, <4>1 DEF Age
      <4> QED
        BY <4>2
    <3> QED
      BY <1>7, <3>1, <3>2
  <2>2. Follows(p, q)
    BY <1>1, <2>1, FollowsApart
  <2> QED
    BY <1>1, <1>2, <1>4, <1>5, <2>2, FollowsStep
<1> QED
  BY <1>6, <1>7

\* The session is shown: the page catches up.
LEMMA FocusCurrent ==
  ASSUME IInv, CInv, Focus \/ Refresh
  PROVE  CInv' /\ (Recoverable => Recoverable')
<1>1. PICK p, R, E : /\ p = page /\ R = server.rev /\ E = server.epoch
                     /\ R \in Revisions /\ E \in Epochs /\ WellFormed(p, R, E)
                     /\ From(p.blocks, p.epoch) /\ PageCurrent(p)
  BY Named
<1>2. PICK x : x = [p EXCEPT !.focused = TRUE]
  OBVIOUS
<1>3. PICK c : c = CatchUp(x, "panel", FALSE)
  OBVIOUS
<1>4. PICK d : d = CatchUp(p, "panel", FALSE)
  OBVIOUS
<1>5. page' \in {c, d}
  BY <1>1, <1>2, <1>3, <1>4 DEF Focus, Refresh
<1>6. ServerInv /\ "panel" \in Loads
  BY DEF IInv, Loads
<1>7. p \in Page
  BY <1>1 DEF WellFormed
<1>8. /\ x \in Page /\ x.hydrated = p.hydrated /\ x.applied = p.applied
      /\ x.observed = p.observed /\ x.sync = p.sync /\ x.panel = p.panel
  BY <1>2, <1>7 DEF Page
<1>9. WellFormed(x, R, E)
  BY <1>1, <1>8 DEF WellFormed
<1>10. Follows(p, x)
  BY <1>1, <1>2, FollowsApart
<1>11. WellFormed(c, R, E) /\ Follows(x, c)
  BY <1>1, <1>3, <1>6, <1>9, CatchesUp, CatchUpFollows
<1>12. WellFormed(d, R, E) /\ Follows(p, d)
  BY <1>1, <1>4, <1>6, CatchesUp, CatchUpFollows
<1>13. Follows(p, c)
  BY <1>1, <1>9, <1>10, <1>11, FollowsAgain
<1>14. PICK q : q = page'
  OBVIOUS
<1>15. WellFormed(q, server.rev, server.epoch) /\ Follows(page, q)
  BY <1>1, <1>5, <1>11, <1>12, <1>13, <1>14
<1>16. stream'.wire = stream.wire /\ UNCHANGED <<server, unsent, notes>>
  <2>1. stream \in [open : BOOLEAN, focus : BOOLEAN, beat : BOOLEAN, wire : Seq(Frame)]
    BY DEF IInv, WireInv
  <2>2. stream' = [stream EXCEPT !.beat = stream.open] \/ UNCHANGED stream
    BY DEF Focus, Refresh
  <2>3. stream'.wire = stream.wire
    BY <2>1, <2>2
  <2> QED
    BY <2>3 DEF Focus, Refresh
<1> QED
  BY <1>14, <1>15, <1>16, FollowsStep

\* The session is left.
LEMMA LeaveCurrent ==
  ASSUME IInv, CInv, NEW aborted \in BOOLEAN, Leave(aborted)
  PROVE  CInv' /\ (Recoverable => Recoverable')
<1>1. PICK p, R, E : /\ p = page /\ R = server.rev /\ E = server.epoch
                     /\ R \in Revisions /\ E \in Epochs /\ WellFormed(p, R, E)
                     /\ From(p.blocks, p.epoch) /\ PageCurrent(p)
  BY Named
<1>2. PICK x : x = [p EXCEPT !.focused = FALSE]
  OBVIOUS
<1>3. PICK c : c = Cancelled(x)
  OBVIOUS
<1>4. PICK l : l = IF aborted THEN NoLoad ELSE c.panel
  OBVIOUS
<1>5. PICK q : q = [c EXCEPT !["panel"] = l]
  OBVIOUS
<1>6. page' = q
  BY <1>1, <1>2, <1>3, <1>4, <1>5 DEF Leave
<1>7. ServerInv /\ "panel" \in Loads
  BY DEF IInv, Loads
<1>8. p \in Page
  BY <1>1 DEF WellFormed
<1>9. /\ x \in Page /\ x.hydrated = p.hydrated /\ x.applied = p.applied
      /\ x.observed = p.observed /\ x.sync = p.sync /\ x.panel = p.panel
  BY <1>2, <1>8 DEF Page
<1>10. WellFormed(x, R, E)
  BY <1>1, <1>9 DEF WellFormed
<1>11. Follows(p, x)
  BY <1>1, <1>2, FollowsApart
<1>12. WellFormed(c, R, E) /\ Follows(x, c)
  BY <1>1, <1>3, <1>7, <1>10, CancelledPage, CancelledFollows
<1>13. l \in {c.sync, c.panel} \/ Unanswered(l, c.cursor)
  <2>1. c.cursor \in Events
    BY <1>12, PageNumbers
  <2>2. Unanswered(NoLoad, c.cursor)
    BY <1>7, <2>1, NoLoadUnanswered
  <2> QED
    BY <1>4, <2>2
<1>14. Follows(c, q)
  BY <1>5, <1>7, <1>12, <1>13, FollowsLoad
<1>15. WellFormed(q, R, E)
  <2>1. GoodLoad(l, R, E)
    BY <1>1, <1>4, <1>12, Nothing DEF WellFormed
  <2> QED
    BY <1>1, <1>5, <1>7, <1>12, <2>1, SetLoad
<1>16. Follows(p, c)
  BY <1>1, <1>10, <1>11, <1>12, FollowsAgain
<1>17. Follows(p, q)
  BY <1>1, <1>12, <1>14, <1>15, <1>16, FollowsAgain
<1>18. WellFormed(q, server.rev, server.epoch) /\ Follows(page, q)
  BY <1>1, <1>15, <1>17
<1>19. stream'.wire = stream.wire /\ UNCHANGED <<server, unsent, notes>>
  <2>1. stream \in [open : BOOLEAN, focus : BOOLEAN, beat : BOOLEAN, wire : Seq(Frame)]
    BY DEF IInv, WireInv
  <2>2. stream' = [stream EXCEPT !.beat = FALSE]
    BY DEF Leave
  <2>3. stream'.wire = stream.wire
    BY <2>1, <2>2
  <2> QED
    BY <2>3 DEF Leave
<1> QED
  BY <1>6, <1>18, <1>19, FollowsStep

\* A reply arrives.
LEMMA AnsweredCurrent == ASSUME IInv, CInv, Answered PROVE CInv' /\ (Recoverable => Recoverable')
<1>1. PICK p, R, E : /\ p = page /\ R = server.rev /\ E = server.epoch
                     /\ R \in Revisions /\ E \in Epochs /\ WellFormed(p, R, E)
                     /\ From(p.blocks, p.epoch) /\ PageCurrent(p)
  BY Named
<1>2. PICK r : r = reply.rev
  OBVIOUS
<1>3. r \in Revisions /\ r <= R
  BY <1>1, <1>2 DEF IInv, ReplyInv
<1>4. PICK m : m = MarkApplied([p EXCEPT !.known = r], r)
  OBVIOUS
<1>5. PICK c : c = Reconciled(p, r)
  OBVIOUS
<1>6. page' \in {m, c}
  BY <1>1, <1>2, <1>4, <1>5 DEF Answered
<1>7. WellFormed(m, R, E) /\ WellFormed(c, R, E)
  BY <1>1, <1>3, <1>4, <1>5, ReconciledPage
<1>8. Follows(p, m) /\ Follows(p, c)
  <2>1. ServerInv
    BY DEF IInv
  <2> QED
    BY <1>1, <1>3, <1>4, <1>5, <2>1, ReconciledFollows
<1>9. PICK q : q = page'
  OBVIOUS
<1>10. WellFormed(q, server.rev, server.epoch) /\ Follows(page, q)
  BY <1>1, <1>6, <1>7, <1>8, <1>9
<1>11. stream'.wire = stream.wire /\ UNCHANGED <<server, unsent, notes>>
  BY DEF Answered
<1> QED
  BY <1>9, <1>10, <1>11, FollowsStep

\* A frame is delivered.  One that carries an item may take the cursor past another item.
LEMMA DeliverCurrent ==
  ASSUME IInv, CInv, Deliver
  PROVE  CInv' /\ (Recoverable /\ ~Framing => Recoverable')
<1>1. PICK p, R, E : /\ p = page /\ R = server.rev /\ E = server.epoch
                     /\ R \in Revisions /\ E \in Epochs /\ WellFormed(p, R, E)
                     /\ From(p.blocks, p.epoch) /\ PageCurrent(p)
  BY Named
<1>2. PICK f : f = Head(stream.wire)
  OBVIOUS
<1>3. PICK q : q = Framed(p, f)
  OBVIOUS
<1>4. /\ stream.wire # <<>> /\ page' = q /\ stream' = [stream EXCEPT !.wire = Tail(@)]
      /\ UNCHANGED <<server, unsent, notes>>
  BY <1>1, <1>2, <1>3 DEF Deliver
<1>5. stream.wire \in Seq(Frame) /\ Len(stream.wire) \in Nat /\ Len(stream.wire) > 0
  BY <1>4 DEF IInv, WireInv
<1>6. f = stream.wire[1] /\ 1 \in 1..Len(stream.wire)
  BY <1>2, <1>5
<1>7. GoodFrame(f, R) /\ FrameBehind(f)
  BY <1>1, <1>6 DEF IInv, WireInv, CInv, WireBehind
<1>8. ServerInv /\ server.epoch >= 1 /\ RowsNumbered
  BY DEF IInv, CInv, RowsNumbered
<1>9. f.op = "item" => \A l \in {p.sync, p.panel} : Since(l, f.rev, f.content.seq)
  BY <1>1, <1>6 DEF PageCurrent, LoadsCurrent, LoadCurrent, AfterFrames
<1>10. PageCurrent(q) /\ (f.op # "item" => (CanCatchUp(p) => CanCatchUp(q)))
  BY <1>1, <1>3, <1>7, <1>8, <1>9, FramedCurrent
<1>11. /\ stream'.wire = Tail(stream.wire) /\ Len(stream'.wire) = Len(stream.wire) - 1
       /\ \A k \in 1..Len(stream'.wire) :
            k + 1 \in 1..Len(stream.wire) /\ stream'.wire[k] = stream.wire[k + 1]
  <2>1. stream'.wire = Tail(stream.wire)
    BY <1>4, Zenon DEF IInv, WireInv
  <2>2. /\ Len(Tail(stream.wire)) = Len(stream.wire) - 1
        /\ \A k \in 1..Len(Tail(stream.wire)) :
             /\ k + 1 \in 1..Len(stream.wire) /\ Tail(stream.wire)[k] = stream.wire[k + 1]
    BY <1>4, <1>5
  <2> QED
    BY <2>1, <2>2
<1>12. AfterFrames(q.sync)' /\ AfterFrames(q.panel)'
  <2>1. AfterFrames(q.sync) /\ AfterFrames(q.panel)
    BY <1>10 DEF PageCurrent, LoadsCurrent, LoadCurrent
  <2> QED
    BY <1>11, <2>1 DEF AfterFrames, Since, Read, Underway
<1>13. PageCurrent(page)' /\ (CanCatchUp(q) => CanCatchUp(page)')
  BY <1>4, <1>10, <1>12, PageMoves
<1>14. WireBehind'
  <2>1. WireBehind
    BY DEF CInv
  <2>2. ASSUME NEW k \in 1..Len(stream'.wire) PROVE FrameBehind(stream.wire[k])'
    <3>1. PICK g : g = stream'.wire[k]
      OBVIOUS
    <3>2. FrameBehind(g)
      BY <1>11, <2>1, <3>1 DEF WireBehind
    <3>3. FrameBehind(g)'
      BY <1>4, <3>2 DEF FrameBehind, Behind
    <3> QED
      BY <3>1, <3>3 DEF FrameBehind, Behind
  <2>3. \A g \in notes' : g.op # "item"
    BY <1>4, <2>1 DEF WireBehind
  <2> QED
    BY <2>2, <2>3 DEF WireBehind, FrameBehind, Behind
<1>15. RowsNumbered'
  BY <1>4, <1>8 DEF RowsNumbered
<1>16. ~Framing => f.op # "item"
  BY <1>2, <1>4, <1>11 DEF Framing
<1>17. Recoverable = CanCatchUp(p) /\ Recoverable' = CanCatchUp(page)'
  BY <1>1 DEF Recoverable, CanCatchUp
<1> QED
  BY <1>10, <1>13, <1>14, <1>15, <1>16, <1>17 DEF CInv

-----------------------------------------------------------------------------
(* The server reads for the page.                                          *)

\* The loads of the page are replaced, by current ones.
LEMMA LoadsCurrentStep ==
  ASSUME NEW p, PageCurrent(p), NEW l, NEW m, NEW q,
         q.blocks = p.blocks, q.epoch = p.epoch, q.cursor = p.cursor, q.observed = p.observed,
         (q.sync = l /\ q.panel = m) \/ (q.sync = m /\ q.panel = l),
         LoadCurrent(l, p), LoadCurrent(m, p), Ordered(l, m), Ordered(m, l)
  PROVE  PageCurrent(q) /\ (CanCatchUp(p) => CanCatchUp(q))
<1>1. LoadCurrent(l, q) /\ LoadCurrent(m, q)
  BY DEF LoadCurrent
<1>2. LoadsCurrent(q)
  BY <1>1 DEF LoadsCurrent
<1>3. PageBehind(q) /\ (CanCatchUp(p) => CanCatchUp(q))
  BY DEF PageCurrent, PageBehind, CanCatchUp
<1> QED
  BY <1>2, <1>3 DEF PageCurrent

\* What is read at the current revision, with no more than the number of events that there are,
\* comes after what another load read.
LEMMA ReadLast ==
  ASSUME ServerInv, NEW l \in Load, l.ans.rev = server.rev, l.ans.cursor <= server.seq,
         NEW m \in Load, m.ans.rev <= server.rev, Now(m)
  PROVE  Ordered(m, l)
<1>1. /\ l.ans.cursor \in Nat /\ m.ans.cursor \in Nat /\ m.ans.rev \in Nat
      /\ server.rev \in Nat /\ server.seq \in Nat
  BY LoadNumbers, RowNumbers
<1>2. ASSUME Read(m), m.ans.rev >= l.ans.rev PROVE m.ans.cursor >= l.ans.cursor
  <2>1. m.ans.rev = server.rev
    BY <1>1, <1>2
  <2>2. m.ans.cursor = server.seq
    BY <1>2, <2>1 DEF Now
  <2> QED
    BY <1>1, <2>2
<1> QED
  BY <1>2 DEF Ordered, Since

\* The loads of a current page, and their answers.
LEMMA LoadsOfPage ==
  ASSUME NEW R, NEW E, NEW p, WellFormed(p, R, E), PageCurrent(p), NEW who \in Loads
  PROVE  /\ p[who] \in Load /\ LoadCurrent(p[who], p) /\ p[who].ans.rev <= R
         /\ p[who] \in {p.sync, p.panel}
BY LoadOf DEF GoodLoad, PageCurrent, LoadsCurrent, Loads

\* A record is read.
LEMMA ReadRecordCurrent ==
  ASSUME IInv, CInv, NEW who \in Loads, ReadRecord(who)
  PROVE  CInv' /\ (Recoverable => Recoverable')
<1>1. PICK p, R, E : /\ p = page /\ R = server.rev /\ E = server.epoch
                     /\ R \in Revisions /\ E \in Epochs /\ WellFormed(p, R, E)
                     /\ From(p.blocks, p.epoch) /\ PageCurrent(p)
  BY Named
<1>2. PICK d : d = p[who]
  OBVIOUS
<1>3. PICK o \in Loads : o = Other(who)
  BY DEF Other, Loads
<1>4. PICK x : x = p[o]
  OBVIOUS
<1>5. PICK a : a = [d.ans EXCEPT !.rev = R, !.epoch = E, !.cursor = server.seq]
  OBVIOUS
<1>6. PICK l : l = [d EXCEPT !.pc = "read", !.ans = a]
  OBVIOUS
<1>7. PICK m : m = IF Shared THEN l ELSE x
  OBVIOUS
<1>8. PICK q : q = [p EXCEPT ![who] = l, ![Other(who)] = m]
  OBVIOUS
<1>9. /\ page' = q /\ stream'.wire = stream.wire /\ UNCHANGED <<server, unsent, notes>>
      /\ d.kind = "snapshot"
  <2>1. /\ page' = [page EXCEPT ![who] = l, ![Other(who)] = IF Shared THEN l ELSE @]
        /\ UNCHANGED <<server, unsent, notes, stream>> /\ page[who].kind = "snapshot"
    BY <1>1, <1>2, <1>5, <1>6 DEF ReadRecord
  <2>2. page' = q
    <3>1. p \in Page
      BY <1>1 DEF WellFormed
    <3>2. Other(who) # who
      BY DEF Other, Loads
    <3> QED
      BY <1>1, <1>3, <1>4, <1>7, <1>8, <2>1, <3>1, <3>2 DEF Page, Loads
  <2> QED
    BY <1>1, <1>2, <2>1, <2>2
<1>10. /\ d \in Load /\ LoadCurrent(d, p) /\ x \in Load /\ LoadCurrent(x, p)
       /\ x.ans.rev <= server.rev
  BY <1>1, <1>2, <1>3, <1>4, LoadsOfPage
<1>11. /\ a \in Answer /\ a.rev = R /\ a.epoch = E /\ a.cursor = server.seq
       /\ a.target = d.ans.target
  BY <1>1, <1>5, <1>10, Known DEF Load, Answer, Epochs, Events
<1>12. /\ l \in Load /\ l.pc = "read" /\ l.kind = "snapshot" /\ l.ans = a
       /\ l.after = d.after /\ l.target = d.target
  BY <1>6, <1>9, <1>10, <1>11 DEF Load
<1>13. ServerInv /\ server.seq \in Nat /\ server.rev \in Nat
  BY Known DEF IInv
<1>14. LoadCurrent(l, p)
  <2>1. Numbered(l, p.cursor)
    BY <1>10, <1>11, <1>12, <1>13 DEF LoadCurrent, Numbered
  <2>2. Now(l)
    BY <1>11, <1>12 DEF Now
  <2>3. Since(l, p.observed, p.cursor)
    BY <1>1, <1>11, <1>12, <1>13 DEF Since, PageCurrent, PageBehind
  <2>4. AfterFrames(l)
    BY <1>11, <1>12 DEF AfterFrames, Since, CInv, WireBehind, FrameBehind
  <2>5. Covers(l)
    BY <1>12 DEF Covers
  <2> QED
    BY <2>1, <2>2, <2>3, <2>4, <2>5 DEF LoadCurrent
<1>15. LoadCurrent(m, p) /\ Ordered(l, m) /\ Ordered(m, l)
  <2>1. CASE m = l
    BY <1>11, <1>12, <1>13, <1>14, <2>1 DEF Ordered, Since
  <2>2. CASE m = x
    <3>1. x.ans.cursor <= server.seq /\ x.ans.cursor \in Nat /\ Now(x)
      BY <1>10, LoadNumbers DEF LoadCurrent, Numbered
    <3>2. Ordered(l, x)
      BY <1>11, <1>12, <1>13, <3>1 DEF Ordered, Since
    <3>3. Ordered(x, l)
      BY <1>1, <1>10, <1>11, <1>12, <1>13, <3>1, ReadLast
    <3> QED
      BY <1>10, <2>2, <3>2, <3>3
  <2> QED
    BY <1>7, <2>1, <2>2
<1>16. /\ q.blocks = p.blocks /\ q.epoch = p.epoch /\ q.cursor = p.cursor
       /\ q.observed = p.observed
       /\ (q.sync = l /\ q.panel = m) \/ (q.sync = m /\ q.panel = l)
  <2>1. p \in Page
    BY <1>1 DEF WellFormed
  <2> QED
    BY <1>8, <2>1 DEF Page, Loads, Other
<1>17. PageCurrent(q) /\ (CanCatchUp(p) => CanCatchUp(q))
  BY <1>1, <1>14, <1>15, <1>16, LoadsCurrentStep
<1> QED
  BY <1>1, <1>9, <1>17, PageStepCurrent

\* The items are read.
LEMMA ReadRowsCurrent ==
  ASSUME IInv, CInv, NEW who \in Loads, ReadRows(who)
  PROVE  CInv' /\ (Recoverable => Recoverable')
<1>1. PICK p, R, E : /\ p = page /\ R = server.rev /\ E = server.epoch
                     /\ R \in Revisions /\ E \in Epochs /\ WellFormed(p, R, E)
                     /\ From(p.blocks, p.epoch) /\ PageCurrent(p)
  BY Named
<1>2. PICK d : d = p[who]
  OBVIOUS
<1>3. PICK o \in Loads : o = Other(who)
  BY DEF Other, Loads
<1>4. PICK x : x = p[o]
  OBVIOUS
<1>5. PICK a : a = [d.ans EXCEPT !.rows = server.rows]
  OBVIOUS
<1>6. PICK l : l = [d EXCEPT !.pc = "answered", !.ans = a]
  OBVIOUS
<1>7. PICK m : m = IF Shared THEN l ELSE x
  OBVIOUS
<1>8. PICK q : q = [p EXCEPT ![who] = l, ![Other(who)] = m]
  OBVIOUS
<1>9. /\ page' = q /\ stream'.wire = stream.wire /\ UNCHANGED <<server, unsent, notes>>
      /\ d.pc = "read"
  <2>1. /\ page' = [page EXCEPT ![who] = l, ![Other(who)] = IF Shared THEN l ELSE @]
        /\ UNCHANGED <<server, unsent, notes, stream>> /\ page[who].pc = "read"
    <3>1. page[who] \in Load
      BY <1>1, LoadOf
    <3>2. [page[who] EXCEPT !.pc = "answered", !.ans.rows = server.rows] = l
      BY <1>1, <1>2, <1>5, <1>6, <3>1 DEF Load
    <3> QED
      BY <3>2 DEF ReadRows
  <2>2. page' = q
    <3>1. p \in Page
      BY <1>1 DEF WellFormed
    <3>2. Other(who) # who
      BY DEF Other, Loads
    <3> QED
      BY <1>1, <1>3, <1>4, <1>7, <1>8, <2>1, <3>1, <3>2 DEF Page, Loads
  <2> QED
    BY <1>1, <1>2, <2>1, <2>2
<1>10. /\ d \in Load /\ LoadCurrent(d, p) /\ x \in Load /\ LoadCurrent(x, p)
       /\ d \in {p.sync, p.panel} /\ x \in {p.sync, p.panel}
  BY <1>1, <1>2, <1>3, <1>4, LoadsOfPage
<1>11. /\ a \in Answer /\ a.rev = d.ans.rev /\ a.epoch = d.ans.epoch /\ a.cursor = d.ans.cursor
       /\ a.target = d.ans.target /\ a.rows = server.rows
  BY <1>5, <1>10, Known DEF Load, Answer
<1>12. /\ l \in Load /\ l.pc = "answered" /\ l.kind = d.kind /\ l.ans = a
       /\ l.after = d.after /\ l.target = d.target
  BY <1>6, <1>10, <1>11 DEF Load
<1>13. Underway(l) /\ Underway(d) /\ Read(l) = Read(d)
  BY <1>9, <1>12 DEF Underway, Read
<1>14. LoadCurrent(l, p)
  <2>1. Numbered(l, p.cursor)
    BY <1>10, <1>11, <1>12 DEF LoadCurrent, Numbered
  <2>2. Now(l) /\ Since(l, p.observed, p.cursor)
    BY <1>10, <1>11, <1>12, <1>13 DEF LoadCurrent, Now, Since
  <2>3. AfterFrames(l)
    BY <1>10, <1>11, <1>12, <1>13 DEF LoadCurrent, AfterFrames, Since
  <2>4. Covers(l)
    BY <1>11, <1>12 DEF Covers, Behind
  <2> QED
    BY <2>1, <2>2, <2>3, <2>4 DEF LoadCurrent
<1>15. LoadCurrent(m, p) /\ Ordered(l, m) /\ Ordered(m, l)
  <2>1. CASE m = l
    <3>1. l.ans.cursor \in Nat
      BY <1>12, LoadNumbers
    <3> QED
      BY <1>14, <2>1, <3>1 DEF Ordered, Since
  <2>2. CASE m = x
    <3>1. LoadsCurrent(p)
      BY <1>1 DEF PageCurrent
    <3>2. Ordered(d, x) /\ Ordered(x, d)
      BY <1>1, <1>10, <3>1, LoadsOrdered
    <3>3. Ordered(l, x) /\ Ordered(x, l)
      BY <1>11, <1>12, <1>13, <3>2 DEF Ordered, Since
    <3> QED
      BY <1>10, <2>2, <3>3
  <2> QED
    BY <1>7, <2>1, <2>2
<1>16. /\ q.blocks = p.blocks /\ q.epoch = p.epoch /\ q.cursor = p.cursor
       /\ q.observed = p.observed
       /\ (q.sync = l /\ q.panel = m) \/ (q.sync = m /\ q.panel = l)
  <2>1. p \in Page
    BY <1>1 DEF WellFormed
  <2> QED
    BY <1>8, <2>1 DEF Page, Loads, Other
<1>17. PageCurrent(q) /\ (CanCatchUp(p) => CanCatchUp(q))
  BY <1>1, <1>14, <1>15, <1>16, LoadsCurrentStep
<1> QED
  BY <1>1, <1>9, <1>17, PageStepCurrent

\* A catch-up page is read.
LEMMA AnswerCatchUpCurrent ==
  ASSUME IInv, CInv, NEW who \in Loads, AnswerCatchUp(who)
  PROVE  CInv' /\ (Recoverable => Recoverable')
<1>1. PICK p, R, E : /\ p = page /\ R = server.rev /\ E = server.epoch
                     /\ R \in Revisions /\ E \in Epochs /\ WellFormed(p, R, E)
                     /\ From(p.blocks, p.epoch) /\ PageCurrent(p)
  BY Named
<1>2. PICK d : d = p[who]
  OBVIOUS
<1>3. PICK o \in Loads : o = Other(who)
  BY DEF Other, Loads
<1>4. PICK x : x = p[o]
  OBVIOUS
<1>5. PICK all \in Rows : all = server.rows
  BY Known
<1>6. PICK target : target = IF d.target = 0 THEN server.seq ELSE d.target
  OBVIOUS
<1>7. PICK after : after = {i \in Items : all[i].seq > d.after /\ all[i].seq <= target}
  OBVIOUS
<1>8. PICK within : within = {i \in after :
        Cardinality({j \in after : all[j].seq < all[i].seq}) < PageSize}
  OBVIOUS
<1>9. PICK cursor : cursor = IF within # after THEN Max({all[i].seq : i \in within}) ELSE target
  OBVIOUS
<1>10. PICK rows : rows = [i \in Items |->
         IF i \in (IF d.epoch # E THEN {} ELSE within) THEN all[i] ELSE Absent]
  OBVIOUS
<1>11. PICK a : a = [rev |-> R, epoch |-> E, target |-> target, more |-> within # after,
                     cursor |-> cursor, rows |-> rows]
  OBVIOUS
<1>12. PICK l : l = [d EXCEPT !.pc = "answered", !.ans = a]
  OBVIOUS
<1>13. PICK q : q = [p EXCEPT ![who] = l]
  OBVIOUS
<1>14. /\ d \in Load /\ LoadCurrent(d, p) /\ x \in Load /\ LoadCurrent(x, p)
       /\ x.ans.rev <= server.rev
  BY <1>1, <1>2, <1>3, <1>4, LoadsOfPage
<1>15. /\ page' = q /\ stream'.wire = stream.wire /\ UNCHANGED <<server, unsent, notes>>
       /\ d.kind = "catchUp"
  <2> DEFINE Load0 == page[who]
             Target0 == IF Load0.target = 0 THEN server.seq ELSE Load0.target
             After0 == {i \in Items : server.rows[i].seq > Load0.after /\ server.rows[i].seq <= Target0}
             Within0 == {i \in After0 :
               Cardinality({j \in After0 : server.rows[j].seq < server.rows[i].seq}) < PageSize}
             More0 == Within0 # After0
             Read0 == IF Load0.epoch # server.epoch THEN {} ELSE Within0
             Answer0 == [rev |-> server.rev, epoch |-> server.epoch, target |-> Target0,
               more |-> More0,
               cursor |-> IF More0 THEN Max({server.rows[i].seq : i \in Within0}) ELSE Target0,
               rows |-> [i \in Items |-> IF i \in Read0 THEN server.rows[i] ELSE Absent]]
  <2>1. /\ page' = [page EXCEPT ![who].pc = "answered", ![who].ans = a]
        /\ UNCHANGED <<server, unsent, notes, stream>> /\ page[who].kind = "catchUp"
    <3>1. /\ page' = [page EXCEPT ![who].pc = "answered", ![who].ans = Answer0]
          /\ UNCHANGED <<server, unsent, notes, stream>> /\ page[who].kind = "catchUp"
      BY DEF AnswerCatchUp
    <3>2. Load0 = d /\ server.rows = all /\ server.rev = R /\ server.epoch = E
      BY <1>1, <1>2, <1>5
    <3> HIDE DEF Load0
    <3>3. Target0 = target
      BY <1>6, <3>2
    <3> HIDE DEF Target0
    <3>4. After0 = after
      BY <1>7, <3>2, <3>3
    <3> HIDE DEF After0
    <3>5. Within0 = within
      BY <1>8, <3>2, <3>4
    <3> HIDE DEF Within0
    <3>6. Answer0 = a
      <4>1. [i \in Items |-> IF i \in Read0 THEN server.rows[i] ELSE Absent] = rows
        BY <1>10, <3>2, <3>5
      <4>2. (IF More0 THEN Max({server.rows[i].seq : i \in Within0}) ELSE Target0) = cursor
        BY <1>9, <3>2, <3>3, <3>4, <3>5
      <4>3. More0 = (within # after)
        BY <3>4, <3>5
      <4> HIDE DEF More0, Read0
      <4> QED
        BY <1>11, <3>2, <3>3, <4>1, <4>2, <4>3
    <3> HIDE DEF Answer0
    <3> QED
      BY <3>1, <3>6
  <2>2. page' = [page EXCEPT ![who] = [page[who] EXCEPT !.pc = "answered", !.ans = a]]
    BY <2>1, Known DEF Page, Loads
  <2>3. page' = q
    BY <1>1, <1>2, <1>12, <1>13, <2>2
  <2> QED
    BY <1>1, <1>2, <2>1, <2>3
<1>16. /\ ServerInv /\ server.seq \in Nat /\ server.rev \in Nat
       /\ \A i \in Items : all[i].seq \in Nat /\ all[i].seq <= server.seq
       /\ d.after \in Nat /\ d.target \in Nat /\ d.target <= server.seq /\ d.after <= p.cursor
  <2>1. ServerInv /\ RowsNumbered
    BY DEF IInv, CInv
  <2> QED
    BY <1>5, <1>14, <2>1, RowNumbers, LoadNumbers DEF RowsNumbered, LoadCurrent, Numbered
<1>17. target \in Nat /\ target <= server.seq
  BY <1>6, <1>16
<1>18. after \in SUBSET Items /\ within \subseteq after
  BY <1>7, <1>8
<1>19. within # after => \E j \in within : cursor = all[j].seq
  BY <1>8, <1>9, <1>18, SomeOnPage
<1>20. cursor \in Nat /\ cursor <= server.seq
  <2>1. CASE within = after
    BY <1>9, <1>17, <2>1
  <2>2. CASE within # after
    BY <1>16, <1>18, <1>19, <2>2
  <2> QED
    BY <2>1, <2>2
<1>21. /\ l.pc = "answered" /\ l.kind = "catchUp" /\ l.after = d.after /\ l.target = d.target
       /\ l.epoch = d.epoch /\ l.ans = a
  BY <1>12, <1>14, <1>15 DEF Load
<1>22. a.rev = R /\ a.epoch = E /\ a.target = target /\ a.cursor = cursor /\ a.rows = rows
  BY <1>11
<1>23. ~Read(l)
  BY <1>21 DEF Read
<1>24. Covers(l)
  <2>1. ASSUME d.epoch = E, NEW i \in Items, rows[i] # Absent PROVE rows[i] = all[i]
    BY <1>10, <2>1
  <2>2. ASSUME d.epoch = E, NEW i \in Items, d.after < all[i].seq, all[i].seq <= cursor
        PROVE  rows[i] = all[i]
    <3>1. i \in within
      <4>1. CASE within = after
        BY <1>7, <1>9, <1>16, <2>2, <4>1
      <4>2. CASE within # after
        <5>1. PICK j \in within : cursor = all[j].seq
          BY <1>19, <4>2
        <5>2. all[j].seq <= target
          BY <1>7, <1>18, <5>1
        <5>3. i \in after
          BY <1>7, <1>16, <1>17, <1>18, <2>2, <5>1, <5>2
        <5> QED
          BY <1>8, <1>18, <2>2, <5>1, <5>3, FirstOnPage
      <4> QED
        BY <4>1, <4>2
    <3> QED
      BY <1>10, <2>2, <3>1
  <2> QED
    BY <1>1, <1>5, <1>21, <1>22, <2>1, <2>2 DEF Covers, Behind
<1>25. LoadCurrent(l, p)
  <2>1. Numbered(l, p.cursor)
    BY <1>16, <1>17, <1>20, <1>21, <1>22 DEF Numbered
  <2>2. Now(l) /\ Since(l, p.observed, p.cursor) /\ AfterFrames(l)
    BY <1>23 DEF Now, Since, AfterFrames
  <2> QED
    BY <1>24, <2>1, <2>2 DEF LoadCurrent
<1>26. Ordered(l, x)
  BY <1>23 DEF Ordered, Since
<1>27. Ordered(x, l)
  <2>1. ASSUME Read(x), x.ans.rev >= R PROVE x.ans.cursor >= cursor
    <3>1. x.ans.rev \in Nat
      BY <1>14, LoadNumbers
    <3>2. x.ans.rev = server.rev
      BY <1>1, <1>14, <1>16, <2>1, <3>1
    <3>3. x.ans.cursor = server.seq
      BY <1>14, <2>1, <3>2 DEF LoadCurrent, Now
    <3> QED
      BY <1>16, <1>20, <3>3
  <2> QED
    BY <1>21, <1>22, <2>1 DEF Ordered, Since
<1>28. /\ q.blocks = p.blocks /\ q.epoch = p.epoch /\ q.cursor = p.cursor
       /\ q.observed = p.observed
       /\ (q.sync = l /\ q.panel = x) \/ (q.sync = x /\ q.panel = l)
  <2>1. p \in Page
    BY <1>1 DEF WellFormed
  <2> QED
    BY <1>3, <1>4, <1>13, <2>1 DEF Page, Loads, Other
<1>29. PageCurrent(q) /\ (CanCatchUp(p) => CanCatchUp(q))
  BY <1>1, <1>14, <1>25, <1>26, <1>27, <1>28, LoadsCurrentStep
<1> QED
  BY <1>1, <1>15, <1>29, PageStepCurrent

-----------------------------------------------------------------------------
(* Only frames skip.                                                       *)

LEMMA InitCurrent == Init => CInv
<1> SUFFICES ASSUME Init PROVE CInv
  OBVIOUS
<1>1. IInv
  BY InitGood
<1>2. ServerInv /\ 0 \in Events
  BY <1>1, Constants DEF IInv
<1>3. /\ server.epoch = 1 /\ server.seq = 1 /\ unsent.content = Absent
      /\ \A i \in Items : server.rows[i].seq <= 1
      /\ notes = {} /\ Len(stream.wire) = 0
      /\ page.epoch = 0 /\ page.cursor = 0 /\ page.sync = NoLoad /\ page.panel = NoLoad
  BY DEF Init, Absent
<1>4. RowsNumbered
  BY <1>3 DEF RowsNumbered
<1>5. WireBehind
  BY <1>3 DEF WireBehind
<1>6. PageBehind(page)
  BY <1>3 DEF PageBehind
<1>7. Unanswered(NoLoad, 0) /\ NoLoad \in Load
  <2>1. Unanswered(NoLoad, 0)
    BY <1>2, NoLoadUnanswered
  <2>2. page.sync \in Load
    BY <1>1, Known, PageNumbers
  <2> QED
    BY <1>3, <2>1, <2>2
<1>8. PICK p : p = page
  OBVIOUS
<1>9. LoadCurrent(NoLoad, p)
  <2>1. p.cursor = 0 /\ 0 \in Nat /\ 0 <= p.cursor
    BY <1>3, <1>8
  <2> QED
    BY <1>2, <1>7, <2>1, UnansweredCurrent
<1>10. Ordered(NoLoad, NoLoad)
  BY DEF Ordered, Underway, NoLoad
<1>11. LoadsCurrent(page)
  BY <1>3, <1>8, <1>9, <1>10 DEF LoadsCurrent
<1> QED
  BY <1>4, <1>5, <1>6, <1>11 DEF CInv, PageCurrent

\* Every step keeps the page current, and only a frame that carries an item may skip another one.
LEMMA NextCurrent ==
  ASSUME IInv, CInv, [Next]_vars
  PROVE  CInv' /\ (Recoverable /\ ~Framing => Recoverable')
<1> DEFINE Keeps == CInv' /\ (Recoverable /\ ~Framing => Recoverable')
<1>1. CASE UNCHANGED vars
  <2>1. PageCurrent(page') /\ (CanCatchUp(page) => CanCatchUp(page'))
    BY <1>1 DEF CInv, vars
  <2>2. stream'.wire = stream.wire /\ UNCHANGED <<server, unsent, notes>>
    BY <1>1 DEF vars
  <2> QED
    BY <2>1, <2>2, PageStepCurrent
<1>2. ASSUME NEW i \in Items, Project(i) PROVE Keeps
  BY <1>2, ProjectCurrent
<1>3. CASE Broadcast \/ Touch
  BY <1>3, BroadcastCurrent, TouchCurrent
<1>4. ASSUME NEW gone \in Items, NEW sourced \in BOOLEAN, Rewrite(gone, sourced) PROVE Keeps
  BY <1>4, RewriteCurrent
<1>5. ASSUME NEW op \in {"session", "resync"}, Note(op) PROVE Keeps
  BY <1>5, QuietCurrent
<1>6. ASSUME NEW f \in notes, SendNote(f) PROVE Keeps
  BY <1>6, SendNoteCurrent
<1>7. ASSUME NEW who \in Loads, Serve(who) \/ Fail(who) PROVE Keeps
  BY <1>7, AnswerCatchUpCurrent, ReadRecordCurrent, ReadRowsCurrent, RespondCurrent, FailCurrent
     DEF Serve
<1>8. CASE Heartbeat \/ Disconnect \/ Reconnect
  BY <1>8, QuietCurrent
<1>9. CASE Deliver
  BY <1>9, DeliverCurrent
<1>10. CASE Fire \/ Elapse \/ Age
  BY <1>10, TimersCurrent
<1>11. ASSUME NEW aborted \in BOOLEAN, Leave(aborted) PROVE Keeps
  BY <1>11, LeaveCurrent
<1>12. ASSUME NEW op \in {"reconcile", "goal"}, Ask(op) PROVE Keeps
  BY <1>12, QuietCurrent
<1>13. CASE Focus \/ Refresh \/ Answered
  BY <1>13, FocusCurrent, AnsweredCurrent
<1> HIDE DEF Keeps
<1>14. Keeps
  <2>1. CASE UNCHANGED vars
    BY <1>1, <2>1 DEF Keeps
  <2>2. CASE Next
    <3>1. CASE Broadcast \/ Touch
      BY <1>3, <3>1 DEF Keeps
    <3>2. CASE Heartbeat \/ Disconnect \/ Reconnect
      BY <1>8, <3>2 DEF Keeps
    <3>3. CASE Deliver \/ Fire \/ Elapse \/ Age
      BY <1>9, <1>10, <3>3 DEF Keeps
    <3>4. CASE Focus \/ Refresh \/ Answered
      BY <1>13, <3>4 DEF Keeps
    <3> QED
      BY <1>2, <1>4, <1>5, <1>6, <1>7, <1>11, <1>12, <2>2, <3>1, <3>2, <3>3, <3>4, Zenon DEF Next
  <2> QED
    BY <2>1, <2>2
<1> QED
  BY <1>14 DEF Keeps

\* The page can catch up with what it lacks of its epoch: projections, rewrites, snapshots and
\* catch-up pages that overtake each other, failures and lost frames never move its cursor past an
\* item that it does not have.  Only the frame of a later item may.
THEOREM OnlyFramesSkipCorrect == Spec => OnlyFramesSkip
<1>1. Init => IInv /\ CInv
  BY InitGood, InitCurrent
<1>2. IInv /\ CInv /\ [Next]_vars => IInv' /\ CInv'
  BY NextGood, NextCurrent
<1>3. IInv /\ CInv /\ [Next]_vars => [Recoverable /\ ~Framing => Recoverable']_vars
  BY NextCurrent
<1>4. Spec => [](IInv /\ CInv)
  BY <1>1, <1>2, PTL DEF Spec
<1> QED
  BY <1>3, <1>4, PTL DEF Spec, OnlyFramesSkip

=================================================================================
