------------------------------ MODULE Hydration ------------------------------
(***************************************************************************)
(* How the page of one browser keeps up with one session:                  *)
(* ui/src/stores/webSessionSync.ts and the loads, frames and               *)
(* reconciliation of ui/src/stores/webSession.ts, against the server of    *)
(* service/websession/catch_up.go, manager.go and cache.go.                *)
(*                                                                         *)
(* The row of a session has a revision, a history epoch and the number of  *)
(* its last event.  Its items come to the page as frames of the event      *)
(* stream, as catch-up pages that start behind the page's cursor, or as a  *)
(* snapshot.  The page keeps three revisions (observed, applied, hydrated) *)
(* and WebSessionSync decides when to load; the panel loads by itself too. *)
(* An action is one transaction or one read of the server, or one callback *)
(* of the page.  An item's content is the epoch and the event that wrote   *)
(* it; one item per event.  Loads are unconditional, answers well-formed.  *)
(* Definitions marked "variant" are plausible wrong versions.              *)
(***************************************************************************)
EXTENDS Naturals, Sequences, FiniteSets, FiniteSetsExt

CONSTANTS
  Items,        \* items of the history
  PageSize,     \* limit of a catch-up page
  MaxAttempts,  \* maxAttemptsPerWindow
  Faults,       \* what happens besides: see Meet
  MaxEvents,    \* bound: events
  MaxEpoch,     \* bound: history epochs
  MaxRevision,  \* bound: revisions
  MaxWire,      \* bound: frames on their way
  MaxFaults     \* bound: Faults that happen

ASSUME HydrationAssumption ==
  /\ Items # {} /\ IsFiniteSet(Items)
  /\ PageSize \in Nat \ {0} /\ MaxAttempts \in Nat \ {0}
  /\ MaxEvents \in Nat \ {0} /\ MaxEpoch \in Nat \ {0} /\ MaxRevision \in Nat \ {0}
  /\ MaxWire \in Nat \ {0} /\ MaxFaults \in Nat

VARIABLES
  server,    \* the row: revision, epoch, last event; and the rows of the items
  unsent,    \* the item that was projected and is not broadcast yet
  notes,     \* session and resync frames whose record was read, not sent yet
  due,       \* the history was rewritten, broadcastResyncRequired is to come
  stream,    \* the event stream: open, the server's idea of the focus, frames under way
  page,      \* the browser
  reply,     \* answers under way to the page: reconcile, and the ack of goal_get
  met        \* faults so far

vars == <<server, unsent, notes, due, stream, page, reply, met>>

Absent == [gen |-> 0, seq |-> 0]
Content == [gen : 0..MaxEpoch, seq : 0..MaxEvents]
NoAnswer == [rev |-> 0, epoch |-> 0, cursor |-> 0, target |-> 0, more |-> FALSE,
             rows |-> [i \in Items |-> Absent]]
NoLoad == [pc |-> "idle", kind |-> "catchUp", min |-> 0, epoch |-> 0, after |-> 0, target |-> 0,
           trailing |-> FALSE, ans |-> NoAnswer]
NoPending == [rev |-> 0, mode |-> "catchUp"]
NoAttempt == [rev |-> 0, count |-> 0, wait |-> FALSE, aged |-> FALSE]
Loads == {"sync", "panel"}
NoReply == [rev |-> 0, op |-> "none"]

First == CHOOSE i \in Items : TRUE
Larger(m, n) == IF m > n THEN m ELSE n

\* The list of sessions was loaded, and nothing else.
Init ==
  /\ server = [rev |-> 1, epoch |-> 1, seq |-> 1,
               rows |-> [i \in Items |-> IF i = First THEN [gen |-> 1, seq |-> 1] ELSE Absent]]
  /\ unsent = [item |-> First, content |-> Absent] /\ notes = {} /\ due = FALSE
  /\ stream = [open |-> TRUE, focus |-> FALSE, beat |-> FALSE, wire |-> <<>>]
  /\ page = [observed |-> 1, applied |-> 0, hydrated |-> 0, known |-> 1, epoch |-> 0, cursor |-> 0,
             blocks |-> [i \in Items |-> Absent], pending |-> NoPending, attempt |-> NoAttempt,
             timer |-> FALSE, focused |-> FALSE, sync |-> NoLoad, panel |-> NoLoad]
  /\ reply = NoReply /\ met = 0

\* What the environment may do besides, up to a bound: "fail" a request, "drop" the stream, "leave"
\* the session, let it "age", "touch" its row, send its row ("session"), "reconcile", ask the "goal".
Meet(f) == f \in Faults /\ met < MaxFaults /\ met' = met + 1

-----------------------------------------------------------------------------
(* WebSessionSync: what its methods make of the page p.                    *)

Observe(p, r) == [p EXCEPT !.observed = Larger(@, r)]

\* variant: what is applied is not taken as observed
AppliedAlone(p, r) == [p EXCEPT !.applied = Larger(@, r)]
MarkApplied(p, r) == [Observe(p, r) EXCEPT !.applied = Larger(@, r)]
ShouldApply(p, r) == r >= p.applied
Current(p, r) == p.hydrated > 0 /\ p.hydrated >= r     \* isSnapshotCurrent
Settled(p) == [p EXCEPT !.pending = NoPending, !.timer = FALSE]

MarkHydrated(p, r) ==
  LET q == [MarkApplied(p, r) EXCEPT !.hydrated = Larger(@, r)]
      s == IF q.pending.rev <= r THEN Settled(q) ELSE q
  IN IF s.pending = NoPending /\ r >= s.observed
       THEN [s EXCEPT !.attempt = NoAttempt, !.timer = FALSE]
       ELSE s

\* nextAttemptDelay: the circuit is closed, or the time has not come
Exhausted(p) == ~p.attempt.aged /\ p.attempt.count >= MaxAttempts
Waiting(p) == ~p.attempt.aged /\ p.attempt.wait

\* scheduleTrailing
Schedule(p) ==
  IF p.sync.pc # "idle" \/ p.pending = NoPending \/ Exhausted(p) THEN p
  ELSE [p EXCEPT !.timer = TRUE, !.attempt = IF @.aged THEN NoAttempt ELSE @]

\* recordHydrationAttempt
Attempted(a, r) ==
  [rev |-> r, count |-> IF a.aged THEN 1 ELSE a.count + 1, wait |-> TRUE, aged |-> FALSE]

-----------------------------------------------------------------------------
(* Loads: loadSessionSnapshot and catchUpSessionInternal, by the sync or   *)
(* by the panel.                                                           *)

Other(who) == IF who = "sync" THEN "panel" ELSE "sync"

\* Two snapshots with the same minimum share one request.
Snapshot(p, who, min) ==
  LET other == p[Other(who)]
      mine == [NoLoad EXCEPT !.pc = "asked", !.kind = "snapshot", !.min = min]
  IN [p EXCEPT ![who] = IF other.pc # "idle" /\ other.kind = "snapshot" /\ other.min = min
                          THEN other ELSE mine]

CatchUp(p, who, trailing) ==
  IF p.epoch = 0 THEN Snapshot(p, who, p.observed)
  ELSE [p EXCEPT ![who] = [NoLoad EXCEPT !.pc = "asked", !.epoch = p.epoch, !.after = p.cursor,
                                         !.trailing = trailing]]

\* startHydrationIfReady, and hydrate
Start(p) ==
  LET q == [p EXCEPT !.timer = FALSE, !.attempt = Attempted(@, p.pending.rev)] IN
  IF p.sync.pc # "idle" \/ p.pending = NoPending \/ Exhausted(p) \/ Waiting(p) THEN p
  ELSE IF p.pending.mode = "snapshot" THEN Snapshot(q, "sync", p.pending.rev)
  ELSE CatchUp(q, "sync", FALSE)

\* requestHydration
Request(p, r, mode) ==
  LET q == Observe(p, r)
      w == [q EXCEPT !.pending = [rev |-> q.observed,
              mode |-> IF "snapshot" \in {mode, @.mode} THEN "snapshot" ELSE "catchUp"]]
  IN
  IF Current(q, q.observed) THEN [Settled(q) EXCEPT !.attempt = NoAttempt, !.sync = NoLoad]
  ELSE IF w.sync.pc # "idle" THEN w
  ELSE IF w.attempt.count > 0 /\ q.observed > w.attempt.rev THEN Schedule(w)
  ELSE Start(w)

\* cancelHydration
Cancelled(p) == [Settled(p) EXCEPT !.attempt = NoAttempt, !.sync = NoLoad]

Over(p, who) == [p EXCEPT ![who] = NoLoad]

\* variant: the circuit alone decides
EndedOnce(p, who) == Over(p, who)

\* A load has ended, well or not.
Ended(p, who) ==
  LET q == Over(p, who) IN
  IF who = "panel" \/ q.pending = NoPending THEN q
  ELSE IF Current(q, q.pending.rev) THEN [Settled(q) EXCEPT !.attempt = NoAttempt]
  ELSE Schedule(q)

\* mergeHistoricalEvents and mergeRealtimeEvent: older content of an item is refused
Newer(p, i, c) == p.blocks[i].seq <= c.seq
Merged(p, rows) ==
  [p EXCEPT !.blocks =
     [i \in Items |-> IF rows[i] # Absent /\ Newer(p, i, rows[i]) THEN rows[i] ELSE @[i]]]

\* variant: a response of the previous epoch is taken
CaughtUpBlindly(p, who) ==
  LET a == p[who].ans
      q == [Merged(p, a.rows) EXCEPT !.cursor = Larger(@, a.cursor)]
      s == IF ShouldApply(p, a.rev) THEN MarkApplied([q EXCEPT !.known = a.rev], a.rev) ELSE q
  IN Ended(MarkHydrated(s, a.rev), who)

\* A catch-up page arrives.
CaughtUp(p, who) ==
  LET load == p[who]  a == load.ans
      q == [Merged(p, a.rows) EXCEPT !.cursor = Larger(@, a.cursor)]
      s == IF ShouldApply(p, a.rev) THEN MarkApplied([q EXCEPT !.known = a.rev], a.rev) ELSE q
      h == MarkHydrated(s, a.rev)
  IN
  IF p.epoch # load.epoch THEN Ended(p, who)
  ELSE IF a.epoch # load.epoch THEN Snapshot(p, who, p.observed)
  ELSE IF a.more THEN [s EXCEPT ![who] = [load EXCEPT !.pc = "asked", !.after = a.cursor,
                                                      !.target = a.target, !.ans = NoAnswer]]
  ELSE IF ~load.trailing /\ a.rev < h.observed THEN CatchUp(h, who, TRUE)
  ELSE Ended(h, who)

\* variant: an older snapshot replaces what the page shows
SnapshotTaken(p, who) ==
  LET a == p[who].ans IN
  Ended([MarkHydrated([p EXCEPT !.known = a.rev, !.blocks = a.rows], a.rev)
           EXCEPT !.epoch = a.epoch, !.cursor = Larger(@, a.cursor)], who)

\* A snapshot arrives.
Snapshotted(p, who) ==
  LET a == p[who].ans IN
  IF a.rev < p[who].min \/ a.rev < p.observed THEN Ended(Observe(p, a.rev), who)
  ELSE Ended([MarkHydrated([p EXCEPT !.known = a.rev, !.blocks = a.rows], a.rev)
                EXCEPT !.epoch = a.epoch, !.cursor = Larger(@, a.cursor)], who)

-----------------------------------------------------------------------------
(* Frames: applyFrame.                                                     *)

Shown(p, f) ==
  IF Newer(p, f.item, f.content)
    THEN [p EXCEPT !.blocks[f.item] = f.content,
                   !.cursor = IF p.epoch # 0 THEN Larger(@, f.content.seq) ELSE @]
    ELSE p

Framed(p, f) ==
  LET q == [Observe(p, f.rev) EXCEPT !.known = f.rev] IN
  IF f.op = "resync" THEN IF p.focused THEN Request(p, f.rev, "snapshot") ELSE p
  ELSE IF ~ShouldApply(p, f.rev) THEN Observe(p, f.rev)
  ELSE IF p.epoch # 0 /\ f.epoch # p.epoch
    THEN IF p.focused THEN Request(q, f.rev, "snapshot") ELSE q
  ELSE MarkApplied(IF f.op = "item" THEN Shown(q, f) ELSE q, f.rev)

\* the summary of reconcileRecentSessions
Reconciled(p, r) ==
  LET q == MarkApplied([p EXCEPT !.known = r], r) IN
  IF p.known > r THEN p
  ELSE IF p.focused /\ ~Current(q, r) THEN Request(q, r, "catchUp")
  ELSE q

-----------------------------------------------------------------------------
(* The server.                                                             *)

\* projectPersistedEvent: the transaction ...
Project(i) ==
  LET c == [gen |-> server.epoch, seq |-> server.seq + 1] IN
  /\ unsent.content = Absent /\ server.seq < MaxEvents /\ server.rev < MaxRevision
  /\ server' = [server EXCEPT !.rev = @ + 1, !.seq = @ + 1, !.rows[i] = c]
  /\ unsent' = [item |-> i, content |-> c]
  /\ UNCHANGED <<notes, due, stream, page, reply, met>>

\* shouldSendFrameToClient
Sent(f) ==
  IF stream.open /\ (f.op = "session" \/ stream.focus)
    THEN Len(stream.wire) < MaxWire /\ stream' = [stream EXCEPT !.wire = Append(@, f)]
    ELSE UNCHANGED stream

\* ... and broadcast, at the revision that is current then
Broadcast ==
  /\ unsent.content # Absent
  /\ Sent([op |-> "item", rev |-> server.rev, epoch |-> server.epoch,
           item |-> unsent.item, content |-> unsent.content])
  /\ unsent' = [unsent EXCEPT !.content = Absent]
  /\ UNCHANGED <<server, notes, due, page, reply, met>>

\* a change of the row alone: updateFields, or the end of a run
Touch ==
  /\ server.rev < MaxRevision /\ Meet("touch") /\ server' = [server EXCEPT !.rev = @ + 1]
  /\ UNCHANGED <<unsent, notes, due, stream, page, reply>>

\* replaceSessionHistoryCache or reconcileSessionHistoryCache as sync.go calls them, under the mutex
\* of the events: an item is removed, and the others are rewritten, with or without the number of
\* their event.  Two rewrites without that mutex are left out: the one of a Pi session's history
\* (pi_sync.go), and a compact group's that drops its duplicates inside a projection (cache.go).
Rewrite(gone, sourced) ==
  /\ unsent.content = Absent /\ server.epoch < MaxEpoch /\ server.rev < MaxRevision
  /\ server' = [server EXCEPT !.rev = @ + 1, !.epoch = @ + 1, !.rows =
       [i \in Items |->
          IF i # gone /\ @[i] # Absent
            THEN [gen |-> server.epoch + 1, seq |-> IF sourced THEN 0 ELSE @[i].seq]
            ELSE Absent]]
  /\ due' = TRUE
  /\ UNCHANGED <<unsent, notes, stream, page, reply, met>>

\* broadcastSessionSummary or broadcastResyncRequired reads the row ...
Note(op) ==
  /\ notes = {} /\ (IF op = "resync" THEN due /\ UNCHANGED met ELSE Meet("session"))
  /\ notes' = {[op |-> op, rev |-> server.rev, epoch |-> server.epoch,
                item |-> unsent.item, content |-> Absent]}
  /\ due' = (due /\ op # "resync")
  /\ UNCHANGED <<server, unsent, stream, page, reply>>

\* ... and sends it
SendNote(f) ==
  /\ f \in notes /\ Sent(f) /\ notes' = notes \ {f}
  /\ UNCHANGED <<server, unsent, due, page, reply, met>>

\* CatchUpSession: one transaction
AnswerCatchUp(who) ==
  LET load == page[who]
      target == IF load.target = 0 THEN server.seq ELSE load.target
      after == {i \in Items : server.rows[i].seq > load.after /\ server.rows[i].seq <= target}
      within == {i \in after : Cardinality({j \in after : server.rows[j].seq < server.rows[i].seq})
                                 < PageSize}
      more == within # after
      read == IF load.epoch # server.epoch THEN {} ELSE within
  IN
  /\ load.pc = "asked" /\ load.kind = "catchUp"
  /\ page' = [page EXCEPT ![who].pc = "answered", ![who].ans =
       [rev |-> server.rev, epoch |-> server.epoch, target |-> target, more |-> more,
        cursor |-> IF more THEN Max({server.rows[i].seq : i \in within}) ELSE target,
        rows |-> [i \in Items |-> IF i \in read THEN server.rows[i] ELSE Absent]]]
  /\ UNCHANGED <<server, unsent, notes, due, stream, reply, met>>

\* both loads wait for the same answer
Shared == page.sync = page.panel /\ page.sync.kind = "snapshot"

\* SnapshotIfChanged reads the row ...
ReadRecord(who) ==
  LET load == [page[who] EXCEPT !.pc = "read", !.ans =
                 [@ EXCEPT !.rev = server.rev, !.epoch = server.epoch, !.cursor = server.seq]]
  IN
  /\ page[who].pc = "asked" /\ page[who].kind = "snapshot"
  /\ page' = [page EXCEPT ![who] = load, ![Other(who)] = IF Shared THEN load ELSE @]
  /\ UNCHANGED <<server, unsent, notes, due, stream, reply, met>>

\* ... and loadSnapshotLocal the items
ReadRows(who) ==
  LET load == [page[who] EXCEPT !.pc = "answered", !.ans.rows = server.rows] IN
  /\ page[who].pc = "read"
  /\ page' = [page EXCEPT ![who] = load, ![Other(who)] = IF Shared THEN load ELSE @]
  /\ UNCHANGED <<server, unsent, notes, due, stream, reply, met>>

\* the focus heartbeat arrives
Heartbeat ==
  /\ stream.open /\ stream.focus # stream.beat
  /\ stream' = [stream EXCEPT !.focus = stream.beat]
  /\ UNCHANGED <<server, unsent, notes, due, page, reply, met>>

-----------------------------------------------------------------------------
(* The browser.                                                            *)

Deliver ==
  /\ stream.wire # <<>>
  /\ page' = Framed(page, Head(stream.wire))
  /\ stream' = [stream EXCEPT !.wire = Tail(@)]
  /\ UNCHANGED <<server, unsent, notes, due, reply, met>>

Respond(who) ==
  /\ page[who].pc = "answered"
  /\ page' = IF page[who].kind = "catchUp" THEN CaughtUp(page, who)
             ELSE IF Shared THEN Snapshotted(Snapshotted(page, who), Other(who))
             ELSE Snapshotted(page, who)
  /\ UNCHANGED <<server, unsent, notes, due, stream, reply, met>>

\* a request fails
Fail(who) ==
  /\ page[who].pc # "idle" /\ Meet("fail")
  /\ page' = IF Shared THEN Ended(Over(page, "panel"), "sync") ELSE Ended(page, who)
  /\ UNCHANGED <<server, unsent, notes, due, stream, reply>>

\* the timer of the sync fires, its time has come
Fire ==
  /\ page.timer /\ ~Waiting(page)
  /\ page' = Start([page EXCEPT !.timer = FALSE])
  /\ UNCHANGED <<server, unsent, notes, due, stream, reply, met>>

\* retryAfter passes
Elapse ==
  /\ page.attempt.wait /\ page' = [page EXCEPT !.attempt.wait = FALSE]
  /\ UNCHANGED <<server, unsent, notes, due, stream, reply, met>>

\* attemptWindowMs passes
Age ==
  /\ page.attempt.count > 0 /\ ~page.attempt.aged /\ Meet("age")
  /\ page' = [page EXCEPT !.attempt.aged = TRUE]
  /\ UNCHANGED <<server, unsent, notes, due, stream, reply>>

\* the session becomes the visible one, and the panel loads it
Focus ==
  /\ ~page.focused
  /\ page' = CatchUp([page EXCEPT !.focused = TRUE], "panel", FALSE)
  /\ stream' = [stream EXCEPT !.beat = stream.open]
  /\ UNCHANGED <<server, unsent, notes, due, reply, met>>

\* it is left; the panel's load may go on
Leave(aborted) ==
  /\ page.focused /\ Meet("leave")
  /\ page' = [Cancelled([page EXCEPT !.focused = FALSE])
                EXCEPT !.panel = IF aborted THEN NoLoad ELSE @]
  /\ stream' = [stream EXCEPT !.beat = FALSE]
  /\ UNCHANGED <<server, unsent, notes, due, reply>>

\* refreshWebSessionCatchUp, when nothing of the sync is pending
Refresh ==
  /\ page.focused /\ page.panel.pc = "idle"
  /\ page.sync.pc = "idle" /\ page.pending = NoPending /\ ~page.timer
  /\ ~Current(page, page.known)
  /\ page' = CatchUp(page, "panel", FALSE)
  /\ UNCHANGED <<server, unsent, notes, due, stream, reply, met>>

\* reconcileRecentSessions asks, or refreshGoal; the answer is read
Ask(op) ==
  /\ reply = NoReply /\ Meet(op) /\ (op = "reconcile" => page.known # server.rev)
  /\ reply' = [op |-> op, rev |-> server.rev]
  /\ UNCHANGED <<server, unsent, notes, due, stream, page>>

Answered ==
  /\ reply # NoReply /\ reply' = NoReply
  /\ page' = IF reply.op = "goal" THEN MarkApplied([page EXCEPT !.known = reply.rev], reply.rev)
                                  ELSE Reconciled(page, reply.rev)
  /\ UNCHANGED <<server, unsent, notes, due, stream, met>>

\* the stream is lost with what is under way
Disconnect ==
  /\ stream.open /\ Meet("drop")
  /\ stream' = [open |-> FALSE, focus |-> FALSE, beat |-> FALSE, wire |-> <<>>]
  /\ UNCHANGED <<server, unsent, notes, due, page, reply>>

\* scheduleEventReconnect: the focus is sent again
Reconnect ==
  /\ ~stream.open
  /\ stream' = [stream EXCEPT !.open = TRUE, !.beat = page.focused]
  /\ UNCHANGED <<server, unsent, notes, due, page, reply, met>>

-----------------------------------------------------------------------------
Serve(who) == AnswerCatchUp(who) \/ ReadRecord(who) \/ ReadRows(who) \/ Respond(who)

Next ==
  \/ \E i \in Items : Project(i)
  \/ Broadcast \/ Touch
  \/ \E gone \in Items, sourced \in BOOLEAN : Rewrite(gone, sourced)
  \/ \E op \in {"session", "resync"} : Note(op)
  \/ \E f \in notes : SendNote(f)
  \/ \E who \in Loads : Serve(who) \/ Fail(who)
  \/ Heartbeat \/ Deliver \/ Fire \/ Elapse \/ Age
  \/ Focus \/ (\E aborted \in BOOLEAN : Leave(aborted)) \/ Refresh
  \/ (\E op \in {"reconcile", "goal"} : Ask(op)) \/ Answered
  \/ Disconnect \/ Reconnect

Spec == Init /\ [][Next]_vars

\* Requests are answered, time passes and timers fire.
Fairness == (\A who \in Loads : WF_vars(Serve(who))) /\ WF_vars(Elapse) /\ WF_vars(Fire)
FairSpec == Spec /\ Fairness

-----------------------------------------------------------------------------
(* Properties.                                                             *)

Revisions == 0..MaxRevision
Modes == {"catchUp", "snapshot"}
Rows == [Items -> Content]
Answer == [rev : Revisions, epoch : 0..MaxEpoch, cursor : 0..MaxEvents, target : 0..MaxEvents,
           more : BOOLEAN, rows : Rows]
Load == [pc : {"idle", "asked", "read", "answered"}, kind : Modes, min : Revisions,
         epoch : 0..MaxEpoch, after : 0..MaxEvents, target : 0..MaxEvents, trailing : BOOLEAN,
         ans : Answer]

\* Types of the main variables, and the order of the page's three clocks: hydrated <= applied <=
\* observed <= the server's revision.
TypeOK ==
  /\ server.rows \in Rows /\ server.rev \in Revisions /\ page.blocks \in Rows
  /\ \A who \in Loads : page[who] \in Load
  /\ page.pending \in [rev : Revisions, mode : Modes]
  /\ page.attempt \in [rev : Revisions, count : 0..MaxAttempts, wait : BOOLEAN, aged : BOOLEAN]
  /\ Len(stream.wire) <= MaxWire
  /\ page.hydrated <= page.applied /\ page.applied <= page.observed /\ page.observed <= server.rev

\* What a rewrite of the history removed or replaced is gone from the page as soon as the
\* page takes itself to be in the new epoch, and does not come back.
NoGhosts ==
  \A i \in Items : page.blocks[i] # Absent => page.blocks[i].gen >= page.epoch

\* The page can still catch up: what it lacks of its epoch lies behind its cursor ("Ordinary append
\* and in-place event projections retain the epoch and are recoverable by cursor").
Recoverable ==
  page.epoch = server.epoch =>
    \A i \in Items : server.rows[i] # page.blocks[i] => server.rows[i].seq > page.cursor

Framing == stream.wire # <<>> /\ Head(stream.wire).op = "item" /\ stream'.wire = Tail(stream.wire)

\* Snapshots, catch-up pages, failures and rewrites never move the cursor past an item that
\* the page does not have; only a frame of a later item may.
OnlyFramesSkip == [][Recoverable /\ ~Framing => Recoverable']_vars

\* A request to load a revision ends: it is loaded, or left, or the attempts are used up.
HydrationSettles ==
  page.pending # NoPending ~> page.pending = NoPending \/ page.attempt.count >= MaxAttempts

=============================================================================
