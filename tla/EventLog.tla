------------------------------ MODULE EventLog ------------------------------
(***************************************************************************)
(* The event log of one web session: service/websession/                   *)
(* text_delta_buffer.go, store.go and their callers in manager.go,         *)
(* history_cleanup.go, sync.go and catch_up.go.                            *)
(*                                                                         *)
(* What a run does becomes events.  Chunks of a message are buffered and   *)
(* become one event; every event is appended to a file and then projected  *)
(* to the database, where browsers read it.  A projection that fails is    *)
(* repeated later.  Deletion, history cleanup and synchronisation with the *)
(* agent's own history remove the file.  All of this happens under the     *)
(* mutex of the session's event state, but several steps long: the server  *)
(* may stop between two of them, and readers do not take the mutex.        *)
(*                                                                         *)
(* An action is one access to the file or one transaction.  A piece is a   *)
(* chunk or an event, numbered in the order in which the log accepted it.  *)
(* The broadcast that follows a projection at once is part of it.          *)
(***************************************************************************)
EXTENDS Naturals, Sequences, SequencesExt

CONSTANTS
  Emitters,      \* goroutines that emit events
  Flusher,       \* the callback of the text timer
  Retrier,       \* the callback of the projection timer
  Keeper,        \* who deletes, cleans up, synchronises, or recovers at the start
  None,          \* nobody
  Messages,      \* messages whose text is streamed
  Ops,           \* the commands the keeper executes
  Faults,        \* what may fail
  Cap,           \* chunks that fill the buffer (maxPendingTextDeltaBytes)
  MaxEmits,      \* bound: pieces emitted
  MaxCommands,   \* bound: commands, and beginnings of runs
  MaxFaults      \* bound: failures and crashes

Procs == Emitters \cup {Flusher, Retrier, Keeper}
Gens == 1..MaxCommands + 1

ASSUME EventLogAssumption ==
  /\ Flusher # Retrier /\ Keeper \notin {Flusher, Retrier} /\ None \notin {Flusher, Retrier, Keeper}
  /\ Emitters \cap {Flusher, Retrier, Keeper, None} = {}
  /\ "event" \notin Messages
  /\ Cap \in Nat \ {0} /\ MaxEmits \in Nat /\ MaxCommands \in Nat /\ MaxFaults \in Nat

VARIABLES
  file,      \* history.jsonl: a sequence of lines
  torn,      \* the file ends with a part of a line
  log,       \* the objects of eventStates, by generation
  cur,       \* the object that the map holds, or the next it will hold
  holder,    \* who holds the mutex of an object
  row,       \* the session's row exists
  cursor,    \* last_event_seq of the row
  unread, attention,   \* has_unread and attention_revision of the row
  running,   \* the row's status is running
  up,        \* the server runs; while it does not, the keeper may be recovering
  proc,      \* goroutines: program counter, operation, object, kind of piece, line in hand
  view,      \* the attention revision that the reader has loaded
  emits, cmds, faults,
  said,      \* history: numbers of the pieces accepted and not removed since, a set
  projected, \* history: numbers of the pieces projected, in that order
  skipped,   \* history: numbers stored that will not be projected: the server stopped
  missed     \* history: news were projected since the reader loaded its view

stored == <<file, torn>>
memory == <<log, cur, holder, proc>>
attending == <<unread, attention, missed>>
bounds == <<emits, cmds, faults>>
vars == <<stored, memory, row, cursor, attending, running, up, view, bounds, said, projected, skipped>>

Kinds == Messages \cup {"event"}
Piece == [n : Nat, kind : Kinds]
Line == [seq : Nat, pieces : Seq(Piece), ok : BOOLEAN]
NoLine == [seq |-> 0, pieces |-> <<>>, ok |-> TRUE]
Fresh == [closed |-> FALSE, init |-> FALSE, last |-> 0, buf |-> <<>>, timer |-> FALSE,
          retries |-> <<>>, retryTimer |-> FALSE]
Rest == [pc |-> "idle", op |-> "none", gen |-> 1, kind |-> "event", line |-> NoLine, then |-> "done"]
PCs == {"idle", "wait", "flush", "write", "buffer", "project", "retries", "row", "clear", "reset",
        "remove", "recovered"}

Numbers(pieces) == [i \in 1..Len(pieces) |-> pieces[i].n]
NumbersIn(pieces) == {pieces[i].n : i \in 1..Len(pieces)}
InLines(lines) == UNION {NumbersIn(lines[i].pieces) : i \in 1..Len(lines)}
InFile == InLines(file)
Increasing(s) == \A i, j \in 1..Len(s) : i < j => s[i] < s[j]
Larger(m, n) == IF m > n THEN m ELSE n

Init ==
  /\ file = <<>> /\ torn = FALSE
  /\ log = [g \in Gens |-> Fresh] /\ cur = 1
  /\ holder = [g \in Gens |-> None] /\ proc = [p \in Procs |-> Rest]
  /\ row = TRUE /\ cursor = 0 /\ unread = FALSE /\ attention = 0 /\ missed = FALSE
  /\ running = TRUE /\ up = TRUE /\ view = 0
  /\ emits = 0 /\ cmds = 0 /\ faults = 0
  /\ said = {} /\ projected = <<>> /\ skipped = {}

-----------------------------------------------------------------------------
(* Shared pieces.                                                          *)

Fail(f) == f \in Faults /\ faults < MaxFaults /\ faults' = faults + 1 /\ UNCHANGED <<emits, cmds>>
Command(op) == op \in Ops /\ cmds < MaxCommands /\ cmds' = cmds + 1 /\ UNCHANGED <<emits, faults>>
My(p) == log[proc[p].gen]
Free(g) == holder[g] = None
Put(p, st) == log' = [log EXCEPT ![proc[p].gen] = st] /\ UNCHANGED cur

\* p, which has the mutex, goes on at pc, or unlocks
Goto(p, pc) ==
  IF pc = "done" THEN /\ holder' = [holder EXCEPT ![proc[p].gen] = None]
                      /\ proc' = [proc EXCEPT ![p] = Rest]
  ELSE proc' = [proc EXCEPT ![p].pc = pc] /\ UNCHANGED holder
Done(p) == Goto(p, "done")

\* p takes the mutex of object g and goes to pc, later to then
Hold(p, g, op, kind, pc, then) ==
  /\ Free(g) /\ holder' = [holder EXCEPT ![g] = p]
  /\ proc' = [proc EXCEPT ![p] = [Rest EXCEPT !.pc = pc, !.op = op, !.gen = g, !.kind = kind,
                                              !.then = then]]

\* latestEventSeq: the sequence number of the last line, if that can be read
LastSeq == IF file = <<>> THEN 0 ELSE Last(file).seq
Readable == ~torn /\ (file # <<>> => Last(file).ok)

AfterRow(st) ==                                                  \* variant: the file is not asked
  IF st.init THEN [st EXCEPT !.last = @ + 1] ELSE [st EXCEPT !.init = TRUE, !.last = cursor + 1]

\* nextEventSeq: what becomes of the object, and whether a number can be had
Sequenced(st) ==
  IF st.init THEN [st EXCEPT !.last = @ + 1]
  ELSE [st EXCEPT !.init = TRUE, !.last = Larger(cursor, LastSeq) + 1]
CanSequence(st) == st.init \/ (row /\ Readable)

\* nextEventSeq and appendEvent; p goes on to project the line
Store(p, pieces, then) ==
  LET line == [seq |-> Sequenced(My(p)).last, pieces |-> pieces, ok |-> ~torn] IN
  /\ CanSequence(My(p)) /\ file' = Append(file, line) /\ torn' = FALSE
  /\ proc' = [proc EXCEPT ![p].pc = "project", ![p].line = line, ![p].then = then]
  /\ UNCHANGED <<holder, row, cursor, attending, running, up, view, projected, skipped>>

\* one of them fails; st is what becomes of the object
StoreFails(p, st) ==
  /\ \/ ~CanSequence(My(p)) /\ st = My(p) /\ UNCHANGED <<torn, bounds>>
     \/ CanSequence(My(p)) /\ Fail("write") /\ st = Sequenced(My(p))
        /\ torn' \in {torn, TRUE}
  /\ UNCHANGED <<file, row, cursor, attending, running, view, projected>>

-----------------------------------------------------------------------------
(* Emitting.                                                               *)

\* the beginning of enqueueTextDelta and appendAndBroadcast: the object is looked up ...
Emit(e, kind) ==
  /\ up /\ proc[e].pc = "idle" /\ emits < MaxEmits /\ row /\ (kind \in Messages => running)
  /\ proc' = [proc EXCEPT ![e] = [Rest EXCEPT !.pc = "wait", !.gen = cur, !.kind = kind]]
  /\ UNCHANGED <<stored, log, cur, holder, row, cursor, attending, running, up, view, bounds,
                 said, projected, skipped>>

OtherText(buf, kind) == buf # <<>> /\ (kind \in Messages => Head(buf).kind # kind)

\* ... and locked; buffered text of another message comes first
Enter(e) ==
  LET own == IF proc[e].kind \in Messages THEN "buffer" ELSE "write" IN
  /\ proc[e].pc = "wait" /\ e \in Emitters /\ Free(proc[e].gen)
  /\ IF My(e).closed THEN proc' = [proc EXCEPT ![e] = Rest] /\ UNCHANGED holder
     ELSE Hold(e, proc[e].gen, "emit", proc[e].kind,
               IF OtherText(My(e).buf, proc[e].kind) THEN "flush" ELSE own, own)
  /\ UNCHANGED <<stored, log, cur, row, cursor, attending, running, up, view, bounds,
                 said, projected, skipped>>

\* the number of the piece that p is about to have accepted
Next_ == emits + 1
Accept == emits' = Next_ /\ said' = said \cup {Next_}

\* the rest of enqueueTextDelta
Buffer(e) ==
  LET buf == Append(My(e).buf, [n |-> Next_, kind |-> proc[e].kind]) IN
  /\ proc[e].pc = "buffer" /\ Accept
  /\ Put(e, [My(e) EXCEPT !.buf = buf, !.timer = TRUE])
  /\ IF Len(buf) >= Cap
       THEN proc' = [proc EXCEPT ![e].pc = "flush", ![e].then = "done"] /\ UNCHANGED holder
       ELSE Done(e)
  /\ UNCHANGED <<stored, row, cursor, attending, running, up, view, cmds, faults, projected, skipped>>

\* variant: a buffer that cannot be stored waits for the next event
NoRearm(p, st) == [st EXCEPT !.timer = FALSE]
Rearm(p, st) == [st EXCEPT !.timer = TRUE]

\* flushPendingTextDeltaLocked: a buffer that cannot be stored stays
Flush(p) ==
  /\ proc[p].pc = "flush"
  /\ \/ /\ Store(p, My(p).buf, proc[p].then)
        /\ Put(p, [Sequenced(My(p)) EXCEPT !.buf = <<>>, !.timer = FALSE])
        /\ UNCHANGED <<bounds, said>>
     \/ /\ \E st \in {My(p), Sequenced(My(p))} : StoreFails(p, st) /\ Put(p, Rearm(p, st))
        /\ Done(p) /\ UNCHANGED <<up, said, skipped>>

\* appendAndBroadcastNow
Write(p) ==
  /\ proc[p].pc = "write"
  /\ \/ /\ Store(p, <<[n |-> Next_, kind |-> proc[p].kind]>>, IF p = Keeper THEN "recovered" ELSE "done")
        /\ Put(p, Sequenced(My(p))) /\ Accept /\ UNCHANGED <<cmds, faults>>
     \/ /\ p # Keeper /\ \E st \in {My(p), Sequenced(My(p))} : StoreFails(p, st) /\ Put(p, st)
        /\ Done(p) /\ UNCHANGED <<up, said, skipped>>

-----------------------------------------------------------------------------
(* Projecting.                                                             *)

\* shouldMarkSessionUnreadForEvent
MayMark(line) == \E i \in DOMAIN line.pieces : line.pieces[i].kind = "event"

KeepAttention(line) ==                                           \* variant: no new revision
  /\ cursor' = line.seq /\ projected' = projected \o Numbers(line.pieces)
  /\ \/ UNCHANGED attending
     \/ MayMark(line) /\ unread' = TRUE /\ missed' = TRUE /\ UNCHANGED attention

\* projectPersistedEvent: one transaction, and the broadcast; an event of some types marks the
\* session unread unless a client has it in focus
Applied(line) ==
  /\ cursor' = line.seq /\ projected' = projected \o Numbers(line.pieces)
  /\ \/ UNCHANGED attending
     \/ MayMark(line) /\ unread' = TRUE /\ attention' = attention + 1 /\ missed' = TRUE

\* variant: the event in hand goes first
InHandFirst(retries, line) == line
\* flushEventProjectionRetriesLocked comes before the event in hand
First(retries, line) == IF retries = <<>> THEN line ELSE Head(retries)

\* the rest of appendAndBroadcastNow: earlier events, then the one in hand; what fails waits
Project(p) ==
  LET retries == My(p).retries
      line == proc[p].line IN
  /\ proc[p].pc = "project"
  /\ \/ /\ First(retries, line) = line /\ Applied(line) /\ Goto(p, proc[p].then)
        /\ UNCHANGED <<log, cur, bounds>>
     \/ /\ First(retries, line) # line /\ Applied(Head(retries))
        /\ Put(p, [My(p) EXCEPT !.retries = Tail(retries), !.retryTimer = @ /\ Len(retries) > 1])
        /\ UNCHANGED <<holder, proc, bounds>>
     \/ /\ Fail("db") /\ UNCHANGED <<cursor, projected, attending>>
        /\ Put(p, [My(p) EXCEPT !.retries = Append(@, line), !.retryTimer = TRUE])
        /\ Goto(p, proc[p].then)
  /\ UNCHANGED <<stored, row, running, up, view, said, skipped>>

\* variant: a retry that fails is not scheduled again
RetryOnce(p) == [My(p) EXCEPT !.retryTimer = FALSE]
RetryAgain(p) == [My(p) EXCEPT !.retryTimer = TRUE]

\* flushEventProjectionRetriesLocked for the timer and for a synchronisation
Retry(p) ==
  LET retries == My(p).retries IN
  /\ proc[p].pc = "retries"
  /\ \/ /\ retries = <<>> /\ Goto(p, IF p = Keeper THEN "reset" ELSE "done")
        /\ Put(p, [My(p) EXCEPT !.retryTimer = FALSE])
        /\ UNCHANGED <<cursor, projected, attending, bounds>>
     \/ /\ retries # <<>> /\ Applied(Head(retries))
        /\ Put(p, [My(p) EXCEPT !.retries = Tail(retries)]) /\ UNCHANGED <<holder, proc, bounds>>
     \/ /\ retries # <<>> /\ Fail("db") /\ Put(p, RetryAgain(p)) /\ Done(p)
        /\ UNCHANGED <<cursor, projected, attending>>
  /\ UNCHANGED <<stored, row, running, up, view, said, skipped>>

\* the timers; a callback that finds its generation replaced returns, and is left out
FlushTimer ==
  /\ log[cur].timer /\ ~log[cur].closed /\ log[cur].buf # <<>>
  /\ Hold(Flusher, cur, "timer", "event", "flush", "done")
  /\ UNCHANGED <<stored, log, cur, row, cursor, attending, running, up, view, bounds,
                 said, projected, skipped>>
RetryTimer ==
  /\ log[cur].retryTimer /\ ~log[cur].closed
  /\ Hold(Retrier, cur, "timer", "event", "retries", "done")
  /\ log' = [log EXCEPT ![cur].retryTimer = FALSE]
  /\ UNCHANGED <<stored, cur, row, cursor, attending, running, up, view, bounds,
                 said, projected, skipped>>

-----------------------------------------------------------------------------
(* Deletion, cleanup, synchronisation: under the dispatch lock, so one at a time.  *)

\* DeleteSession stops the run first; the others leave out a session that runs
Busy == running
Start(op) ==
  /\ up /\ row /\ proc[Keeper].pc = "idle" /\ Command(op) /\ op # "run"
  /\ IF op = "delete" THEN running' = FALSE ELSE ~Busy /\ UNCHANGED running
  /\ proc' = [proc EXCEPT ![Keeper] = [Rest EXCEPT !.pc = "wait", !.op = op, !.gen = cur]]
  /\ UNCHANGED <<stored, log, cur, holder, row, cursor, attending, up, view, said, projected, skipped>>
EnterKeeper ==
  LET op == proc[Keeper].op
      own == CASE op = "delete" -> "row" [] op = "sync" -> "retries" [] OTHER -> "clear" IN
  /\ proc[Keeper].pc = "wait"
  /\ Hold(Keeper, proc[Keeper].gen, op, "event",
          IF op # "cleanup" /\ My(Keeper).buf # <<>> THEN "flush" ELSE own, own)
  /\ UNCHANGED <<stored, log, cur, row, cursor, attending, running, up, view, bounds,
                 said, projected, skipped>>

DroppedOpen(g) ==                                                \* variant: it is not closed
  /\ log' = [log EXCEPT ![g] = [Fresh EXCEPT !.init = log[g].init, !.last = log[g].last]]
  /\ cur' = cur + 1

\* the object leaves the map: whoever waits for it finds it closed
Dropped(g) ==
  /\ log' = [log EXCEPT ![g] = [Fresh EXCEPT !.closed = TRUE]]
  /\ cur' = cur + 1
\* DeleteSession: the rows, several statements; the session's own row is the last ...
DropRow ==
  /\ proc[Keeper].pc = "row"
  /\ \/ /\ row' = FALSE /\ Dropped(proc[Keeper].gen) /\ Goto(Keeper, "remove") /\ UNCHANGED bounds
     \/ Fail("db") /\ Done(Keeper) /\ UNCHANGED <<row, log, cur>>
  /\ UNCHANGED <<stored, cursor, attending, running, up, view, said, projected, skipped>>

\* releaseHistoryCleanupEventStates after a failure
Reopened(st) == [st EXCEPT !.timer = st.buf # <<>>, !.retryTimer = st.retries # <<>>]

\* ... and RunHistoryCleanup: the transaction, which keeps the number of the last stored event
Clear ==
  /\ proc[Keeper].pc = "clear"
  /\ \/ /\ Readable /\ cursor' = Larger(cursor, LastSeq) /\ unread' = FALSE
        /\ Goto(Keeper, "remove") /\ UNCHANGED <<log, cur, bounds, attention, missed>>
     \/ /\ (~Readable /\ UNCHANGED bounds) \/ Fail("db")
        /\ Put(Keeper, Reopened(My(Keeper))) /\ Done(Keeper) /\ UNCHANGED <<cursor, attending>>
  /\ UNCHANGED <<stored, row, running, up, view, said, projected, skipped>>

\* the file goes; after a cleanup, what was in memory goes with it
RemoveFile ==
  /\ proc[Keeper].pc = "remove"
  /\ \/ file' = <<>> /\ torn' = FALSE /\ said' = {} /\ UNCHANGED <<bounds, skipped>>
     \/ /\ Fail("remove") /\ said' = InFile /\ UNCHANGED stored
        /\ skipped' = skipped \cup (InFile \ ToSet(projected))
  /\ IF proc[Keeper].op = "cleanup" THEN Dropped(proc[Keeper].gen) ELSE UNCHANGED <<log, cur>>
  /\ Done(Keeper)
  /\ UNCHANGED <<row, cursor, attending, running, up, view, projected>>

\* syncSessionFromThreadSource: the agent's history is read, then the file goes; the
\* transaction that stores what was read changes nothing that is kept here
Reset ==
  /\ proc[Keeper].pc = "reset"
  /\ \/ file' = <<>> /\ torn' = FALSE /\ said' = {} /\ UNCHANGED bounds
     \/ Fail("remove") /\ UNCHANGED <<stored, said>>
  /\ Done(Keeper)
  /\ UNCHANGED <<log, cur, row, cursor, attending, running, up, view, projected, skipped>>

-----------------------------------------------------------------------------
(* The server stops and starts.                                            *)

Stop ==
  /\ log' = [g \in Gens |-> Fresh] /\ cur' = 1 /\ up' = FALSE
  /\ holder' = [g \in Gens |-> None] /\ proc' = [p \in Procs |-> Rest]
  /\ said' = InFile /\ skipped' = skipped \cup (InFile \ ToSet(projected))
Crash ==
  /\ Fail("crash") /\ Stop
  /\ torn' \in {torn} \cup {TRUE : p \in {q \in Procs : proc[q].pc \in {"flush", "write"}}}
  /\ UNCHANGED <<file, row, cursor, attending, running, view, projected>>

\* NewManager: recoverInterruptedSessions stores the end of a run that was interrupted
Restart ==
  /\ ~up /\ proc[Keeper].pc = "idle"
  /\ IF running /\ row
       THEN Hold(Keeper, cur, "recover", "event", "write", "recovered") /\ UNCHANGED up
       ELSE up' = TRUE /\ UNCHANGED <<holder, proc>>
  /\ UNCHANGED <<stored, log, cur, row, cursor, attending, running, view, bounds,
                 said, projected, skipped>>
Recovered ==
  /\ proc[Keeper].pc = "recovered"
  /\ \/ running' = FALSE /\ unread' = FALSE /\ up' = TRUE /\ Done(Keeper)
        /\ UNCHANGED <<bounds, log, cur, said, skipped>>
     \/ Fail("db") /\ Stop /\ UNCHANGED <<running, unread>>
  /\ UNCHANGED <<stored, row, cursor, attention, missed, view, projected>>

\* an event that cannot be stored ends the start of the server
RecoveryFails ==
  /\ proc[Keeper].pc = "write" /\ Stop
  /\ \E st \in {My(Keeper), Sequenced(My(Keeper))} : StoreFails(Keeper, st)

-----------------------------------------------------------------------------
(* Runs and readers.                                                       *)

BeginRun ==
  /\ up /\ row /\ ~running /\ proc[Keeper].pc = "idle" /\ Command("run")
  /\ running' = TRUE /\ unread' = FALSE
  /\ UNCHANGED <<stored, memory, row, cursor, attention, missed, up, view, said, projected, skipped>>
EndRun ==
  /\ up /\ running /\ running' = FALSE
  /\ UNCHANGED <<stored, memory, row, cursor, attending, up, view, bounds, said, projected, skipped>>

\* a browser loads the session, and later says that it was read (MarkSessionRead)
Load ==
  /\ row /\ (view # attention \/ missed) /\ view' = attention /\ missed' = FALSE
  /\ UNCHANGED <<stored, memory, row, cursor, unread, attention, running, up, bounds,
                 said, projected, skipped>>
CurrentView == view = attention
MarkRead ==
  /\ up /\ row /\ unread /\ CurrentView
  /\ unread' = FALSE /\ attention' = attention + 1
  /\ UNCHANGED <<stored, memory, row, cursor, missed, running, up, view, bounds,
                 said, projected, skipped>>

-----------------------------------------------------------------------------
Step(p) ==
  \/ Enter(p) \/ Buffer(p) \/ Flush(p) \/ Write(p) \/ Project(p) \/ Retry(p)
  \/ p = Keeper /\ (EnterKeeper \/ DropRow \/ Clear \/ RemoveFile \/ Reset \/ Recovered \/ RecoveryFails)

Next ==
  \/ \E p \in Procs : Step(p)
  \/ \E e \in Emitters, kind \in Kinds : Emit(e, kind)
  \/ \E op \in {"delete", "cleanup", "sync"} : Start(op)
  \/ FlushTimer \/ RetryTimer \/ Crash \/ Restart
  \/ BeginRun \/ EndRun \/ Load \/ MarkRead

Spec == Init /\ [][Next]_vars

\* goroutines run on, timers fire, and somebody starts the server again
Fairness ==
  /\ \A p \in Procs : WF_vars(Step(p))
  /\ WF_vars(FlushTimer) /\ WF_vars(RetryTimer) /\ WF_vars(Restart)
FairSpec == Spec /\ Fairness

-----------------------------------------------------------------------------
(* Properties.                                                             *)

TypeOK ==
  /\ file \in Seq(Line) /\ torn \in BOOLEAN
  /\ \A g \in Gens :
       /\ log[g] \in [closed : BOOLEAN, init : BOOLEAN, last : Nat, buf : Seq(Piece),
                      timer : BOOLEAN, retries : Seq(Line), retryTimer : BOOLEAN]
       /\ log[g].buf # <<>> /\ holder[g] = None => log[g].timer
       /\ log[g].retries # <<>> /\ holder[g] = None => log[g].retryTimer
  /\ cur \in Gens /\ holder \in [Gens -> Procs \cup {None}]
  /\ \A p \in Procs : proc[p].pc \notin {"idle", "wait"} => holder[proc[p].gen] = p
  /\ row \in BOOLEAN /\ cursor \in Nat /\ attention \in Nat /\ unread \in BOOLEAN
  /\ running \in BOOLEAN /\ up \in BOOLEAN /\ view \in 0..attention
  /\ \A p \in Procs : proc[p].pc \in PCs /\ proc[p].gen \in Gens /\ proc[p].kind \in Kinds
  /\ emits \in Nat /\ cmds \in 0..MaxCommands /\ faults \in 0..MaxFaults
  /\ said \subseteq 1..emits /\ missed \in BOOLEAN

Before(S, T) == \A m \in S, n \in T : m < n
InOrder(lines) ==
  /\ \A i \in 1..Len(lines) : Increasing(Numbers(lines[i].pieces))
  /\ \A i, j \in 1..Len(lines) : i < j => Before(NumbersIn(lines[i].pieces), NumbersIn(lines[j].pieces))

\* What was said in order is stored in order: the file and after it the buffer hold every piece
\* that was accepted, once, in the order of acceptance, and sequence numbers only grow.  The text
\* of a message may wait in the buffer, the writer of another event may be ahead of it, appends
\* may fail or leave a part of a line, and the server may restart with a file ahead of its row.  A
\* line that continues such a part is in the file, though readEvents skips it (ok is FALSE).
LogComplete ==
  LET buf == log[cur].buf IN
  /\ row => said = InFile \cup NumbersIn(buf) /\ Before(InFile, NumbersIn(buf))
            /\ Increasing(Numbers(buf))
  /\ InOrder(file) /\ Increasing([i \in 1..Len(file) |-> file[i].seq])

\* Every stored event is projected once, in the order of the file, however projections fail, are
\* repeated by a timer or by the next event, and whatever the server removes in between: what
\* is stored was projected, waits to be repeated, is in hand, or was left by a server that stopped.
ProjectedInOrder ==
  LET retries == log[cur].retries
      again == InLines(retries)
      hand == UNION {NumbersIn(proc[p].line.pieces) : p \in {q \in Procs : proc[q].pc = "project"}}
  IN
  row => /\ Increasing(projected) /\ InOrder(retries)
         /\ Before(ToSet(projected), again \cup hand) /\ Before(again, hand)
         /\ InFile \subseteq ToSet(projected) \cup again \cup hand \cup skipped

\* "Read" never erases news: a request that was made for an older view changes nothing.
NewsKept == [][unread /\ ~unread' /\ attention' > attention => ~missed]_vars

\* Nothing is written for a session whose row is gone, whoever waited for its mutex meanwhile.
DeletedStaysQuiet == [][~row => Len(file') <= Len(file)]_vars

\* Nothing stays in the buffers for ever: buffered text is stored in the end, unless the last
\* line of the file cannot be read, and what waits for its projection is projected.
EventuallyKept ==
  /\ log[cur].buf # <<>> ~> log[cur].buf = <<>> \/ ~Readable
  /\ log[cur].retries # <<>> ~> log[cur].retries = <<>>

=============================================================================
