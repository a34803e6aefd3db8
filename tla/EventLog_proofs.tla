--------------------------- MODULE EventLog_proofs ---------------------------
(***************************************************************************)
(* Proofs about EventLog: types, LogComplete, ProjectedInOrder, NewsKept   *)
(* and DeletedStaysQuiet, for any emitters, messages and bounds.           *)
(*                                                                         *)
(* The inductive invariant says who may touch the log (Mutexes): whoever   *)
(* is past its lookup holds the mutex of the object in the map, of a       *)
(* session that exists, so that there is one of them at a time.  What it   *)
(* is about to do follows a plan (Planned), in which nobody writes a line  *)
(* or projects one while text is buffered.  Under it, file and buffer are  *)
(* one increasing sequence (Complete), and what was projected, what waits  *)
(* to be projected again, and the line in hand are another (Projected).    *)
(***************************************************************************)
EXTENDS EventLog, TLAPS

-----------------------------------------------------------------------------
(* The inductive invariant.                                                *)

Objects == [closed : BOOLEAN, init : BOOLEAN, last : Nat, buf : Seq(Piece),
            timer : BOOLEAN, retries : Seq(Line), retryTimer : BOOLEAN]
Operations == {"none", "emit", "timer", "recover", "delete", "cleanup", "sync", "run"}
Routines == [pc : PCs, op : Operations, gen : Gens, kind : Kinds, line : Line,
             then : PCs \cup {"done"}]

\* Types.
Memory ==
  /\ log \in [Gens -> Objects] /\ cur \in Gens
  /\ holder \in [Gens -> Procs \cup {None}] /\ proc \in [Procs -> Routines]
  /\ row \in BOOLEAN /\ up \in BOOLEAN /\ cmds \in 0..MaxCommands
Disk ==
  /\ file \in Seq(Line) /\ torn \in BOOLEAN /\ running \in BOOLEAN
  /\ cursor \in Nat /\ projected \in Seq(Nat)
  /\ emits \in Nat /\ faults \in 0..MaxFaults
  /\ said \subseteq 1..emits /\ InFile \subseteq 1..emits /\ ToSet(projected) \subseteq 1..emits
News ==
  /\ attention \in Nat /\ unread \in BOOLEAN /\ view \in 0..attention /\ missed \in BOOLEAN
  /\ missed => view < attention

\* What a goroutine may be doing, and what it goes on to do.
PlanOfEmitter(r) ==
  /\ r.pc \in {"idle", "wait", "flush", "write", "buffer", "project"}
  /\ r.then \in {"done", "buffer", "write"}
PlanOfKeeper(r) ==
  \/ r.op = "none" /\ r.pc = "idle"
  \/ r.op = "delete" /\ r.pc = "wait"
  \/ r.op = "delete" /\ r.pc \in {"flush", "project", "row", "remove"} /\ r.then = "row"
  \/ r.op = "sync" /\ r.pc = "wait"
  \/ r.op = "sync" /\ r.pc \in {"flush", "project", "retries", "reset"} /\ r.then = "retries"
  \/ r.op = "cleanup" /\ r.pc = "wait"
  \/ r.op = "cleanup" /\ r.pc \in {"clear", "remove"} /\ r.then = "clear"
  \/ r.op = "recover" /\ r.pc \in {"write", "project", "recovered"} /\ r.then = "recovered"
Planned(p) ==
  /\ p \in Emitters => PlanOfEmitter(proc[p])
  /\ p = Flusher => proc[p].pc \in {"idle", "flush", "project"} /\ proc[p].then = "done"
  /\ p = Retrier => proc[p].pc \in {"idle", "retries"} /\ proc[p].then = "done"
  /\ p = Keeper => PlanOfKeeper(proc[p])

\* Whoever is past its lookup holds the mutex of the object in the map, of a session whose row
\* exists; only the deletion goes on after both are gone.
AtWork(p) == proc[p].pc \notin {"idle", "wait"}
Deleted(p) == p = Keeper /\ proc[p].op = "delete" /\ proc[p].pc = "remove"
Mutexes(p) ==
  /\ AtWork(p) => /\ holder[proc[p].gen] = p
                  /\ IF Deleted(p) THEN ~row ELSE row /\ proc[p].gen = cur
  /\ proc[p].pc = "wait" => log[proc[p].gen].closed \/ (row /\ proc[p].gen = cur)
  /\ p = Keeper /\ proc[p].pc = "wait" => row /\ proc[p].gen = cur
\* No line is written or projected, and no file dropped by a synchronisation, behind buffered text.
Buffered(p) ==
  /\ proc[p].pc = "flush" => log[cur].buf # <<>>
  /\ proc[p].pc \in {"write", "project"} => log[cur].buf = <<>>
  /\ p = Keeper /\ proc[p].pc \in {"retries", "reset"} => log[cur].buf = <<>>

\* The objects: those behind the one in the map are closed or will be used after it.
Closed == [Fresh EXCEPT !.closed = TRUE]
ObjectsKept ==
  /\ \A g \in Gens :
       /\ log[g].buf # <<>> => log[g].timer
       /\ log[g].retries # <<>> =>
            log[g].retryTimer \/ (holder[g] # None /\ proc[holder[g]].pc = "retries")
       /\ g > cur => log[g] = Fresh
       /\ g < cur => log[g] = Closed
  /\ ~log[cur].closed /\ (~row => log[cur] = Fresh)
  /\ ~up => log[cur].buf = <<>> /\ \A e \in Emitters : proc[e].pc = "idle"
  /\ cur <= cmds + 1
  /\ proc[Keeper].op \in {"delete", "cleanup"} /\ ~Deleted(Keeper) => cur <= cmds

Complete ==
  LET buf == log[cur].buf IN
  /\ row => said = InFile \cup NumbersIn(buf) /\ Before(InFile, NumbersIn(buf))
            /\ Increasing(Numbers(buf))
  /\ InOrder(file)
  /\ \A i, j \in 1..Len(file) : i < j => file[i].seq < file[j].seq
  /\ log[cur].init => \A i \in 1..Len(file) : file[i].seq <= log[cur].last

Waiting == InLines(log[cur].retries)
InHand == UNION {NumbersIn(proc[p].line.pieces) : p \in {q \in Procs : proc[q].pc = "project"}}
Pending(line) == Increasing(Numbers(line.pieces)) /\ line.pieces # <<>>
Projected ==
  /\ Increasing(projected)
  /\ row =>
       /\ InOrder(log[cur].retries)
       /\ \A i \in 1..Len(log[cur].retries) : log[cur].retries[i].pieces # <<>>
       /\ \A p \in Procs : proc[p].pc = "project" => Pending(proc[p].line)
       /\ Before(ToSet(projected), Waiting \cup InHand) /\ Before(Waiting, InHand)
       /\ Before(ToSet(projected) \cup Waiting, NumbersIn(log[cur].buf))
       /\ Waiting \cup InHand \subseteq 1..emits
       /\ InFile \subseteq ToSet(projected) \cup Waiting \cup InHand \cup skipped

Control == Memory /\ (\A p \in Procs : Planned(p) /\ Mutexes(p) /\ Buffered(p)) /\ ObjectsKept
IInv == Control /\ Disk /\ News /\ Complete /\ Projected

-----------------------------------------------------------------------------
(* Sequences of pieces and lines.                                           *)

LEMMA EmptyNumbers == NumbersIn(<<>>) = {} /\ Increasing(Numbers(<<>>)) /\ Numbers(<<>>) = <<>>
  BY DEF NumbersIn, Numbers, Increasing

LEMMA NumbersTyped ==
  ASSUME NEW s \in Seq(Piece)
  PROVE  /\ Numbers(s) \in Seq(Nat) /\ Len(Numbers(s)) = Len(s) /\ ToSet(Numbers(s)) = NumbersIn(s)
         /\ NumbersIn(s) \subseteq Nat
  <1> DEFINE n == Len(s)
             f == [i \in 1..n |-> s[i].n]
  <1>a. n \in Nat /\ \A i \in 1..n : s[i] \in Piece
    OBVIOUS
  <1>b. \A i \in 1..n : s[i].n \in Nat
    BY <1>a DEF Piece
  <1> HIDE DEF n
  <1>c. f \in Seq(Nat) /\ Len(f) = n
    BY <1>a, <1>b
  <1>1. Numbers(s) \in Seq(Nat) /\ Len(Numbers(s)) = Len(s)
    BY <1>c DEF Numbers, n
  <1>2. NumbersIn(s) \subseteq Nat
    BY <1>b DEF NumbersIn, n
  <1>3. ToSet(Numbers(s)) = NumbersIn(s)
    BY <1>1 DEF ToSet, Numbers, NumbersIn
  <1> QED BY <1>1, <1>2, <1>3

\* a piece that is newer than the others goes behind them
LEMMA AppendPiece ==
  ASSUME NEW s \in Seq(Piece), NEW x \in Piece
  PROVE  /\ NumbersIn(Append(s, x)) = NumbersIn(s) \cup {x.n}
         /\ Increasing(Numbers(s)) /\ Before(NumbersIn(s), {x.n})
              => Increasing(Numbers(Append(s, x)))
  <1> DEFINE t == Append(s, x)
  <1>1. t \in Seq(Piece) /\ Len(t) = Len(s) + 1 /\ t[Len(s) + 1] = x /\ Len(s) \in Nat
        /\ \A i \in 1..Len(s) : t[i] = s[i]
    OBVIOUS
  <1> HIDE DEF t
  <1>2. NumbersIn(t) = NumbersIn(s) \cup {x.n}
    BY <1>1 DEF NumbersIn
  <1>3. ASSUME Increasing(Numbers(s)), Before(NumbersIn(s), {x.n}), NEW i \in 1..Len(t),
               NEW j \in 1..Len(t), i < j
        PROVE  t[i].n < t[j].n
    <2>1. i \in 1..Len(s) /\ t[i] = s[i] /\ s[i].n \in NumbersIn(s)
      BY <1>1, <1>3 DEF NumbersIn
    <2>2. CASE j = Len(s) + 1
      BY <1>1, <1>3, <2>1, <2>2 DEF Before
    <2>3. CASE j \in 1..Len(s)
      BY <1>1, <1>3, <2>1, <2>3 DEF Increasing, Numbers
    <2> QED BY <1>1, <2>2, <2>3
  <1>4. Increasing(Numbers(s)) /\ Before(NumbersIn(s), {x.n}) => Increasing(Numbers(t))
    BY <1>1, <1>3 DEF Increasing, Numbers
  <1> QED BY <1>2, <1>4 DEF t

LEMMA OnePiece ==
  ASSUME NEW x \in Piece
  PROVE  /\ <<x>> \in Seq(Piece) /\ <<x>> # <<>> /\ NumbersIn(<<x>>) = {x.n}
         /\ Increasing(Numbers(<<x>>))
  BY DEF NumbersIn, Numbers, Increasing, Piece

LEMMA EmptyLines == InLines(<<>>) = {} /\ InOrder(<<>>)
  BY DEF InLines, InOrder

LEMMA LinesTyped ==
  ASSUME NEW ls \in Seq(Line)
  PROVE  InLines(ls) \subseteq Nat
  <1>1. ASSUME NEW i \in 1..Len(ls) PROVE ls[i].pieces \in Seq(Piece)
    <2>1. ls[i] \in Line
      OBVIOUS
    <2> QED BY <2>1 DEF Line
  <1> QED BY <1>1, NumbersTyped DEF InLines

\* a line that is newer than the others goes behind them
LEMMA AppendLine ==
  ASSUME NEW ls \in Seq(Line), NEW l \in Line
  PROVE  /\ InLines(Append(ls, l)) = InLines(ls) \cup NumbersIn(l.pieces)
         /\ InOrder(ls) /\ Increasing(Numbers(l.pieces)) /\ Before(InLines(ls), NumbersIn(l.pieces))
              => InOrder(Append(ls, l))
  <1> DEFINE t == Append(ls, l)
  <1>1. t \in Seq(Line) /\ Len(t) = Len(ls) + 1 /\ t[Len(ls) + 1] = l /\ Len(ls) \in Nat
        /\ \A i \in 1..Len(ls) : t[i] = ls[i]
    OBVIOUS
  <1> HIDE DEF t
  <1>2. InLines(t) = InLines(ls) \cup NumbersIn(l.pieces)
    BY <1>1 DEF InLines
  <1>3. ASSUME InOrder(ls), Increasing(Numbers(l.pieces)), Before(InLines(ls), NumbersIn(l.pieces))
        PROVE  InOrder(t)
    <2>1. \A i \in 1..Len(t) : Increasing(Numbers(t[i].pieces))
      BY <1>1, <1>3 DEF InOrder
    <2>2. ASSUME NEW i \in 1..Len(t), NEW j \in 1..Len(t), i < j
          PROVE  Before(NumbersIn(t[i].pieces), NumbersIn(t[j].pieces))
      <3>1. i \in 1..Len(ls) /\ t[i] = ls[i] /\ NumbersIn(ls[i].pieces) \subseteq InLines(ls)
        BY <1>1, <2>2 DEF InLines
      <3>2. CASE j = Len(ls) + 1
        BY <1>1, <1>3, <3>1, <3>2 DEF Before
      <3>3. CASE j \in 1..Len(ls)
        BY <1>1, <1>3, <2>2, <3>1, <3>3 DEF InOrder
      <3> QED BY <1>1, <3>2, <3>3
    <2> QED BY <2>1, <2>2 DEF InOrder
  <1> QED BY <1>2, <1>3 DEF t

\* the first line of several goes
LEMMA TailLines ==
  ASSUME NEW ls \in Seq(Line), ls # <<>>, InOrder(ls)
  PROVE  /\ Head(ls) \in Line /\ Tail(ls) \in Seq(Line) /\ InOrder(Tail(ls))
         /\ InLines(ls) = NumbersIn(Head(ls).pieces) \cup InLines(Tail(ls))
         /\ Increasing(Numbers(Head(ls).pieces))
         /\ Before(NumbersIn(Head(ls).pieces), InLines(Tail(ls)))
  <1> DEFINE t == Tail(ls)
  <1>1. t \in Seq(Line) /\ Len(ls) \in Nat /\ Len(ls) > 0 /\ Len(t) = Len(ls) - 1
        /\ Head(ls) = ls[1] /\ ls[1] \in Line /\ \A i \in 1..Len(t) : t[i] = ls[i + 1]
    OBVIOUS
  <1> HIDE DEF t
  <1>2. InOrder(t)
    <2>1. ASSUME NEW i \in 1..Len(t) PROVE i + 1 \in 1..Len(ls) /\ t[i] = ls[i + 1]
      BY <1>1
    <2>2. \A i \in 1..Len(t) : Increasing(Numbers(t[i].pieces))
      BY <2>1 DEF InOrder
    <2>3. ASSUME NEW i \in 1..Len(t), NEW j \in 1..Len(t), i < j
          PROVE  Before(NumbersIn(t[i].pieces), NumbersIn(t[j].pieces))
      <3>1. i + 1 < j + 1 /\ i + 1 \in 1..Len(ls) /\ j + 1 \in 1..Len(ls)
        BY <2>1, <2>3
      <3> QED BY <2>1, <3>1 DEF InOrder
    <2> QED BY <2>2, <2>3 DEF InOrder
  <1>3. InLines(ls) = NumbersIn(ls[1].pieces) \cup InLines(t)
    <2>1. ASSUME NEW i \in 1..Len(ls) PROVE i = 1 \/ (i - 1 \in 1..Len(t) /\ t[i - 1] = ls[i])
      BY <1>1
    <2>2. ASSUME NEW i \in 1..Len(t) PROVE i + 1 \in 1..Len(ls) /\ t[i] = ls[i + 1]
      BY <1>1
    <2>3. 1 \in 1..Len(ls)
      BY <1>1
    <2>4. ASSUME NEW n \in InLines(ls) PROVE n \in NumbersIn(ls[1].pieces) \cup InLines(t)
      <3>1. PICK i \in 1..Len(ls) : n \in NumbersIn(ls[i].pieces)
        BY DEF InLines
      <3>2. CASE i = 1
        BY <3>1, <3>2
      <3>3. CASE i - 1 \in 1..Len(t) /\ t[i - 1] = ls[i]
        BY <3>1, <3>3 DEF InLines
      <3> QED BY <2>1, <3>2, <3>3
    <2>5. NumbersIn(ls[1].pieces) \subseteq InLines(ls)
      BY <2>3 DEF InLines
    <2>6. ASSUME NEW n \in InLines(t) PROVE n \in InLines(ls)
      <3>1. PICK i \in 1..Len(t) : n \in NumbersIn(t[i].pieces)
        BY DEF InLines
      <3>2. i + 1 \in 1..Len(ls) /\ n \in NumbersIn(ls[i + 1].pieces)
        BY <2>2, <3>1
      <3> QED BY <3>2 DEF InLines
    <2> QED BY <2>4, <2>5, <2>6
  <1>4. Increasing(Numbers(ls[1].pieces))
    BY <1>1 DEF InOrder
  <1>5. ASSUME NEW m \in NumbersIn(ls[1].pieces), NEW n \in InLines(t)
        PROVE  m < n
    <2>1. PICK i \in 1..Len(t) : n \in NumbersIn(t[i].pieces)
      BY DEF InLines
    <2>2. i + 1 \in 1..Len(ls) /\ 1 < i + 1 /\ t[i] = ls[i + 1] /\ 1 \in 1..Len(ls)
      BY <1>1
    <2>3. Before(NumbersIn(ls[1].pieces), NumbersIn(ls[i + 1].pieces))
      BY <2>2 DEF InOrder
    <2> QED BY <2>1, <2>2, <2>3 DEF Before
  <1> QED BY <1>1, <1>2, <1>3, <1>4, <1>5 DEF Before, t

\* projecting newer pieces keeps what was projected in order
LEMMA AppendProjected ==
  ASSUME NEW q \in Seq(Nat), NEW s \in Seq(Piece)
  PROVE  /\ q \o Numbers(s) \in Seq(Nat)
         /\ ToSet(q \o Numbers(s)) = ToSet(q) \cup NumbersIn(s)
         /\ Increasing(q) /\ Increasing(Numbers(s)) /\ Before(ToSet(q), NumbersIn(s))
              => Increasing(q \o Numbers(s))
  <1> DEFINE u == Numbers(s)
             t == q \o u
  <1>1. u \in Seq(Nat) /\ ToSet(u) = NumbersIn(s)
    BY NumbersTyped
  <1> HIDE DEF u
  <1>2. t \in Seq(Nat) /\ Len(t) = Len(q) + Len(u) /\ Len(q) \in Nat /\ Len(u) \in Nat
        /\ (\A i \in 1..Len(q) : t[i] = q[i]) /\ \A i \in 1..Len(u) : t[Len(q) + i] = u[i]
    BY <1>1
  <1> HIDE DEF t
  <1>3. ASSUME NEW i \in 1..Len(t)
        PROVE  \/ i \in 1..Len(q) /\ t[i] = q[i]
               \/ i > Len(q) /\ i - Len(q) \in 1..Len(u) /\ t[i] = u[i - Len(q)]
    <2>1. CASE i <= Len(q)
      BY <1>2, <2>1
    <2>2. CASE i > Len(q)
      <3>1. i - Len(q) \in 1..Len(u) /\ Len(q) + (i - Len(q)) = i
        BY <1>2, <2>2
      <3> QED BY <1>2, <2>2, <3>1
    <2> QED BY <1>2, <2>1, <2>2
  <1>4. ToSet(t) = ToSet(q) \cup ToSet(u)
    <2> DEFINE T == {t[i] : i \in 1..Len(t)}
               Q == {q[i] : i \in 1..Len(q)}
               U == {u[i] : i \in 1..Len(u)}
    <2>1. T \subseteq Q \cup U
      BY <1>3
    <2>2. \A i \in 1..Len(q) : i \in 1..Len(t)
      BY <1>2
    <2>3. \A i \in 1..Len(u) : Len(q) + i \in 1..Len(t)
      BY <1>2
    <2>4. Q \subseteq T
      BY <1>2, <2>2
    <2>5. U \subseteq T
      BY <1>2, <2>3
    <2>6. DOMAIN t = 1..Len(t) /\ DOMAIN q = 1..Len(q) /\ DOMAIN u = 1..Len(u)
      BY <1>1, <1>2
    <2>7. ToSet(t) = T /\ ToSet(q) = Q /\ ToSet(u) = U
      BY <2>6, Zenon DEF ToSet
    <2> QED BY <2>1, <2>4, <2>5, <2>7
  <1>5. ASSUME Increasing(q), Increasing(u), Before(ToSet(q), ToSet(u)), NEW i \in 1..Len(t),
               NEW j \in 1..Len(t), i < j
        PROVE  t[i] < t[j]
    <2>1. CASE i \in 1..Len(q) /\ j \in 1..Len(q)
      <3>1. q[i] < q[j]
        BY <1>5, <2>1 DEF Increasing
      <3> QED BY <1>2, <2>1, <3>1
    <2>2. CASE i \in 1..Len(q) /\ j > Len(q)
      <3>1. t[i] \in ToSet(q)
        <4>1. DOMAIN q = 1..Len(q)
          OBVIOUS
        <4>2. q[i] \in ToSet(q)
          BY <2>2, <4>1, Zenon DEF ToSet
        <4>3. t[i] = q[i]
          BY <1>2, <2>2
        <4> QED BY <4>2, <4>3
      <3>2. t[j] \in ToSet(u)
        <4>1. j - Len(q) \in 1..Len(u) /\ t[j] = u[j - Len(q)]
          <5>1. ~(j \in 1..Len(q))
            BY <1>2, <2>2
          <5> QED BY <1>3, <5>1
        <4> QED BY <1>1, <4>1 DEF ToSet
      <3> QED BY <1>5, <3>1, <3>2 DEF Before
    <2>3. CASE i > Len(q)
      <3>1. j > Len(q)
        BY <1>2, <1>5, <2>3
      <3>2. i - Len(q) \in 1..Len(u) /\ t[i] = u[i - Len(q)]
        BY <1>2, <1>3, <2>3
      <3>3. j - Len(q) \in 1..Len(u) /\ t[j] = u[j - Len(q)]
        BY <1>2, <1>3, <3>1
      <3>4. i - Len(q) < j - Len(q)
        BY <1>2, <1>5
      <3> QED BY <1>5, <3>2, <3>3, <3>4 DEF Increasing
    <2> QED BY <1>2, <1>5, <2>1, <2>2, <2>3
  <1>6. Increasing(q) /\ Increasing(u) /\ Before(ToSet(q), ToSet(u)) => Increasing(t)
    BY <1>5 DEF Increasing
  <1> QED BY <1>1, <1>2, <1>4, <1>6 DEF t, u

-----------------------------------------------------------------------------
(* Who does what.                                                           *)

LEMMA Roles ==
  ASSUME EventLogAssumption
  PROVE  /\ None \notin Procs /\ Flusher \in Procs /\ Retrier \in Procs /\ Keeper \in Procs
         /\ Emitters \subseteq Procs /\ Keeper \notin Emitters /\ Flusher \notin Emitters
         /\ Retrier \notin Emitters /\ Flusher # Keeper /\ Retrier # Keeper /\ Flusher # Retrier
         /\ \A p \in Procs : p \in Emitters \/ p \in {Flusher, Retrier, Keeper}
         /\ 1 \in Gens /\ Gens \subseteq Nat
  BY DEF EventLogAssumption, Procs, Gens

LEMMA RestTyped ==
  ASSUME EventLogAssumption
  PROVE  /\ Rest \in Routines /\ Rest.pc = "idle" /\ Rest.op = "none" /\ Rest.then = "done"
         /\ NoLine \in Line /\ Fresh \in Objects /\ ~Fresh.closed /\ ~Fresh.init
         /\ Fresh.buf = <<>> /\ Fresh.retries = <<>> /\ ~Fresh.retryTimer /\ ~Fresh.timer
  <1>1. NoLine \in Line
    BY DEF NoLine, Line
  <1>2. Fresh \in Objects
    BY DEF Fresh, Objects
  <1>3. Rest \in Routines
    BY <1>1, Roles DEF Rest, Routines, PCs, Operations, Kinds
  <1> QED BY <1>1, <1>2, <1>3 DEF Rest, Fresh

\* the goroutine at work is the only one
LEMMA Alone ==
  ASSUME Control, NEW p \in Procs, AtWork(p), NEW q \in Procs, AtWork(q)
  PROVE  q = p
  <1>1. Mutexes(p) /\ Mutexes(q)
    BY DEF Control
  <1>2. CASE Deleted(p) \/ Deleted(q)
    BY <1>1, <1>2 DEF Mutexes, Deleted
  <1>3. CASE ~Deleted(p) /\ ~Deleted(q)
    BY <1>1, <1>3 DEF Mutexes
  <1> QED BY <1>2, <1>3

\* ... and nobody works where the mutex is free and the row exists
LEMMA NobodyWorks ==
  ASSUME EventLogAssumption, Control, Free(cur), row, NEW q \in Procs
  PROVE  ~AtWork(q)
  BY Roles DEF Control, Mutexes, Deleted, Free

\* what p, at work on the object in the map, knows
LEMMA WorksOn ==
  ASSUME Control, NEW p \in Procs, AtWork(p), ~Deleted(p)
  PROVE  /\ row /\ proc[p].gen = cur /\ My(p) = log[cur] /\ holder[cur] = p /\ log[cur] \in Objects
         /\ ~log[cur].closed /\ proc[p] \in Routines /\ cur \in Gens
  BY DEF Control, Mutexes, My, Memory, ObjectsKept

\* the pieces in hand, when nobody but p may be projecting
LEMMA OneHand ==
  ASSUME NEW f, NEW p \in Procs, \A q \in Procs : f[q].pc = "project" => q = p
  PROVE  UNION {NumbersIn(f[q].line.pieces) : q \in {x \in Procs : f[x].pc = "project"}}
           = IF f[p].pc = "project" THEN NumbersIn(f[p].line.pieces) ELSE {}
  OBVIOUS

\* the objects that are not in the map
LEMMA Unused ==
  ASSUME ObjectsKept, Memory, EventLogAssumption
  PROVE  /\ \A g \in Gens \ {cur} : log[g] \in {Fresh, Closed}
         /\ Closed.buf = <<>> /\ Closed.retries = <<>> /\ Fresh.buf = <<>> /\ Fresh.retries = <<>>
         /\ Closed # Fresh
  <1>1. cur \in Nat /\ Gens \subseteq Nat
    BY Roles DEF Memory
  <1>2. ASSUME NEW g \in Gens \ {cur} PROVE log[g] \in {Fresh, Closed}
    <2>1. g < cur \/ g > cur
      BY <1>1
    <2> QED BY <2>1 DEF ObjectsKept
  <1>3. /\ Closed.buf = <<>> /\ Closed.retries = <<>> /\ Closed.closed
        /\ Fresh.buf = <<>> /\ Fresh.retries = <<>> /\ ~Fresh.closed
    BY DEF Closed, Fresh
  <1> QED BY <1>2, <1>3

\* A step of p at work that keeps or returns the mutex, and leaves st of the object.
LEMMA WorkKeeps ==
  ASSUME EventLogAssumption, Control, NEW p \in Procs, AtWork(p), ~Deleted(p),
         NEW st \in Objects, NEW r \in Routines,
         log' = [log EXCEPT ![cur] = st], cur' = cur, proc' = [proc EXCEPT ![p] = r],
         row' = row, cmds' = cmds, up' \in BOOLEAN, up => up',
         ~st.closed, ~up' => st.buf = <<>>,
         st.buf # <<>> => st.timer, st.retries # <<>> => st.retryTimer \/ r.pc = "retries",
         \/ r = Rest /\ holder' = [holder EXCEPT ![cur] = None]
         \/ /\ holder' = holder /\ r.gen = cur /\ r.op = proc[p].op
            /\ r.pc \notin {"idle", "wait"} /\ (r.pc = "remove" => r.op # "delete")
            /\ Planned(p)'
            /\ r.pc = "flush" => st.buf # <<>>
            /\ r.pc \in {"write", "project"} => st.buf = <<>>
            /\ p = Keeper /\ r.pc \in {"retries", "reset"} => st.buf = <<>>
  PROVE  Control'
  <1> USE Roles, RestTyped
  <1>1. /\ row /\ proc[p].gen = cur /\ holder[cur] = p /\ cur \in Gens
        /\ Memory /\ ObjectsKept
    BY WorksOn DEF Control
  <1>2. Memory'
    BY <1>1 DEF Memory
  <1>3. /\ \A q \in Procs \ {p} : proc'[q] = proc[q] /\ ~AtWork(q)
        /\ proc'[p] = r /\ log'[cur] = st /\ holder'[cur] \in {p, None}
        /\ \A g \in Gens \ {cur} : log'[g] = log[g] /\ holder'[g] = holder[g]
    BY <1>1, Alone DEF Memory
  <1>4. ASSUME NEW q \in Procs PROVE Planned(q)' /\ Mutexes(q)' /\ Buffered(q)'
    <2>1. CASE q # p
      <3>1. Planned(q) /\ Mutexes(q) /\ Buffered(q) /\ ~AtWork(q)
        BY <1>3, <2>1 DEF Control
      <3>2. Planned(q)'
        BY <1>3, <2>1, <3>1 DEF Planned, PlanOfEmitter, PlanOfKeeper
      <3>3. Mutexes(q)'
        BY <1>1, <1>3, <2>1, <3>1 DEF Mutexes, AtWork, Deleted, ObjectsKept
      <3>4. Buffered(q)'
        BY <1>3, <2>1, <3>1 DEF Buffered, AtWork
      <3> QED BY <3>2, <3>3, <3>4
    <2>2. CASE q = p
      <3>1. Planned(p)'
        <4>1. CASE r = Rest
          BY <1>3, <4>1 DEF Planned, PlanOfEmitter, PlanOfKeeper
        <4> QED BY <4>1
      <3>2. Mutexes(p)'
        BY <1>1, <1>3 DEF Mutexes, AtWork, Deleted
      <3>3. Buffered(p)'
        BY <1>1, <1>3 DEF Buffered
      <3> QED BY <2>2, <3>1, <3>2, <3>3
    <2> QED BY <2>1, <2>2
  <1>5. ObjectsKept'
    <2>1. ASSUME NEW g \in Gens
          PROVE  /\ log'[g].buf # <<>> => log'[g].timer
                 /\ log'[g].retries # <<>> =>
                      log'[g].retryTimer \/ (holder'[g] # None /\ proc'[holder'[g]].pc = "retries")
                 /\ g > cur' => log'[g] = Fresh
                 /\ g < cur' => log'[g] = Closed
      <3>1. CASE g = cur
        BY <1>1, <1>3, <3>1 DEF ObjectsKept
      <3>2. CASE g # cur
        <4>1. log[g] \in {Fresh, Closed} /\ log'[g] = log[g]
          BY <1>1, <1>3, <3>2, Unused
        <4> QED BY <1>1, <3>2, <4>1, Unused DEF ObjectsKept
      <3> QED BY <3>1, <3>2
    <2>2. ~log'[cur'].closed /\ (~row' => log'[cur'] = Fresh)
      BY <1>1, <1>3
    <2>3. ~up' => log'[cur'].buf = <<>> /\ \A e \in Emitters : proc'[e].pc = "idle"
      <3>1. ASSUME ~up', NEW e \in Emitters PROVE proc'[e].pc = "idle"
        <4>1. proc[e].pc = "idle"
          BY <1>1, <3>1 DEF ObjectsKept
        <4>2. e # p
          BY <4>1 DEF AtWork
        <4> QED BY <1>3, <4>1, <4>2
      <3> QED BY <1>3, <3>1
    <2>4. proc'[Keeper].op \in {"delete", "cleanup"} /\ ~Deleted(Keeper)' => cur' <= cmds'
      <3>1. CASE p = Keeper
        BY <1>1, <1>3, <3>1 DEF ObjectsKept, Deleted
      <3>2. CASE p # Keeper
        BY <1>1, <1>3, <3>2 DEF ObjectsKept, Deleted
      <3> QED BY <3>1, <3>2
    <2> QED BY <1>1, <2>1, <2>2, <2>3, <2>4 DEF ObjectsKept
  <1> QED BY <1>2, <1>4, <1>5 DEF Control

\* A step of p that takes the free mutex, and changes no text or line of the object.
LEMMA HoldKeeps ==
  ASSUME EventLogAssumption, Control, NEW p \in Procs, Free(cur), row,
         NEW st \in Objects, NEW r \in Routines,
         log' = [log EXCEPT ![cur] = st], cur' = cur, proc' = [proc EXCEPT ![p] = r],
         holder' = [holder EXCEPT ![cur] = p], row' = row, cmds' = cmds, up' = up,
         ~st.closed, st.buf = log[cur].buf, st.timer = log[cur].timer,
         st.retries # <<>> => st.retryTimer \/ r.pc = "retries",
         r.gen = cur, r.pc \notin {"idle", "wait", "remove"}, Planned(p)',
         r.pc = "flush" => st.buf # <<>>,
         r.pc \in {"write", "project"} => st.buf = <<>>,
         p = Keeper /\ r.pc \in {"retries", "reset"} => st.buf = <<>>,
         p \in Emitters => proc[p].pc = "wait",
         p = Keeper /\ r.op \in {"delete", "cleanup"} => proc[p].op = r.op
  PROVE  Control'
  <1> USE Roles, RestTyped
  <1>1. Memory /\ ObjectsKept /\ cur \in Gens /\ holder[cur] = None /\ None # p
    BY DEF Control, Memory, Free
  <1>2. Memory'
    BY <1>1 DEF Memory
  <1>3. /\ \A q \in Procs \ {p} : proc'[q] = proc[q] /\ ~AtWork(q)
        /\ proc'[p] = r /\ log'[cur] = st /\ holder'[cur] = p /\ ~AtWork(p)
        /\ \A g \in Gens \ {cur} : log'[g] = log[g] /\ holder'[g] = holder[g]
    BY <1>1, NobodyWorks DEF Memory
  <1>4. ASSUME NEW q \in Procs PROVE Planned(q)' /\ Mutexes(q)' /\ Buffered(q)'
    <2>1. CASE q # p
      <3>1. Planned(q) /\ Mutexes(q) /\ Buffered(q) /\ ~AtWork(q)
        BY <1>3, <2>1 DEF Control
      <3>2. Planned(q)'
        BY <1>3, <2>1, <3>1 DEF Planned, PlanOfEmitter, PlanOfKeeper
      <3>3. Mutexes(q)'
        BY <1>1, <1>3, <2>1, <3>1 DEF Mutexes, AtWork, Deleted, ObjectsKept
      <3>4. Buffered(q)'
        BY <1>3, <2>1, <3>1 DEF Buffered, AtWork
      <3> QED BY <3>2, <3>3, <3>4
    <2>2. CASE q = p
      BY <1>1, <1>3, <2>2 DEF Mutexes, AtWork, Deleted, Buffered
    <2> QED BY <2>1, <2>2
  <1>5. ObjectsKept'
    <2>1. ASSUME NEW g \in Gens
          PROVE  /\ log'[g].buf # <<>> => log'[g].timer
                 /\ log'[g].retries # <<>> =>
                      log'[g].retryTimer \/ (holder'[g] # None /\ proc'[holder'[g]].pc = "retries")
                 /\ g > cur' => log'[g] = Fresh
                 /\ g < cur' => log'[g] = Closed
      <3>1. CASE g = cur
        BY <1>1, <1>3, <3>1 DEF ObjectsKept
      <3>2. CASE g # cur
        <4>1. log[g] \in {Fresh, Closed} /\ log'[g] = log[g]
          BY <1>1, <1>3, <3>2, Unused
        <4> QED BY <1>1, <3>2, <4>1, Unused DEF ObjectsKept
      <3> QED BY <3>1, <3>2
    <2>2. ~log'[cur'].closed /\ row'
      BY <1>1, <1>3
    <2>3. ~up' => log'[cur'].buf = <<>> /\ \A e \in Emitters : proc'[e].pc = "idle"
      BY <1>1, <1>3 DEF ObjectsKept
    <2>4. proc'[Keeper].op \in {"delete", "cleanup"} /\ ~Deleted(Keeper)' => cur' <= cmds'
      BY <1>1, <1>3 DEF ObjectsKept, Deleted, AtWork
    <2> QED BY <1>1, <2>1, <2>2, <2>3, <2>4 DEF ObjectsKept
  <1> QED BY <1>2, <1>4, <1>5 DEF Control

\* A step of p that looks the object up, or finds it closed.
LEMMA LookupKeeps ==
  ASSUME EventLogAssumption, Control, NEW p \in Procs, ~AtWork(p), NEW r \in Routines,
         log' = log, cur' = cur, proc' = [proc EXCEPT ![p] = r], holder' = holder, row' = row,
         cmds' \in 0..MaxCommands, cmds <= cmds', up' = up,
         \/ r = Rest
         \/ r.pc = "wait" /\ r.gen = cur /\ r.then = "done" /\ row /\ up,
         Planned(p)', p = Keeper /\ r.op \in {"delete", "cleanup"} => cur <= cmds'
  PROVE  Control'
  <1> USE Roles, RestTyped
  <1>1. Memory /\ ObjectsKept
    BY DEF Control
  <1>2. Memory'
    BY <1>1 DEF Memory
  <1>3. /\ \A q \in Procs \ {p} : proc'[q] = proc[q]
        /\ proc'[p] = r /\ ~AtWork(p)'
    BY <1>1 DEF Memory, AtWork
  <1>4. ASSUME NEW q \in Procs PROVE Planned(q)' /\ Mutexes(q)' /\ Buffered(q)'
    <2>1. CASE q # p
      <3>1. Planned(q) /\ Mutexes(q) /\ Buffered(q)
        BY DEF Control
      <3>2. Planned(q)'
        BY <1>3, <2>1, <3>1 DEF Planned, PlanOfEmitter, PlanOfKeeper
      <3>3. Mutexes(q)'
        BY <1>3, <2>1, <3>1 DEF Mutexes, AtWork, Deleted
      <3>4. Buffered(q)'
        BY <1>3, <2>1, <3>1 DEF Buffered
      <3> QED BY <3>2, <3>3, <3>4
    <2>2. CASE q = p
      BY <1>1, <1>3, <2>2 DEF Mutexes, AtWork, Buffered
    <2> QED BY <2>1, <2>2
  <1>5. ObjectsKept'
    <2>0. ASSUME NEW g \in Gens, log[g].retries # <<>>
          PROVE  log[g].retryTimer \/ (holder[g] # None /\ proc'[holder[g]].pc = "retries")
      <3>1. log[g].retryTimer \/ (holder[g] # None /\ proc[holder[g]].pc = "retries")
        BY <1>1, <2>0 DEF ObjectsKept
      <3>2. holder[g] # None /\ proc[holder[g]].pc = "retries" => holder[g] \in Procs \ {p}
        BY <1>1 DEF Memory, AtWork
      <3> QED BY <1>3, <3>1, <3>2
    <2>1. ~up' => log'[cur'].buf = <<>> /\ \A e \in Emitters : proc'[e].pc = "idle"
      BY <1>1, <1>3 DEF ObjectsKept
    <2>2. cur' <= cmds' + 1
      BY <1>1 DEF ObjectsKept, Memory
    <2>3. proc'[Keeper].op \in {"delete", "cleanup"} /\ ~Deleted(Keeper)' => cur' <= cmds'
      <3>1. CASE p = Keeper
        BY <1>3, <3>1
      <3>2. CASE p # Keeper
        BY <1>1, <1>3, <3>2 DEF ObjectsKept, Deleted, Memory
      <3> QED BY <3>1, <3>2
    <2> QED BY <1>1, <2>0, <2>1, <2>2, <2>3 DEF ObjectsKept
  <1> QED BY <1>2, <1>4, <1>5 DEF Control

\* The keeper drops the object from the map: with the row, or at the end of a cleanup.
LEMMA DropKeeps ==
  ASSUME EventLogAssumption, Control, AtWork(Keeper), ~Deleted(Keeper),
         log' = [log EXCEPT ![cur] = Closed], cur' = cur + 1, cmds' = cmds, up' = up,
         \/ /\ proc[Keeper].op = "delete" /\ proc[Keeper].then = "row"
            /\ row' = FALSE /\ holder' = holder
            /\ proc' = [proc EXCEPT ![Keeper] = [proc[Keeper] EXCEPT !.pc = "remove"]]
         \/ /\ proc[Keeper].op = "cleanup" /\ row' = row
            /\ holder' = [holder EXCEPT ![cur] = None] /\ proc' = [proc EXCEPT ![Keeper] = Rest]
  PROVE  Control'
  <1> USE Roles, RestTyped
  <1>1. /\ row /\ proc[Keeper].gen = cur /\ holder[cur] = Keeper /\ cur \in Gens
        /\ Memory /\ ObjectsKept /\ cmds \in 0..MaxCommands
    BY WorksOn DEF Control, Memory
  <1>2. cur <= cmds /\ cur + 1 \in Gens /\ cur \in Nat
    <2>1. cur <= cmds
      BY <1>1 DEF ObjectsKept
    <2>2. MaxCommands \in Nat
      BY DEF EventLogAssumption
    <2> QED BY <1>1, <2>1, <2>2 DEF Gens
  <1>3. Closed \in Objects /\ Closed.closed /\ Closed.buf = <<>> /\ Closed.retries = <<>>
    BY DEF Closed, Fresh, Objects
  <1> HIDE DEF Closed
  <1>4. proc'[Keeper] \in Routines
    <2>1. proc[Keeper] \in Routines
      BY <1>1 DEF Memory
    <2>2. [proc[Keeper] EXCEPT !.pc = "remove"] \in Routines
      BY <2>1 DEF Routines, PCs
    <2> QED BY <1>1, <2>2 DEF Memory
  <1>5. Memory'
    BY <1>1, <1>2, <1>3, <1>4 DEF Memory
  <1>6. /\ \A q \in Procs \ {Keeper} : proc'[q] = proc[q] /\ ~AtWork(q)
        /\ log'[cur] = Closed
        /\ \A g \in Gens \ {cur} : log'[g] = log[g] /\ holder'[g] = holder[g]
    BY <1>1, Alone DEF Memory
  <1>7. \/ /\ proc'[Keeper].op = "delete" /\ proc'[Keeper].pc = "remove"
           /\ proc'[Keeper].gen = cur /\ proc'[Keeper].then = "row" /\ ~row' /\ holder'[cur] = Keeper
        \/ row' /\ proc'[Keeper] = Rest
    <2>1. proc[Keeper] \in Routines /\ proc \in [Procs -> Routines]
      BY <1>1 DEF Memory
    <2>2. CASE proc' = [proc EXCEPT ![Keeper] = Rest] /\ row' = row
      BY <1>1, <2>1, <2>2
    <2>3. CASE /\ proc[Keeper].op = "delete" /\ proc[Keeper].then = "row"
               /\ row' = FALSE /\ holder' = holder
               /\ proc' = [proc EXCEPT ![Keeper] = [proc[Keeper] EXCEPT !.pc = "remove"]]
      <3>1. proc'[Keeper] = [proc[Keeper] EXCEPT !.pc = "remove"]
        BY <2>1, <2>3
      <3> QED BY <1>1, <2>1, <2>3, <3>1 DEF Routines
    <2> QED BY <2>2, <2>3
  <1>8. ASSUME NEW q \in Procs PROVE Planned(q)' /\ Mutexes(q)' /\ Buffered(q)'
    <2>1. CASE q # Keeper
      <3>1. Planned(q) /\ Mutexes(q) /\ Buffered(q) /\ ~AtWork(q)
        BY <1>6, <2>1 DEF Control
      <3>2. Planned(q)'
        BY <1>6, <2>1, <3>1 DEF Planned, PlanOfEmitter, PlanOfKeeper
      <3>3. proc[q].gen \in Gens
        BY <1>1 DEF Memory, Routines
      <3>4. Mutexes(q)'
        BY <1>1, <1>3, <1>6, <2>1, <3>1, <3>3 DEF Mutexes, AtWork, Deleted
      <3>5. Buffered(q)'
        BY <1>6, <2>1, <3>1 DEF Buffered, AtWork
      <3> QED BY <3>2, <3>4, <3>5
    <2>2. CASE q = Keeper
      <3>1. Planned(Keeper)'
        BY <1>7 DEF Planned, PlanOfKeeper
      <3>2. Mutexes(Keeper)' /\ Buffered(Keeper)'
        BY <1>7 DEF Mutexes, AtWork, Deleted, Buffered
      <3> QED BY <2>2, <3>1, <3>2
    <2> QED BY <2>1, <2>2
  <1>9. ObjectsKept'
    <2>1. ASSUME NEW g \in Gens
          PROVE  /\ log'[g].buf # <<>> => log'[g].timer
                 /\ log'[g].retries # <<>> =>
                      log'[g].retryTimer \/ (holder'[g] # None /\ proc'[holder'[g]].pc = "retries")
                 /\ g > cur' => log'[g] = Fresh
                 /\ g < cur' => log'[g] = Closed
      <3>1. CASE g = cur
        BY <1>2, <1>3, <1>6, <3>1
      <3>2. CASE g # cur
        <4>1. log[g] \in {Fresh, Closed} /\ log'[g] = log[g]
          BY <1>1, <1>6, <3>2, Unused
        <4> QED BY <1>1, <1>2, <3>2, <4>1, Unused DEF ObjectsKept
      <3> QED BY <3>1, <3>2
    <2>2. log'[cur'] = Fresh
      BY <1>1, <1>2, <1>6 DEF ObjectsKept
    <2>3. ~up' => log'[cur'].buf = <<>> /\ \A e \in Emitters : proc'[e].pc = "idle"
      BY <1>1, <1>6, <2>2 DEF ObjectsKept
    <2>4. proc'[Keeper].op \in {"delete", "cleanup"} /\ ~Deleted(Keeper)' => cur' <= cmds'
      BY <1>7 DEF Deleted
    <2> QED BY <1>1, <1>2, <2>1, <2>2, <2>3, <2>4 DEF ObjectsKept
  <1> QED BY <1>5, <1>8, <1>9 DEF Control

\* The deletion ends: the object it still holds is closed.
LEMMA DeletionEnds ==
  ASSUME EventLogAssumption, Control, Deleted(Keeper), UNCHANGED <<log, cur, row, cmds, up>>,
         holder' = [holder EXCEPT ![proc[Keeper].gen] = None], proc' = [proc EXCEPT ![Keeper] = Rest]
  PROVE  Control'
  <1> USE Roles, RestTyped
  <1>1. Memory /\ ObjectsKept /\ ~row /\ AtWork(Keeper) /\ proc[Keeper].gen \in Gens
    BY DEF Control, Mutexes, AtWork, Deleted, Memory, Routines
  <1>2. Memory'
    BY <1>1 DEF Memory
  <1>3. /\ \A q \in Procs \ {Keeper} : proc'[q] = proc[q] /\ ~AtWork(q)
        /\ proc'[Keeper] = Rest
    BY <1>1, Alone DEF Memory
  <1>4. ASSUME NEW q \in Procs PROVE Planned(q)' /\ Mutexes(q)' /\ Buffered(q)'
    <2>1. CASE q # Keeper
      <3>1. Planned(q) /\ Mutexes(q) /\ ~AtWork(q)
        BY <1>3, <2>1 DEF Control
      <3>2. Planned(q)'
        BY <1>3, <2>1, <3>1 DEF Planned, PlanOfEmitter, PlanOfKeeper
      <3>3. Mutexes(q)' /\ Buffered(q)'
        BY <1>3, <2>1, <3>1 DEF Mutexes, AtWork, Deleted, Buffered
      <3> QED BY <3>2, <3>3
    <2>2. CASE q = Keeper
      BY <1>3, <2>2 DEF Mutexes, AtWork, Buffered, Planned, PlanOfKeeper
    <2> QED BY <2>1, <2>2
  <1>5. ASSUME NEW g \in Gens
        PROVE  log[g].buf = <<>> /\ log[g].retries = <<>>
    <2>1. g < cur \/ g = cur \/ g > cur
      BY <1>1 DEF Memory
    <2>2. Closed.buf = <<>> /\ Closed.retries = <<>>
      BY DEF Closed, Fresh
    <2> QED BY <1>1, <2>1, <2>2 DEF ObjectsKept
  <1>6. ObjectsKept'
    <2>1. ~up' => \A e \in Emitters : proc'[e].pc = "idle"
      BY <1>1, <1>3 DEF ObjectsKept
    <2> QED BY <1>1, <1>3, <1>5, <2>1 DEF ObjectsKept, Deleted
  <1> QED BY <1>2, <1>4, <1>6 DEF Control

\* The server stops.
LEMMA StopKeeps ==
  ASSUME EventLogAssumption, Control, Stop, row' = row, cmds' = cmds
  PROVE  Control'
  <1> USE Roles, RestTyped
  <1>1. Memory'
    BY DEF Stop, Control, Memory
  <1>2. ASSUME NEW p \in Procs PROVE Planned(p)' /\ Mutexes(p)' /\ Buffered(p)'
    <2>1. proc'[p] = Rest
      BY DEF Stop
    <2> QED BY <2>1 DEF Planned, PlanOfEmitter, PlanOfKeeper, Mutexes, Buffered, AtWork
  <1>3. ObjectsKept'
    <2>1. \A g \in Gens : log'[g] = Fresh
      BY DEF Stop
    <2>2. \A p \in Procs : proc'[p] = Rest
      BY DEF Stop
    <2>3. cur' = 1 /\ cmds \in Nat /\ \A g \in Gens : ~(g < 1)
      BY DEF Stop, Control, Memory, Gens
    <2> QED BY <2>1, <2>2, <2>3 DEF ObjectsKept
  <1> QED BY <1>1, <1>2, <1>3 DEF Control

-----------------------------------------------------------------------------
(* What is stored.                                                          *)

LEMMA NoHand ==
  ASSUME Control, NEW p \in Procs, AtWork(p), proc[p].pc # "project"
  PROVE  InHand = {}
  <1>1. \A q \in Procs : proc[q].pc # "project"
    BY Alone DEF AtWork
  <1> QED BY <1>1 DEF InHand

LEMMA HandOf ==
  ASSUME Control, NEW p \in Procs, proc[p].pc = "project"
  PROVE  InHand = NumbersIn(proc[p].line.pieces)
  <1>1. \A q \in Procs : proc[q].pc = "project" => q = p
    BY Alone DEF AtWork
  <1> QED BY <1>1 DEF InHand

\* the next sequence number is larger than those in the file
LEMMA SequencedLarger ==
  ASSUME Control, Disk, Complete
  PROVE  LET st == log[cur] IN
         /\ Sequenced(st) \in Objects /\ Sequenced(st).init
         /\ Sequenced(st).closed = st.closed /\ Sequenced(st).buf = st.buf
         /\ Sequenced(st).timer = st.timer /\ Sequenced(st).retries = st.retries
         /\ Sequenced(st).retryTimer = st.retryTimer
         /\ \A i \in 1..Len(file) : file[i].seq < Sequenced(st).last
  <1> DEFINE st == log[cur]
  <1>1. st \in Objects /\ st.last \in Nat /\ cursor \in Nat /\ file \in Seq(Line)
    BY DEF Control, Memory, Objects, Disk
  <1>2. \A i \in 1..Len(file) : file[i].seq \in Nat
    <2>1. \A i \in 1..Len(file) : file[i] \in Line
      BY <1>1
    <2> QED BY <2>1 DEF Line
  <1>3. LastSeq \in Nat /\ \A i \in 1..Len(file) : file[i].seq <= LastSeq
    <2>1. CASE file = <<>>
      BY <2>1 DEF LastSeq
    <2>2. CASE file # <<>>
      <3>1. Len(file) \in 1..Len(file) /\ LastSeq = file[Len(file)].seq
        BY <1>1, <2>2 DEF LastSeq, Last
      <3>2. ASSUME NEW i \in 1..Len(file) PROVE file[i].seq <= file[Len(file)].seq
        <4>1. i < Len(file) \/ i = Len(file)
          BY <1>1
        <4> QED BY <1>2, <3>1, <4>1 DEF Complete
      <3> QED BY <1>2, <3>1, <3>2
    <2> QED BY <2>1, <2>2
  <1>4. CASE st.init
    <2>1. Sequenced(st) = [st EXCEPT !.last = st.last + 1]
      BY <1>4 DEF Sequenced
    <2>2. \A i \in 1..Len(file) : file[i].seq <= st.last
      BY <1>4 DEF Complete
    <2>3. Sequenced(st).last = st.last + 1
      BY <1>1, <2>1 DEF Objects
    <2>4. \A i \in 1..Len(file) : file[i].seq < Sequenced(st).last
      BY <1>1, <1>2, <2>2, <2>3
    <2>5. /\ Sequenced(st) \in Objects /\ Sequenced(st).init /\ Sequenced(st).closed = st.closed
          /\ Sequenced(st).buf = st.buf /\ Sequenced(st).timer = st.timer
          /\ Sequenced(st).retries = st.retries /\ Sequenced(st).retryTimer = st.retryTimer
      <3> DEFINE n == st.last + 1
      <3>1. n \in Nat /\ st \in Objects
        BY <1>1
      <3>2. Sequenced(st) = [st EXCEPT !.last = n]
        BY <2>1
      <3> HIDE DEF n, st
      <3> QED BY <1>4, <3>1, <3>2 DEF Objects
    <2> QED BY <2>4, <2>5
  <1>5. CASE ~st.init
    <2> DEFINE n == Larger(cursor, LastSeq) + 1
    <2>1. n \in Nat /\ \A i \in 1..Len(file) : file[i].seq < n
      BY <1>1, <1>2, <1>3 DEF Larger
    <2>2. Sequenced(st) = [st EXCEPT !.init = TRUE, !.last = n]
      BY <1>5 DEF Sequenced
    <2> HIDE DEF n
    <2> QED BY <1>1, <2>1, <2>2 DEF Objects
  <1> QED BY <1>4, <1>5

\* A step that leaves the log alone, except for timers and for numbers that nobody got.
LEMMA LogRests ==
  ASSUME Complete, Projected, UNCHANGED <<file, row, said, projected, skipped, emits>>,
         log'[cur'].buf = log[cur].buf, log'[cur'].retries = log[cur].retries,
         log'[cur'].init => \A i \in 1..Len(file) : file[i].seq <= log'[cur'].last,
         \A q \in Procs : (proc'[q].pc = "project") = (proc[q].pc = "project"),
         \A q \in Procs : proc[q].pc = "project" => proc'[q].line = proc[q].line
  PROVE  Complete' /\ Projected'
  <1>1. InFile' = InFile
    BY DEF InFile
  <1>2. Complete'
    BY <1>1 DEF Complete
  <1>3. Waiting' = Waiting
    BY DEF Waiting
  <1>4. InHand' = InHand
    BY DEF InHand
  <1>5. Projected'
    BY <1>1, <1>3, <1>4 DEF Projected
  <1> QED BY <1>2, <1>5

\* The first line that waits is projected, and leaves.
LEMMA HeadProjected ==
  ASSUME Control, Disk, Complete, Projected, row, log[cur].retries # <<>>, cur' = cur,
         projected' = projected \o Numbers(Head(log[cur].retries).pieces),
         log'[cur].retries = Tail(log[cur].retries), log'[cur].buf = log[cur].buf,
         log'[cur].init = log[cur].init, log'[cur].last = log[cur].last,
         UNCHANGED <<file, row, said, skipped, proc, emits>>
  PROVE  /\ Complete' /\ Projected' /\ projected' \in Seq(Nat) /\ ToSet(projected') \subseteq 1..emits
  <1> DEFINE ls == log[cur].retries
             h == NumbersIn(Head(ls).pieces)
  <1>1. ls \in Seq(Line) /\ projected \in Seq(Nat) /\ ToSet(projected) \subseteq 1..emits
    BY DEF Control, Memory, Disk, Objects
  <1>2. /\ Head(ls) \in Line /\ Tail(ls) \in Seq(Line) /\ InOrder(Tail(ls))
        /\ Waiting = h \cup InLines(Tail(ls)) /\ Increasing(Numbers(Head(ls).pieces))
        /\ Before(h, InLines(Tail(ls)))
    BY <1>1, TailLines DEF Projected, Waiting
  <1>3. Head(ls).pieces \in Seq(Piece)
    BY <1>2 DEF Line
  <1>4. Before(ToSet(projected), h) /\ h \subseteq 1..emits
    BY <1>2 DEF Projected, Before
  <1>5. /\ projected' \in Seq(Nat) /\ ToSet(projected') = ToSet(projected) \cup h
        /\ Increasing(projected')
    BY <1>1, <1>2, <1>3, <1>4, AppendProjected DEF Projected
  <1>6. Waiting' = InLines(Tail(ls)) /\ InHand' = InHand /\ InFile' = InFile
    BY DEF Waiting, InHand, InFile
  <1>7. Complete'
    BY <1>6 DEF Complete
  <1>8. \A i \in 1..Len(Tail(ls)) : Tail(ls)[i].pieces # <<>>
    <2>1. \A i \in 1..Len(Tail(ls)) : i + 1 \in 1..Len(ls) /\ Tail(ls)[i] = ls[i + 1]
      BY <1>1
    <2> QED BY <2>1 DEF Projected
  <1>9. Projected'
    <2> DEFINE P == ToSet(projected)
               W == InLines(Tail(ls))
               B == NumbersIn(log[cur].buf)
    <2>1. /\ Before(P, (h \cup W) \cup InHand) /\ Before(h \cup W, InHand) /\ Before(h, W)
          /\ Before(P \cup (h \cup W), B) /\ (h \cup W) \cup InHand \subseteq 1..emits
          /\ InFile \subseteq P \cup (h \cup W) \cup InHand \cup skipped
      BY <1>2 DEF Projected
    <2> HIDE DEF P, W, B, h
    <2>2. /\ Before(P \cup h, W \cup InHand) /\ Before(W, InHand) /\ Before((P \cup h) \cup W, B)
          /\ W \cup InHand \subseteq 1..emits
          /\ InFile \subseteq (P \cup h) \cup W \cup InHand \cup skipped
      BY <2>1 DEF Before
    <2> USE DEF P, W, B, h
    <2>3. \A p \in Procs : proc'[p].pc = "project" => Pending(proc'[p].line)
      BY DEF Projected
    <2> QED BY <1>2, <1>5, <1>6, <1>8, <2>2, <2>3 DEF Projected
  <1> QED BY <1>1, <1>4, <1>5, <1>7, <1>9

\* A line goes to the file and into the hand of p; it holds all that was buffered.
LEMMA StoredInOrder ==
  ASSUME Control, Disk, Complete, Projected, NEW p \in Procs, AtWork(p), ~Deleted(p),
         proc[p].pc # "project", NEW line \in Line, line.pieces # <<>>,
         \A i \in 1..Len(file) : file[i].seq < line.seq,
         Increasing(Numbers(line.pieces)), Before(InFile, NumbersIn(line.pieces)),
         Before(ToSet(projected) \cup Waiting, NumbersIn(line.pieces)),
         NumbersIn(line.pieces) \subseteq 1..emits', emits' \in Nat, emits <= emits',
         said' = InFile \cup NumbersIn(line.pieces),
         file' = Append(file, line), cur' = cur, log'[cur].buf = <<>>,
         log'[cur].retries = log[cur].retries, log'[cur].last = line.seq,
         proc'[p].pc = "project", proc'[p].line = line,
         \A q \in Procs \ {p} : proc'[q] = proc[q],
         UNCHANGED <<row, projected, skipped>>
  PROVE  /\ Complete' /\ Projected' /\ file' \in Seq(Line)
         /\ said' \subseteq 1..emits' /\ InFile' \subseteq 1..emits' /\ ToSet(projected') \subseteq 1..emits'
  <1> DEFINE h == NumbersIn(line.pieces)
  <1>1. /\ file \in Seq(Line) /\ file' \in Seq(Line) /\ InFile \subseteq 1..emits
        /\ ToSet(projected) \subseteq 1..emits /\ emits \in Nat
    BY DEF Disk
  <1>2. InFile' = InFile \cup h /\ InOrder(file')
    BY <1>1, AppendLine DEF InFile, Complete
  <1>3. InHand = {} /\ InHand' = h
    <2>1. \A q \in Procs \ {p} : proc[q].pc # "project"
      BY Alone DEF AtWork
    <2>2. InHand = {}
      BY NoHand
    <2>3. InHand' = h
      BY <2>1 DEF InHand
    <2> QED BY <2>2, <2>3
  <1>4. row /\ Waiting' = Waiting
    BY WorksOn DEF Waiting
  <1>5. /\ Len(file') = Len(file) + 1 /\ file'[Len(file) + 1] = line /\ Len(file) \in Nat
        /\ \A i \in 1..Len(file) : file'[i] = file[i]
    BY <1>1
  <1>6. \A i, j \in 1..Len(file') : i < j => file'[i].seq < file'[j].seq
    <2> SUFFICES ASSUME NEW i \in 1..Len(file'), NEW j \in 1..Len(file'), i < j
                 PROVE  file'[i].seq < file'[j].seq
      OBVIOUS
    <2>1. i \in 1..Len(file)
      BY <1>5
    <2>2. CASE j = Len(file) + 1
      BY <1>5, <2>1, <2>2
    <2>3. CASE j \in 1..Len(file)
      BY <1>5, <2>1, <2>3 DEF Complete
    <2> QED BY <1>5, <2>2, <2>3
  <1>7. \A i \in 1..Len(file') : file'[i].seq <= line.seq
    <2>1. \A i \in 1..Len(file) : file[i] \in Line
      BY <1>1
    <2>2. line.seq \in Nat /\ \A i \in 1..Len(file) : file[i].seq \in Nat
      BY <2>1 DEF Line
    <2> QED BY <1>5, <2>2
  <1>8. Complete'
    BY <1>2, <1>4, <1>6, <1>7, EmptyNumbers DEF Complete, Before
  <1>9. Projected'
    <2> DEFINE P == ToSet(projected)
    <2>1. /\ Before(P, Waiting) /\ Waiting \subseteq 1..emits /\ InFile \subseteq P \cup Waiting \cup skipped
      BY <1>3, <1>4 DEF Projected, Before
    <2>2. /\ Before(P, Waiting \cup h) /\ Before(Waiting, h) /\ Before(P \cup Waiting, {})
          /\ InFile \cup h \subseteq P \cup Waiting \cup h \cup skipped
      BY <2>1 DEF Before
    <2>a. Waiting \cup h \subseteq 1..emits'
      <3>1. \A n \in 1..emits : n \in 1..emits'
        BY <1>1
      <3>2. h \subseteq 1..emits'
        OBVIOUS
      <3> HIDE DEF h
      <3> QED BY <2>1, <3>1, <3>2
    <2>3. \A q \in Procs : proc'[q].pc = "project" => Pending(proc'[q].line)
      BY <1>4 DEF Projected, Pending
    <2>4. Increasing(projected) /\ InOrder(log[cur].retries)
          /\ \A i \in 1..Len(log[cur].retries) : log[cur].retries[i].pieces # <<>>
      BY <1>4 DEF Projected
    <2>5. ToSet(projected') = P
      OBVIOUS
    <2> HIDE DEF h, P
    <2>6. /\ Before(ToSet(projected'), Waiting' \cup InHand') /\ Before(Waiting', InHand')
          /\ Waiting' \cup InHand' \subseteq 1..emits'
          /\ InFile' \subseteq ToSet(projected') \cup Waiting' \cup InHand' \cup skipped'
      BY <1>2, <1>3, <1>4, <2>2, <2>a, <2>5
    <2>7. Before(ToSet(projected') \cup Waiting', NumbersIn(log'[cur'].buf))
      BY <1>4, <2>2, <2>5, EmptyNumbers
    <2> QED BY <2>3, <2>4, <2>6, <2>7 DEF Projected
  <1>a. said' \subseteq 1..emits' /\ InFile' \subseteq 1..emits' /\ ToSet(projected') \subseteq 1..emits'
    BY <1>1, <1>2
  <1> QED BY <1>1, <1>8, <1>9, <1>a

-----------------------------------------------------------------------------
(* Steps that take, look up or give back.                                   *)

LEMMA EmptyInv ==
  ASSUME EventLogAssumption, Init
  PROVE  IInv
  <1> USE Roles, RestTyped, EmptyLines, EmptyNumbers
  <1>1. Memory
    BY DEF Init, Memory, EventLogAssumption
  <1>2. ASSUME NEW p \in Procs PROVE Planned(p) /\ Mutexes(p) /\ Buffered(p)
    <2>1. proc[p] = Rest
      BY DEF Init
    <2> QED BY <2>1 DEF Planned, PlanOfEmitter, PlanOfKeeper, Mutexes, Buffered, AtWork
  <1>3. ObjectsKept
    <2>1. (\A g \in Gens : log[g] = Fresh) /\ \A p \in Procs : proc[p] = Rest
      BY DEF Init
    <2>2. cur = 1 /\ cmds = 0 /\ row /\ up /\ \A g \in Gens : ~(g < 1)
      BY DEF Init, Gens
    <2> QED BY <2>1, <2>2 DEF ObjectsKept
  <1>4. log[cur] = Fresh /\ file = <<>> /\ projected = <<>> /\ emits = 0 /\ said = {} /\ ToSet(projected) = {}
    BY DEF Init, ToSet
  <1>5. Disk
    <2>1. file \in Seq(Line) /\ projected \in Seq(Nat) /\ InFile = {}
      BY <1>4 DEF InFile
    <2>2. torn \in BOOLEAN /\ running \in BOOLEAN /\ cursor = 0 /\ faults = 0
      BY DEF Init
    <2>3. MaxFaults \in Nat
      BY DEF EventLogAssumption
    <2> QED BY <1>4, <2>1, <2>2, <2>3 DEF Disk
  <1>6. News
    <2>1. unread = FALSE /\ missed = FALSE /\ attention = 0 /\ view = 0
      BY DEF Init
    <2>2. attention \in Nat /\ view \in 0..attention
      BY <2>1
    <2>3. unread \in BOOLEAN /\ missed \in BOOLEAN /\ ~missed
      BY <2>1, Zenon
    <2> QED BY <2>2, <2>3 DEF News
  <1>7. Complete
    BY <1>4 DEF Complete, InFile, Before
  <1>8. InHand = {}
    <2>1. \A p \in Procs : proc[p].pc # "project"
      BY DEF Init
    <2> QED BY <2>1 DEF InHand
  <1>9. Projected
    <2>1. Waiting = {} /\ InFile = {} /\ \A p \in Procs : proc[p].pc # "project"
      BY <1>4 DEF Waiting, InFile, Init
    <2>2. Increasing(projected)
      BY <1>4 DEF Increasing
    <2> QED BY <1>4, <1>8, <2>1, <2>2 DEF Projected, Before
  <1> QED BY <1>1, <1>2, <1>3, <1>5, <1>6, <1>7, <1>9 DEF IInv, Control

\* Nothing of the disk and the news changes.
LEMMA DiskRests ==
  ASSUME Disk, News, UNCHANGED <<stored, cursor, running, projected, emits, faults, said, attending, view>>
  PROVE  Disk' /\ News'
  BY DEF Disk, News, stored, attending, InFile

LEMMA HoldInv ==
  ASSUME EventLogAssumption, IInv, NEW p \in Procs, row, NEW op \in Operations, NEW kind \in Kinds,
         NEW pc \in {"flush", "write", "buffer", "retries", "row", "clear"},
         NEW then \in PCs \cup {"done"}, Hold(p, cur, op, kind, pc, then), cur' = cur,
         log' = log \/ (log' = [log EXCEPT ![cur].retryTimer = FALSE] /\ pc = "retries"),
         p \in Emitters => /\ proc[p].pc = "wait" /\ pc \in {"flush", "write", "buffer"}
                           /\ then \in {"buffer", "write"},
         p = Flusher => pc = "flush" /\ then = "done",
         p = Retrier => pc = "retries" /\ then = "done",
         p = Keeper =>
           \/ op = "recover" /\ pc = "write" /\ then = "recovered"
           \/ op = "delete" /\ pc \in {"flush", "row"} /\ then = "row" /\ proc[p].op = op
           \/ op = "sync" /\ pc \in {"flush", "retries"} /\ then = "retries"
           \/ op = "cleanup" /\ pc = "clear" /\ then = "clear" /\ proc[p].op = op,
         pc = "flush" => log[cur].buf # <<>>,
         pc = "write" => log[cur].buf = <<>>,
         p = Keeper /\ pc = "retries" => log[cur].buf = <<>>,
         UNCHANGED <<stored, row, cursor, attending, running, up, view, bounds, said, projected, skipped>>
  PROVE  IInv'
  <1> USE Roles, RestTyped
  <1> DEFINE r == [Rest EXCEPT !.pc = pc, !.op = op, !.gen = cur, !.kind = kind, !.then = then]
  <1>1. Control /\ Disk /\ News /\ Complete /\ Projected /\ Memory /\ cur \in Gens
    BY DEF IInv, Control, Memory
  <1>2. /\ r \in Routines /\ r.pc = pc /\ r.op = op /\ r.gen = cur /\ r.then = then
        /\ Free(cur) /\ holder' = [holder EXCEPT ![cur] = p] /\ proc' = [proc EXCEPT ![p] = r]
    BY <1>1 DEF Hold, Rest, Routines, PCs
  <1>3. proc'[p] = r /\ \A q \in Procs \ {p} : proc'[q] = proc[q]
    BY <1>1, <1>2 DEF Memory
  <1>4. PICK st \in Objects : /\ log' = [log EXCEPT ![cur] = st] /\ st.buf = log[cur].buf
                              /\ st.closed = log[cur].closed /\ st.retries = log[cur].retries
                              /\ st.timer = log[cur].timer /\ (st.retryTimer = log[cur].retryTimer \/ pc = "retries")
                              /\ st.init = log[cur].init /\ st.last = log[cur].last
    <2>1. log[cur] \in Objects /\ log \in [Gens -> Objects]
      BY <1>1 DEF Memory
    <2>2. CASE log' = log
      <3>1. log' = [log EXCEPT ![cur] = log[cur]]
        BY <2>1, <2>2
      <3> QED BY <2>1, <3>1
    <2>3. CASE log' = [log EXCEPT ![cur].retryTimer = FALSE] /\ pc = "retries"
      <3> DEFINE st == [log[cur] EXCEPT !.retryTimer = FALSE]
      <3>1. log' = [log EXCEPT ![cur] = st]
        BY <2>3
      <3>2. /\ st \in Objects /\ st.buf = log[cur].buf
            /\ st.closed = log[cur].closed /\ st.retries = log[cur].retries /\ st.timer = log[cur].timer
            /\ st.init = log[cur].init /\ st.last = log[cur].last
        BY <2>1 DEF Objects
      <3> HIDE DEF st
      <3> QED BY <2>3, <3>1, <3>2
    <2> QED BY <2>2, <2>3
  <1> HIDE DEF r
  <1>5. Control'
    <2>1. ~st.closed
      BY <1>1, <1>4 DEF Control, ObjectsKept
    <2>2. Planned(p)'
      BY <1>2, <1>3 DEF Planned, PlanOfEmitter, PlanOfKeeper
    <2>3. UNCHANGED <<row, cmds, up>>
      BY DEF bounds
    <2>4. st.retries # <<>> => st.retryTimer \/ r.pc = "retries"
      BY <1>1, <1>2, <1>4 DEF Control, ObjectsKept, Free
    <2> QED BY <1>1, <1>2, <1>4, <2>1, <2>2, <2>3, <2>4, HoldKeeps
  <1>6. ~AtWork(p)
    BY <1>1, <1>2, NobodyWorks
  <1>7. Complete' /\ Projected'
    <2>1. log'[cur'] = st
      BY <1>1, <1>4 DEF Memory
    <2>2. \A q \in Procs : (proc'[q].pc = "project") = (proc[q].pc = "project")
      BY <1>2, <1>3, <1>6 DEF AtWork
    <2>3. \A q \in Procs : proc[q].pc = "project" => proc'[q].line = proc[q].line
      BY <1>3, <1>6 DEF AtWork
    <2>4. log'[cur'].init => \A i \in 1..Len(file) : file[i].seq <= log'[cur'].last
      BY <1>1, <1>4, <2>1 DEF Complete
    <2>5. UNCHANGED <<file, row, said, projected, skipped, emits>>
      BY DEF stored, bounds
    <2> QED BY <1>1, <1>4, <2>1, <2>2, <2>3, <2>4, <2>5, LogRests
  <1>8. Disk' /\ News'
    BY <1>1, DiskRests DEF bounds
  <1> QED BY <1>5, <1>7, <1>8 DEF IInv

\* A goroutine that looks the object up, or finds it closed.
LEMMA LookupInv ==
  ASSUME EventLogAssumption, IInv, NEW p \in Procs, ~AtWork(p), NEW r \in Routines,
         proc' = [proc EXCEPT ![p] = r], UNCHANGED <<log, cur, holder, row, up>>,
         cmds' \in 0..MaxCommands, cmds <= cmds',
         r = Rest \/ (r.pc = "wait" /\ r.gen = cur /\ r.then = "done" /\ row /\ up),
         p \in {Flusher, Retrier} => r = Rest,
         p = Keeper /\ r # Rest => r.op \in {"delete", "cleanup", "sync"} /\ cur <= cmds',
         UNCHANGED <<stored, cursor, attending, view, emits, faults, said, projected, skipped>>,
         running' \in BOOLEAN
  PROVE  IInv'
  <1> USE Roles, RestTyped
  <1>1. Control /\ Disk /\ News /\ Complete /\ Projected /\ Memory
    BY DEF IInv, Control
  <1>2. proc'[p] = r /\ \A q \in Procs \ {p} : proc'[q] = proc[q]
    BY <1>1 DEF Memory
  <1>3. Control'
    <2>1. Planned(p)'
      BY <1>2 DEF Planned, PlanOfEmitter, PlanOfKeeper
    <2> QED BY <1>1, <2>1, LookupKeeps
  <1>4. Complete' /\ Projected'
    <2>1. \A q \in Procs : (proc'[q].pc = "project") = (proc[q].pc = "project")
      BY <1>2 DEF AtWork
    <2>2. \A q \in Procs : proc[q].pc = "project" => proc'[q].line = proc[q].line
      BY <1>2 DEF AtWork
    <2>3. log'[cur'].init => \A i \in 1..Len(file) : file[i].seq <= log'[cur'].last
      BY <1>1 DEF Complete
    <2>4. UNCHANGED <<file, row, said, projected, skipped, emits>>
      BY DEF stored
    <2> QED BY <1>1, <2>1, <2>2, <2>3, <2>4, LogRests
  <1>5. Disk' /\ News'
    BY <1>1 DEF Disk, News, stored, attending, InFile
  <1> QED BY <1>3, <1>4, <1>5 DEF IInv

LEMMA XEmit ==
  ASSUME EventLogAssumption, IInv, NEW e \in Emitters, NEW kind \in Kinds, Emit(e, kind)
  PROVE  IInv'
  <1> USE Roles, RestTyped
  <1> DEFINE r == [Rest EXCEPT !.pc = "wait", !.gen = cur, !.kind = kind]
  <1>1. cur \in Gens /\ cmds \in 0..MaxCommands /\ MaxCommands \in Nat
    BY DEF IInv, Control, Memory, EventLogAssumption
  <1>2. r \in Routines /\ r.pc = "wait" /\ r.gen = cur /\ r.then = "done"
    BY <1>1 DEF Rest, Routines, PCs
  <1>3. ~AtWork(e) /\ row /\ up /\ proc' = [proc EXCEPT ![e] = r]
    BY DEF Emit, AtWork
  <1> HIDE DEF r
  <1>4. running' \in BOOLEAN
    BY DEF Emit, IInv, Disk
  <1>5. /\ cmds' \in 0..MaxCommands /\ cmds <= cmds' /\ UNCHANGED <<log, cur, holder, row, up>>
        /\ UNCHANGED <<stored, cursor, attending, view, emits, faults, said, projected, skipped>>
    BY <1>1 DEF Emit, bounds
  <1>6. e \in Procs /\ e \notin {Flusher, Retrier} /\ e # Keeper
    OBVIOUS
  <1> QED BY <1>2, <1>3, <1>4, <1>5, <1>6, LookupInv

LEMMA XEnter ==
  ASSUME EventLogAssumption, IInv, NEW e \in Procs, Enter(e)
  PROVE  IInv'
  <1> USE Roles, RestTyped
  <1>1. e \in Emitters /\ ~AtWork(e) /\ proc[e].pc = "wait" /\ proc[e] \in Routines
        /\ cmds \in 0..MaxCommands /\ MaxCommands \in Nat /\ running \in BOOLEAN
    BY DEF Enter, AtWork, IInv, Disk, Control, Memory, EventLogAssumption
  <1>2. CASE My(e).closed
    <2>1. proc' = [proc EXCEPT ![e] = Rest] /\ UNCHANGED <<log, cur, holder, row, up>>
      BY <1>2 DEF Enter
    <2>2. cmds' \in 0..MaxCommands /\ cmds <= cmds' /\ running' \in BOOLEAN
          /\ UNCHANGED <<stored, cursor, attending, view, emits, faults, said, projected, skipped>>
      BY <1>1 DEF Enter, bounds
    <2> QED BY <1>1, <2>1, <2>2, LookupInv
  <1>3. CASE ~My(e).closed
    <2> DEFINE kind == proc[e].kind
               own == IF kind \in Messages THEN "buffer" ELSE "write"
               pc == IF OtherText(My(e).buf, kind) THEN "flush" ELSE own
    <2>1. row /\ proc[e].gen = cur
      BY <1>1, <1>3 DEF IInv, Control, Mutexes, My
    <2>2. kind \in Kinds /\ "emit" \in Operations /\ own \in PCs \cup {"done"}
      BY <1>1 DEF Routines, Operations, PCs
    <2>3. Hold(e, cur, "emit", kind, pc, own)
      BY <1>3, <2>1 DEF Enter
    <2>4. /\ pc \in {"flush", "write", "buffer"} /\ own \in {"buffer", "write"}
          /\ pc = "flush" => log[cur].buf # <<>>
          /\ pc = "write" => log[cur].buf = <<>>
      <3>1. My(e) = log[cur]
        BY <2>1 DEF My
      <3>2. pc = "flush" => log[cur].buf # <<>>
        BY <3>1 DEF OtherText
      <3>3. pc = "write" => log[cur].buf = <<>>
        BY <3>1 DEF OtherText
      <3> QED BY <3>2, <3>3
    <2>5. log' = log /\ cur' = cur
      BY DEF Enter
    <2> HIDE DEF pc, own, kind
    <2> QED BY <1>1, <2>1, <2>2, <2>3, <2>4, <2>5, HoldInv DEF Enter
  <1> QED BY <1>2, <1>3

LEMMA XTimers ==
  ASSUME EventLogAssumption, IInv, FlushTimer \/ RetryTimer
  PROVE  IInv'
  <1> USE Roles, RestTyped
  <1>1. "event" \in Kinds /\ "timer" \in Operations /\ "done" \in PCs \cup {"done"}
    BY DEF Kinds, Operations
  <1>2. ~row => log[cur] = Fresh
    BY DEF IInv, Control, ObjectsKept
  <1>3. CASE FlushTimer
    <2>1. row /\ Hold(Flusher, cur, "timer", "event", "flush", "done") /\ log[cur].buf # <<>>
          /\ log' = log /\ cur' = cur
      BY <1>2, <1>3 DEF FlushTimer
    <2> QED BY <1>1, <1>3, <2>1, HoldInv DEF FlushTimer
  <1>4. CASE RetryTimer
    <2>1. row /\ Hold(Retrier, cur, "timer", "event", "retries", "done")
          /\ log' = [log EXCEPT ![cur].retryTimer = FALSE] /\ cur' = cur
      BY <1>2, <1>4 DEF RetryTimer
    <2> QED BY <1>1, <1>4, <2>1, HoldInv DEF RetryTimer
  <1> QED BY <1>3, <1>4

LEMMA XStart ==
  ASSUME EventLogAssumption, IInv, NEW op \in {"delete", "cleanup", "sync"}, Start(op)
  PROVE  IInv'
  <1> USE Roles, RestTyped
  <1> DEFINE r == [Rest EXCEPT !.pc = "wait", !.op = op, !.gen = cur]
  <1>1. /\ cur \in Gens /\ cmds \in 0..MaxCommands /\ MaxCommands \in Nat /\ running \in BOOLEAN
        /\ cur <= cmds + 1
    BY DEF IInv, Control, Memory, EventLogAssumption, Disk, ObjectsKept
  <1>2. r \in Routines /\ r.pc = "wait" /\ r.gen = cur /\ r.then = "done" /\ r.op = op
    BY <1>1 DEF Rest, Routines, PCs, Operations
  <1>3. ~AtWork(Keeper) /\ row /\ up /\ proc' = [proc EXCEPT ![Keeper] = r]
    BY DEF Start, AtWork
  <1> HIDE DEF r
  <1>4. cmds' = cmds + 1 /\ cmds < MaxCommands /\ UNCHANGED <<emits, faults>>
    BY DEF Start, Command
  <1>5. running' \in BOOLEAN
    BY <1>1 DEF Start
  <1>6. cmds' \in 0..MaxCommands /\ cmds <= cmds' /\ cur <= cmds'
    BY <1>1, <1>4
  <1> QED BY <1>1, <1>2, <1>3, <1>4, <1>5, <1>6, LookupInv DEF Start

LEMMA XEnterKeeper ==
  ASSUME EventLogAssumption, IInv, EnterKeeper
  PROVE  IInv'
  <1> USE Roles, RestTyped
  <1> DEFINE op == proc[Keeper].op
             own == CASE op = "delete" -> "row" [] op = "sync" -> "retries" [] OTHER -> "clear"
             pc == IF op # "cleanup" /\ My(Keeper).buf # <<>> THEN "flush" ELSE own
  <1>1. row /\ proc[Keeper].gen = cur /\ proc[Keeper].pc = "wait" /\ op \in {"delete", "cleanup", "sync"}
    BY DEF EnterKeeper, IInv, Control, Mutexes, Planned, PlanOfKeeper
  <1>2. Hold(Keeper, cur, op, "event", pc, own) /\ log' = log /\ cur' = cur
    BY <1>1 DEF EnterKeeper
  <1>3. /\ op = "delete" => own = "row" /\ pc \in {"flush", "row"}
        /\ op = "sync" => own = "retries" /\ pc \in {"flush", "retries"}
        /\ op = "cleanup" => own = "clear" /\ pc = "clear"
        /\ pc = "flush" => log[cur].buf # <<>>
        /\ pc = "retries" => log[cur].buf = <<>>
    BY <1>1 DEF My
  <1>4. /\ pc \in {"flush", "row", "retries", "clear"} /\ own \in PCs \cup {"done"}
        /\ "event" \in Kinds /\ op \in Operations
    BY <1>1, <1>3 DEF PCs, Kinds, Operations
  <1>5. proc[Keeper].op = op
    OBVIOUS
  <1> HIDE DEF pc, own, op
  <1> QED BY <1>1, <1>2, <1>3, <1>4, <1>5, HoldInv DEF EnterKeeper

LEMMA XRestart ==
  ASSUME EventLogAssumption, IInv, Restart
  PROVE  IInv'
  <1> USE Roles, RestTyped
  <1>1. ~up /\ proc[Keeper].pc = "idle" /\ log[cur].buf = <<>> /\ log' = log /\ cur' = cur
    BY DEF Restart, IInv, Control, ObjectsKept
  <1>2. CASE running /\ row
    <2>1. row /\ Hold(Keeper, cur, "recover", "event", "write", "recovered") /\ UNCHANGED up
      BY <1>2 DEF Restart
    <2>2. "event" \in Kinds /\ "recover" \in Operations /\ "recovered" \in PCs \cup {"done"}
      BY DEF Kinds, Operations, PCs
    <2> QED BY <1>1, <2>1, <2>2, HoldInv DEF Restart
  <1>3. CASE ~(running /\ row)
    <2>1. up' = TRUE /\ UNCHANGED <<memory, row, cmds>>
      BY <1>1, <1>3 DEF Restart, memory, bounds
    <2>2. Control'
      <3>1. \A p \in Procs : Planned(p)' /\ Mutexes(p)' /\ Buffered(p)'
        BY <2>1 DEF memory, IInv, Control, Planned, PlanOfEmitter, PlanOfKeeper, Mutexes, AtWork, Deleted, Buffered
      <3>2. ObjectsKept' /\ Memory'
        BY <2>1 DEF memory, IInv, Control, ObjectsKept, Memory, Deleted
      <3> QED BY <3>1, <3>2 DEF Control
    <2>3. Disk' /\ News'
      BY DiskRests DEF IInv, Restart, bounds
    <2>4. Complete' /\ Projected'
      <3>1. UNCHANGED <<file, row, said, projected, skipped, emits, log, cur, proc>>
        BY <2>1 DEF Restart, stored, bounds, memory
      <3> QED BY <3>1 DEF IInv, Complete, Projected, InFile, Waiting, InHand
    <2> QED BY <2>2, <2>3, <2>4 DEF IInv
  <1> QED BY <1>2, <1>3

-----------------------------------------------------------------------------
(* Steps of whoever holds the mutex.                                        *)

LEMMA GotoDoes ==
  ASSUME EventLogAssumption, Control, NEW p \in Procs, AtWork(p), ~Deleted(p), NEW pc, Goto(p, pc),
         pc \in (PCs \ {"idle", "wait"}) \cup {"done"}
  PROVE  \E r \in Routines :
           /\ proc' = [proc EXCEPT ![p] = r]
           /\ pc = "done" => r = Rest /\ holder' = [holder EXCEPT ![cur] = None]
           /\ pc # "done" => /\ holder' = holder /\ r.pc = pc /\ r.gen = cur /\ r.op = proc[p].op
                             /\ r.then = proc[p].then /\ r.line = proc[p].line
  <1>1. proc[p] \in Routines /\ proc[p].gen = cur
    BY WorksOn
  <1>2. CASE pc = "done"
    BY <1>1, <1>2, RestTyped DEF Goto
  <1>3. CASE pc # "done"
    <2> DEFINE r == [proc[p] EXCEPT !.pc = pc]
    <2>1. r \in Routines /\ r.pc = pc /\ r.gen = cur /\ r.op = proc[p].op
          /\ r.then = proc[p].then /\ r.line = proc[p].line
      BY <1>1, <1>3 DEF Routines
    <2>2. proc' = [proc EXCEPT ![p] = r] /\ holder' = holder
      BY <1>3 DEF Goto
    <2> QED BY <1>3, <2>1, <2>2
  <1> QED BY <1>2, <1>3

\* the object after a number was perhaps given away
LEMMA Tried ==
  ASSUME Control, Disk, Complete, NEW st, st \in {log[cur], Sequenced(log[cur])}
  PROVE  /\ st \in Objects /\ st.closed = log[cur].closed /\ st.buf = log[cur].buf
         /\ st.timer = log[cur].timer /\ st.retries = log[cur].retries
         /\ st.retryTimer = log[cur].retryTimer
         /\ st.init => \A i \in 1..Len(file) : file[i].seq <= st.last
  <1>1. CASE st = log[cur]
    BY <1>1 DEF Control, Memory, Complete
  <1>2. CASE st = Sequenced(log[cur])
    <2>1. \A i \in 1..Len(file) : file[i].seq \in Nat /\ file[i].seq < st.last
      <3>1. \A i \in 1..Len(file) : file[i] \in Line
        BY DEF Disk
      <3>2. \A i \in 1..Len(file) : file[i].seq \in Nat
        BY <3>1 DEF Line
      <3> QED BY <1>2, <3>2, SequencedLarger
    <2>2. st \in Objects /\ st.last \in Nat
      BY <1>2, SequencedLarger DEF Objects
    <2>3. \A i \in 1..Len(file) : file[i].seq <= st.last
      BY <2>1, <2>2
    <2> QED BY <1>2, <2>3, SequencedLarger
  <1> QED BY <1>1, <1>2

\* A step that leaves lines and text alone, and ends the work or goes on with the plan.
LEMMA WorkInv ==
  ASSUME EventLogAssumption, IInv, NEW p \in Procs, AtWork(p), ~Deleted(p), proc[p].pc # "project",
         NEW st \in Objects, log' = [log EXCEPT ![cur] = st], cur' = cur,
         st.closed = log[cur].closed, st.buf = log[cur].buf, st.retries = log[cur].retries,
         st.init => \A i \in 1..Len(file) : file[i].seq <= st.last,
         st.buf # <<>> => st.timer, st.retries # <<>> => st.retryTimer,
         NEW pc, Goto(p, pc),
         \/ pc = "done"
         \/ pc = "reset" /\ p = Keeper /\ proc[p].op = "sync" /\ proc[p].then = "retries"
                         /\ log[cur].buf = <<>>
         \/ pc = "remove" /\ p = Keeper /\ proc[p].op = "cleanup" /\ proc[p].then = "clear",
         UNCHANGED <<file, row, said, projected, skipped, emits, cmds>>,
         up' \in BOOLEAN, up => up', Disk', News'
  PROVE  IInv'
  <1> USE Roles, RestTyped
  <1>1. Control /\ Disk /\ Complete /\ Projected /\ Memory
    BY DEF IInv, Control
  <1>2. row /\ proc[p].gen = cur /\ cur \in Gens /\ ~log[cur].closed
    BY <1>1, WorksOn
  <1>3. PICK r \in Routines :
           /\ proc' = [proc EXCEPT ![p] = r]
           /\ pc = "done" => r = Rest /\ holder' = [holder EXCEPT ![cur] = None]
           /\ pc # "done" => /\ holder' = holder /\ r.pc = pc /\ r.gen = cur /\ r.op = proc[p].op
                             /\ r.then = proc[p].then /\ r.line = proc[p].line
    <2>1. pc \in (PCs \ {"idle", "wait"}) \cup {"done"}
      BY DEF PCs
    <2> QED BY <1>1, <2>1, GotoDoes
  <1>4. proc'[p] = r /\ log'[cur] = st /\ \A q \in Procs \ {p} : proc'[q] = proc[q]
    BY <1>1, <1>2, <1>3 DEF Memory
  <1>5. Control'
    <2>1. ~up' => st.buf = <<>>
      BY <1>1 DEF Control, ObjectsKept
    <2>2. CASE pc = "done"
      BY <1>1, <1>2, <1>3, <2>1, <2>2, WorkKeeps
    <2>3. CASE pc # "done"
      <3>1. Planned(p)'
        BY <1>3, <1>4, <2>3 DEF Planned, PlanOfKeeper
      <3> QED BY <1>1, <1>2, <1>3, <2>1, <2>3, <3>1, WorkKeeps
    <2> QED BY <2>2, <2>3
  <1>6. Complete' /\ Projected'
    <2>1. r.pc # "project"
      BY <1>3
    <2>2. \A q \in Procs : (proc'[q].pc = "project") = (proc[q].pc = "project")
      BY <1>4, <2>1
    <2>3. \A q \in Procs : proc[q].pc = "project" => proc'[q].line = proc[q].line
      BY <1>4
    <2> QED BY <1>1, <1>4, <2>2, <2>3, LogRests
  <1> QED BY <1>5, <1>6 DEF IInv

LEMMA XBuffer ==
  ASSUME EventLogAssumption, IInv, NEW e \in Procs, Buffer(e)
  PROVE  IInv'
  <1> USE Roles, RestTyped
  <1> DEFINE x == [n |-> emits + 1, kind |-> proc[e].kind]
             b == log[cur].buf
             buf == Append(b, x)
             st == [log[cur] EXCEPT !.buf = buf, !.timer = TRUE]
  <1>1. Control /\ Disk /\ News /\ Complete /\ Projected /\ Memory
    BY DEF IInv, Control
  <1>2. proc[e].pc = "buffer" /\ AtWork(e) /\ ~Deleted(e) /\ e \in Emitters
    BY <1>1 DEF Buffer, AtWork, Deleted, Control, Planned, PlanOfKeeper
  <1>3. /\ row /\ proc[e].gen = cur /\ My(e) = log[cur] /\ log[cur] \in Objects /\ ~log[cur].closed
        /\ proc[e] \in Routines /\ cur \in Gens
    BY <1>1, <1>2, WorksOn
  <1>4. up
    BY <1>1, <1>2 DEF Control, ObjectsKept
  <1>5. emits \in Nat /\ emits' = emits + 1 /\ said' = said \cup {emits + 1} /\ emits' \in Nat
    BY <1>1 DEF Disk, Buffer, Accept, Next_
  <1>6. x \in Piece /\ x.n = emits + 1 /\ b \in Seq(Piece)
    BY <1>3, <1>5 DEF Piece, Routines, Objects
  <1> HIDE DEF x
  <1>7. buf \in Seq(Piece) /\ buf # <<>> /\ NumbersIn(buf) = NumbersIn(b) \cup {emits + 1}
        /\ (Increasing(Numbers(b)) /\ Before(NumbersIn(b), {emits + 1}) => Increasing(Numbers(buf)))
    <2> HIDE DEF b
    <2>1. buf \in Seq(Piece) /\ buf # <<>>
      BY <1>6
    <2> QED BY <1>6, <2>1, AppendPiece
  <1>8. log' = [log EXCEPT ![cur] = st] /\ cur' = cur
    BY <1>3 DEF Buffer, Put, Next_, x
  <1>9. \E r \in Routines :
           /\ proc' = [proc EXCEPT ![e] = r]
           /\ \/ r = Rest /\ holder' = [holder EXCEPT ![cur] = None]
              \/ holder' = holder /\ r.pc = "flush" /\ r.gen = cur /\ r.op = proc[e].op /\ r.then = "done"
    <2> DEFINE r == [proc[e] EXCEPT !.pc = "flush", !.then = "done"]
    <2>1. r \in Routines /\ r.pc = "flush" /\ r.gen = cur /\ r.op = proc[e].op /\ r.then = "done"
      BY <1>3 DEF Routines, PCs
    <2>2. CASE Done(e)
      BY <1>3, <2>2 DEF Done, Goto
    <2>3. CASE proc' = [proc EXCEPT ![e] = r] /\ holder' = holder
      BY <2>1, <2>3
    <2> QED BY <2>2, <2>3 DEF Buffer
  <1> HIDE DEF buf
  <1>10. /\ st \in Objects /\ st.buf = buf /\ st.timer /\ st.closed = log[cur].closed
         /\ st.retries = log[cur].retries /\ st.retryTimer = log[cur].retryTimer
         /\ st.init = log[cur].init /\ st.last = log[cur].last
    BY <1>3, <1>7 DEF Objects
  <1> HIDE DEF st
  <1>11. PICK r \in Routines :
           /\ proc' = [proc EXCEPT ![e] = r]
           /\ \/ r = Rest /\ holder' = [holder EXCEPT ![cur] = None]
              \/ holder' = holder /\ r.pc = "flush" /\ r.gen = cur /\ r.op = proc[e].op /\ r.then = "done"
    BY <1>9
  <1>12. proc'[e] = r /\ log'[cur] = st /\ \A q \in Procs \ {e} : proc'[q] = proc[q]
    BY <1>1, <1>3, <1>8, <1>11 DEF Memory
  <1>13. UNCHANGED <<file, torn, row, cursor, attending, running, up, view, cmds, faults, projected, skipped>>
    BY DEF Buffer, stored
  <1>14. Control'
    <2>1. Planned(e)'
      BY <1>2, <1>11, <1>12 DEF Planned, PlanOfEmitter
    <2>2. log[cur].retries # <<>> => log[cur].retryTimer
      BY <1>1, <1>2, <1>3, WorksOn DEF Control, ObjectsKept
    <2>3. UNCHANGED <<row, cmds>> /\ up'
      BY <1>4, <1>13
    <2>4. CASE r = Rest /\ holder' = [holder EXCEPT ![cur] = None]
      BY <1>1, <1>2, <1>3, <1>8, <1>10, <1>11, <2>2, <2>3, <2>4, WorkKeeps
    <2>5. CASE holder' = holder /\ r.pc = "flush" /\ r.gen = cur /\ r.op = proc[e].op /\ r.then = "done"
      BY <1>1, <1>2, <1>3, <1>7, <1>8, <1>10, <1>11, <2>1, <2>2, <2>3, <2>5, WorkKeeps
    <2> QED BY <1>11, <2>4, <2>5
  <1>15. /\ said \subseteq 1..emits /\ InFile \subseteq 1..emits /\ ToSet(projected) \subseteq 1..emits
         /\ Waiting \subseteq 1..emits /\ said = InFile \cup NumbersIn(b)
    BY <1>1, <1>3 DEF Disk, Projected, Complete
  <1>16. Before(1..emits, {emits + 1}) /\ 1..emits \subseteq 1..(emits + 1) /\ emits + 1 \in 1..(emits + 1)
    BY <1>5 DEF Before
  <1>17. InFile' = InFile /\ Waiting' = Waiting
    BY <1>8, <1>10, <1>12, <1>13 DEF InFile, Waiting
  <1>18. Disk' /\ News'
    <2>1. Disk'
      BY <1>1, <1>5, <1>13, <1>15, <1>16, <1>17 DEF Disk
    <2>2. News'
      BY <1>1, <1>13 DEF News, attending
    <2> QED BY <2>1, <2>2
  <1>19. Complete'
    <2>1. said' = InFile \cup NumbersIn(buf)
      BY <1>5, <1>7, <1>15
    <2>2. Before(InFile, NumbersIn(b)) /\ Increasing(Numbers(b)) /\ NumbersIn(b) \subseteq 1..emits
      BY <1>1, <1>3, <1>15 DEF Complete
    <2>3. Before(InFile, NumbersIn(buf)) /\ Increasing(Numbers(buf))
      BY <1>7, <1>15, <1>16, <2>2 DEF Before
    <2>4. log'[cur'].buf = buf /\ log'[cur'].init = log[cur].init /\ log'[cur'].last = log[cur].last
      BY <1>8, <1>10, <1>12
    <2> QED BY <1>1, <1>13, <1>17, <2>1, <2>3, <2>4 DEF Complete
  <1>20. Projected'
    <2>1. InHand = {} /\ InHand' = {}
      <3>1. \A q \in Procs : proc[q].pc # "project"
        BY <1>1, <1>2, Alone DEF AtWork
      <3>2. \A q \in Procs : proc'[q].pc # "project"
        BY <1>11, <1>12, <3>1
      <3> QED BY <3>1, <3>2 DEF InHand
    <2>2. Before(ToSet(projected) \cup Waiting, NumbersIn(buf))
      <3>1. Before(ToSet(projected) \cup Waiting, NumbersIn(b))
        BY <1>1, <1>3 DEF Projected
      <3> QED BY <1>7, <1>15, <1>16, <3>1 DEF Before
    <2>3. log'[cur'].buf = buf /\ log'[cur'].retries = log[cur].retries
      BY <1>8, <1>10, <1>12
    <2>4. Waiting' \cup InHand' \subseteq 1..emits'
      BY <1>5, <1>15, <1>16, <1>17, <2>1
    <2>5. \A q \in Procs : proc'[q].pc = "project" => Pending(proc'[q].line)
      BY <1>2, <1>11, <1>12, <1>1, Alone DEF AtWork
    <2> QED BY <1>1, <1>3, <1>13, <1>17, <2>1, <2>2, <2>3, <2>4, <2>5 DEF Projected
  <1> QED BY <1>14, <1>18, <1>19, <1>20 DEF IInv

\* p stores all pieces that are not stored yet.
LEMMA StoreInv ==
  ASSUME EventLogAssumption, IInv, NEW p \in Procs, AtWork(p), ~Deleted(p),
         proc[p].pc \in {"flush", "write"}, NEW pieces \in Seq(Piece), pieces # <<>>,
         NEW then \in PCs \cup {"done"}, Store(p, pieces, then),
         NEW st, st = Sequenced(log[cur]) \/ st = [Sequenced(log[cur]) EXCEPT !.buf = <<>>, !.timer = FALSE],
         st.buf = <<>>, Put(p, st),
         Increasing(Numbers(pieces)), Before(InFile, NumbersIn(pieces)),
         Before(ToSet(projected) \cup Waiting, NumbersIn(pieces)),
         NumbersIn(pieces) \subseteq 1..emits', emits' \in Nat, emits <= emits',
         said' = InFile \cup NumbersIn(pieces), UNCHANGED <<cmds, faults>>,
         p \in Emitters => then \in {"done", "buffer", "write"},
         p = Flusher => then = "done",
         p = Keeper => \/ proc[p].op = "recover" /\ then = "recovered"
                       \/ proc[p].op = "delete" /\ then = "row"
                       \/ proc[p].op = "sync" /\ then = "retries"
  PROVE  IInv'
  <1> USE Roles, RestTyped
  <1>1. Control /\ Disk /\ News /\ Complete /\ Projected /\ Memory
    BY DEF IInv, Control
  <1>2. /\ row /\ proc[p].gen = cur /\ My(p) = log[cur] /\ log[cur] \in Objects /\ ~log[cur].closed
        /\ proc[p] \in Routines /\ cur \in Gens
    BY <1>1, WorksOn
  <1> DEFINE line == [seq |-> Sequenced(log[cur]).last, pieces |-> pieces, ok |-> ~torn]
             r == [proc[p] EXCEPT !.pc = "project", !.line = line, !.then = then]
  <1>3. /\ Sequenced(log[cur]) \in Objects /\ ~Sequenced(log[cur]).closed
        /\ Sequenced(log[cur]).timer = log[cur].timer /\ Sequenced(log[cur]).buf = log[cur].buf
        /\ Sequenced(log[cur]).retries = log[cur].retries
        /\ Sequenced(log[cur]).retryTimer = log[cur].retryTimer
        /\ \A i \in 1..Len(file) : file[i].seq < Sequenced(log[cur]).last
        /\ Sequenced(log[cur]).last \in Nat
    BY <1>1, <1>2, SequencedLarger DEF Objects
  <1>4. line \in Line /\ line.pieces = pieces /\ line.seq = Sequenced(log[cur]).last
    BY <1>1, <1>3 DEF Line, Disk
  <1>5. /\ file' = Append(file, line) /\ torn' = FALSE /\ proc' = [proc EXCEPT ![p] = r]
        /\ UNCHANGED <<holder, row, cursor, attending, running, up, view, projected, skipped>>
    <2>1. line = [seq |-> Sequenced(My(p)).last, pieces |-> pieces, ok |-> ~torn]
      BY <1>2
    <2> HIDE DEF line
    <2>2. /\ file' = Append(file, line) /\ torn' = FALSE
          /\ UNCHANGED <<holder, row, cursor, attending, running, up, view, projected, skipped>>
      BY <2>1 DEF Store
    <2>3. proc' = [proc EXCEPT ![p].pc = "project", ![p].line = line, ![p].then = then]
      BY <2>1 DEF Store
    <2>4. proc' = [proc EXCEPT ![p] = r]
      BY <2>3
    <2> QED BY <2>2, <2>4
  <1>6. /\ st \in Objects /\ ~st.closed /\ st.timer \in BOOLEAN /\ st.last = line.seq
        /\ st.retries = log[cur].retries /\ st.retryTimer = log[cur].retryTimer
    <2> HIDE DEF line
    <2>1. CASE st = Sequenced(log[cur])
      BY <1>3, <1>4, <2>1 DEF Objects
    <2>2. CASE st = [Sequenced(log[cur]) EXCEPT !.buf = <<>>, !.timer = FALSE]
      BY <1>3, <1>4, <2>2 DEF Objects
    <2> QED BY <2>1, <2>2
  <1> HIDE DEF line
  <1>7. /\ r \in Routines /\ r.pc = "project" /\ r.line = line /\ r.then = then /\ r.gen = cur
        /\ r.op = proc[p].op
    BY <1>2, <1>4 DEF Routines, PCs
  <1> HIDE DEF r
  <1>8. /\ proc'[p] = r /\ log' = [log EXCEPT ![cur] = st] /\ log'[cur] = st /\ cur' = cur
        /\ \A q \in Procs \ {p} : proc'[q] = proc[q]
    BY <1>1, <1>2, <1>5 DEF Memory, Put
  <1>9. Control'
    <2>1. Planned(p)'
      <3>1. p # Retrier
        BY <1>1 DEF Control, Planned
      <3> QED BY <1>7, <1>8, <3>1 DEF Planned, PlanOfEmitter, PlanOfKeeper
    <2>2. log[cur].retries # <<>> => log[cur].retryTimer
      BY <1>1, <1>2, WorksOn DEF Control, ObjectsKept
    <2>3. up \in BOOLEAN /\ UNCHANGED <<row, cmds, up, holder>>
      BY <1>1, <1>5 DEF Memory
    <2>4. r.pc = "project" /\ r.pc \notin {"idle", "wait", "remove", "retries", "reset", "flush"}
      BY <1>7
    <2>5. st.buf # <<>> => st.timer
      OBVIOUS
    <2>6. st.retries # <<>> => st.retryTimer
      BY <1>6, <2>2
    <2>7. /\ holder' = holder /\ r.gen = cur /\ r.op = proc[p].op
          /\ r.pc \notin {"idle", "wait"} /\ (r.pc = "remove" => r.op # "delete")
          /\ r.pc = "flush" => st.buf # <<>>
          /\ r.pc \in {"write", "project"} => st.buf = <<>>
          /\ p = Keeper /\ r.pc \in {"retries", "reset"} => st.buf = <<>>
      BY <1>2, <1>7, <2>3, <2>4
    <2>8. r \in Routines /\ proc' = [proc EXCEPT ![p] = r]
      BY <1>5, <1>7
    <2>9. up' \in BOOLEAN /\ (up => up') /\ (~up' => st.buf = <<>>) /\ row' = row /\ cmds' = cmds
      BY <2>3
    <2>10. \E q \in Routines :
             /\ proc' = [proc EXCEPT ![p] = q] /\ holder' = holder /\ q.gen = cur /\ q.op = proc[p].op
             /\ q.pc \notin {"idle", "wait"} /\ (q.pc = "remove" => q.op # "delete")
             /\ q.pc = "flush" => st.buf # <<>>
             /\ q.pc \in {"write", "project"} => st.buf = <<>>
             /\ p = Keeper /\ q.pc \in {"retries", "reset"} => st.buf = <<>>
      BY <2>7, <2>8
    <2>11. ~st.closed /\ st \in Objects /\ log' = [log EXCEPT ![cur] = st] /\ cur' = cur
      BY <1>6, <1>8

    <2> QED BY <1>1, <2>1, <2>5, <2>6, <2>9, <2>10, <2>11, WorkKeeps
  <1>10. /\ Complete' /\ Projected' /\ file' \in Seq(Line)
         /\ said' \subseteq 1..emits' /\ InFile' \subseteq 1..emits' /\ ToSet(projected') \subseteq 1..emits'
    <2>1. proc[p].pc # "project" /\ file' = Append(file, line) /\ UNCHANGED <<row, projected, skipped>>
      BY <1>5
    <2>2. log'[cur].buf = <<>> /\ log'[cur].retries = log[cur].retries /\ log'[cur].last = line.seq
      BY <1>6, <1>8
    <2>3. proc'[p].pc = "project" /\ proc'[p].line = line
      BY <1>7, <1>8
    <2>4. \A i \in 1..Len(file) : file[i].seq < line.seq
      BY <1>3, <1>4
    <2> QED BY <1>1, <1>4, <1>8, <2>1, <2>2, <2>3, <2>4, StoredInOrder
  <1>11. Disk'
    <2>1. cursor \in Nat /\ running \in BOOLEAN /\ projected \in Seq(Nat) /\ faults \in 0..MaxFaults
      BY <1>1 DEF Disk
    <2>2. cursor' \in Nat /\ running' \in BOOLEAN /\ projected' \in Seq(Nat) /\ faults' \in 0..MaxFaults
      BY <1>5, <2>1
    <2>3. torn' \in BOOLEAN
      BY <1>5, Zenon
    <2> QED BY <1>10, <2>2, <2>3 DEF Disk
  <1>12. News'
    BY <1>1, <1>5 DEF News, attending
  <1> QED BY <1>9, <1>10, <1>11, <1>12 DEF IInv

\* An append that fails changes nothing but the number and a part of a line.
LEMMA StoreFailsInv ==
  ASSUME EventLogAssumption, IInv, NEW p \in Procs, AtWork(p), ~Deleted(p),
         proc[p].pc \in {"flush", "write"},
         NEW st, st \in {log[cur], Sequenced(log[cur])}, StoreFails(p, st),
         Put(p, st) \/ Put(p, Rearm(p, st)), Done(p), UNCHANGED <<up, said, skipped>>
  PROVE  IInv'
  <1> USE Roles, RestTyped
  <1>1. Control /\ Disk /\ News /\ Complete /\ Projected /\ Memory
    BY DEF IInv, Control
  <1>2. /\ row /\ proc[p].gen = cur /\ My(p) = log[cur] /\ log[cur] \in Objects /\ ~log[cur].closed
        /\ proc[p] \in Routines /\ cur \in Gens
    BY <1>1, WorksOn
  <1>3. /\ st \in Objects /\ st.closed = log[cur].closed /\ st.buf = log[cur].buf
        /\ st.timer = log[cur].timer /\ st.retries = log[cur].retries
        /\ st.retryTimer = log[cur].retryTimer
        /\ st.init => \A i \in 1..Len(file) : file[i].seq <= st.last
    BY <1>1, Tried
  <1>4. PICK s \in Objects :
          /\ log' = [log EXCEPT ![cur] = s] /\ s.closed = log[cur].closed /\ s.buf = log[cur].buf
          /\ s.retries = log[cur].retries /\ s.retryTimer = log[cur].retryTimer
          /\ s.timer = log[cur].timer \/ s.timer
          /\ s.init = st.init /\ s.last = st.last
    <2>1. CASE Put(p, st)
      BY <1>2, <1>3, <2>1 DEF Put
    <2>2. CASE Put(p, Rearm(p, st))
      <3> DEFINE s == [st EXCEPT !.timer = TRUE]
      <3>1. /\ s \in Objects /\ s.closed = st.closed /\ s.buf = st.buf /\ s.retries = st.retries
            /\ s.retryTimer = st.retryTimer /\ s.timer /\ s.init = st.init /\ s.last = st.last
        BY <1>3 DEF Objects
      <3>2. log' = [log EXCEPT ![cur] = s]
        BY <1>2, <2>2 DEF Put, Rearm
      <3> HIDE DEF s
      <3> QED BY <1>3, <3>1, <3>2
    <2> QED BY <2>1, <2>2
  <1>5. cur' = cur
    BY DEF Put
  <1>6. s.buf # <<>> => s.timer
    BY <1>1, <1>2, <1>4 DEF Control, ObjectsKept
  <1>7. s.retries # <<>> => s.retryTimer
    BY <1>1, <1>2, <1>4, WorksOn DEF Control, ObjectsKept
  <1>8. /\ UNCHANGED <<file, row, said, projected, skipped, emits, cmds, cursor, attending, running, view>>
        /\ torn' \in {torn, TRUE} /\ faults' \in 0..MaxFaults
    <2>1. faults \in 0..MaxFaults /\ MaxFaults \in Nat
      BY <1>1 DEF Disk, EventLogAssumption
    <2>2. UNCHANGED <<file, row, said, projected, skipped, cursor, attending, running, view>>
      BY DEF StoreFails
    <2>3. CASE UNCHANGED <<torn, bounds>>
      BY <2>1, <2>2, <2>3 DEF bounds
    <2>4. CASE Fail("write") /\ torn' \in {torn, TRUE}
      <3>1. faults' = faults + 1 /\ faults < MaxFaults /\ UNCHANGED <<emits, cmds>>
        BY <2>4 DEF Fail
      <3>2. faults' \in 0..MaxFaults
        BY <2>1, <3>1
      <3> QED BY <2>2, <2>4, <3>1, <3>2
    <2> QED BY <2>3, <2>4 DEF StoreFails
  <1>9. Disk' /\ News'
    <2>1. Disk'
      BY <1>1, <1>8 DEF Disk, InFile
    <2>2. News'
      BY <1>1, <1>8 DEF News, attending
    <2> QED BY <2>1, <2>2
  <1>10. s.init => \A i \in 1..Len(file) : file[i].seq <= s.last
    BY <1>3, <1>4
  <1>11. Goto(p, "done") /\ up' \in BOOLEAN /\ (up => up')
    BY <1>1 DEF Done, Memory
  <1> QED BY <1>4, <1>5, <1>6, <1>7, <1>8, <1>9, <1>10, <1>11, WorkInv

LEMMA XFlush ==
  ASSUME EventLogAssumption, IInv, NEW p \in Procs, Flush(p)
  PROVE  IInv'
  <1> USE Roles, RestTyped
  <1>1. Control /\ Disk /\ Complete /\ Projected /\ Memory
    BY DEF IInv, Control
  <1>2. proc[p].pc = "flush" /\ AtWork(p) /\ ~Deleted(p)
    BY DEF Flush, AtWork, Deleted
  <1>3. /\ row /\ proc[p].gen = cur /\ My(p) = log[cur] /\ log[cur] \in Objects
        /\ proc[p] \in Routines
    BY <1>1, <1>2, WorksOn
  <1> DEFINE b == log[cur].buf
  <1>4. b # <<>> /\ b \in Seq(Piece)
    BY <1>1, <1>2, <1>3 DEF Control, Buffered, Objects
  <1>5. CASE /\ Store(p, My(p).buf, proc[p].then)
             /\ Put(p, [Sequenced(My(p)) EXCEPT !.buf = <<>>, !.timer = FALSE])
             /\ UNCHANGED <<bounds, said>>
    <2> DEFINE st == [Sequenced(log[cur]) EXCEPT !.buf = <<>>, !.timer = FALSE]
               then == proc[p].then
    <2>1. st.buf = <<>>
      BY <1>1, SequencedLarger DEF Objects
    <2>2. Store(p, b, then) /\ Put(p, st)
      BY <1>3, <1>5
    <2>3. /\ Increasing(Numbers(b)) /\ Before(InFile, NumbersIn(b)) /\ said' = InFile \cup NumbersIn(b)
          /\ Before(ToSet(projected) \cup Waiting, NumbersIn(b))
      BY <1>1, <1>3, <1>5 DEF Complete, Projected
    <2>4. emits' = emits /\ emits \in Nat /\ UNCHANGED <<cmds, faults>> /\ said' = said
          /\ said \subseteq 1..emits
      BY <1>1, <1>5 DEF bounds, Disk
    <2>5. NumbersIn(b) \subseteq 1..emits' /\ emits' \in Nat /\ emits <= emits'
      <3> HIDE DEF b
      <3>1. NumbersIn(b) \subseteq said
        BY <2>3, <2>4
      <3>2. NumbersIn(b) \subseteq 1..emits
        BY <2>4, <3>1
      <3> QED BY <2>4, <3>2
    <2>6. /\ then \in PCs \cup {"done"}
          /\ p \in Emitters => then \in {"done", "buffer", "write"}
          /\ p = Flusher => then = "done"
          /\ p = Keeper => \/ proc[p].op = "delete" /\ then = "row"
                           \/ proc[p].op = "sync" /\ then = "retries"
      BY <1>1, <1>2, <1>3 DEF Control, Planned, PlanOfEmitter, PlanOfKeeper, Routines
    <2> HIDE DEF b, st, then
    <2>7. st = [Sequenced(log[cur]) EXCEPT !.buf = <<>>, !.timer = FALSE]
      BY DEF st
    <2> QED BY <1>2, <1>4, <2>1, <2>2, <2>3, <2>4, <2>5, <2>6, <2>7, StoreInv
  <1>6. CASE /\ \E st \in {My(p), Sequenced(My(p))} : StoreFails(p, st) /\ Put(p, Rearm(p, st))
             /\ Done(p) /\ UNCHANGED <<up, said, skipped>>
    BY <1>2, <1>3, <1>6, StoreFailsInv
  <1> QED BY <1>5, <1>6 DEF Flush

LEMMA XWrite ==
  ASSUME EventLogAssumption, IInv, NEW p \in Procs, Write(p)
  PROVE  IInv'
  <1> USE Roles, RestTyped
  <1>1. Control /\ Disk /\ Complete /\ Projected /\ Memory
    BY DEF IInv, Control
  <1>2. proc[p].pc = "write" /\ AtWork(p) /\ ~Deleted(p)
    BY DEF Write, AtWork, Deleted
  <1>3. /\ row /\ proc[p].gen = cur /\ My(p) = log[cur] /\ log[cur] \in Objects
        /\ proc[p] \in Routines /\ log[cur].buf = <<>>
    BY <1>1, <1>2, WorksOn DEF Control, Buffered
  <1> DEFINE then == IF p = Keeper THEN "recovered" ELSE "done"
             x == [n |-> emits + 1, kind |-> proc[p].kind]
  <1>4. CASE /\ Store(p, <<x>>, then) /\ Put(p, Sequenced(My(p))) /\ Accept /\ UNCHANGED <<cmds, faults>>
    <2>1. emits \in Nat /\ emits' = emits + 1 /\ said' = said \cup {emits + 1}
      BY <1>1, <1>4 DEF Disk, Accept, Next_
    <2>2. x \in Piece /\ x.n = emits + 1
      BY <1>3, <2>1 DEF Piece, Routines
    <2> DEFINE st == Sequenced(log[cur])
               pieces == <<x>>
    <2>3. pieces \in Seq(Piece) /\ pieces # <<>> /\ NumbersIn(pieces) = {emits + 1} /\ Increasing(Numbers(pieces))
      BY <2>2, OnePiece
    <2>4. st.buf = <<>>
      BY <1>1, <1>3, SequencedLarger
    <2>5. Store(p, pieces, then) /\ Put(p, st) /\ UNCHANGED <<cmds, faults>>
      BY <1>3, <1>4
    <2>6. /\ said \subseteq 1..emits /\ InFile \subseteq 1..emits /\ ToSet(projected) \subseteq 1..emits
          /\ Waiting \subseteq 1..emits /\ said = InFile
      BY <1>1, <1>3, EmptyNumbers DEF Disk, Projected, Complete
    <2>7. Before(1..emits, {emits + 1}) /\ emits + 1 \in 1..emits' /\ emits' \in Nat /\ emits <= emits'
      BY <2>1 DEF Before
    <2>8. Before(InFile, {emits + 1}) /\ Before(ToSet(projected) \cup Waiting, {emits + 1})
      BY <2>6, <2>7 DEF Before
    <2>9. /\ then \in PCs \cup {"done"}
          /\ p \in Emitters => then = "done"
          /\ p = Flusher => then = "done"
          /\ p = Keeper => proc[p].op = "recover" /\ then = "recovered"
      BY <1>1, <1>2, <1>3 DEF Control, Planned, PlanOfEmitter, PlanOfKeeper, PCs
    <2>10. said' = InFile \cup {emits + 1} /\ {emits + 1} \subseteq 1..emits'
      BY <2>1, <2>6, <2>7
    <2>11. st = Sequenced(log[cur])
      OBVIOUS
    <2> HIDE DEF x, pieces, then, st
    <2> QED BY <1>2, <2>3, <2>4, <2>5, <2>7, <2>8, <2>9, <2>10, <2>11, StoreInv
  <1>5. CASE /\ \E st \in {My(p), Sequenced(My(p))} : StoreFails(p, st) /\ Put(p, st)
             /\ Done(p) /\ UNCHANGED <<up, said, skipped>>
    BY <1>2, <1>3, <1>5, StoreFailsInv
  <1> QED BY <1>4, <1>5 DEF Write, Next_
-----------------------------------------------------------------------------
(* What is projected.                                                       *)

\* a projection that succeeds: its news and its effect on the row
LEMMA AppliedNews ==
  ASSUME News, NEW line \in Line, Applied(line), view' = view
  PROVE  News' /\ cursor' \in Nat /\ projected' = projected \o Numbers(line.pieces)
  <1>1. cursor' \in Nat /\ projected' = projected \o Numbers(line.pieces)
    BY DEF Applied, Line
  <1>2. CASE UNCHANGED attending
    <2>1. UNCHANGED <<attention, unread, missed, view>>
      BY <1>2 DEF attending
    <2> QED BY <1>1, <2>1 DEF News
  <1>3. CASE unread' = TRUE /\ attention' = attention + 1 /\ missed' = TRUE
    <2>1. attention \in Nat /\ view \in 0..attention
      BY DEF News
    <2>2. attention' \in Nat /\ view' \in 0..attention' /\ view' < attention'
      BY <1>3, <2>1
    <2>3. unread' \in BOOLEAN /\ missed' \in BOOLEAN
      BY <1>3, Zenon
    <2> QED BY <1>1, <2>2, <2>3 DEF News
  <1> QED BY <1>1, <1>2, <1>3 DEF Applied

\* p goes on after the line it had in hand
LEMMA HandEmptied ==
  ASSUME EventLogAssumption, Control, NEW p \in Procs, proc[p].pc = "project",
         Goto(p, proc[p].then), NEW st \in Objects, log' = [log EXCEPT ![cur] = st], cur' = cur,
         UNCHANGED <<row, cmds, up>>, st.closed = log[cur].closed, st.buf = log[cur].buf,
         st.retries # <<>> => st.retryTimer
  PROVE  Control' /\ \A q \in Procs : proc'[q].pc # "project"
  <1> USE Roles, RestTyped
  <1>1. AtWork(p) /\ ~Deleted(p) /\ Memory
    BY DEF AtWork, Deleted, Control
  <1>2. /\ proc[p].gen = cur /\ log[cur] \in Objects /\ ~log[cur].closed /\ proc[p] \in Routines
        /\ cur \in Gens
    BY <1>1, WorksOn
  <1>3. st.buf = <<>> /\ ~st.closed /\ up \in BOOLEAN
    BY <1>1, <1>2 DEF Control, Buffered, Memory
  <1> DEFINE then == proc[p].then
  <1>4. /\ then \in {"done", "buffer", "write", "row", "retries", "recovered"}
        /\ p # Retrier
        /\ p \in Emitters => then \in {"done", "buffer", "write"}
        /\ p = Flusher => then = "done"
        /\ p = Keeper => \/ proc[p].op = "delete" /\ then = "row"
                         \/ proc[p].op = "sync" /\ then = "retries"
                         \/ proc[p].op = "recover" /\ then = "recovered"
    <2>1. Planned(p)
      BY DEF Control
    <2> QED BY <2>1 DEF Planned, PlanOfEmitter, PlanOfKeeper
  <1>5. then \in (PCs \ {"idle", "wait"}) \cup {"done"}
    BY <1>4 DEF PCs
  <1>6. PICK r \in Routines :
           /\ proc' = [proc EXCEPT ![p] = r]
           /\ then = "done" => r = Rest /\ holder' = [holder EXCEPT ![cur] = None]
           /\ then # "done" => /\ holder' = holder /\ r.pc = then /\ r.gen = cur /\ r.op = proc[p].op
                               /\ r.then = then /\ r.line = proc[p].line
    BY <1>1, <1>5, GotoDoes
  <1>7. proc'[p] = r /\ \A q \in Procs \ {p} : proc'[q] = proc[q] /\ proc[q].pc # "project"
    BY <1>1, <1>6, Alone DEF Memory, AtWork
  <1> HIDE DEF then
  <1>8. CASE then = "done"
    <2>1. r = Rest /\ holder' = [holder EXCEPT ![cur] = None]
      BY <1>6, <1>8
    <2>2. Control'
      BY <1>1, <1>3, <1>6, <2>1, WorkKeeps
    <2> QED BY <1>7, <2>1, <2>2
  <1>9. CASE then # "done"
    <2>1. /\ holder' = holder /\ r.pc = then /\ r.gen = cur /\ r.op = proc[p].op /\ r.then = then
      BY <1>6, <1>9
    <2>2. Planned(p)'
      BY <1>4, <1>7, <1>9, <2>1 DEF Planned, PlanOfEmitter, PlanOfKeeper
    <2>3. r.pc \notin {"idle", "wait", "remove", "flush", "project"}
      BY <1>4, <1>9, <2>1
    <2>4. Control'
      BY <1>1, <1>3, <1>6, <2>1, <2>2, <2>3, WorkKeeps
    <2>5. r.pc # "project"
      BY <2>3
    <2> QED BY <1>7, <2>4, <2>5
  <1> QED BY <1>8, <1>9

\* p stays where it is after a line that had waited
LEMMA HandStays ==
  ASSUME EventLogAssumption, Control, NEW p \in Procs, proc[p].pc \in {"project", "retries"},
         UNCHANGED <<proc, holder, row, cmds, up>>, cur' = cur,
         NEW st \in Objects, log' = [log EXCEPT ![cur] = st],
         st.closed = log[cur].closed, st.buf = log[cur].buf, st.timer = log[cur].timer,
         st.retries # <<>> => st.retryTimer \/ proc[p].pc = "retries"
  PROVE  Control'
  <1> USE Roles, RestTyped
  <1>1. AtWork(p) /\ ~Deleted(p) /\ Memory /\ ObjectsKept
    BY DEF AtWork, Deleted, Control
  <1>2. /\ proc[p].gen = cur /\ log[cur] \in Objects /\ ~log[cur].closed /\ proc[p] \in Routines
        /\ cur \in Gens
    BY <1>1, WorksOn
  <1>3. /\ ~st.closed /\ up \in BOOLEAN /\ (st.buf # <<>> => st.timer) /\ (~up => st.buf = <<>>)
    BY <1>1, <1>2 DEF Memory, ObjectsKept
  <1>4. proc' = [proc EXCEPT ![p] = proc[p]]
    BY <1>1 DEF Memory
  <1>5. Planned(p)' /\ Buffered(p)
    <2>1. Planned(p) /\ Buffered(p)
      BY DEF Control
    <2> QED BY <2>1 DEF Planned, PlanOfEmitter, PlanOfKeeper
  <1>6. /\ proc[p].pc \notin {"idle", "wait", "remove", "flush", "write"}
        /\ proc[p].pc = "project" => st.buf = <<>>
        /\ p = Keeper /\ proc[p].pc \in {"retries", "reset"} => st.buf = <<>>
    BY <1>5 DEF Buffered
  <1>7. \E r \in Routines :
          /\ proc' = [proc EXCEPT ![p] = r] /\ r.pc = proc[p].pc /\ r.gen = cur /\ r.op = proc[p].op
    BY <1>2, <1>4
  <1>8. PICK r \in Routines :
          /\ proc' = [proc EXCEPT ![p] = r] /\ r.pc = proc[p].pc /\ r.gen = cur /\ r.op = proc[p].op
    BY <1>7
  <1>9. /\ holder' = holder /\ r.gen = cur /\ r.op = proc[p].op
        /\ r.pc \notin {"idle", "wait"} /\ (r.pc = "remove" => r.op # "delete")
        /\ Planned(p)'
        /\ r.pc = "flush" => st.buf # <<>>
        /\ r.pc \in {"write", "project"} => st.buf = <<>>
        /\ p = Keeper /\ r.pc \in {"retries", "reset"} => st.buf = <<>>
    BY <1>5, <1>6, <1>8
  <1>10. st.retries # <<>> => st.retryTimer \/ r.pc = "retries"
    BY <1>8
  <1> QED BY <1>1, <1>3, <1>8, <1>9, <1>10, WorkKeeps
LEMMA XProject ==
  ASSUME EventLogAssumption, IInv, NEW p \in Procs, Project(p)
  PROVE  IInv'
  <1> USE Roles, RestTyped
  <1> DEFINE ls == log[cur].retries
             line == proc[p].line
             h == NumbersIn(line.pieces)
  <1>1. Control /\ Disk /\ News /\ Complete /\ Projected /\ Memory
    BY DEF IInv, Control
  <1>2. proc[p].pc = "project" /\ AtWork(p) /\ ~Deleted(p)
    BY DEF Project, AtWork, Deleted
  <1>3. /\ row /\ proc[p].gen = cur /\ My(p) = log[cur] /\ log[cur] \in Objects
        /\ proc[p] \in Routines /\ cur \in Gens
    BY <1>1, <1>2, WorksOn
  <1>4. /\ line \in Line /\ ls \in Seq(Line) /\ line.pieces \in Seq(Piece) /\ projected \in Seq(Nat)
        /\ log[cur].buf = <<>>
    BY <1>1, <1>2, <1>3 DEF Routines, Objects, Line, Disk, Control, Buffered
  <1>5. InHand = h /\ Increasing(Numbers(line.pieces)) /\ line.pieces # <<>>
    BY <1>1, <1>2, <1>3, HandOf DEF Projected, Pending
  <1>6. /\ UNCHANGED <<file, torn, row, running, up, view, said, skipped>>
        /\ InFile' = InFile
    BY DEF Project, stored, InFile
  <1>7. /\ said \subseteq 1..emits /\ InFile \subseteq 1..emits /\ ToSet(projected) \subseteq 1..emits
        /\ running \in BOOLEAN /\ torn \in BOOLEAN /\ file \in Seq(Line) /\ emits \in Nat
        /\ faults \in 0..MaxFaults /\ cursor \in Nat
    BY <1>1 DEF Disk
  <1>8. ls # <<>> => log[cur].retryTimer
    BY <1>1, <1>2, <1>3, WorksOn DEF Control, ObjectsKept
  <1>9. CASE First(ls, line) = line /\ Applied(line) /\ Goto(p, proc[p].then) /\ UNCHANGED <<log, cur, bounds>>
    <2>1. ls = <<>>
      <3>1. SUFFICES ASSUME ls # <<>> PROVE FALSE
        OBVIOUS
      <3>2. Head(ls) = line /\ 1 \in 1..Len(ls) /\ Head(ls) = ls[1]
        BY <1>4, <1>9, <3>1 DEF First
      <3>3. h \subseteq Waiting
        BY <3>2 DEF Waiting, InLines
      <3>4. line.pieces[1].n \in h /\ line.pieces[1].n \in Nat
        <4> HIDE DEF line
        <4>1. 1 \in 1..Len(line.pieces)
          BY <1>4, <1>5
        <4>2. line.pieces[1].n \in NumbersIn(line.pieces)
          BY <4>1 DEF NumbersIn
        <4> QED BY <1>4, <4>2, NumbersTyped
      <3>5. Before(Waiting, h)
        BY <1>1, <1>3, <1>5 DEF Projected
      <3> QED BY <3>3, <3>4, <3>5 DEF Before
    <2>2. log' = [log EXCEPT ![cur] = log[cur]] /\ UNCHANGED <<log, cur, emits, cmds, faults>>
      BY <1>1, <1>9 DEF Memory, bounds
    <2>3. Control' /\ \A q \in Procs : proc'[q].pc # "project"
      BY <1>1, <1>2, <1>3, <1>6, <1>8, <1>9, <2>2, HandEmptied
    <2>4. News' /\ cursor' \in Nat /\ projected' = projected \o Numbers(line.pieces)
      BY <1>1, <1>4, <1>6, <1>9, AppliedNews
    <2>5. /\ Waiting = {} /\ Waiting' = {} /\ InHand' = {}
      <3>1. Waiting = {} /\ Waiting' = {}
        BY <2>1, <2>2, EmptyLines DEF Waiting
      <3> QED BY <2>3, <3>1 DEF InHand
    <2>6. /\ Before(ToSet(projected), h) /\ h \subseteq 1..emits
          /\ InFile \subseteq ToSet(projected) \cup h \cup skipped /\ Increasing(projected)
      BY <1>1, <1>3, <1>5, <2>5 DEF Projected
    <2>7. /\ projected' \in Seq(Nat) /\ ToSet(projected') = ToSet(projected) \cup h
          /\ Increasing(projected')
      BY <1>4, <1>5, <2>4, <2>6, AppendProjected
    <2>8. ToSet(projected') \subseteq 1..emits'
      BY <1>7, <2>2, <2>6, <2>7
    <2>9. Disk'
      BY <1>6, <1>7, <2>2, <2>4, <2>7, <2>8 DEF Disk
    <2>10. Complete'
      BY <1>1, <1>6, <2>2 DEF Complete
    <2>11. Projected'
      <3>1. InFile' \subseteq ToSet(projected') \cup Waiting' \cup InHand' \cup skipped'
        BY <1>6, <2>6, <2>7
      <3>2. Before(ToSet(projected') \cup Waiting', NumbersIn(log'[cur'].buf))
        BY <1>4, <2>2, EmptyNumbers DEF Before
      <3>3. log'[cur'].retries = <<>> /\ InOrder(<<>>)
        BY <2>1, <2>2, EmptyLines
      <3> QED BY <2>3, <2>5, <2>7, <3>1, <3>2, <3>3 DEF Projected, Before
    <2> QED BY <2>3, <2>4, <2>9, <2>10, <2>11 DEF IInv
  <1>10. CASE /\ First(ls, line) # line /\ Applied(Head(ls))
              /\ Put(p, [My(p) EXCEPT !.retries = Tail(ls), !.retryTimer = @ /\ Len(ls) > 1])
              /\ UNCHANGED <<holder, proc, bounds>>
    <2> DEFINE t == log[cur].retryTimer /\ Len(ls) > 1
               st == [log[cur] EXCEPT !.retries = Tail(ls), !.retryTimer = t]
    <2>1. ls # <<>>
      BY <1>10 DEF First
    <2>2. Head(ls) \in Line /\ Tail(ls) \in Seq(Line) /\ t \in BOOLEAN
      <3>1. Head(ls) \in Line /\ Tail(ls) \in Seq(Line)
        BY <1>4, <2>1
      <3>2. t \in BOOLEAN
        OBVIOUS
      <3> QED BY <3>1, <3>2
    <2>3. Tail(ls) # <<>> => t
      <3>1. Tail(ls) # <<>> => Len(ls) > 1
        BY <1>4, <2>1
      <3> QED BY <1>8, <2>1, <3>1
    <2>4. log' = [log EXCEPT ![cur] = st] /\ cur' = cur
      BY <1>3, <1>10 DEF Put
    <2> HIDE DEF t
    <2>5. /\ st \in Objects /\ st.retries = Tail(ls) /\ st.buf = log[cur].buf /\ st.timer = log[cur].timer
          /\ st.closed = log[cur].closed /\ st.init = log[cur].init /\ st.last = log[cur].last
          /\ st.retryTimer = t
      BY <1>3, <2>2 DEF Objects
    <2> HIDE DEF st
    <2>6. UNCHANGED <<holder, proc, emits, cmds, faults>>
      BY <1>10 DEF bounds
    <2>7. Control'
      BY <1>1, <1>2, <1>6, <2>3, <2>4, <2>5, <2>6, HandStays
    <2>8. log'[cur] = st
      BY <1>1, <1>3, <2>4 DEF Memory
    <2>9. News' /\ cursor' \in Nat /\ projected' = projected \o Numbers(Head(ls).pieces)
      BY <1>1, <1>6, <1>10, <2>2, AppliedNews
    <2>10. Complete' /\ Projected' /\ projected' \in Seq(Nat) /\ ToSet(projected') \subseteq 1..emits
      BY <1>1, <1>3, <1>6, <2>1, <2>4, <2>5, <2>6, <2>8, <2>9, HeadProjected
    <2>11. Disk'
      BY <1>6, <1>7, <2>6, <2>9, <2>10 DEF Disk
    <2> QED BY <2>7, <2>9, <2>10, <2>11 DEF IInv
  <1>11. CASE /\ Fail("db") /\ UNCHANGED <<cursor, projected, attending>>
              /\ Put(p, [My(p) EXCEPT !.retries = Append(@, line), !.retryTimer = TRUE])
              /\ Goto(p, proc[p].then)
    <2> DEFINE st == [log[cur] EXCEPT !.retries = Append(ls, line), !.retryTimer = TRUE]
    <2>1. log' = [log EXCEPT ![cur] = st] /\ cur' = cur
      BY <1>3, <1>11 DEF Put
    <2>2. Append(ls, line) \in Seq(Line)
      BY <1>4
    <2>3. /\ st \in Objects /\ st.retries = Append(ls, line) /\ st.buf = log[cur].buf
          /\ st.closed = log[cur].closed /\ st.init = log[cur].init /\ st.last = log[cur].last
          /\ st.retryTimer
      BY <1>3, <2>2 DEF Objects
    <2> HIDE DEF st
    <2>4. UNCHANGED <<emits, cmds, cursor, projected, attending>> /\ faults' = faults + 1 /\ faults < MaxFaults
      BY <1>11 DEF Fail
    <2>5. Control' /\ \A q \in Procs : proc'[q].pc # "project"
      BY <1>1, <1>2, <1>6, <1>11, <2>1, <2>3, <2>4, HandEmptied
    <2>6. log'[cur] = st
      BY <1>1, <1>3, <2>1 DEF Memory
    <2>7. InHand' = {} /\ Waiting' = Waiting \cup h
      <3>1. InHand' = {}
        BY <2>5 DEF InHand
      <3>2. Waiting' = InLines(Append(ls, line))
        BY <2>1, <2>3, <2>6 DEF Waiting
      <3> QED BY <1>4, <3>1, <3>2, AppendLine DEF Waiting
    <2>8. InOrder(ls) /\ Before(Waiting, h)
      BY <1>1, <1>3, <1>5 DEF Projected
    <2>9. InOrder(Append(ls, line))
      BY <1>4, <1>5, <2>8, AppendLine DEF Waiting
    <2>10. \A i \in 1..Len(Append(ls, line)) : Append(ls, line)[i].pieces # <<>>
      <3>1. \A i \in 1..Len(ls) : ls[i].pieces # <<>>
        BY <1>1, <1>3 DEF Projected
      <3> HIDE DEF ls, line
      <3> QED BY <1>4, <1>5, <3>1
    <2>11. /\ Before(ToSet(projected), Waiting \cup h) /\ Waiting \cup h \subseteq 1..emits
           /\ InFile \subseteq ToSet(projected) \cup Waiting \cup h \cup skipped /\ Increasing(projected)
      BY <1>1, <1>3, <1>5 DEF Projected
    <2>12. Projected'
      <3>1. InFile' \subseteq ToSet(projected') \cup Waiting' \cup InHand' \cup skipped'
        BY <1>6, <2>4, <2>7, <2>11
      <3>2. Before(ToSet(projected') \cup Waiting', NumbersIn(log'[cur'].buf))
        BY <1>4, <2>1, <2>3, <2>6, EmptyNumbers DEF Before
      <3>3. InOrder(log'[cur'].retries) /\ \A i \in 1..Len(log'[cur'].retries) : log'[cur'].retries[i].pieces # <<>>
        BY <2>1, <2>3, <2>6, <2>9, <2>10
      <3>4. Before(ToSet(projected'), Waiting' \cup InHand') /\ Before(Waiting', InHand')
            /\ Waiting' \cup InHand' \subseteq 1..emits' /\ Increasing(projected')
        BY <2>4, <2>7, <2>11 DEF Before
      <3> QED BY <2>5, <3>1, <3>2, <3>3, <3>4 DEF Projected
    <2>13. Complete'
      <3>1. log'[cur'].buf = log[cur].buf /\ log'[cur'].init = log[cur].init /\ log'[cur'].last = log[cur].last
        BY <2>1, <2>3, <2>6
      <3> QED BY <1>1, <1>6, <3>1 DEF Complete
    <2>14. Disk'
      <3>1. faults' \in 0..MaxFaults
        <4>1. MaxFaults \in Nat
          BY DEF EventLogAssumption
        <4> QED BY <1>7, <2>4, <4>1
      <3> QED BY <1>1, <1>6, <1>7, <2>4, <3>1 DEF Disk
    <2>15. News'
      BY <1>1, <1>6, <2>4 DEF News, attending
    <2> QED BY <2>5, <2>12, <2>13, <2>14, <2>15 DEF IInv
  <1>12. My(p).retries = ls
    BY <1>3
  <1> HIDE DEF ls, line
  <1> QED BY <1>9, <1>10, <1>11, <1>12 DEF Project, line
LEMMA XRetry ==
  ASSUME EventLogAssumption, IInv, NEW p \in Procs, Retry(p)
  PROVE  IInv'
  <1> USE Roles, RestTyped
  <1> DEFINE ls == log[cur].retries
  <1>1. Control /\ Disk /\ News /\ Complete /\ Projected /\ Memory
    BY DEF IInv, Control
  <1>2. proc[p].pc = "retries" /\ AtWork(p) /\ ~Deleted(p)
    BY DEF Retry, AtWork, Deleted
  <1>3. /\ row /\ proc[p].gen = cur /\ My(p) = log[cur] /\ log[cur] \in Objects
        /\ proc[p] \in Routines /\ cur \in Gens
    BY <1>1, <1>2, WorksOn
  <1>4. ls \in Seq(Line)
    BY <1>3 DEF Objects
  <1>5. /\ UNCHANGED <<file, torn, row, running, up, view, said, skipped>>
        /\ InFile' = InFile
    BY DEF Retry, stored, InFile
  <1>6. /\ said \subseteq 1..emits /\ InFile \subseteq 1..emits /\ ToSet(projected) \subseteq 1..emits
        /\ running \in BOOLEAN /\ torn \in BOOLEAN /\ file \in Seq(Line) /\ emits \in Nat
        /\ faults \in 0..MaxFaults /\ cursor \in Nat /\ MaxFaults \in Nat /\ projected \in Seq(Nat)
    BY <1>1 DEF Disk, EventLogAssumption
  <1>7. /\ log[cur].buf # <<>> => log[cur].timer
        /\ log[cur].init => \A i \in 1..Len(file) : file[i].seq <= log[cur].last
    BY <1>1, <1>3 DEF Control, ObjectsKept, Complete
  <1>8. p = Keeper => proc[p].op = "sync" /\ proc[p].then = "retries" /\ log[cur].buf = <<>>
    BY <1>1, <1>2 DEF Control, Planned, PlanOfKeeper, Buffered
  <1>9. p \in {Retrier, Keeper}
    BY <1>1, <1>2 DEF Control, Planned, PlanOfEmitter
  <1>10. up \in BOOLEAN /\ up' = up
    BY <1>1, <1>5 DEF Memory
  <1>11. CASE /\ ls = <<>> /\ Goto(p, IF p = Keeper THEN "reset" ELSE "done")
              /\ Put(p, [My(p) EXCEPT !.retryTimer = FALSE])
              /\ UNCHANGED <<cursor, projected, attending, bounds>>
    <2> DEFINE st == [log[cur] EXCEPT !.retryTimer = FALSE]
               pc == IF p = Keeper THEN "reset" ELSE "done"
    <2>1. log' = [log EXCEPT ![cur] = st] /\ cur' = cur
      BY <1>3, <1>11 DEF Put
    <2>2. /\ st \in Objects /\ st.retries = log[cur].retries /\ st.buf = log[cur].buf
          /\ st.closed = log[cur].closed /\ st.init = log[cur].init /\ st.last = log[cur].last
          /\ st.timer = log[cur].timer
      BY <1>3 DEF Objects
    <2>3. Goto(p, pc) /\ (pc = "done" \/ (pc = "reset" /\ p = Keeper))
      BY <1>11
    <2> HIDE DEF st, pc
    <2>4. Disk' /\ News' /\ UNCHANGED <<emits, cmds>>
      BY <1>1, <1>5, <1>11, DiskRests DEF bounds, stored
    <2>5. st.retries # <<>> => st.retryTimer
      BY <1>11, <2>2
    <2>6. st.buf # <<>> => st.timer
      BY <1>7, <2>2
    <2>7. st.init => \A i \in 1..Len(file) : file[i].seq <= st.last
      BY <1>7, <2>2
    <2>8. UNCHANGED <<file, row, said, projected, skipped, emits, cmds>>
      BY <1>5, <1>11, <2>4
    <2> QED BY <1>2, <1>8, <1>10, <2>1, <2>2, <2>3, <2>4, <2>5, <2>6, <2>7, <2>8, WorkInv
  <1>12. CASE /\ ls # <<>> /\ Applied(Head(ls)) /\ Put(p, [My(p) EXCEPT !.retries = Tail(ls)])
              /\ UNCHANGED <<holder, proc, bounds>>
    <2> DEFINE st == [log[cur] EXCEPT !.retries = Tail(ls)]
    <2>1. Head(ls) \in Line /\ Tail(ls) \in Seq(Line)
      BY <1>4, <1>12
    <2>2. log' = [log EXCEPT ![cur] = st] /\ cur' = cur
      BY <1>3, <1>12 DEF Put
    <2>3. /\ st \in Objects /\ st.retries = Tail(ls) /\ st.buf = log[cur].buf /\ st.timer = log[cur].timer
          /\ st.closed = log[cur].closed /\ st.init = log[cur].init /\ st.last = log[cur].last
      BY <1>3, <2>1 DEF Objects
    <2> HIDE DEF st
    <2>4. UNCHANGED <<holder, proc, emits, cmds, faults>>
      BY <1>12 DEF bounds
    <2>5. Control'
      BY <1>1, <1>2, <1>5, <2>2, <2>3, <2>4, HandStays
    <2>6. log'[cur] = st
      BY <1>1, <1>3, <2>2 DEF Memory
    <2>7. News' /\ cursor' \in Nat /\ projected' = projected \o Numbers(Head(ls).pieces)
      BY <1>1, <1>5, <1>12, <2>1, AppliedNews
    <2>8. Complete' /\ Projected' /\ projected' \in Seq(Nat) /\ ToSet(projected') \subseteq 1..emits
      BY <1>1, <1>3, <1>5, <1>12, <2>2, <2>3, <2>4, <2>6, <2>7, HeadProjected
    <2>9. Disk'
      BY <1>5, <1>6, <2>4, <2>7, <2>8 DEF Disk
    <2> QED BY <2>5, <2>7, <2>8, <2>9 DEF IInv
  <1>13. CASE /\ Fail("db") /\ Put(p, RetryAgain(p)) /\ Done(p)
              /\ UNCHANGED <<cursor, projected, attending>>
    <2> DEFINE st == [log[cur] EXCEPT !.retryTimer = TRUE]
    <2>1. log' = [log EXCEPT ![cur] = st] /\ cur' = cur
      BY <1>3, <1>13 DEF Put, RetryAgain
    <2>2. /\ st \in Objects /\ st.retries = log[cur].retries /\ st.buf = log[cur].buf
          /\ st.closed = log[cur].closed /\ st.init = log[cur].init /\ st.last = log[cur].last
          /\ st.timer = log[cur].timer /\ st.retryTimer
      BY <1>3 DEF Objects
    <2> HIDE DEF st
    <2>3. UNCHANGED <<emits, cmds>> /\ faults' = faults + 1 /\ faults < MaxFaults
      BY <1>13 DEF Fail
    <2>4. Disk'
      <3>1. faults' \in 0..MaxFaults
        BY <1>6, <2>3
      <3> QED BY <1>1, <1>5, <1>6, <1>13, <2>3, <3>1 DEF Disk
    <2>5. News'
      BY <1>1, <1>5, <1>13 DEF News, attending
    <2>6. st.init => \A i \in 1..Len(file) : file[i].seq <= st.last
      BY <1>7, <2>2
    <2>7. UNCHANGED <<file, row, said, projected, skipped, emits, cmds>> /\ Goto(p, "done")
      BY <1>5, <1>13, <2>3 DEF Done
    <2>8. st.buf # <<>> => st.timer
      BY <1>7, <2>2
    <2> QED BY <1>2, <1>10, <2>1, <2>2, <2>4, <2>5, <2>6, <2>7, <2>8, WorkInv
  <1>14. My(p).retries = ls
    BY <1>3
  <1> HIDE DEF ls
  <1> QED BY <1>11, <1>12, <1>13, <1>14 DEF Retry

-----------------------------------------------------------------------------
(* Deletion, cleanup, synchronisation.                                      *)

\* a step that fails, and leaves the log and the object alone
LEMMA GivesUp ==
  ASSUME EventLogAssumption, IInv, AtWork(Keeper), ~Deleted(Keeper),
         proc[Keeper].pc \notin {"project", "retries"}, NEW f, Fail(f), Done(Keeper),
         UNCHANGED <<log, cur, stored, row, cursor, attending, running, up, view, said, projected, skipped>>
  PROVE  IInv'
  <1> USE Roles, RestTyped
  <1>1. Control /\ Disk /\ News /\ Complete /\ Memory
    BY DEF IInv, Control
  <1>2. /\ row /\ log[cur] \in Objects /\ cur \in Gens /\ holder[cur] = Keeper
    BY <1>1, WorksOn
  <1>3. log' = [log EXCEPT ![cur] = log[cur]] /\ up \in BOOLEAN
    BY <1>1 DEF Memory
  <1>4. /\ log[cur].buf # <<>> => log[cur].timer
        /\ log[cur].retries # <<>> => log[cur].retryTimer
        /\ log[cur].init => \A i \in 1..Len(file) : file[i].seq <= log[cur].last
    BY <1>1, <1>2 DEF Control, ObjectsKept, Complete
  <1>5. UNCHANGED <<emits, cmds>> /\ faults' = faults + 1 /\ faults < MaxFaults
    BY DEF Fail
  <1>6. Disk'
    <2>1. faults \in 0..MaxFaults /\ MaxFaults \in Nat
      BY <1>1 DEF Disk, EventLogAssumption
    <2>2. faults' \in 0..MaxFaults
      BY <1>5, <2>1
    <2> QED BY <1>1, <1>5, <2>2 DEF Disk, stored, InFile
  <1>7. News'
    BY <1>1 DEF News, attending
  <1>8. Goto(Keeper, "done") /\ UNCHANGED <<file, row, said, projected, skipped, emits, cmds>>
    BY <1>5 DEF Done, stored
  <1> QED BY <1>2, <1>3, <1>4, <1>6, <1>7, <1>8, WorkInv
LEMMA XDropRow ==
  ASSUME EventLogAssumption, IInv, DropRow
  PROVE  IInv'
  <1> USE Roles, RestTyped
  <1>1. Control /\ Disk /\ News /\ Complete /\ Projected /\ Memory
    BY DEF IInv, Control
  <1>2. proc[Keeper].pc = "row" /\ AtWork(Keeper) /\ ~Deleted(Keeper)
    BY DEF DropRow, AtWork, Deleted
  <1>3. /\ row /\ proc[Keeper].gen = cur /\ cur \in Gens
    BY <1>1, <1>2, WorksOn
  <1>4. CASE row' = FALSE /\ Dropped(proc[Keeper].gen) /\ Goto(Keeper, "remove") /\ UNCHANGED bounds
    <2>1. proc[Keeper].op = "delete" /\ proc[Keeper].then = "row"
      BY <1>1, <1>2 DEF Control, Planned, PlanOfKeeper
    <2>2. log' = [log EXCEPT ![cur] = Closed] /\ cur' = cur + 1
      BY <1>3, <1>4 DEF Dropped, Closed
    <2>3. holder' = holder /\ proc' = [proc EXCEPT ![Keeper] = [proc[Keeper] EXCEPT !.pc = "remove"]]
      BY <1>4 DEF Goto
    <2>4. UNCHANGED <<emits, cmds, faults>> /\ row' = FALSE
      BY <1>4 DEF bounds
    <2>5. UNCHANGED <<file, torn, cursor, attending, running, up, view, said, projected, skipped>>
      BY DEF DropRow, stored
    <2>6. Control'
      BY <1>1, <1>2, <2>1, <2>2, <2>3, <2>4, <2>5, DropKeeps
    <2>7. Disk'
      BY <1>1, <2>4, <2>5 DEF Disk, InFile
    <2>8. News'
      BY <1>1, <2>5 DEF News, attending
    <2>9. ~log'[cur'].init
      BY <2>4, <2>6 DEF Control, ObjectsKept
    <2>10. Complete'
      BY <1>1, <2>4, <2>5, <2>9 DEF Complete
    <2>11. Projected'
      BY <1>1, <2>4, <2>5 DEF Projected
    <2> QED BY <2>6, <2>7, <2>8, <2>10, <2>11 DEF IInv
  <1>5. CASE Fail("db") /\ Done(Keeper) /\ UNCHANGED <<row, log, cur>>
    <2>1. UNCHANGED <<log, cur, stored, row, cursor, attending, running, up, view, said, projected, skipped>>
      BY <1>5 DEF DropRow
    <2>2. proc[Keeper].pc \notin {"project", "retries"}
      BY <1>2
    <2> QED BY <1>2, <1>5, <2>1, <2>2, GivesUp
  <1> QED BY <1>4, <1>5 DEF DropRow

LEMMA XClear ==
  ASSUME EventLogAssumption, IInv, Clear
  PROVE  IInv'
  <1> USE Roles, RestTyped
  <1>1. Control /\ Disk /\ News /\ Complete /\ Projected /\ Memory
    BY DEF IInv, Control
  <1>2. /\ proc[Keeper].pc = "clear" /\ AtWork(Keeper) /\ ~Deleted(Keeper)
        /\ proc[Keeper].op = "cleanup" /\ proc[Keeper].then = "clear"
    BY <1>1 DEF Clear, AtWork, Deleted, Control, Planned, PlanOfKeeper
  <1>3. /\ row /\ proc[Keeper].gen = cur /\ My(Keeper) = log[cur] /\ log[cur] \in Objects /\ cur \in Gens
        /\ holder[cur] = Keeper
    BY <1>1, <1>2, WorksOn
  <1>4. UNCHANGED <<file, torn, row, running, up, view, said, projected, skipped>> /\ up \in BOOLEAN
    BY <1>1 DEF Clear, stored, Memory
  <1>5. /\ log[cur].buf # <<>> => log[cur].timer
        /\ log[cur].retries # <<>> => log[cur].retryTimer
        /\ log[cur].init => \A i \in 1..Len(file) : file[i].seq <= log[cur].last
    BY <1>1, <1>2, <1>3 DEF Control, ObjectsKept, Complete
  <1>6. CASE /\ Readable /\ cursor' = Larger(cursor, LastSeq) /\ unread' = FALSE
             /\ Goto(Keeper, "remove") /\ UNCHANGED <<log, cur, bounds, attention, missed>>
    <2>1. log' = [log EXCEPT ![cur] = log[cur]] /\ cur' = cur /\ UNCHANGED <<emits, cmds, faults>>
      BY <1>1, <1>6 DEF Memory, bounds
    <2>2. cursor' \in Nat
      <3>1. cursor \in Nat /\ file \in Seq(Line)
        BY <1>1 DEF Disk
      <3>2. CASE file = <<>>
        BY <1>6, <3>1, <3>2 DEF LastSeq, Larger
      <3>3. CASE file # <<>>
        <4>1. file[Len(file)] \in Line
          BY <3>1, <3>3
        <4> QED BY <1>6, <3>1, <3>3, <4>1 DEF LastSeq, Larger, Last, Line
      <3> QED BY <3>2, <3>3
    <2>3. Disk'
      BY <1>1, <1>4, <2>1, <2>2 DEF Disk, InFile
    <2>4. News'
      <3>1. unread' \in BOOLEAN
        BY <1>6, Zenon
      <3> QED BY <1>1, <1>4, <1>6, <3>1 DEF News
    <2>5. Goto(Keeper, "remove")
      BY <1>6
    <2> QED BY <1>2, <1>3, <1>4, <1>5, <2>1, <2>3, <2>4, <2>5, WorkInv
  <1>7. CASE /\ (~Readable /\ UNCHANGED bounds) \/ Fail("db")
             /\ Put(Keeper, Reopened(My(Keeper))) /\ Done(Keeper) /\ UNCHANGED <<cursor, attending>>
    <2> DEFINE t == log[cur].buf # <<>>
               u == log[cur].retries # <<>>
               st == [log[cur] EXCEPT !.timer = t, !.retryTimer = u]
    <2>1. log' = [log EXCEPT ![cur] = st] /\ cur' = cur
      BY <1>3, <1>7 DEF Put, Reopened
    <2>2. t \in BOOLEAN /\ u \in BOOLEAN
      OBVIOUS
    <2> HIDE DEF t, u
    <2>3. /\ st \in Objects /\ st.retries = log[cur].retries /\ st.buf = log[cur].buf
          /\ st.closed = log[cur].closed /\ st.init = log[cur].init /\ st.last = log[cur].last
          /\ st.timer = t /\ st.retryTimer = u
      BY <1>3, <2>2 DEF Objects
    <2> HIDE DEF st
    <2>4. (st.buf # <<>> => st.timer) /\ (st.retries # <<>> => st.retryTimer)
      BY <2>3 DEF t, u
    <2>5. UNCHANGED <<emits, cmds>> /\ faults' \in 0..MaxFaults
      <3>1. faults \in 0..MaxFaults /\ MaxFaults \in Nat
        BY <1>1 DEF Disk, EventLogAssumption
      <3>2. CASE UNCHANGED bounds
        BY <3>1, <3>2 DEF bounds
      <3>3. CASE Fail("db")
        <4>1. UNCHANGED <<emits, cmds>> /\ faults' = faults + 1 /\ faults < MaxFaults
          BY <3>3 DEF Fail
        <4> QED BY <3>1, <4>1
      <3> QED BY <1>7, <3>2, <3>3
    <2>6. Disk'
      BY <1>1, <1>4, <1>7, <2>5 DEF Disk, InFile
    <2>7. News'
      BY <1>1, <1>4, <1>7 DEF News, attending
    <2>8. Goto(Keeper, "done")
      BY <1>7 DEF Done
    <2>9. st.init => \A i \in 1..Len(file) : file[i].seq <= st.last
      BY <1>5, <2>3
    <2> QED BY <1>2, <1>3, <1>4, <2>1, <2>3, <2>4, <2>5, <2>6, <2>7, <2>8, <2>9, WorkInv
  <1> QED BY <1>6, <1>7 DEF Clear

\* the file after it was perhaps removed, when the pieces accepted are those in it
LEMMA FileLeft ==
  ASSUME EventLogAssumption, IInv,
         \/ file' = <<>> /\ torn' = FALSE /\ said' = {} /\ UNCHANGED <<bounds, skipped>>
         \/ /\ Fail("remove") /\ said' = InFile /\ UNCHANGED stored
            /\ skipped' = skipped \cup (InFile \ ToSet(projected)),
         UNCHANGED <<cursor, attending, running, view, projected>>
  PROVE  /\ Disk' /\ News' /\ UNCHANGED <<emits, cmds>> /\ said' = InFile' /\ InOrder(file')
         /\ InFile' \subseteq ToSet(projected) \cup skipped'
         /\ \A i, j \in 1..Len(file') : i < j => file'[i].seq < file'[j].seq
  <1>1. Disk /\ News /\ Complete
    BY DEF IInv
  <1>2. News'
    BY <1>1 DEF News, attending
  <1>3. CASE file' = <<>> /\ torn' = FALSE /\ said' = {} /\ UNCHANGED <<bounds, skipped>>
    <2>1. InFile' = {} /\ InOrder(file') /\ file' \in Seq(Line) /\ Len(file') = 0
      BY <1>3, EmptyLines DEF InFile
    <2>2. UNCHANGED <<emits, cmds, faults>> /\ torn' \in BOOLEAN
      BY <1>3 DEF bounds
    <2>3. Disk'
      BY <1>1, <1>3, <2>1, <2>2 DEF Disk
    <2> QED BY <1>2, <1>3, <2>1, <2>2, <2>3
  <1>4. CASE /\ Fail("remove") /\ said' = InFile /\ UNCHANGED stored
             /\ skipped' = skipped \cup (InFile \ ToSet(projected))
    <2>1. file' = file /\ torn' = torn /\ InFile' = InFile
      BY <1>4 DEF stored, InFile
    <2>2. UNCHANGED <<emits, cmds>> /\ faults' = faults + 1 /\ faults < MaxFaults
      BY <1>4 DEF Fail
    <2>3. faults' \in 0..MaxFaults
      <3>1. faults \in 0..MaxFaults /\ MaxFaults \in Nat
        BY <1>1 DEF Disk, EventLogAssumption
      <3> QED BY <2>2, <3>1
    <2>4. Disk'
      BY <1>1, <1>4, <2>1, <2>2, <2>3 DEF Disk
    <2>5. InOrder(file') /\ \A i, j \in 1..Len(file') : i < j => file'[i].seq < file'[j].seq
      BY <1>1, <2>1 DEF Complete
    <2>6. InFile' \subseteq ToSet(projected) \cup skipped' /\ said' = InFile'
      BY <1>4, <2>1
    <2> QED BY <1>2, <2>2, <2>4, <2>5, <2>6
  <1> QED BY <1>3, <1>4

LEMMA XRemoveFile ==
  ASSUME EventLogAssumption, IInv, RemoveFile
  PROVE  IInv'
  <1> USE Roles, RestTyped
  <1>1. Control /\ Disk /\ News /\ Complete /\ Projected /\ Memory
    BY DEF IInv, Control
  <1>2. /\ proc[Keeper].pc = "remove" /\ AtWork(Keeper)
        /\ \/ proc[Keeper].op = "delete"
           \/ proc[Keeper].op = "cleanup"
    BY <1>1 DEF RemoveFile, AtWork, Control, Planned, PlanOfKeeper
  <1>3. UNCHANGED <<row, cursor, attending, running, up, view, projected>>
    BY DEF RemoveFile
  <1>4. /\ Disk' /\ News' /\ UNCHANGED <<emits, cmds>> /\ said' = InFile' /\ InOrder(file')
        /\ InFile' \subseteq ToSet(projected) \cup skipped'
        /\ \A i, j \in 1..Len(file') : i < j => file'[i].seq < file'[j].seq
    BY FileLeft DEF RemoveFile
  <1>5. /\ holder' = [holder EXCEPT ![proc[Keeper].gen] = None] /\ proc' = [proc EXCEPT ![Keeper] = Rest]
    BY DEF RemoveFile, Done, Goto
  <1>6. CASE proc[Keeper].op = "delete"
    <2>1. Deleted(Keeper) /\ UNCHANGED <<log, cur>> /\ ~row
      BY <1>1, <1>2, <1>6 DEF RemoveFile, Deleted, Control, Mutexes
    <2>2. Control'
      BY <1>1, <1>3, <1>4, <1>5, <2>1, DeletionEnds
    <2>3. log[cur] = Fresh
      BY <1>1, <2>1 DEF Control, ObjectsKept
    <2>4. Complete'
      BY <1>3, <1>4, <2>1, <2>3 DEF Complete
    <2>5. Projected'
      BY <1>1, <1>3, <2>1 DEF Projected
    <2> QED BY <1>4, <2>2, <2>4, <2>5 DEF IInv
  <1>7. CASE proc[Keeper].op = "cleanup"
    <2>1. ~Deleted(Keeper)
      BY <1>7 DEF Deleted
    <2>2. row /\ proc[Keeper].gen = cur /\ cur \in Gens
      BY <1>1, <1>2, <2>1, WorksOn
    <2>3. log' = [log EXCEPT ![cur] = Closed] /\ cur' = cur + 1
      BY <1>7, <2>2 DEF RemoveFile, Dropped, Closed
    <2>4. Control'
      BY <1>1, <1>2, <1>3, <1>4, <1>5, <1>7, <2>1, <2>2, <2>3, DropKeeps
    <2>5. log'[cur'] = Fresh
      <3>1. cur + 1 \in Gens /\ cur \in Nat
        BY <2>2, <2>3, <2>4 DEF Control, Memory
      <3>2. log[cur + 1] = Fresh
        BY <1>1, <3>1 DEF Control, ObjectsKept
      <3> QED BY <1>1, <2>3, <3>1, <3>2 DEF Memory
    <2>6. /\ log'[cur'].buf = <<>> /\ log'[cur'].retries = <<>> /\ ~log'[cur'].init
      BY <2>5
    <2>7. Complete'
      BY <1>4, <2>6, EmptyNumbers DEF Complete, Before
    <2>8. \A q \in Procs : proc'[q].pc # "project"
      BY <1>1, <1>2, <1>5, Alone DEF AtWork, Memory
    <2>9. InHand' = {} /\ Waiting' = {}
      BY <2>6, <2>8, EmptyLines DEF InHand, Waiting
    <2>10. Projected'
      <3>1. Increasing(projected') /\ InOrder(<<>>) /\ InLines(<<>>) = {} /\ NumbersIn(<<>>) = {}
        BY <1>1, <1>3, EmptyLines, EmptyNumbers DEF Projected
      <3>2. InFile' \subseteq ToSet(projected') \cup Waiting' \cup InHand' \cup skipped'
        BY <1>3, <1>4, <2>9
      <3> QED BY <2>6, <2>8, <2>9, <3>1, <3>2 DEF Projected, Before
    <2> QED BY <1>4, <2>4, <2>7, <2>10 DEF IInv
  <1> QED BY <1>2, <1>6, <1>7

LEMMA XReset ==
  ASSUME EventLogAssumption, IInv, Reset
  PROVE  IInv'
  <1> USE Roles, RestTyped
  <1>1. Control /\ Disk /\ News /\ Complete /\ Projected /\ Memory
    BY DEF IInv, Control
  <1>2. /\ proc[Keeper].pc = "reset" /\ AtWork(Keeper) /\ ~Deleted(Keeper)
    BY DEF Reset, AtWork, Deleted
  <1>3. /\ row /\ proc[Keeper].gen = cur /\ log[cur] \in Objects /\ cur \in Gens /\ ~log[cur].closed
        /\ log[cur].buf = <<>> /\ holder[cur] = Keeper
    BY <1>1, <1>2, WorksOn DEF Control, Buffered
  <1>4. UNCHANGED <<log, cur, row, cursor, attending, running, up, view, projected, skipped>>
    BY DEF Reset
  <1>5. CASE file' = <<>> /\ torn' = FALSE /\ said' = {} /\ UNCHANGED bounds
    <2>1. /\ Disk' /\ News' /\ UNCHANGED <<emits, cmds>> /\ said' = InFile' /\ InOrder(file')
          /\ InFile' \subseteq ToSet(projected) \cup skipped'
          /\ \A i, j \in 1..Len(file') : i < j => file'[i].seq < file'[j].seq
      BY <1>4, <1>5, FileLeft
    <2>2. holder' = [holder EXCEPT ![cur] = None] /\ proc' = [proc EXCEPT ![Keeper] = Rest]
      BY <1>3 DEF Reset, Done, Goto
    <2>3. log' = [log EXCEPT ![cur] = log[cur]] /\ up \in BOOLEAN
      BY <1>1, <1>4 DEF Memory
    <2>4. log[cur].retries # <<>> => log[cur].retryTimer
      BY <1>1, <1>2, <1>3 DEF Control, ObjectsKept
    <2>5. Control'
      BY <1>1, <1>2, <1>3, <1>4, <2>1, <2>2, <2>3, <2>4, WorkKeeps
    <2>6. Complete'
      <3>1. Len(file') = 0
        BY <1>5
      <3> QED BY <1>3, <1>4, <2>1, <3>1, EmptyNumbers DEF Complete, Before
    <2>7. \A q \in Procs : proc[q].pc # "project" /\ proc'[q].pc # "project"
      BY <1>1, <1>2, <2>2, Alone DEF AtWork, Memory
    <2>8. InHand = {} /\ InHand' = {} /\ Waiting' = Waiting
      BY <1>4, <2>7 DEF InHand, Waiting
    <2>9. Projected'
      <3>1. InFile' \subseteq ToSet(projected') \cup Waiting' \cup InHand' \cup skipped'
        BY <1>4, <2>1
      <3> QED BY <1>1, <1>3, <1>4, <2>1, <2>7, <2>8, <3>1 DEF Projected
    <2> QED BY <2>1, <2>5, <2>6, <2>9 DEF IInv
  <1>6. CASE Fail("remove") /\ UNCHANGED <<stored, said>>
    <2>1. Done(Keeper)
      BY DEF Reset
    <2>2. proc[Keeper].pc \notin {"project", "retries"}
      BY <1>2
    <2> QED BY <1>2, <1>4, <1>6, <2>1, <2>2, GivesUp
  <1> QED BY <1>5, <1>6 DEF Reset
-----------------------------------------------------------------------------
(* The server stops; runs and readers.                                      *)

LEMMA StopInv ==
  ASSUME EventLogAssumption, IInv, Stop, UNCHANGED <<file, row, cmds, emits, projected>>,
         torn' \in BOOLEAN, running' \in BOOLEAN, cursor' \in Nat, faults' \in 0..MaxFaults, News'
  PROVE  IInv'
  <1> USE Roles, RestTyped
  <1>1. Control /\ Disk /\ Complete /\ Projected
    BY DEF IInv
  <1>2. Control'
    BY <1>1, StopKeeps
  <1>3. InFile' = InFile /\ said' = InFile /\ skipped' = skipped \cup (InFile \ ToSet(projected))
    BY DEF Stop, InFile
  <1>4. Disk'
    BY <1>1, <1>3 DEF Disk
  <1>5. log'[cur'] = Fresh /\ \A p \in Procs : proc'[p].pc = "idle"
    BY DEF Stop
  <1>6. /\ log'[cur'].buf = <<>> /\ log'[cur'].retries = <<>> /\ ~log'[cur'].init
    BY <1>5
  <1>7. Complete'
    BY <1>1, <1>3, <1>6, EmptyNumbers DEF Complete, Before
  <1>8. InHand' = {} /\ Waiting' = {}
    BY <1>5, <1>6, EmptyLines DEF InHand, Waiting
  <1>9. Projected'
    <2>1. InFile' \subseteq ToSet(projected') \cup Waiting' \cup InHand' \cup skipped'
      BY <1>3
    <2>2. InOrder(<<>>) /\ NumbersIn(<<>>) = {} /\ Increasing(projected')
      BY <1>1, EmptyLines, EmptyNumbers DEF Projected
    <2> QED BY <1>5, <1>6, <1>8, <2>1, <2>2 DEF Projected, Before
  <1> QED BY <1>2, <1>4, <1>7, <1>9 DEF IInv

LEMMA XCrash ==
  ASSUME EventLogAssumption, IInv, Crash
  PROVE  IInv'
  <1>1. Disk /\ News /\ MaxFaults \in Nat
    BY DEF IInv, EventLogAssumption
  <1>2. /\ UNCHANGED <<file, row, cursor, attending, running, view, projected>> /\ Stop
        /\ torn' \in {torn} \cup {TRUE : p \in {q \in Procs : proc[q].pc \in {"flush", "write"}}}
    BY DEF Crash
  <1>3. UNCHANGED <<emits, cmds>> /\ faults' = faults + 1 /\ faults < MaxFaults
    BY DEF Crash, Fail
  <1>4. torn' \in BOOLEAN
    BY <1>1, <1>2 DEF Disk
  <1>5. faults' \in 0..MaxFaults /\ cursor' \in Nat /\ running' \in BOOLEAN
    BY <1>1, <1>2, <1>3 DEF Disk
  <1>6. News'
    BY <1>1, <1>2 DEF News, attending
  <1> QED BY <1>2, <1>3, <1>4, <1>5, <1>6, StopInv

LEMMA XRecovered ==
  ASSUME EventLogAssumption, IInv, Recovered
  PROVE  IInv'
  <1> USE Roles, RestTyped
  <1>1. Control /\ Disk /\ News /\ Complete /\ Memory /\ MaxFaults \in Nat
    BY DEF IInv, Control, EventLogAssumption
  <1>2. proc[Keeper].pc = "recovered" /\ AtWork(Keeper) /\ ~Deleted(Keeper)
    BY DEF Recovered, AtWork, Deleted
  <1>3. /\ row /\ log[cur] \in Objects /\ cur \in Gens /\ holder[cur] = Keeper
    BY <1>1, <1>2, WorksOn
  <1>4. UNCHANGED <<file, torn, row, cursor, attention, missed, view, projected>>
    BY DEF Recovered, stored
  <1>5. CASE /\ running' = FALSE /\ unread' = FALSE /\ up' = TRUE /\ Done(Keeper)
             /\ UNCHANGED <<bounds, log, cur, said, skipped>>
    <2>1. log' = [log EXCEPT ![cur] = log[cur]] /\ UNCHANGED <<emits, cmds, faults>>
      BY <1>1, <1>5 DEF Memory, bounds
    <2>2. /\ log[cur].buf # <<>> => log[cur].timer
          /\ log[cur].retries # <<>> => log[cur].retryTimer
          /\ log[cur].init => \A i \in 1..Len(file) : file[i].seq <= log[cur].last
      BY <1>1, <1>2, <1>3 DEF Control, ObjectsKept, Complete
    <2>3. running' \in BOOLEAN /\ unread' \in BOOLEAN /\ up' \in BOOLEAN
      BY <1>5, Zenon
    <2>4. Disk'
      BY <1>1, <1>4, <1>5, <2>1, <2>3 DEF Disk, InFile
    <2>5. News'
      BY <1>1, <1>4, <2>3 DEF News
    <2>6. Goto(Keeper, "done") /\ up'
      BY <1>5 DEF Done
    <2>7. proc[Keeper].pc # "project" /\ cur' = cur
          /\ UNCHANGED <<file, row, said, projected, skipped, emits, cmds>>
      BY <1>2, <1>4, <1>5, <2>1
    <2> QED BY <1>2, <1>3, <2>1, <2>2, <2>3, <2>4, <2>5, <2>6, <2>7, WorkInv
  <1>6. CASE Fail("db") /\ Stop /\ UNCHANGED <<running, unread>>
    <2>1. UNCHANGED <<emits, cmds>> /\ faults' = faults + 1 /\ faults < MaxFaults
      BY <1>6 DEF Fail
    <2>2. faults' \in 0..MaxFaults /\ cursor' \in Nat /\ running' \in BOOLEAN /\ torn' \in BOOLEAN
      BY <1>1, <1>4, <1>6, <2>1 DEF Disk
    <2>3. News'
      BY <1>1, <1>4, <1>6 DEF News
    <2> QED BY <1>4, <1>6, <2>1, <2>2, <2>3, StopInv
  <1> QED BY <1>5, <1>6 DEF Recovered

LEMMA XRecoveryFails ==
  ASSUME EventLogAssumption, IInv, RecoveryFails
  PROVE  IInv'
  <1>1. Disk /\ News /\ MaxFaults \in Nat
    BY DEF IInv, EventLogAssumption
  <1>2. PICK st \in {My(Keeper), Sequenced(My(Keeper))} : StoreFails(Keeper, st)
    BY DEF RecoveryFails
  <1>3. Stop /\ UNCHANGED <<file, row, cursor, attending, running, view, projected>>
    BY <1>2 DEF RecoveryFails, StoreFails
  <1>4. UNCHANGED <<emits, cmds>> /\ faults' \in 0..MaxFaults
    <2>1. CASE UNCHANGED bounds
      BY <1>1, <2>1 DEF bounds, Disk
    <2>2. CASE Fail("write")
      <3>1. UNCHANGED <<emits, cmds>> /\ faults' = faults + 1 /\ faults < MaxFaults
        BY <2>2 DEF Fail
      <3> QED BY <1>1, <3>1 DEF Disk
    <2> QED BY <1>2, <2>1, <2>2 DEF StoreFails
  <1>5. torn' \in BOOLEAN
    <2>1. torn' = torn \/ torn' \in {torn, TRUE}
      BY <1>2 DEF StoreFails
    <2> QED BY <1>1, <2>1 DEF Disk
  <1>6. cursor' \in Nat /\ running' \in BOOLEAN
    BY <1>1, <1>3 DEF Disk
  <1>7. News'
    BY <1>1, <1>3 DEF News, attending
  <1> QED BY <1>3, <1>4, <1>5, <1>6, <1>7, StopInv

\* Nothing of the log changes.
LEMMA QuietInv ==
  ASSUME EventLogAssumption, IInv, UNCHANGED <<file, memory, row, up, said, projected, skipped, emits>>,
         cmds' \in 0..MaxCommands, cmds <= cmds', Disk', News'
  PROVE  IInv'
  <1> USE Roles
  <1>1. Control /\ Complete /\ Projected /\ UNCHANGED <<log, cur, holder, proc>> /\ InFile' = InFile
    BY DEF IInv, memory, InFile
  <1>2. Memory'
    BY <1>1 DEF Control, Memory
  <1>3. \A p \in Procs : Planned(p)' /\ Mutexes(p)' /\ Buffered(p)'
    BY <1>1 DEF Control, Planned, PlanOfEmitter, PlanOfKeeper, Mutexes, AtWork, Deleted, Buffered
  <1>4. ObjectsKept'
    <2>1. cur <= cmds + 1 => cur <= cmds' + 1
      BY <1>1 DEF Control, Memory
    <2>2. cur <= cmds => cur <= cmds'
      BY <1>1 DEF Control, Memory
    <2> QED BY <1>1, <2>1, <2>2 DEF Control, ObjectsKept, Deleted
  <1>5. Complete'
    BY <1>1 DEF Complete
  <1>6. Projected'
    BY <1>1 DEF Projected, Waiting, InHand
  <1> QED BY <1>2, <1>3, <1>4, <1>5, <1>6 DEF IInv, Control

LEMMA XReaders ==
  ASSUME EventLogAssumption, IInv, BeginRun \/ EndRun \/ Load \/ MarkRead
  PROVE  IInv'
  <1>1. Disk /\ News /\ cmds \in 0..MaxCommands /\ MaxCommands \in Nat
    BY DEF IInv, Control, Memory, EventLogAssumption
  <1>2. CASE BeginRun
    <2>1. cmds < MaxCommands /\ cmds' = cmds + 1 /\ UNCHANGED <<emits, faults>>
      BY <1>2 DEF BeginRun, Command
    <2>2. /\ UNCHANGED <<file, torn, memory, row, cursor, attention, missed, up, view, said, projected, skipped>>
          /\ running' = TRUE /\ unread' = FALSE
      BY <1>2 DEF BeginRun, stored
    <2>3. running' \in BOOLEAN /\ unread' \in BOOLEAN
      BY <2>2, Zenon
    <2>4. Disk' /\ News'
      BY <1>1, <2>1, <2>2, <2>3 DEF Disk, News, InFile
    <2> QED BY <1>1, <2>1, <2>2, <2>4, QuietInv
  <1>3. CASE EndRun
    <2>1. /\ UNCHANGED <<file, torn, memory, row, cursor, attending, up, view, emits, cmds, faults, said,
                         projected, skipped>>
          /\ running' = FALSE
      BY <1>3 DEF EndRun, stored, bounds
    <2>2. running' \in BOOLEAN
      BY <2>1, Zenon
    <2>3. Disk'
      BY <1>1, <2>1, <2>2 DEF Disk, InFile
    <2>4. News'
      BY <1>1, <2>1 DEF News, attending
    <2> QED BY <1>1, <2>1, <2>3, <2>4, QuietInv
  <1>4. CASE Load
    <2>1. /\ UNCHANGED <<file, torn, memory, row, cursor, unread, attention, running, up, emits, cmds,
                         faults, said, projected, skipped>>
          /\ view' = attention /\ missed' = FALSE
      BY <1>4 DEF Load, stored, bounds
    <2>2. view' \in 0..attention' /\ attention' \in Nat
      BY <1>1, <2>1 DEF News
    <2>3. missed' \in BOOLEAN /\ ~missed'
      BY <2>1, Zenon
    <2>4. News'
      BY <1>1, <2>1, <2>2, <2>3 DEF News
    <2>5. Disk'
      BY <1>1, <2>1 DEF Disk, InFile
    <2> QED BY <1>1, <2>1, <2>4, <2>5, QuietInv
  <1>5. CASE MarkRead
    <2>1. /\ UNCHANGED <<file, torn, memory, row, cursor, missed, running, up, view, emits, cmds, faults,
                         said, projected, skipped>>
          /\ unread' = FALSE /\ attention' = attention + 1
      BY <1>5 DEF MarkRead, stored, bounds
    <2>2. view' \in 0..attention' /\ attention' \in Nat /\ (view < attention => view' < attention')
      BY <1>1, <2>1 DEF News
    <2>3. unread' \in BOOLEAN
      BY <2>1, Zenon
    <2>4. News'
      BY <1>1, <2>1, <2>2, <2>3 DEF News
    <2>5. Disk'
      BY <1>1, <2>1 DEF Disk, InFile
    <2> QED BY <1>1, <2>1, <2>4, <2>5, QuietInv
  <1> QED BY <1>2, <1>3, <1>4, <1>5

-----------------------------------------------------------------------------
(* The theorems.                                                            *)

LEMMA NextInv ==
  ASSUME EventLogAssumption, IInv, [Next]_vars
  PROVE  IInv'
  <1>1. CASE \E p \in Procs : Step(p)
    BY <1>1, XEnter, XBuffer, XFlush, XWrite, XProject, XRetry, XEnterKeeper, XDropRow, XClear,
       XRemoveFile, XReset, XRecovered, XRecoveryFails DEF Step
  <1>2. CASE \E e \in Emitters, kind \in Kinds : Emit(e, kind)
    BY <1>2, XEmit
  <1>3. CASE \E op \in {"delete", "cleanup", "sync"} : Start(op)
    BY <1>3, XStart
  <1>4. CASE FlushTimer \/ RetryTimer \/ Crash \/ Restart \/ BeginRun \/ EndRun \/ Load \/ MarkRead
    BY <1>4, XTimers, XCrash, XRestart, XReaders
  <1>5. CASE UNCHANGED vars
    <2>1. UNCHANGED <<file, torn, memory, row, cursor, unread, attention, missed, running, up, view,
                      emits, cmds, faults, said, projected, skipped>>
      BY <1>5 DEF vars, stored, attending, bounds
    <2>2. Disk' /\ News'
      BY <2>1 DEF IInv, Disk, News, InFile
    <2>3. cmds' \in 0..MaxCommands /\ cmds <= cmds'
      BY <2>1 DEF IInv, Control, Memory
    <2> QED BY <2>1, <2>2, <2>3, QuietInv
  <1> QED BY <1>1, <1>2, <1>3, <1>4, <1>5 DEF Next

LEMMA Inductive == Spec => []IInv
  <1>1. Init => IInv
    BY EventLogAssumption, EmptyInv
  <1>2. IInv /\ [Next]_vars => IInv'
    BY EventLogAssumption, NextInv
  <1> QED BY <1>1, <1>2, PTL DEF Spec

\* The log has its types, and buffered text and failed projections have their timers whenever
\* nobody works on the object (TypeOK).
THEOREM EventLogTypesCorrect == Spec => []TypeOK
  <1>1. IInv => TypeOK
    <2> SUFFICES ASSUME IInv PROVE TypeOK
      OBVIOUS
    <2>1. Memory /\ Disk /\ News /\ ObjectsKept
      BY DEF IInv, Control
    <2>2. ASSUME NEW g \in Gens
          PROVE  /\ log[g] \in [closed : BOOLEAN, init : BOOLEAN, last : Nat, buf : Seq(Piece),
                                timer : BOOLEAN, retries : Seq(Line), retryTimer : BOOLEAN]
                 /\ log[g].buf # <<>> /\ holder[g] = None => log[g].timer
                 /\ log[g].retries # <<>> /\ holder[g] = None => log[g].retryTimer
      BY <2>1 DEF Memory, Objects, ObjectsKept
    <2>3. ASSUME NEW p \in Procs
          PROVE  /\ proc[p].pc \notin {"idle", "wait"} => holder[proc[p].gen] = p
                 /\ proc[p].pc \in PCs /\ proc[p].gen \in Gens /\ proc[p].kind \in Kinds
      <3>1. Mutexes(p)
        BY DEF IInv, Control
      <3>2. proc[p] \in Routines
        BY <2>1 DEF Memory
      <3> QED BY <3>1, <3>2 DEF Mutexes, AtWork, Routines
    <2>4. cur \in Gens /\ holder \in [Gens -> Procs \cup {None}] /\ row \in BOOLEAN /\ up \in BOOLEAN
          /\ cmds \in 0..MaxCommands
      BY <2>1 DEF Memory
    <2>5. file \in Seq(Line) /\ torn \in BOOLEAN /\ running \in BOOLEAN /\ cursor \in Nat
          /\ emits \in Nat /\ faults \in 0..MaxFaults /\ said \subseteq 1..emits
      BY <2>1 DEF Disk
    <2>6. attention \in Nat /\ unread \in BOOLEAN /\ view \in 0..attention /\ missed \in BOOLEAN
      BY <2>1 DEF News
    <2> QED BY <2>2, <2>3, <2>4, <2>5, <2>6, Zenon DEF TypeOK
  <1> QED BY <1>1, Inductive, PTL

\* What was said in order is stored in order: nothing of it is lost, doubled or overtaken between
\* the buffer and the file (enqueueTextDelta, appendAndBroadcast, nextEventSeq).
THEOREM LogCompleteCorrect == Spec => []LogComplete
  <1>1. IInv => LogComplete
    <2> SUFFICES ASSUME IInv PROVE LogComplete
      OBVIOUS
    <2>1. Complete /\ file \in Seq(Line)
      BY DEF IInv, Disk
    <2>2. Increasing([i \in 1..Len(file) |-> file[i].seq])
      <3> DEFINE n == Len(file)
                 f == [i \in 1..n |-> file[i].seq]
      <3>1. n \in Nat /\ \A i, j \in 1..n : i < j => file[i].seq < file[j].seq
        BY <2>1 DEF Complete
      <3> HIDE DEF n
      <3>2. Len(f) = n
        BY <3>1
      <3>3. Increasing(f)
        BY <3>1, <3>2 DEF Increasing
      <3> QED BY <3>3 DEF n
    <2> QED BY <2>1, <2>2 DEF Complete, LogComplete
  <1> QED BY <1>1, Inductive, PTL

\* Every stored event is projected once, in the order of the file, whatever fails and is repeated
\* (projectPersistedEvent, flushEventProjectionRetriesLocked).
THEOREM ProjectedInOrderCorrect == Spec => []ProjectedInOrder
  <1>1. IInv => ProjectedInOrder
    BY DEF IInv, Projected, ProjectedInOrder, Waiting, InHand
  <1> QED BY <1>1, Inductive, PTL

\* "Read" never erases news: a client that marks a session read has loaded all there is
\* (MarkSessionRead).
THEOREM NewsKeptCorrect == Spec => NewsKept
  <1>1. IInv /\ [Next]_vars => [unread /\ ~unread' /\ attention' > attention => ~missed]_vars
    <2> SUFFICES ASSUME IInv, Next, unread, ~unread', attention' > attention
                 PROVE  ~missed
      OBVIOUS
    <2>1. News
      BY DEF IInv
    <2>2. CASE MarkRead
      <3>1. view = attention
        BY <2>2 DEF MarkRead, CurrentView
      <3> QED BY <2>1, <3>1 DEF News
    <2>3. CASE ~MarkRead
      <3>1. attention' = attention \/ unread' = TRUE
        <4>1. ASSUME NEW p \in Procs, Project(p) \/ Retry(p) PROVE attention' = attention \/ unread' = TRUE
          BY <4>1, Zenon DEF Project, Retry, Applied, attending
        <4>2. ASSUME NEW p \in Procs, Enter(p) \/ Buffer(p) \/ Flush(p) \/ Write(p)
              PROVE  attention' = attention
          BY <4>2, Zenon DEF Enter, Buffer, Flush, Write, Store, StoreFails, attending
        <4>3. ASSUME EnterKeeper \/ DropRow \/ Clear \/ RemoveFile \/ Reset \/ Recovered \/ RecoveryFails
              PROVE  attention' = attention
          BY <4>3, Zenon DEF EnterKeeper, DropRow, Clear, RemoveFile, Reset, Recovered, RecoveryFails,
             StoreFails, attending
        <4>4. ASSUME NEW p \in Procs, Step(p) PROVE attention' = attention \/ unread' = TRUE
          BY <4>1, <4>2, <4>3, <4>4, Zenon DEF Step
        <4>5. ASSUME \/ \E e \in Emitters, kind \in Kinds : Emit(e, kind)
                     \/ \E op \in {"delete", "cleanup", "sync"} : Start(op)
                     \/ FlushTimer \/ RetryTimer \/ Crash \/ Restart \/ BeginRun \/ EndRun \/ Load
              PROVE  attention' = attention
          BY <4>5, Zenon DEF Emit, Start, FlushTimer, RetryTimer, Crash, Restart, BeginRun, EndRun, Load,
             attending
        <4> QED BY <2>3, <4>4, <4>5, Zenon DEF Next
      <3> QED BY <2>1, <3>1 DEF News
    <2> QED BY <2>2, <2>3
  <1> QED BY <1>1, Inductive, PTL DEF Spec, NewsKept
\* Nothing is written for a session whose row is gone: whoever waited for its mutex meanwhile finds
\* the object closed (DeleteSession, getEventState).
THEOREM DeletedStaysQuietCorrect == Spec => DeletedStaysQuiet
  <1>1. IInv /\ [Next]_vars => [~row => Len(file') <= Len(file)]_vars
    <2> SUFFICES ASSUME IInv, Next, ~row
                 PROVE  Len(file') <= Len(file)
      OBVIOUS
    <2>1. Control /\ Len(file) \in Nat
      BY DEF IInv, Disk
    <2>2. ASSUME NEW p \in Procs PROVE ~Flush(p) /\ ~Write(p)
      <3>1. proc[p].pc \in {"flush", "write"} => row
        BY <2>1, WorksOn DEF AtWork, Deleted
      <3> QED BY <3>1 DEF Flush, Write
    <2>3. file' = file \/ file' = <<>>
      BY <2>2 DEF Next, Step, Enter, Buffer, StoreFails, Project, Retry, EnterKeeper, DropRow, Clear,
         RemoveFile, Reset, Recovered, RecoveryFails, Emit, Start, FlushTimer, RetryTimer, Crash,
         Restart, BeginRun, EndRun, Load, MarkRead, stored, Zenon
    <2>4. Len(<<>>) = 0
      OBVIOUS
    <2> QED BY <2>1, <2>3, <2>4
  <1> QED BY <1>1, Inductive, PTL DEF Spec, DeletedStaysQuiet


=============================================================================
