------------------------------ MODULE CodexRun ------------------------------
(***************************************************************************)
(* The life of a Codex run: the goroutine of the run, its app-server       *)
(* process with the two pipes and the read loop between them, the drain    *)
(* that lets the server leave after its turn, and the other goroutines     *)
(* that use the same run: answers to the server's requests, steered        *)
(* inputs, an abort, a forced termination, the next send.                  *)
(*                                                                         *)
(* Runs are numbered in the order they start.  run[r] is the activeRun and *)
(* the locals of its goroutine, srv[r] the process and its client.         *)
(***************************************************************************)
EXTENDS Naturals, Sequences, FiniteSets

CONSTANTS
  MaxRuns,     \* bound: runs of the session
  Clients,     \* browser connections that may answer a request
  Cap,         \* messages client.incoming holds (64 in the code)
  OutCap,      \* bound: messages the server's stdout holds
  MaxTries,    \* bound: attempts of thread/start or thread/resume
  MaxSaid,     \* bound: plain notifications and requests to the user of one server
  MaxSteers,   \* bound: attempts to steer into one run
  Big          \* messages longer than the pipe to the server

Runs == 1 .. MaxRuns

\* What the run writes to the server, and what the server writes back:
\* responses, then requests to the user, then notifications of the root turn.
Calls     == {"init", "thread", "turn", "goal", "again"}
Written   == Calls \cup {"steer", "answer"}
Asks      == {"input", "approval"}
Endings   == {"done", "bare", "fail"}
Responses == {"ok", "no", "steered", "refused"}
Told      == Responses \cup Asks \cup Endings \cup {"note"}

ASSUME CodexRunAssumption ==
  /\ MaxRuns \in Nat /\ Cap \in Nat /\ OutCap \in Nat
  /\ MaxTries \in Nat /\ MaxSaid \in Nat /\ MaxSteers \in Nat
  /\ Big \subseteq Written
  /\ Clients \cap {"none", "main", "steer", "send"} = {}

VARIABLES
  started,   \* runs started so far
  current,   \* m.runs[session]; 0 when there is none
  drain,     \* m.codexRunDrains[session]; 0 when there is none
  lock,      \* holder of the session's dispatch lock
  run, srv,
  steer,     \* the steered input on its way
  answer,    \* per client, its answer on its way
  stop       \* the abort or termination on its way

vars == <<started, current, drain, lock, run, srv, steer, answer, stop>>

\* A run before it starts.  "pc" is where its goroutine stands, "call" the
\* state of the request it makes, "age" the drain's two timers, "wall" a
\* history variable: a question to the user is open, its answer has not yet
\* been followed by an event of the root turn, or it was removed unanswered.
FreshRun ==
  [pc |-> "none", call |-> "none", tries |-> 0, again |-> FALSE,
   completed |-> FALSE, abort |-> FALSE, cancelled |-> FALSE,
   exited |-> FALSE, drained |-> FALSE, age |-> "off", killed |-> FALSE,
   req |-> "none", responding |-> FALSE, wall |-> "none", steers |-> 0,
   outcome |-> <<>>]

FreshSrv ==
  [proc |-> "none", waited |-> FALSE, closed |-> FALSE, stdin |-> TRUE,
   in |-> <<>>, out |-> <<>>, incoming |-> <<>>, writer |-> "none",
   turn |-> "idle", asks |-> "none", said |-> 0]

\* "late" is a history variable: a question was recorded after this input's last
\* look at the barrier.
NoSteer == [pc |-> "idle", run |-> 0, late |-> FALSE]

Init ==
  /\ started = 0 /\ current = 0 /\ drain = 0 /\ lock = "none"
  /\ run = [r \in Runs |-> FreshRun]
  /\ srv = [r \in Runs |-> FreshSrv]
  /\ steer = NoSteer
  /\ answer = [c \in Clients |-> [pc |-> "idle", run |-> 0, kind |-> "none"]]
  /\ stop = [pc |-> "idle", run |-> 0, cancel |-> FALSE]

-----------------------------------------------------------------------------
\* The process and the client's locks.

\* killCmdTree: the process ends, what it had not read is gone, and a write
\* that was blocked on it returns with an error.
Killed(s) == [s EXCEPT !.proc = "gone", !.in = <<>>, !.writer = "none"]

\* closeStdin, once the write lock is free.
Shut(s) == [s EXCEPT !.stdin = FALSE]

Writable(r) == srv[r].stdin /\ srv[r].proc = "up"

\* writeMessage: the writer keeps the lock until the server has read a message
\* that is longer than the pipe.
Sent(s, who, m) ==
  [s EXCEPT !.in = Append(@, m), !.writer = IF m \in Big THEN who ELSE @]

\* The last deferred call of runSession: the run leaves both registries.
Over(r) ==
  /\ current' = IF current = r THEN 0 ELSE current
  /\ drain' = IF drain = r THEN 0 ELSE drain
  /\ srv' = [srv EXCEPT ![r] = [FreshSrv EXCEPT !.proc = srv[r].proc]]

-----------------------------------------------------------------------------
\* A send: it waits for the drain, then looks for an active run.

SendWaits ==
  /\ lock = "none" /\ started < MaxRuns
  /\ drain = 0
  /\ lock' = "send"
  /\ UNCHANGED <<started, current, drain, run, srv, steer, answer, stop>>

\* The run is registered and its server started, or the start fails; a send
\* that finds a run leaves everything as it is.
Registered(r) ==
  /\ started' = r /\ current' = r
  /\ \/ /\ run' = [run EXCEPT ![r] = [FreshRun EXCEPT !.pc = "init"]]
        /\ srv' = [srv EXCEPT ![r].proc = "up"]
     \/ /\ run' = [run EXCEPT ![r] = [FreshRun EXCEPT !.pc = "report"]]
        /\ UNCHANGED srv

SendStarts ==
  /\ lock = "send"
  /\ lock' = "none"
  /\ IF current = 0 THEN Registered(started + 1)
     ELSE UNCHANGED <<started, current, run, srv>>
  /\ UNCHANGED <<drain, steer, answer, stop>>

-----------------------------------------------------------------------------
\* The server, seen from the pipes: it may read, speak, or leave at any time.

Says(r, m) ==
  /\ srv[r].proc = "up" /\ run[r].pc # "done" /\ Len(srv[r].out) < OutCap
  /\ m \in Told

\* It takes the next message; a request gets its response.
ServerReads(r) ==
  /\ srv[r].proc = "up" /\ srv[r].in # <<>> /\ Len(srv[r].out) < OutCap
  /\ LET m == Head(srv[r].in)
         s == [srv[r] EXCEPT !.in = Tail(@),
                             !.writer = IF m \in Big THEN "none" ELSE @]
     IN \/ /\ m \in Calls
           /\ srv' = [srv EXCEPT ![r] =
                [s EXCEPT !.out = Append(@, "ok"),
                          !.turn = IF m \in {"turn", "again"} THEN "active"
                                   ELSE @]]
        \/ /\ m \in Calls
           /\ srv' = [srv EXCEPT ![r] = [s EXCEPT !.out = Append(@, "no")]]
        \/ /\ m = "steer"
           /\ srv' = [srv EXCEPT ![r] =
                [s EXCEPT !.out = Append(@, IF srv[r].turn = "active"
                                            THEN "steered" ELSE "refused")]]
        \/ /\ m = "answer"
           /\ srv' = [srv EXCEPT ![r] = [s EXCEPT !.asks = "none"]]
  /\ UNCHANGED <<started, current, drain, lock, run, steer, answer, stop>>

ServerNotes(r) ==
  /\ Says(r, "note") /\ srv[r].turn = "active" /\ srv[r].said < MaxSaid
  /\ srv' = [srv EXCEPT ![r].out = Append(@, "note"), ![r].said = @ + 1]
  /\ UNCHANGED <<started, current, drain, lock, run, steer, answer, stop>>

\* Input or an approval is asked for; one request is open at a time.
ServerAsks(r) ==
  /\ srv[r].turn = "active" /\ srv[r].asks = "none"
  /\ srv[r].said < MaxSaid
  /\ \E k \in Asks :
       /\ Says(r, k)
       /\ srv' = [srv EXCEPT ![r].out = Append(@, k), ![r].asks = k,
                             ![r].said = @ + 1]
  /\ UNCHANGED <<started, current, drain, lock, run, steer, answer, stop>>

\* The turn ends with a reply, without one, or with an error.
ServerEndsTurn(r) ==
  /\ srv[r].turn = "active" /\ srv[r].asks = "none"
  /\ \E e \in Endings :
       /\ Says(r, e)
       /\ srv' = [srv EXCEPT ![r].out = Append(@, e), ![r].turn = "idle"]
  /\ UNCHANGED <<started, current, drain, lock, run, steer, answer, stop>>

ServerExits(r) ==
  /\ srv[r].proc = "up" /\ run[r].pc # "done"
  /\ srv' = [srv EXCEPT ![r] = Killed(srv[r])]
  /\ UNCHANGED <<started, current, drain, lock, run, steer, answer, stop>>

-----------------------------------------------------------------------------
\* The read loop and the goroutine in cmd.Wait.

\* A response goes to the request that waits for it; anything else, a late
\* response too, goes to client.incoming and blocks while that is full.
ReaderDelivers(r) ==
  /\ srv[r].out # <<>> /\ ~ srv[r].closed
  /\ LET m == Head(srv[r].out)
         s == [srv[r] EXCEPT !.out = Tail(@)]
         toRun   == m \in {"ok", "no"} /\ run[r].call = "wait"
         toSteer == m \in {"steered", "refused"}
                      /\ steer.run = r /\ steer.pc = "wait"
     IN \/ /\ toRun
           /\ run' = [run EXCEPT ![r].call = m]
           /\ srv' = [srv EXCEPT ![r] = s]
           /\ UNCHANGED steer
        \/ /\ toSteer
           /\ steer' = NoSteer
           /\ srv' = [srv EXCEPT ![r] = s]
           /\ UNCHANGED run
        \/ /\ ~ toRun /\ ~ toSteer
           /\ Len(srv[r].incoming) < Cap
           /\ srv' = [srv EXCEPT ![r] =
                [s EXCEPT !.incoming = Append(@, m)]]
           /\ UNCHANGED <<run, steer>>
  /\ UNCHANGED <<started, current, drain, lock, answer, stop>>

\* End of the output: client.closed and client.incoming are closed.
ReaderEnds(r) ==
  /\ srv[r].out = <<>> /\ ~ srv[r].closed /\ run[r].pc # "done"
  /\ srv[r].proc = "gone" \/ srv[r].waited
  /\ srv' = [srv EXCEPT ![r].closed = TRUE]
  /\ UNCHANGED <<started, current, drain, lock, run, steer, answer, stop>>

\* cmd.Wait returns and closes the pipes: output nobody had read is lost.
WaiterReturns(r) ==
  /\ srv[r].proc = "gone" /\ ~ srv[r].waited /\ run[r].pc # "done"
  /\ srv' = [srv EXCEPT ![r].waited = TRUE, ![r].out = <<>>]
  /\ UNCHANGED <<started, current, drain, lock, run, steer, answer, stop>>

-----------------------------------------------------------------------------
\* The goroutine of the run, first its requests.

Local == UNCHANGED <<started, current, drain, lock, steer, answer, stop>>

\* Every error on the way to the turn ends in waitAndFailCodexAppServer.
Fails(r) ==
  IF run[r].pc = "again"
  THEN /\ run' = [run EXCEPT ![r].pc = "loop", ![r].call = "none"]
       /\ srv' = [srv EXCEPT ![r] = Killed(srv[r])]
  ELSE /\ run' = [run EXCEPT ![r].pc = "failing", ![r].call = "none"]
       /\ UNCHANGED srv

RunRequests(r) ==
  /\ run[r].pc \in Calls /\ run[r].call = "none"
  /\ srv[r].writer = "none"
  /\ IF Writable(r)
     THEN /\ run' = [run EXCEPT ![r].call = "wait"]
          /\ srv' = [srv EXCEPT ![r] = Sent(srv[r], "main", run[r].pc)]
     ELSE Fails(r)
  /\ Local

\* The request after an accepted one.  The turn can be steered from here on once
\* turn/start is accepted; a run that carries a goal sets and reads it first,
\* with the loop not yet reading: two requests taken as one.
After(pc) ==
  CASE pc = "init"   -> {"thread"}
    [] pc = "thread" -> {"turn"}
    [] pc = "turn"   -> {"goal", "loop"}
    [] OTHER         -> {"loop"}

RunProceeds(r) ==
  /\ run[r].call = "ok"
  /\ \E pc \in After(run[r].pc) :
       run' = [run EXCEPT ![r].call = "none", ![r].pc = pc]
  /\ UNCHANGED srv
  /\ Local

\* variant: a refused thread request is repeated without a deadline
RetriedForever(r) ==
  /\ run[r].call = "no"
  /\ run' = [run EXCEPT ![r].call = "none", ![r].tries = @ + 1]
  /\ UNCHANGED srv
  /\ Local

\* A refused thread request is tried again: without multi-agent V2, or because
\* another writer still holds the thread.
RunRefused(r) ==
  /\ run[r].call = "no"
  /\ \/ /\ run[r].pc = "thread" /\ run[r].tries + 1 < MaxTries
        /\ run' = [run EXCEPT ![r].call = "none", ![r].tries = @ + 1]
        /\ UNCHANGED srv
     \/ Fails(r)
  /\ Local

\* The output ended, the run was cancelled, or the time for the response is
\* over; none of them ends a write that is still blocked.
RunGivesUp(r) ==
  /\ run[r].call = "wait" /\ srv[r].writer # "main"
  /\ Fails(r)
  /\ Local

\* closeStdin and kill; the waits that follow are bounded.
RunTearsDown(r) ==
  /\ run[r].pc = "failing" /\ srv[r].writer = "none"
  /\ run' = [run EXCEPT ![r].pc = "report"]
  /\ srv' = [srv EXCEPT ![r] = Shut(Killed(srv[r]))]
  /\ Local

-----------------------------------------------------------------------------
\* The loop: one case of its select after another.

\* The first event of the root turn after an answer lowers the barrier.
Progress(n) ==
  [n EXCEPT !.responding = FALSE,
            !.wall = IF @ = "answered" THEN "none" ELSE @]

\* A turn without a reply is continued once, unless a request is open.
Continues(n, m) == m = "bare" /\ n.req = "none"

\* variant: the drain without its timers
Untimed(n) ==
  [n EXCEPT !.completed = TRUE, !.pc = "settle", !.outcome = Append(@, "done")]

\* turnCompleted, both timers, and run_done; closing the input comes next.
Completed(n) ==
  [n EXCEPT !.completed = TRUE, !.age = "fresh", !.pc = "settle",
            !.outcome = Append(@, "done")]

\* What the handler of a message leaves in the run: a response nobody waits for
\* is ignored, any event of the root turn lowers the barrier first.
Handled(n, m) ==
  LET p == Progress(n) IN
  IF m \in Responses THEN n
  ELSE IF m \in Asks
  THEN [p EXCEPT !.req = m, !.wall = IF m = "input" THEN "asked" ELSE @]
  ELSE p

\* A question is recorded behind the back of an input that is about to be sent.
Overtakes(r) ==
  Head(srv[r].incoming) = "input" /\ steer.pc = "send" /\ steer.run = r

LoopHandles(r) ==
  /\ run[r].pc = "loop" /\ srv[r].incoming # <<>>
  /\ LET m == Head(srv[r].incoming)
         n == Handled(run[r], m)
         s == [srv[r] EXCEPT !.incoming = Tail(@)]
         ends == m \in {"done", "bare"} /\ ~ run[r].completed
     IN \/ /\ ~ ends
           /\ run' = [run EXCEPT ![r] = n]
           /\ srv' = [srv EXCEPT ![r] = IF m = "fail" THEN Killed(s) ELSE s]
           /\ UNCHANGED drain
        \/ /\ ends /\ Continues(n, m)
           /\ IF run[r].again
              THEN /\ run' = [run EXCEPT ![r] = n]
                   /\ srv' = [srv EXCEPT ![r] = Killed(s)]
              ELSE /\ run' = [run EXCEPT ![r] =
                        [n EXCEPT !.again = TRUE, !.pc = "again"]]
                   /\ srv' = [srv EXCEPT ![r] = s]
           /\ UNCHANGED drain
        \/ /\ ends /\ ~ Continues(n, m)
           /\ run' = [run EXCEPT ![r] = Completed(n)]
           /\ drain' = IF current = r THEN r ELSE drain
           /\ srv' = [srv EXCEPT ![r] = s]
  /\ steer' = [steer EXCEPT !.late = @ \/ Overtakes(r)]
  /\ UNCHANGED <<started, current, lock, answer, stop>>

\* closeStdin, then the run gives its place to the next one.
LoopSettles(r) ==
  /\ run[r].pc = "settle" /\ srv[r].writer = "none"
  /\ run' = [run EXCEPT ![r].pc = "loop"]
  /\ srv' = [srv EXCEPT ![r] = Shut(srv[r])]
  /\ current' = IF current = r THEN 0 ELSE current
  /\ UNCHANGED <<started, drain, lock, steer, answer, stop>>

\* ctx.Done is taken once; closing the input waits for the write lock.
LoopCancelled(r) ==
  /\ run[r].pc = "loop" /\ run[r].abort /\ ~ run[r].cancelled
  /\ run' = [run EXCEPT ![r].cancelled = TRUE, ![r].pc = "close"]
  /\ UNCHANGED srv
  /\ Local

LoopCloses(r) ==
  /\ run[r].pc = "close" /\ srv[r].writer = "none"
  /\ run' = [run EXCEPT ![r].pc = "loop"]
  /\ srv' = [srv EXCEPT ![r] = Shut(Killed(srv[r]))]
  /\ Local

LoopSeesExit(r) ==
  /\ run[r].pc = "loop" /\ srv[r].waited /\ ~ run[r].exited
  /\ run' = [run EXCEPT ![r].exited = TRUE]
  /\ UNCHANGED srv
  /\ Local

LoopSeesEnd(r) ==
  /\ run[r].pc = "loop" /\ ~ run[r].drained
  /\ srv[r].closed /\ srv[r].incoming = <<>>
  /\ run' = [run EXCEPT ![r].drained = TRUE]
  /\ UNCHANGED srv
  /\ Local

\* Time: the grace period of a drain is over, then its hard limit.
GraceEnds(r) ==
  /\ run[r].age = "fresh" /\ run[r].pc # "done"
  /\ run' = [run EXCEPT ![r].age = "grace"]
  /\ UNCHANGED srv
  /\ Local

LimitEnds(r) ==
  /\ run[r].age = "grace" /\ run[r].pc # "done"
  /\ run' = [run EXCEPT ![r].age = "limit"]
  /\ UNCHANGED srv
  /\ Local

LoopKills(r) ==
  /\ run[r].pc = "loop" /\ run[r].age \in {"grace", "limit"}
  /\ ~ run[r].killed
  /\ run' = [run EXCEPT ![r].killed = TRUE]
  /\ srv' = [srv EXCEPT ![r] = Shut(Killed(srv[r]))]
  /\ Local

\* The hard limit leaves the loop with the process as it is; select may find
\* both timers ready and take this one first.
LoopDetaches(r) ==
  /\ run[r].pc = "loop" /\ run[r].age = "limit"
  /\ run' = [run EXCEPT ![r].pc = "detach"]
  /\ UNCHANGED srv
  /\ Local

LoopLeaves(r) ==
  /\ run[r].pc = "detach" /\ srv[r].writer = "none"
  /\ run' = [run EXCEPT ![r].pc = "report"]
  /\ srv' = [srv EXCEPT ![r] = Shut(srv[r])]
  /\ Local

LoopEnds(r) ==
  /\ run[r].pc = "loop" /\ run[r].exited /\ run[r].drained
  /\ run' = [run EXCEPT ![r].pc = "report"]
  /\ UNCHANGED srv
  /\ Local

\* variant: a completed run is not told from a failed one
FailedAnyway(n) ==
  Append(n.outcome, IF n.abort THEN "abort" ELSE "fail")

\* How the run is recorded: aborted, completed before, or failed; the look at the
\* abort and the record are one step here.
Recorded(n) ==
  IF n.abort THEN Append(n.outcome, "abort")
  ELSE IF n.completed THEN n.outcome
  ELSE Append(n.outcome, "fail")

\* The last steps of the run with the deferred calls of runSession.
RunEnds(r) ==
  /\ run[r].pc = "report"
  /\ run' = [run EXCEPT ![r] =
       [FreshRun EXCEPT !.pc = "done", !.abort = run[r].abort,
                        !.outcome = Recorded(run[r])]]
  /\ Over(r)
  /\ UNCHANGED <<started, lock, steer, answer, stop>>

-----------------------------------------------------------------------------
\* A pending redirect is steered into the active turn.

BlocksSteer(n) == n.responding \/ n.req = "input"

\* The last look at the barrier before the request; the turn is known.
SteerPasses ==
  /\ steer.pc = "idle" /\ current # 0
  /\ run[current].pc \notin {"init", "thread", "turn", "failing", "report"}
  /\ ~ BlocksSteer(run[current]) /\ run[current].steers < MaxSteers
  /\ steer' = [pc |-> "send", run |-> current, late |-> FALSE]
  /\ run' = [run EXCEPT ![current].steers = @ + 1]
  /\ UNCHANGED <<started, current, drain, lock, srv, answer, stop>>

SteerSends ==
  /\ steer.pc = "send"
  /\ LET r == steer.run IN
     \/ /\ ~ Writable(r) /\ srv[r].writer = "none"
        /\ steer' = NoSteer
        /\ UNCHANGED srv
     \/ /\ Writable(r) /\ srv[r].writer = "none"
        /\ steer' = [steer EXCEPT !.pc = "wait"]
        /\ srv' = [srv EXCEPT ![r] = Sent(srv[r], "steer", "steer")]
  /\ UNCHANGED <<started, current, drain, lock, run, answer, stop>>

\* The output ended or the time is over, or the run is done.
SteerGivesUp ==
  /\ steer.pc = "wait" /\ srv[steer.run].writer # "steer"
  /\ steer' = NoSteer
  /\ UNCHANGED <<started, current, drain, lock, run, srv, answer, stop>>

-----------------------------------------------------------------------------
\* Answers of the clients.

\* variant: without the dispatch lock
TakenUnlocked(c) ==
  /\ current # 0 /\ run[current].req # "none"
  /\ answer[c].pc = "idle"
  /\ answer' = [answer EXCEPT ![c] =
       [pc |-> "send", run |-> current, kind |-> run[current].req]]
  /\ UNCHANGED <<started, current, drain, lock, run, srv, steer, stop>>

\* The client holds the dispatch lock from its look at the open request to the
\* removal of the request.
AnswerTakes(c) ==
  /\ lock = "none" /\ current # 0 /\ run[current].req # "none"
  /\ answer[c].pc = "idle"
  /\ lock' = c
  /\ answer' = [answer EXCEPT ![c] =
       [pc |-> "send", run |-> current, kind |-> run[current].req]]
  /\ UNCHANGED <<started, current, drain, run, srv, steer, stop>>

AnswerReturns(c) ==
  /\ answer' = [answer EXCEPT ![c] =
       [pc |-> "idle", run |-> 0, kind |-> "none"]]
  /\ lock' = IF lock = c THEN "none" ELSE lock

AnswerFails(c) ==
  /\ answer[c].pc = "send"
  /\ ~ Writable(answer[c].run) /\ srv[answer[c].run].writer = "none"
  /\ AnswerReturns(c)
  /\ UNCHANGED <<started, current, drain, run, srv, steer, stop>>

\* variant: the request is removed before its answer raises the barrier
ForgottenFirst(c) ==
  /\ answer[c].pc = "send"
  /\ LET r == answer[c].run IN
     /\ Writable(r) /\ srv[r].writer = "none"
     /\ srv' = [srv EXCEPT ![r] = Sent(srv[r], c, "answer")]
     /\ run' = [run EXCEPT ![r].req = "none", ![r].wall =
          IF answer[c].kind = "input" THEN "answered" ELSE @]
  /\ answer' = [answer EXCEPT ![c].pc =
       IF answer[c].kind = "input" THEN "mark" ELSE "clear"]
  /\ UNCHANGED <<started, current, drain, lock, steer, stop>>

AnswerSends(c) ==
  /\ answer[c].pc = "send"
  /\ LET r == answer[c].run IN
     /\ Writable(r) /\ srv[r].writer = "none"
     /\ srv' = [srv EXCEPT ![r] = Sent(srv[r], c, "answer")]
     /\ run' = [run EXCEPT ![r].wall =
          IF answer[c].kind = "input" THEN "answered" ELSE @]
  /\ answer' = [answer EXCEPT ![c].pc =
       IF answer[c].kind = "input" THEN "mark" ELSE "clear"]
  /\ UNCHANGED <<started, current, drain, lock, steer, stop>>

\* Only an answered question raises the barrier, before its request goes.  The
\* request that goes is whatever is open by then: a question asked since the
\* server has read the answer is lost.
AnswerMarks(c) ==
  /\ answer[c].pc = "mark" /\ srv[answer[c].run].writer # c
  /\ run' = [run EXCEPT ![answer[c].run].responding = TRUE]
  /\ answer' = [answer EXCEPT ![c].pc = "clear"]
  /\ UNCHANGED <<started, current, drain, lock, srv, steer, stop>>

AnswerClears(c) ==
  /\ answer[c].pc = "clear" /\ srv[answer[c].run].writer # c
  /\ run' = [run EXCEPT ![answer[c].run].req = "none",
                        ![answer[c].run].wall = IF @ = "asked" THEN "lost" ELSE @]
  /\ AnswerReturns(c)
  /\ UNCHANGED <<started, current, drain, srv, steer, stop>>

-----------------------------------------------------------------------------
\* An abort, or a forced termination of the app-server.

\* AbortSession finds the active run; ForceTerminateCodexAppServer a draining
\* one first, and so does a send whose wait for the drain is over.
StopFinds ==
  /\ stop.pc = "idle"
  /\ \/ /\ current # 0
        /\ stop' = [pc |-> "kill", run |-> current, cancel |-> TRUE]
     \/ /\ drain # 0
        /\ stop' = [pc |-> "kill", run |-> drain, cancel |-> FALSE]
  /\ UNCHANGED <<started, current, drain, lock, run, srv, steer, answer>>

\* forceTerminateRun, and the transport is closed behind the dead process.
StopKills ==
  /\ stop.pc = "kill"
  /\ LET r == stop.run IN
     /\ run' = [run EXCEPT ![r].abort = @ \/ (stop.cancel /\ run[r].pc # "done")]
     /\ srv' = [srv EXCEPT ![r] =
          IF srv[r].proc = "up" THEN Killed(srv[r]) ELSE srv[r]]
  /\ stop' = [pc |-> "idle", run |-> 0, cancel |-> FALSE]
  /\ UNCHANGED <<started, current, drain, lock, steer, answer>>

-----------------------------------------------------------------------------
Run(r) ==
  \/ RunRequests(r) \/ RunProceeds(r) \/ RunRefused(r) \/ RunGivesUp(r)
  \/ RunTearsDown(r) \/ LoopHandles(r) \/ LoopSettles(r)
  \/ LoopCancelled(r) \/ LoopCloses(r) \/ LoopSeesExit(r) \/ LoopSeesEnd(r)
  \/ LoopKills(r) \/ LoopDetaches(r) \/ LoopLeaves(r)
  \/ LoopEnds(r) \/ RunEnds(r)

Server(r) ==
  \/ ServerReads(r) \/ ServerNotes(r) \/ ServerAsks(r)
  \/ ServerEndsTurn(r) \/ ServerExits(r)

Reader(r) == ReaderDelivers(r) \/ ReaderEnds(r)

Answer(c) == AnswerFails(c) \/ AnswerSends(c) \/ AnswerMarks(c) \/ AnswerClears(c)

Next ==
  \/ SendWaits \/ SendStarts
  \/ \E r \in Runs : Run(r) \/ Server(r) \/ Reader(r) \/ WaiterReturns(r)
                     \/ GraceEnds(r) \/ LimitEnds(r)
  \/ SteerPasses \/ SteerSends \/ SteerGivesUp
  \/ \E c \in Clients : AnswerTakes(c) \/ Answer(c)
  \/ StopFinds \/ StopKills

\* The goroutines, the two timers and the process table take their turns; what
\* the server reads, says or does, and the users, are left open.
Fairness ==
  /\ \A r \in Runs : /\ WF_vars(Run(r)) /\ WF_vars(Reader(r))
                     /\ WF_vars(WaiterReturns(r))
                     /\ WF_vars(GraceEnds(r)) /\ WF_vars(LimitEnds(r))
  /\ \A c \in Clients : WF_vars(Answer(c))
  /\ WF_vars(SendStarts)
  /\ WF_vars(SteerSends) /\ WF_vars(SteerGivesUp) /\ WF_vars(StopKills)

Spec == Init /\ [][Next]_vars /\ Fairness

-----------------------------------------------------------------------------
RunPcs == Calls \cup {"none", "failing", "loop", "settle", "close", "detach",
                      "report", "done"}

Endpoints == Clients \cup {"none", "main", "steer"}

\* Type correctness of the registries, the goroutines and the server.
TypeOK ==
  /\ started \in 0 .. MaxRuns
  /\ current \in 0 .. started /\ drain \in 0 .. started
  /\ lock \in Clients \cup {"none", "send"}
  /\ run \in [Runs ->
       [pc : RunPcs, call : {"none", "wait", "ok", "no"},
        tries : 0 .. MaxTries, again : BOOLEAN, completed : BOOLEAN,
        abort : BOOLEAN, cancelled : BOOLEAN, exited : BOOLEAN,
        drained : BOOLEAN, age : {"off", "fresh", "grace", "limit"},
        killed : BOOLEAN, req : Asks \cup {"none"}, responding : BOOLEAN,
        wall : {"none", "asked", "answered", "lost"}, steers : 0 .. MaxSteers,
        outcome : Seq({"done", "fail", "abort"})]]
  /\ srv \in [Runs ->
       [proc : {"none", "up", "gone"}, waited : BOOLEAN, closed : BOOLEAN,
        stdin : BOOLEAN, in : Seq(Written), out : Seq(Told),
        incoming : Seq(Told), writer : Endpoints,
        turn : {"idle", "active"}, asks : Asks \cup {"none"},
        said : 0 .. MaxSaid]]
  /\ steer \in [pc : {"idle", "send", "wait"}, run : 0 .. started,
                late : BOOLEAN]
  /\ answer \in [Clients -> [pc : {"idle", "send", "mark", "clear"},
                             run : 0 .. started, kind : Asks \cup {"none"}]]
  /\ stop \in [pc : {"idle", "kill"}, run : 0 .. started, cancel : BOOLEAN]

\* An ended run is recorded once, as done, failed or aborted; only an abort that
\* found the run before it gave its place to the next one may follow run_done
\* (its turn may have completed by then), and no run is recorded as aborted that
\* nobody aborted.  It guards the exits of the loop and of the failures before it
\* against a late completion, a crash and the drain's timers.
OneOutcome ==
  \A r \in Runs : run[r].pc = "done" =>
    run[r].outcome \in IF run[r].abort THEN {<<"abort">>, <<"done", "abort">>}
                       ELSE {<<"done">>, <<"fail">>}

\* The server gets one answer for one request, whichever clients answer at
\* once: respondToUserInput and respondToApproval hold the dispatch lock from
\* the look at the request to its removal.
AnsweredOnce ==
  \A r \in Runs :
    Cardinality({i \in DOMAIN srv[r].in : srv[r].in[i] = "answer"})
      <= IF srv[r].asks = "none" THEN 0 ELSE 1

\* turn/steer is not written between a question to the user and the first event
\* of the root turn after its answer: what blocksCodexSteerForUserInput saw before
\* the request still holds when it is written, while the answer is handed over
\* and its request removed.  Two exceptions are in the code: a question that the
\* loop records between that look and the write, which also waits for the write
\* lock (nothing looks again), and a question removed with an earlier one.
SteerBarrier ==
  [][steer.pc = "send" /\ steer'.pc = "wait" =>
       run[steer.run].wall \in {"none", "lost"} \/ steer.late]_vars

\* Every request of a run ends, and every run whose turn completed, whose
\* server left or that was aborted ends, if every write to the server ends:
\* the drain of a stuck process is bounded.
Settles ==
  (\A r \in Runs : []<>(srv[r].writer = "none")) =>
    \A r \in Runs :
      /\ (run[r].pc \in Calls) ~> (run[r].pc \notin Calls)
      /\ (run[r].completed \/ run[r].abort \/ srv[r].proc = "gone")
            ~> (run[r].pc = "done")

=============================================================================
