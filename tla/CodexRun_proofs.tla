--------------------------- MODULE CodexRun_proofs ---------------------------
(* TypeOK, OneOutcome, AnsweredOnce and SteerBarrier for every bound: a run   *)
(* is recorded once, a request is answered once, and no input is written past *)
(* a question that its last look at the barrier could have seen.             *)
EXTENDS CodexRun, SequenceTheorems, FiniteSetTheorems, FunctionTheorems, TLAPS

RunRec ==
  [pc : RunPcs, call : {"none", "wait", "ok", "no"},
   tries : 0 .. MaxTries, again : BOOLEAN, completed : BOOLEAN,
   abort : BOOLEAN, cancelled : BOOLEAN, exited : BOOLEAN,
   drained : BOOLEAN, age : {"off", "fresh", "grace", "limit"},
   killed : BOOLEAN, req : Asks \cup {"none"}, responding : BOOLEAN,
   wall : {"none", "asked", "answered", "lost"}, steers : 0 .. MaxSteers,
   outcome : Seq({"done", "fail", "abort"})]

\* Before it ends a run has recorded at most that its turn completed; it waits for
\* a response only where it makes a request.
Faithful(n) ==
  /\ n.call = "none" \/ n.pc \in Calls
  /\ IF n.pc = "done"
     THEN n.outcome \in IF n.abort THEN {<<"abort">>, <<"done", "abort">>}
                        ELSE {<<"done">>, <<"fail">>}
     ELSE n.outcome = IF n.completed THEN <<"done">> ELSE <<>>

GoodRec == {n \in RunRec : Faithful(n)}

RunsGood == run \in [Runs -> GoodRec]

USE CodexRunAssumption

-----------------------------------------------------------------------------
\* Changing one run keeps the others.
LEMMA OneChanged ==
  ASSUME RunsGood, NEW r, NEW X, r \in Runs => X \in GoodRec,
         run' = [run EXCEPT ![r] = X]
  PROVE  RunsGood'
BY DEF RunsGood

\* A new run has recorded nothing.
LEMMA FreshGood == FreshRun \in GoodRec
BY DEF FreshRun, GoodRec, RunRec, Faithful, RunPcs, Calls, Asks

\* The initial runs are fresh.
LEMMA InitGood == Init => RunsGood
BY FreshGood DEF Init, RunsGood

-----------------------------------------------------------------------------
\* The requests.

\* An error while a request is made leaves nothing recorded.
LEMMA FailsGood ==
  ASSUME RunsGood, NEW r \in Runs, run[r].pc \in Calls, Fails(r)
  PROVE  RunsGood'
<1>1. run[r] \in GoodRec BY DEF RunsGood
<1>2. CASE run[r].pc = "again"
  <2> DEFINE X == [run[r] EXCEPT !.pc = "loop", !.call = "none"]
  <2>1. X \in RunRec BY <1>1 DEF GoodRec, RunRec, RunPcs
  <2>2. Faithful(X) BY <1>1 DEF GoodRec, RunRec, Faithful, Calls
  <2>3. run' = [run EXCEPT ![r] = X] BY <1>2 DEF Fails, RunsGood
  <2> HIDE DEF X
  <2> QED BY <2>1, <2>2, <2>3, OneChanged DEF GoodRec
<1>3. CASE run[r].pc # "again"
  <2> DEFINE X == [run[r] EXCEPT !.pc = "failing", !.call = "none"]
  <2>1. X \in RunRec BY <1>1 DEF GoodRec, RunRec, RunPcs, Calls
  <2>2. Faithful(X) BY <1>1 DEF GoodRec, RunRec, Faithful, Calls
  <2>3. run' = [run EXCEPT ![r] = X] BY <1>3 DEF Fails, RunsGood
  <2> HIDE DEF X
  <2> QED BY <2>1, <2>2, <2>3, OneChanged DEF GoodRec
<1> QED BY <1>2, <1>3

\* A request is sent, or its write fails.
LEMMA RunRequestsGood ==
  ASSUME RunsGood, NEW r \in Runs, RunRequests(r)
  PROVE  RunsGood'
<1>1. run[r] \in GoodRec BY DEF RunsGood
<1>2. CASE Writable(r)
  <2> DEFINE X == [run[r] EXCEPT !.call = "wait"]
  <2>1. X \in RunRec BY <1>1 DEF GoodRec, RunRec
  <2>2. Faithful(X) BY <1>1 DEF GoodRec, RunRec, Faithful, RunRequests
  <2>3. run' = [run EXCEPT ![r] = X] BY <1>2 DEF RunRequests, RunsGood
  <2> HIDE DEF X
  <2> QED BY <2>1, <2>2, <2>3, OneChanged DEF GoodRec
<1>3. CASE ~ Writable(r)
  BY <1>3, FailsGood DEF RunRequests
<1> QED BY <1>2, <1>3

\* A refused request is repeated, or the run fails.
LEMMA RunRefusedGood ==
  ASSUME RunsGood, NEW r \in Runs, RunRefused(r)
  PROVE  RunsGood'
<1>1. run[r] \in GoodRec BY DEF RunsGood
<1>2. run[r].pc \in Calls BY <1>1 DEF GoodRec, Faithful, RunRefused
<1>3. CASE Fails(r) BY <1>2, <1>3, FailsGood
<1>4. CASE /\ run[r].tries + 1 < MaxTries
           /\ run' = [run EXCEPT ![r].call = "none", ![r].tries = @ + 1]
  <2> DEFINE X == [run[r] EXCEPT !.call = "none", !.tries = @ + 1]
  <2>0. run[r].tries + 1 \in 0 .. MaxTries BY <1>1, <1>4 DEF GoodRec, RunRec
  <2>1. X \in RunRec BY <1>1, <2>0 DEF GoodRec, RunRec
  <2>2. Faithful(X) BY <1>1, <1>2 DEF GoodRec, RunRec, Faithful, Calls
  <2>3. run' = [run EXCEPT ![r] = X] BY <1>4 DEF RunsGood
  <2> HIDE DEF X
  <2> QED BY <2>1, <2>2, <2>3, OneChanged DEF GoodRec
<1> QED BY <1>3, <1>4 DEF RunRefused

\* A request without a response fails the run.
LEMMA RunGivesUpGood ==
  ASSUME RunsGood, NEW r \in Runs, RunGivesUp(r)
  PROVE  RunsGood'
<1>1. run[r] \in GoodRec BY DEF RunsGood
<1>2. run[r].pc \in Calls BY <1>1 DEF GoodRec, Faithful, RunGivesUp
<1> QED BY <1>2, FailsGood DEF RunGivesUp

\* An accepted request leads to the next one, or to the loop.
LEMMA RunProceedsGood == ASSUME RunsGood, NEW r \in Runs, RunProceeds(r) PROVE RunsGood'
<1>0. PICK pc \in After(run[r].pc) :
        run' = [run EXCEPT ![r].call = "none", ![r].pc = pc]
  BY DEF RunProceeds
<1> DEFINE X == [run[r] EXCEPT !.call = "none", !.pc = pc]
<1>1. run[r] \in GoodRec BY DEF RunsGood
<1>5. pc \in {"thread", "turn", "goal", "loop"} BY DEF After
<1>2. X \in RunRec BY <1>1, <1>5 DEF GoodRec, RunRec, RunPcs, Calls
<1>3. Faithful(X) BY <1>1, <1>5 DEF GoodRec, RunRec, Faithful, RunProceeds, Calls
<1>4. run' = [run EXCEPT ![r] = X] BY <1>0 DEF RunsGood
<1> HIDE DEF X
<1> QED BY <1>2, <1>3, <1>4, OneChanged DEF GoodRec

\* A failed start is only torn down here; RunEnds records it.
LEMMA RunTearsDownGood == ASSUME RunsGood, NEW r \in Runs, RunTearsDown(r) PROVE RunsGood'
<1> DEFINE X == [run[r] EXCEPT !.pc = "report"]
<1>1. run[r] \in GoodRec BY DEF RunsGood
<1>2. X \in RunRec BY <1>1 DEF GoodRec, RunRec, RunPcs, Calls
<1>3. Faithful(X) BY <1>1 DEF GoodRec, RunRec, Faithful, RunTearsDown, Calls
<1>4. run' = [run EXCEPT ![r] = X] BY DEF RunTearsDown, RunsGood
<1> HIDE DEF X
<1> QED BY <1>2, <1>3, <1>4, OneChanged DEF GoodRec

-----------------------------------------------------------------------------
\* The loop.

\* Closing the input after the turn records nothing more.
LEMMA LoopSettlesGood == ASSUME RunsGood, NEW r \in Runs, LoopSettles(r) PROVE RunsGood'
<1> DEFINE X == [run[r] EXCEPT !.pc = "loop"]
<1>1. run[r] \in GoodRec BY DEF RunsGood
<1>2. X \in RunRec BY <1>1 DEF GoodRec, RunRec, RunPcs, Calls
<1>3. Faithful(X) BY <1>1 DEF GoodRec, RunRec, Faithful, LoopSettles, Calls
<1>4. run' = [run EXCEPT ![r] = X] BY DEF LoopSettles, RunsGood
<1> HIDE DEF X
<1> QED BY <1>2, <1>3, <1>4, OneChanged DEF GoodRec

\* Taking the cancellation records nothing.
LEMMA LoopCancelledGood == ASSUME RunsGood, NEW r \in Runs, LoopCancelled(r) PROVE RunsGood'
<1> DEFINE X == [run[r] EXCEPT !.cancelled = TRUE, !.pc = "close"]
<1>1. run[r] \in GoodRec BY DEF RunsGood
<1>2. X \in RunRec BY <1>1 DEF GoodRec, RunRec, RunPcs, Calls
<1>3. Faithful(X) BY <1>1 DEF GoodRec, RunRec, Faithful, LoopCancelled, Calls
<1>4. run' = [run EXCEPT ![r] = X] BY DEF LoopCancelled, RunsGood
<1> HIDE DEF X
<1> QED BY <1>2, <1>3, <1>4, OneChanged DEF GoodRec

\* Killing the server of a cancelled run records nothing.
LEMMA LoopClosesGood == ASSUME RunsGood, NEW r \in Runs, LoopCloses(r) PROVE RunsGood'
<1> DEFINE X == [run[r] EXCEPT !.pc = "loop"]
<1>1. run[r] \in GoodRec BY DEF RunsGood
<1>2. X \in RunRec BY <1>1 DEF GoodRec, RunRec, RunPcs, Calls
<1>3. Faithful(X) BY <1>1 DEF GoodRec, RunRec, Faithful, LoopCloses, Calls
<1>4. run' = [run EXCEPT ![r] = X] BY DEF LoopCloses, RunsGood
<1> HIDE DEF X
<1> QED BY <1>2, <1>3, <1>4, OneChanged DEF GoodRec

\* The exit of the server is only noted.
LEMMA LoopSeesExitGood == ASSUME RunsGood, NEW r \in Runs, LoopSeesExit(r) PROVE RunsGood'
<1> DEFINE X == [run[r] EXCEPT !.exited = TRUE]
<1>1. run[r] \in GoodRec BY DEF RunsGood
<1>2. X \in RunRec BY <1>1 DEF GoodRec, RunRec, RunPcs, Calls
<1>3. Faithful(X) BY <1>1 DEF GoodRec, RunRec, Faithful, LoopSeesExit, Calls
<1>4. run' = [run EXCEPT ![r] = X] BY DEF LoopSeesExit, RunsGood
<1> HIDE DEF X
<1> QED BY <1>2, <1>3, <1>4, OneChanged DEF GoodRec

\* The end of the output is only noted.
LEMMA LoopSeesEndGood == ASSUME RunsGood, NEW r \in Runs, LoopSeesEnd(r) PROVE RunsGood'
<1> DEFINE X == [run[r] EXCEPT !.drained = TRUE]
<1>1. run[r] \in GoodRec BY DEF RunsGood
<1>2. X \in RunRec BY <1>1 DEF GoodRec, RunRec, RunPcs, Calls
<1>3. Faithful(X) BY <1>1 DEF GoodRec, RunRec, Faithful, LoopSeesEnd, Calls
<1>4. run' = [run EXCEPT ![r] = X] BY DEF LoopSeesEnd, RunsGood
<1> HIDE DEF X
<1> QED BY <1>2, <1>3, <1>4, OneChanged DEF GoodRec

\* The grace period passes, whatever the run does.
LEMMA GraceEndsGood == ASSUME RunsGood, NEW r \in Runs, GraceEnds(r) PROVE RunsGood'
<1> DEFINE X == [run[r] EXCEPT !.age = "grace"]
<1>1. run[r] \in GoodRec BY DEF RunsGood
<1>2. X \in RunRec BY <1>1 DEF GoodRec, RunRec, RunPcs, Calls
<1>3. Faithful(X) BY <1>1 DEF GoodRec, RunRec, Faithful, GraceEnds, Calls
<1>4. run' = [run EXCEPT ![r] = X] BY DEF GraceEnds, RunsGood
<1> HIDE DEF X
<1> QED BY <1>2, <1>3, <1>4, OneChanged DEF GoodRec

\* The hard limit passes, whatever the run does.
LEMMA LimitEndsGood == ASSUME RunsGood, NEW r \in Runs, LimitEnds(r) PROVE RunsGood'
<1> DEFINE X == [run[r] EXCEPT !.age = "limit"]
<1>1. run[r] \in GoodRec BY DEF RunsGood
<1>2. X \in RunRec BY <1>1 DEF GoodRec, RunRec, RunPcs, Calls
<1>3. Faithful(X) BY <1>1 DEF GoodRec, RunRec, Faithful, LimitEnds, Calls
<1>4. run' = [run EXCEPT ![r] = X] BY DEF LimitEnds, RunsGood
<1> HIDE DEF X
<1> QED BY <1>2, <1>3, <1>4, OneChanged DEF GoodRec

\* Killing a server that does not leave records nothing.
LEMMA LoopKillsGood == ASSUME RunsGood, NEW r \in Runs, LoopKills(r) PROVE RunsGood'
<1> DEFINE X == [run[r] EXCEPT !.killed = TRUE]
<1>1. run[r] \in GoodRec BY DEF RunsGood
<1>2. X \in RunRec BY <1>1 DEF GoodRec, RunRec, RunPcs, Calls
<1>3. Faithful(X) BY <1>1 DEF GoodRec, RunRec, Faithful, LoopKills, Calls
<1>4. run' = [run EXCEPT ![r] = X] BY DEF LoopKills, RunsGood
<1> HIDE DEF X
<1> QED BY <1>2, <1>3, <1>4, OneChanged DEF GoodRec

\* The hard limit leaves the loop with what is recorded.
LEMMA LoopDetachesGood == ASSUME RunsGood, NEW r \in Runs, LoopDetaches(r) PROVE RunsGood'
<1> DEFINE X == [run[r] EXCEPT !.pc = "detach"]
<1>1. run[r] \in GoodRec BY DEF RunsGood
<1>2. X \in RunRec BY <1>1 DEF GoodRec, RunRec, RunPcs, Calls
<1>3. Faithful(X) BY <1>1 DEF GoodRec, RunRec, Faithful, LoopDetaches, Calls
<1>4. run' = [run EXCEPT ![r] = X] BY DEF LoopDetaches, RunsGood
<1> HIDE DEF X
<1> QED BY <1>2, <1>3, <1>4, OneChanged DEF GoodRec

\* Leaving the loop records nothing.
LEMMA LoopLeavesGood == ASSUME RunsGood, NEW r \in Runs, LoopLeaves(r) PROVE RunsGood'
<1> DEFINE X == [run[r] EXCEPT !.pc = "report"]
<1>1. run[r] \in GoodRec BY DEF RunsGood
<1>2. X \in RunRec BY <1>1 DEF GoodRec, RunRec, RunPcs, Calls
<1>3. Faithful(X) BY <1>1 DEF GoodRec, RunRec, Faithful, LoopLeaves, Calls
<1>4. run' = [run EXCEPT ![r] = X] BY DEF LoopLeaves, RunsGood
<1> HIDE DEF X
<1> QED BY <1>2, <1>3, <1>4, OneChanged DEF GoodRec

\* The loop ends with what is recorded.
LEMMA LoopEndsGood == ASSUME RunsGood, NEW r \in Runs, LoopEnds(r) PROVE RunsGood'
<1> DEFINE X == [run[r] EXCEPT !.pc = "report"]
<1>1. run[r] \in GoodRec BY DEF RunsGood
<1>2. X \in RunRec BY <1>1 DEF GoodRec, RunRec, RunPcs, Calls
<1>3. Faithful(X) BY <1>1 DEF GoodRec, RunRec, Faithful, LoopEnds, Calls
<1>4. run' = [run EXCEPT ![r] = X] BY DEF LoopEnds, RunsGood
<1> HIDE DEF X
<1> QED BY <1>2, <1>3, <1>4, OneChanged DEF GoodRec

\* Handling a message records nothing.
LEMMA HandledGood ==
  ASSUME NEW n \in GoodRec, NEW m, n.pc = "loop"
  PROVE  /\ Handled(n, m) \in GoodRec
         /\ Handled(n, m).pc = "loop"
         /\ Handled(n, m).completed = n.completed
<1> DEFINE w == IF n.wall = "answered" THEN "none" ELSE n.wall
           p == [n EXCEPT !.responding = FALSE, !.wall = w]
<1>0. n \in RunRec /\ Faithful(n) BY DEF GoodRec
<1>1. Progress(n) = p /\ w \in {"none", "asked", "answered", "lost"}
  BY <1>0 DEF Progress, RunRec
<1> HIDE DEF w
<1>2. /\ p \in RunRec /\ p.pc = "loop" /\ p.completed = n.completed
      /\ p.call = n.call /\ p.outcome = n.outcome
  BY <1>0, <1>1 DEF RunRec
<1> HIDE DEF p
<1>3. Faithful(p) BY <1>0, <1>2 DEF Faithful
<1>5. CASE m \in Responses BY <1>5 DEF Handled
<1>6. CASE m \notin Responses /\ m \in Asks
  <2> DEFINE v == IF m = "input" THEN "asked" ELSE p.wall
             q == [p EXCEPT !.req = m, !.wall = v]
  <2>1. Handled(n, m) = q BY <1>1, <1>6 DEF Handled
  <2>2. v \in {"none", "asked", "answered", "lost"} BY <1>2 DEF RunRec
  <2> HIDE DEF v
  <2>3. /\ q \in RunRec /\ q.pc = "loop" /\ q.completed = n.completed
        /\ q.call = p.call /\ q.outcome = p.outcome
    BY <1>2, <1>6, <2>2 DEF RunRec
  <2> HIDE DEF q
  <2>4. Faithful(q) BY <1>2, <1>3, <2>3 DEF Faithful
  <2> QED BY <2>1, <2>3, <2>4 DEF GoodRec
<1>7. CASE m \notin Responses /\ m \notin Asks
  BY <1>1, <1>2, <1>3, <1>7 DEF Handled, GoodRec
<1> QED BY <1>5, <1>6, <1>7

\* run_done is recorded once, when the turn completes.
LEMMA CompletedGood ==
  ASSUME NEW n \in GoodRec, n.pc = "loop", ~ n.completed
  PROVE  Completed(n) \in GoodRec
<1>1. n.outcome = <<>> BY DEF GoodRec, Faithful
<1>2. Append(n.outcome, "done") = <<"done">> BY <1>1
<1>3. <<"done">> \in Seq({"done", "fail", "abort"}) OBVIOUS
<1>4. Completed(n) = [n EXCEPT !.completed = TRUE, !.age = "fresh",
                               !.pc = "settle", !.outcome = <<"done">>]
  BY <1>2 DEF Completed
<1> DEFINE X == [n EXCEPT !.completed = TRUE, !.age = "fresh",
                          !.pc = "settle", !.outcome = <<"done">>]
<1>5. X \in RunRec BY <1>3 DEF GoodRec, RunRec, RunPcs, Calls
<1>6. Faithful(X) BY DEF GoodRec, RunRec, Faithful, Calls
<1> QED BY <1>4, <1>5, <1>6 DEF GoodRec

\* A message records nothing, or that the turn completed.
LEMMA LoopHandlesGood ==
  ASSUME RunsGood, NEW r \in Runs, LoopHandles(r)
  PROVE  RunsGood'
<1> DEFINE m == Head(srv[r].incoming)
           n == Handled(run[r], m)
<1>1. run[r] \in GoodRec /\ run[r].pc = "loop" BY DEF RunsGood, LoopHandles
<1>2. n \in GoodRec /\ n.pc = "loop" /\ n.completed = run[r].completed
  BY <1>1, HandledGood
<1>3. \/ run' = [run EXCEPT ![r] = n]
      \/ run' = [run EXCEPT ![r] = [n EXCEPT !.again = TRUE, !.pc = "again"]]
      \/ ~ run[r].completed /\ run' = [run EXCEPT ![r] = Completed(n)]
  BY DEF LoopHandles
<1> HIDE DEF n
<1>4. CASE run' = [run EXCEPT ![r] = n] BY <1>2, <1>4, OneChanged
<1>5. CASE run' = [run EXCEPT ![r] = [n EXCEPT !.again = TRUE, !.pc = "again"]]
  <2> DEFINE X == [n EXCEPT !.again = TRUE, !.pc = "again"]
  <2>1. X \in RunRec BY <1>2 DEF GoodRec, RunRec, RunPcs, Calls
  <2>2. Faithful(X) BY <1>2 DEF GoodRec, RunRec, Faithful, Calls
  <2> HIDE DEF X
  <2> QED BY <1>5, <2>1, <2>2, OneChanged DEF X, GoodRec
<1>6. CASE ~ run[r].completed /\ run' = [run EXCEPT ![r] = Completed(n)]
  <2>1. Completed(n) \in GoodRec BY <1>2, <1>6, CompletedGood
  <2> QED BY <1>6, <2>1, OneChanged
<1> QED BY <1>3, <1>4, <1>5, <1>6

\* What an ended run may have recorded.
Final(a) == IF a THEN {<<"abort">>, <<"done", "abort">>}
            ELSE {<<"done">>, <<"fail">>}

\* A second element follows the first.
LEMMA AppendOne == ASSUME NEW e, NEW a PROVE Append(<<e>>, a) = <<e, a>>
<1> DEFINE s == <<e>>
           t == Append(s, a)
           u == <<e, a>>
<1>1. s \in Seq({e, a}) /\ Len(s) = 1 /\ s[1] = e OBVIOUS
<1>2. t \in Seq({e, a}) /\ Len(t) = 2 /\ t[1] = e /\ t[2] = a
  BY <1>1, AppendProperties
<1>3. u \in Seq({e, a}) /\ Len(u) = 2 /\ u[1] = e /\ u[2] = a OBVIOUS
<1> HIDE DEF t, u
<1>4. \A i \in 1 .. Len(t) : t[i] = u[i] BY <1>2, <1>3
<1>5. t = u BY <1>2, <1>3, <1>4, SeqEqual
<1> QED BY <1>5 DEF t, u

\* The end is recorded once more at most: as an abort somebody asked for, or as
\* a failure when the turn did not complete.
LEMMA RecordedFinal ==
  ASSUME NEW n \in GoodRec, n.pc = "report"
  PROVE  Recorded(n) \in Final(n.abort)
<1>1. n.outcome = IF n.completed THEN <<"done">> ELSE <<>>
  BY DEF GoodRec, Faithful
<1>2. CASE n.abort /\ n.completed
  <2>1. n.outcome = <<"done">> BY <1>1, <1>2
  <2>2. Append(<<"done">>, "abort") = <<"done", "abort">> BY AppendOne
  <2> QED BY <1>2, <2>1, <2>2 DEF Recorded, Final
<1>3. CASE n.abort /\ ~ n.completed
  <2>1. n.outcome = <<>> BY <1>1, <1>3
  <2>2. Append(<<>>, "abort") = <<"abort">> OBVIOUS
  <2> QED BY <1>3, <2>1, <2>2 DEF Recorded, Final
<1>4. CASE ~ n.abort /\ n.completed BY <1>1, <1>4 DEF Recorded, Final
<1>5. CASE ~ n.abort /\ ~ n.completed
  <2>1. n.outcome = <<>> BY <1>1, <1>5
  <2>2. Append(<<>>, "fail") = <<"fail">> OBVIOUS
  <2> QED BY <1>5, <2>1, <2>2 DEF Recorded, Final
<1> QED BY <1>2, <1>3, <1>4, <1>5

\* All that may be recorded is a sequence of outcomes.
LEMMA FinalTyped ==
  ASSUME NEW a, NEW o \in Final(a)
  PROVE  o \in Seq({"done", "fail", "abort"})
<1>1. <<"abort">> \in Seq({"done", "fail", "abort"}) OBVIOUS
<1>2. <<"done", "abort">> \in Seq({"done", "fail", "abort"}) OBVIOUS
<1>3. <<"done">> \in Seq({"done", "fail", "abort"}) OBVIOUS
<1>4. <<"fail">> \in Seq({"done", "fail", "abort"}) OBVIOUS
<1> QED BY <1>1, <1>2, <1>3, <1>4 DEF Final

\* The record of an ended run is one of the final ones.
LEMMA RunEndsGood ==
  ASSUME RunsGood, NEW r \in Runs, RunEnds(r)
  PROVE  RunsGood'
<1> DEFINE o == Recorded(run[r])
           X == [FreshRun EXCEPT !.pc = "done", !.abort = run[r].abort,
                                 !.outcome = o]
<1>1. run[r] \in GoodRec /\ run[r].pc = "report" BY DEF RunsGood, RunEnds
<1>2. run[r].abort \in BOOLEAN BY <1>1 DEF GoodRec, RunRec
<1>3. o \in Final(run[r].abort) BY <1>1, RecordedFinal
<1>4. o \in Seq({"done", "fail", "abort"}) BY <1>3, FinalTyped
<1> HIDE DEF o
<1>5. X \in RunRec
  BY <1>2, <1>4, FreshGood DEF FreshRun, RunRec, GoodRec, RunPcs, Calls
<1>6. Faithful(X) BY <1>3 DEF FreshRun, Faithful, Final
<1>7. run' = [run EXCEPT ![r] = X] BY DEF RunEnds, o
<1> HIDE DEF X
<1> QED BY <1>5, <1>6, <1>7, OneChanged DEF GoodRec

-----------------------------------------------------------------------------
\* The other goroutines.

\* A new run starts with nothing recorded, whatever stood in its place.
LEMMA SendStartsGood == ASSUME RunsGood, SendStarts PROVE RunsGood'
<1> DEFINE r == started + 1
           X == [FreshRun EXCEPT !.pc = "init"]
           Y == [FreshRun EXCEPT !.pc = "report"]
<1>0. /\ FreshRun \in RunRec
      /\ FreshRun.call = "none" /\ ~ FreshRun.completed
      /\ FreshRun.outcome = <<>>
  BY FreshGood DEF GoodRec, FreshRun
<1>1. X \in GoodRec /\ Y \in GoodRec
  <2>1. X \in RunRec BY <1>0 DEF RunRec, RunPcs, Calls
  <2>2. Y \in RunRec BY <1>0 DEF RunRec, RunPcs, Calls
  <2>3. Faithful(X) BY <1>0 DEF RunRec, Faithful
  <2>4. Faithful(Y) BY <1>0 DEF RunRec, Faithful
  <2> QED BY <2>1, <2>2, <2>3, <2>4 DEF GoodRec
<1>2. \/ UNCHANGED run
      \/ run' = [run EXCEPT ![r] = X]
      \/ run' = [run EXCEPT ![r] = Y]
  BY DEF SendStarts, Registered
<1> HIDE DEF X, Y, r
<1>3. CASE UNCHANGED run BY <1>3 DEF RunsGood
<1> QED BY <1>1, <1>2, <1>3, OneChanged

\* A response changes the state of the request that waits for it.
LEMMA ReaderDeliversGood ==
  ASSUME RunsGood, NEW r \in Runs, ReaderDelivers(r)
  PROVE  RunsGood'
<1> DEFINE m == Head(srv[r].out)
           X == [run[r] EXCEPT !.call = m]
<1>1. run[r] \in GoodRec BY DEF RunsGood
<1>2. \/ UNCHANGED run
      \/ /\ m \in {"ok", "no"} /\ run[r].call = "wait"
         /\ run' = [run EXCEPT ![r].call = m]
  BY DEF ReaderDelivers
<1>3. CASE UNCHANGED run BY <1>3 DEF RunsGood
<1>4. CASE /\ m \in {"ok", "no"} /\ run[r].call = "wait"
           /\ run' = [run EXCEPT ![r].call = m]
  <2> HIDE DEF m
  <2>1. X \in RunRec BY <1>1, <1>4 DEF GoodRec, RunRec
  <2>2. Faithful(X) BY <1>1, <1>4 DEF GoodRec, RunRec, Faithful
  <2>3. run' = [run EXCEPT ![r] = X] BY <1>4 DEF RunsGood
  <2> HIDE DEF X
  <2> QED BY <2>1, <2>2, <2>3, OneChanged DEF GoodRec
<1> QED BY <1>2, <1>3, <1>4

\* A steered input is only counted.
LEMMA SteerPassesGood == ASSUME RunsGood, SteerPasses PROVE RunsGood'
<1> DEFINE r == current
           X == [run[r] EXCEPT !.steers = @ + 1]
<1>1. ASSUME r \in Runs PROVE X \in GoodRec
  <2>1. run[r] \in GoodRec BY <1>1 DEF RunsGood
  <2>0. run[r].steers + 1 \in 0 .. MaxSteers
    BY <2>1 DEF GoodRec, RunRec, SteerPasses
  <2>2. X \in RunRec BY <2>0, <2>1 DEF GoodRec, RunRec
  <2>3. Faithful(X) BY <2>1 DEF GoodRec, RunRec, Faithful
  <2> QED BY <2>2, <2>3 DEF GoodRec
<1>2. run' = [run EXCEPT ![r] = X] BY DEF SteerPasses
<1> HIDE DEF X, r
<1> QED BY <1>1, <1>2, OneChanged

\* An answer touches the barrier and the open request.
LEMMA AnswerSendsGood ==
  ASSUME RunsGood, NEW c \in Clients, AnswerSends(c)
  PROVE  RunsGood'
<1> DEFINE r == answer[c].run
           X == [run[r] EXCEPT !.wall =
                   IF answer[c].kind = "input" THEN "answered" ELSE @]
<1>1. ASSUME r \in Runs PROVE X \in GoodRec
  <2>1. run[r] \in GoodRec BY <1>1 DEF RunsGood
  <2>2. X \in RunRec BY <2>1 DEF GoodRec, RunRec
  <2>3. Faithful(X) BY <2>1 DEF GoodRec, RunRec, Faithful
  <2> QED BY <2>2, <2>3 DEF GoodRec
<1>2. run' = [run EXCEPT ![r] = X] BY DEF AnswerSends
<1> HIDE DEF X, r
<1> QED BY <1>1, <1>2, OneChanged

\* The barrier is raised.
LEMMA AnswerMarksGood ==
  ASSUME RunsGood, NEW c \in Clients, AnswerMarks(c)
  PROVE  RunsGood'
<1> DEFINE r == answer[c].run
           X == [run[r] EXCEPT !.responding = TRUE]
<1>1. ASSUME r \in Runs PROVE X \in GoodRec
  <2>1. run[r] \in GoodRec BY <1>1 DEF RunsGood
  <2>2. X \in RunRec BY <2>1 DEF GoodRec, RunRec
  <2>3. Faithful(X) BY <2>1 DEF GoodRec, RunRec, Faithful
  <2> QED BY <2>2, <2>3 DEF GoodRec
<1>2. run' = [run EXCEPT ![r] = X] BY DEF AnswerMarks
<1> HIDE DEF X, r
<1> QED BY <1>1, <1>2, OneChanged

\* The answered request is removed.
LEMMA AnswerClearsGood ==
  ASSUME RunsGood, NEW c \in Clients, AnswerClears(c)
  PROVE  RunsGood'
<1> DEFINE r == answer[c].run
           X == [run[r] EXCEPT !.req = "none",
                               !.wall = IF @ = "asked" THEN "lost" ELSE @]
<1>1. ASSUME r \in Runs PROVE X \in GoodRec
  <2>1. run[r] \in GoodRec BY <1>1 DEF RunsGood
  <2>2. X \in RunRec BY <2>1 DEF GoodRec, RunRec
  <2>3. Faithful(X) BY <2>1 DEF GoodRec, RunRec, Faithful
  <2> QED BY <2>2, <2>3 DEF GoodRec
<1>2. run' = [run EXCEPT ![r] = X] BY DEF AnswerClears
<1> HIDE DEF X, r
<1> QED BY <1>1, <1>2, OneChanged

\* An abort reaches only a run that has not ended.
LEMMA StopKillsGood == ASSUME RunsGood, StopKills PROVE RunsGood'
<1> DEFINE r == stop.run
           X == [run[r] EXCEPT !.abort = @ \/ (stop.cancel /\ run[r].pc # "done")]
<1>1. ASSUME r \in Runs PROVE X \in GoodRec
  <2>1. run[r] \in GoodRec BY <1>1 DEF RunsGood
  <2>2. CASE run[r].pc = "done"
    <3>1. X.abort = run[r].abort BY <2>1, <2>2 DEF GoodRec, RunRec
    <3>2. X = run[r] BY <2>1, <3>1 DEF GoodRec, RunRec
    <3> QED BY <2>1, <3>2
  <2>3. CASE run[r].pc # "done"
    <3>1. X \in RunRec BY <2>1 DEF GoodRec, RunRec
    <3>2. Faithful(X) BY <2>1, <2>3 DEF GoodRec, RunRec, Faithful
    <3> QED BY <3>1, <3>2 DEF GoodRec
  <2> QED BY <2>2, <2>3
<1>2. run' = [run EXCEPT ![r] = X] BY DEF StopKills
<1> HIDE DEF X, r
<1> QED BY <1>1, <1>2, OneChanged

-----------------------------------------------------------------------------
\* The step of the whole system.

\* Every step of the goroutine of a run.
LEMMA RunGood == ASSUME RunsGood, NEW r \in Runs, Run(r) PROVE RunsGood'
<1>1. CASE RunRequests(r) \/ RunProceeds(r) \/ RunRefused(r)
           \/ RunGivesUp(r) \/ RunTearsDown(r)
  BY <1>1, RunRequestsGood, RunProceedsGood, RunRefusedGood, RunGivesUpGood,
     RunTearsDownGood
<1>2. CASE LoopHandles(r) \/ LoopSettles(r) \/ LoopCancelled(r)
           \/ LoopCloses(r) \/ LoopSeesExit(r) \/ LoopSeesEnd(r)
  BY <1>2, LoopHandlesGood, LoopSettlesGood, LoopCancelledGood,
     LoopClosesGood, LoopSeesExitGood, LoopSeesEndGood
<1>3. CASE LoopKills(r) \/ LoopDetaches(r) \/ LoopLeaves(r)
           \/ LoopEnds(r) \/ RunEnds(r)
  BY <1>3, LoopKillsGood, LoopDetachesGood, LoopLeavesGood, LoopEndsGood,
     RunEndsGood
<1> QED BY <1>1, <1>2, <1>3 DEF Run

\* The server, the end of its output, the answers and stops on their way, and
\* the sends that wait leave the runs alone.
LEMMA QuietGood ==
  ASSUME RunsGood, UNCHANGED run
  PROVE  RunsGood'
BY DEF RunsGood

\* Every step of the system keeps all runs faithful.
LEMMA StepGood == ASSUME RunsGood, [Next]_vars PROVE RunsGood'
<1>1. CASE UNCHANGED vars BY <1>1, QuietGood DEF vars
<1>2. CASE SendWaits BY <1>2, QuietGood DEF SendWaits
<1>3. CASE SendStarts BY <1>3, SendStartsGood
<1>4. ASSUME NEW r \in Runs, Run(r) PROVE RunsGood' BY <1>4, RunGood
<1>5. ASSUME NEW r \in Runs, Server(r) PROVE RunsGood'
  BY <1>5, QuietGood
  DEF Server, ServerReads, ServerNotes, ServerAsks, ServerEndsTurn, ServerExits
<1>6. ASSUME NEW r \in Runs, Reader(r) PROVE RunsGood'
  BY <1>6, QuietGood, ReaderDeliversGood DEF Reader, ReaderEnds
<1>7. ASSUME NEW r \in Runs, WaiterReturns(r) PROVE RunsGood'
  BY <1>7, QuietGood DEF WaiterReturns
<1>8. ASSUME NEW r \in Runs, GraceEnds(r) \/ LimitEnds(r) PROVE RunsGood'
  BY <1>8, GraceEndsGood, LimitEndsGood
<1>9. CASE SteerPasses \/ SteerSends \/ SteerGivesUp
  BY <1>9, SteerPassesGood, QuietGood DEF SteerSends, SteerGivesUp
<1>10. ASSUME NEW c \in Clients, AnswerTakes(c) \/ Answer(c) PROVE RunsGood'
  BY <1>10, QuietGood, AnswerSendsGood, AnswerMarksGood, AnswerClearsGood
  DEF Answer, AnswerTakes, AnswerFails
<1>11. CASE StopFinds \/ StopKills
  BY <1>11, StopKillsGood, QuietGood DEF StopFinds
<1> QED
  BY <1>1, <1>2, <1>3, <1>4, <1>5, <1>6, <1>7, <1>8, <1>9, <1>10, <1>11 DEF Next

\* Faithful runs are recorded once.
LEMMA GoodImplies == RunsGood => OneOutcome
BY DEF RunsGood, GoodRec, Faithful, OneOutcome

\* An ended run is recorded once, as what it was: done, failed, or aborted by
\* somebody, whatever the server, the clients and the timers did (OneOutcome),
\* for every number of runs, clients, messages and every size of the pipes.
THEOREM OutcomeCorrect == Spec => []OneOutcome
<1>1. Init => RunsGood BY InitGood
<1>2. RunsGood /\ [Next]_vars => RunsGood' BY StepGood
<1>3. RunsGood => OneOutcome BY GoodImplies
<1> QED BY <1>1, <1>2, <1>3, PTL DEF Spec

-----------------------------------------------------------------------------
\* The invariant of the questions.

SrvRec ==
  [proc : {"none", "up", "gone"}, waited : BOOLEAN, closed : BOOLEAN,
   stdin : BOOLEAN, in : Seq(Written), out : Seq(Told),
   incoming : Seq(Told), writer : Endpoints,
   turn : {"idle", "active"}, asks : Asks \cup {"none"},
   said : 0 .. MaxSaid]

\* How many messages of q are in S.
Count(q, S) == Cardinality({i \in DOMAIN q : q[i] \in S})

Starters == {"turn", "again"}

\* A turn is asked for, runs, or has ended and its end was not handled yet.
Turns(s) ==
  Count(s.in, Starters) + (IF s.turn = "active" THEN 1 ELSE 0)
    + Count(s.out, Endings) + Count(s.incoming, Endings)

\* A request to the user is on its way to the run, or its answer to the server.
Questions(s) ==
  Count(s.out, Asks) + Count(s.incoming, Asks) + Count(s.in, {"answer"})

\* The clients that have written an answer to run r and will remove its
\* request, and those that have not yet raised the barrier.
Removing(r) == {c \in Clients : answer[c].run = r /\ answer[c].pc \in {"mark", "clear"}}
Marking(r)  == {c \in Clients : answer[c].run = r /\ answer[c].pc = "mark"}

\* A request is open that nobody in A has answered.
Open(n, A) ==
  IF n.wall = "asked" \/ (n.req # "none" /\ A = {}) THEN 1 ELSE 0

\* No turn was asked for since the run started, or since the last one ended.
NoTurnYet(n) ==
  n.pc \in {"init", "thread"} \/ (n.pc \in Starters /\ n.call = "none")

\* Which runs may still have a server that lives.
Alive(n, s) ==
  /\ n.pc \in Calls => ~ n.completed
  /\ n.age # "off" \/ n.pc = "detach" => n.completed
  /\ n.exited \/ s.waited => s.proc # "up"
  /\ n.pc = "report" /\ s.proc = "up" => n.completed

\* There is one turn at a time, and none once the run is completed.
OneTurn(n, s) ==
  /\ s.asks # "none" => s.turn = "active"
  /\ Turns(s) <= 1
  /\ NoTurnYet(n) \/ n.completed => Turns(s) = 0

\* A request exists once: on its way, open, or as the answer on its way back.
OneQuestion(n, s, A) ==
  Questions(s) + Open(n, A) <= IF s.asks = "none" THEN 0 ELSE 1

\* A question to the user keeps the barrier up, until an event after its answer.
Walled(n, M) ==
  /\ n.wall = "asked" => n.req = "input"
  /\ n.wall = "answered" => n.responding \/ (n.req = "input" /\ M # {})

Pair(n, s, A, M) ==
  /\ n \in GoodRec /\ s \in SrvRec
  /\ Alive(n, s) /\ OneTurn(n, s) /\ OneQuestion(n, s, A) /\ Walled(n, M)

Pairs == \A r \in Runs : Pair(run[r], srv[r], Removing(r), Marking(r))

\* Types of the registries and of what is on its way.
Registers ==
  /\ started \in 0 .. MaxRuns
  /\ current \in 0 .. started /\ drain \in 0 .. started
  /\ lock \in Clients \cup {"none", "send"}
  /\ run \in [Runs -> GoodRec] /\ srv \in [Runs -> SrvRec]
  /\ steer \in [pc : {"idle", "send", "wait"}, run : 0 .. started,
                late : BOOLEAN]
  /\ answer \in [Clients -> [pc : {"idle", "send", "mark", "clear"},
                             run : 0 .. started, kind : Asks \cup {"none"}]]
  /\ stop \in [pc : {"idle", "kill"}, run : 0 .. started, cancel : BOOLEAN]

\* Who answers holds the dispatch lock; a send found room for its run.
Holders ==
  /\ \A c \in Clients : answer[c].pc # "idle" => lock = c /\ answer[c].run \in Runs
  /\ lock = "send" => started < MaxRuns

Unused == \A r \in Runs : r > started => run[r] = FreshRun /\ srv[r] = FreshSrv

\* The request a client is about to answer is still open, unless its run has
\* ended and cannot be written to any more.
Held(c) ==
  answer[c].pc = "send" =>
    LET r == answer[c].run IN
    \/ run[r].req = answer[c].kind /\ answer[c].kind # "none"
    \/ run[r].pc = "done" /\ srv[r].proc # "up"

IInv == Registers /\ Holders /\ Unused /\ Pairs /\ \A c \in Clients : Held(c)

-----------------------------------------------------------------------------
\* Counting.

\* The positions counted are finite.
LEMMA CountFinite ==
  ASSUME NEW T, NEW q \in Seq(T), NEW S
  PROVE  /\ IsFiniteSet({i \in DOMAIN q : q[i] \in S})
         /\ Count(q, S) \in Nat
<1>1. DOMAIN q = 1 .. Len(q) /\ Len(q) \in Nat OBVIOUS
<1>2. IsFiniteSet(1 .. Len(q)) BY <1>1, FS_Interval
<1>3. {i \in DOMAIN q : q[i] \in S} \subseteq 1 .. Len(q) BY <1>1
<1> HIDE <1>1
<1>4. IsFiniteSet({i \in DOMAIN q : q[i] \in S}) BY <1>2, <1>3, FS_Subset
<1> QED BY <1>4, FS_CardinalityType DEF Count

\* Nothing is counted in an empty sequence.
LEMMA CountEmpty == ASSUME NEW S PROVE Count(<<>>, S) = 0
<1>1. {i \in DOMAIN <<>> : <<>>[i] \in S} = {} OBVIOUS
<1> QED BY <1>1, FS_EmptySet DEF Count

\* An appended message is counted if it is one of S.
LEMMA CountAppend ==
  ASSUME NEW T, NEW q \in Seq(T), NEW m \in T, NEW S
  PROVE  Count(Append(q, m), S) = Count(q, S) + (IF m \in S THEN 1 ELSE 0)
<1> DEFINE A == {i \in DOMAIN q : q[i] \in S}
           a == Append(q, m)
           B == {i \in DOMAIN a : a[i] \in S}
<1>1. DOMAIN q = 1 .. Len(q) /\ Len(q) \in Nat OBVIOUS
<1>2. a \in Seq(T) /\ Len(a) = Len(q) + 1 /\ a[Len(q) + 1] = m
      /\ \A i \in 1 .. Len(q) : a[i] = q[i]
  BY AppendProperties
<1>3. DOMAIN a = 1 .. Len(q) + 1 BY <1>1, <1>2
<1> HIDE DEF a
<1>4. IsFiniteSet(A) /\ Cardinality(A) \in Nat BY CountFinite DEF Count
<1>5. Len(q) + 1 \notin A BY <1>1
<1>6. CASE m \in S
  <2>1. B = A \cup {Len(q) + 1} BY <1>1, <1>2, <1>3, <1>6
  <2> HIDE DEF A, B
  <2>2. Cardinality(B) = Cardinality(A) + 1 BY <1>4, <1>5, <2>1, FS_AddElement
  <2> QED BY <1>6, <2>2 DEF Count, A, B, a
<1>7. CASE m \notin S
  <2>1. B = A BY <1>1, <1>2, <1>3, <1>7
  <2> HIDE DEF A, B
  <2>2. Cardinality(B) = Cardinality(A) + 0 BY <1>4, <2>1
  <2> QED BY <1>7, <2>2 DEF Count, A, B, a
<1> QED BY <1>6, <1>7

\* A removed message is no longer counted.
LEMMA CountTail ==
  ASSUME NEW T, NEW q \in Seq(T), q # <<>>, NEW S
  PROVE  Count(Tail(q), S) + (IF Head(q) \in S THEN 1 ELSE 0) = Count(q, S)
<1> DEFINE t == Tail(q)
           A == {i \in DOMAIN q : q[i] \in S}
           R == {i \in A : i # 1}
           B == {i \in DOMAIN t : t[i] \in S}
           f == [i \in B |-> i + 1]
<1>1. DOMAIN q = 1 .. Len(q) /\ Len(q) \in Nat /\ Len(q) # 0 OBVIOUS
<1>2. t \in Seq(T) /\ Len(t) = Len(q) - 1 /\ Head(q) = q[1]
      /\ \A i \in 1 .. Len(t) : t[i] = q[i + 1]
  BY HeadTailProperties
<1>3. DOMAIN t = 1 .. Len(q) - 1 BY <1>1, <1>2
<1> HIDE DEF t
<1>4. IsFiniteSet(A) /\ Cardinality(A) \in Nat BY CountFinite DEF Count
<1>5. IsFiniteSet(B) /\ Cardinality(B) \in Nat BY <1>2, CountFinite DEF Count
<1>6. f \in Bijection(B, R)
  <2>1. \A i \in B : i \in Nat /\ f[i] \in R BY <1>1, <1>2, <1>3
  <2>2. \A i, j \in B : f[i] = f[j] => i = j BY <2>1
  <2>3. \A j \in R : \E i \in B : f[i] = j
    <3> TAKE j \in R
    <3>1. j \in 2 .. Len(q) /\ q[j] \in S BY <1>1
    <3>2. j - 1 \in 1 .. Len(q) - 1 /\ (j - 1) + 1 = j BY <1>1, <3>1
    <3>3. t[j - 1] = q[j] BY <1>1, <1>2, <3>2
    <3>4. j - 1 \in B BY <1>3, <3>1, <3>2, <3>3
    <3>5. f[j - 1] = j BY <3>1, <3>4
    <3> QED BY <3>4, <3>5
  <2>4. f \in [B -> R] BY <2>1
  <2> HIDE DEF f, B, R
  <2>5. f \in Injection(B, R) BY <2>2, <2>4 DEF Injection, IsInjective
  <2>6. f \in Surjection(B, R) BY <2>3, <2>4 DEF Surjection
  <2> QED BY <2>5, <2>6 DEF Bijection
<1>7. Cardinality(R) = Cardinality(B) /\ IsFiniteSet(R)
  <2> HIDE DEF f, B, R
  <2> QED BY <1>5, <1>6, FS_Bijection DEF ExistsBijection
<1>8. 1 \notin R OBVIOUS
<1>9. CASE Head(q) \in S
  <2>1. A = R \cup {1} BY <1>1, <1>2, <1>9
  <2> HIDE DEF A, B, R
  <2>2. Cardinality(A) = Cardinality(B) + 1 BY <1>7, <1>8, <2>1, FS_AddElement
  <2> QED BY <1>9, <2>2 DEF Count, A, B, t
<1>10. CASE Head(q) \notin S
  <2>1. A = R BY <1>1, <1>2, <1>10
  <2> HIDE DEF A, B, R
  <2>2. Cardinality(A) = Cardinality(B) + 0 BY <1>5, <1>7, <2>1
  <2> QED BY <1>10, <2>2 DEF Count, A, B, t
<1> QED BY <1>9, <1>10

-----------------------------------------------------------------------------
\* What the operations on the process and the pipes leave of turns and questions.

\* The counts are numbers.
LEMMA CountsTyped ==
  ASSUME NEW s \in SrvRec
  PROVE  /\ \A S : /\ Count(s.in, S) \in Nat /\ Count(s.out, S) \in Nat
                   /\ Count(s.incoming, S) \in Nat
         /\ Turns(s) \in Nat /\ Questions(s) \in Nat
<1>1. s.in \in Seq(Written) /\ s.out \in Seq(Told) /\ s.incoming \in Seq(Told)
  BY DEF SrvRec
<1>2. ASSUME NEW S
      PROVE  /\ Count(s.in, S) \in Nat /\ Count(s.out, S) \in Nat
             /\ Count(s.incoming, S) \in Nat
  BY <1>1, CountFinite
<1> QED BY <1>2 DEF Turns, Questions

\* The counts that make up turns and questions.
LEMMA Numbers ==
  ASSUME NEW s \in SrvRec
  PROVE  /\ Count(s.in, Starters) \in Nat /\ Count(s.in, {"answer"}) \in Nat
         /\ Count(s.out, Endings) \in Nat /\ Count(s.out, Asks) \in Nat
         /\ Count(s.incoming, Endings) \in Nat /\ Count(s.incoming, Asks) \in Nat
BY CountsTyped

\* s is a server that went on from t without a new turn or a new question.
QuietSrv(t, s) ==
  /\ s \in SrvRec
  /\ s.asks = t.asks /\ (t.turn = "active" => s.turn = "active")
  /\ Turns(s) <= Turns(t) /\ Questions(s) <= Questions(t)
  /\ t.proc # "up" => s.proc # "up"

\* Only the messages, the turn and the request count.
LEMMA QuietFields ==
  ASSUME NEW t \in SrvRec, NEW s \in SrvRec,
         s.in = t.in, s.out = t.out, s.incoming = t.incoming,
         s.turn = t.turn, s.asks = t.asks, t.proc # "up" => s.proc # "up"
  PROVE  QuietSrv(t, s) /\ Turns(s) = Turns(t) /\ Questions(s) = Questions(t)
<1>1. Turns(s) = Turns(t) BY DEF Turns
<1>2. Questions(s) = Questions(t) BY DEF Questions
<1> HIDE DEF Turns, Questions
<1>3. Turns(t) \in Nat /\ Questions(t) \in Nat BY CountsTyped
<1> QED BY <1>1, <1>2, <1>3 DEF QuietSrv

\* One quiet step after another.
LEMMA QuietTransitive ==
  ASSUME NEW t \in SrvRec, NEW u, NEW s, QuietSrv(t, u), QuietSrv(u, s)
  PROVE  QuietSrv(t, s)
<1>1. u \in SrvRec /\ s \in SrvRec BY DEF QuietSrv
<1>2. /\ Turns(t) \in Nat /\ Turns(u) \in Nat /\ Turns(s) \in Nat
      /\ Questions(t) \in Nat /\ Questions(u) \in Nat /\ Questions(s) \in Nat
  BY <1>1, CountsTyped
<1> QED BY <1>2 DEF QuietSrv

\* What the killed process had not read is gone.
LEMMA KilledQuiet ==
  ASSUME NEW t \in SrvRec
  PROVE  /\ QuietSrv(t, Killed(t)) /\ Killed(t).proc = "gone"
         /\ Killed(t).waited = t.waited
<1> DEFINE s == Killed(t)
<1>1. /\ s \in SrvRec /\ s.in = <<>> /\ s.out = t.out /\ s.incoming = t.incoming
      /\ s.turn = t.turn /\ s.asks = t.asks /\ s.proc = "gone"
      /\ s.waited = t.waited
  <2>1. <<>> \in Seq(Written) OBVIOUS
  <2>2. s \in SrvRec BY <2>1 DEF Killed, SrvRec, Endpoints
  <2> QED BY <2>2 DEF Killed, SrvRec
<1> HIDE DEF s
<1>2. Count(s.in, Starters) = 0 /\ Count(s.in, {"answer"}) = 0
  BY <1>1, CountEmpty
<1>3. \A S : /\ Count(t.in, S) \in Nat /\ Count(t.out, S) \in Nat
             /\ Count(t.incoming, S) \in Nat
  BY CountsTyped
<1>4. Turns(s) <= Turns(t) BY <1>1, <1>2, <1>3 DEF Turns
<1>5. Questions(s) <= Questions(t) BY <1>1, <1>2, <1>3 DEF Questions
<1> QED BY <1>1, <1>4, <1>5 DEF QuietSrv, s

\* Closing the input is quiet.
LEMMA ShutQuiet ==
  ASSUME NEW t \in SrvRec
  PROVE  /\ QuietSrv(t, Shut(t)) /\ Shut(t).proc = t.proc
         /\ Shut(t).waited = t.waited
<1> DEFINE s == Shut(t)
<1>1. /\ s \in SrvRec /\ s.in = t.in /\ s.out = t.out /\ s.incoming = t.incoming
      /\ s.turn = t.turn /\ s.asks = t.asks /\ s.proc = t.proc
      /\ s.waited = t.waited
  BY DEF Shut, SrvRec
<1> HIDE DEF s
<1>2. QuietSrv(t, s) BY <1>1, QuietFields
<1> QED BY <1>1, <1>2 DEF s

\* A process is killed and its input closed.
LEMMA DownQuiet ==
  ASSUME NEW t \in SrvRec
  PROVE  /\ QuietSrv(t, Shut(Killed(t))) /\ Shut(Killed(t)).proc = "gone"
         /\ Shut(Killed(t)).waited = t.waited
<1> DEFINE k == Killed(t)
<1>1. QuietSrv(t, k) /\ k.proc = "gone" /\ k.waited = t.waited BY KilledQuiet
<1>2. k \in SrvRec BY <1>1 DEF QuietSrv
<1> HIDE DEF k
<1>3. QuietSrv(k, Shut(k)) /\ Shut(k).proc = k.proc /\ Shut(k).waited = k.waited
  BY <1>2, ShutQuiet
<1>4. QuietSrv(t, Shut(k)) BY <1>1, <1>3, QuietTransitive
<1> QED BY <1>1, <1>3, <1>4 DEF k

\* A written message is one more to read.
LEMMA SentCounts ==
  ASSUME NEW t \in SrvRec, NEW who \in Endpoints, NEW m \in Written
  PROVE  /\ Sent(t, who, m) \in SrvRec
         /\ Sent(t, who, m).asks = t.asks /\ Sent(t, who, m).turn = t.turn
         /\ Sent(t, who, m).proc = t.proc /\ Sent(t, who, m).waited = t.waited
         /\ Turns(Sent(t, who, m)) = Turns(t) + (IF m \in Starters THEN 1 ELSE 0)
         /\ Questions(Sent(t, who, m))
              = Questions(t) + (IF m \in {"answer"} THEN 1 ELSE 0)
<1> DEFINE s == Sent(t, who, m)
<1>0. t.in \in Seq(Written) /\ t.writer \in Endpoints BY DEF SrvRec
<1>1. /\ s.in = Append(t.in, m) /\ s.out = t.out /\ s.incoming = t.incoming
      /\ s.turn = t.turn /\ s.asks = t.asks /\ s.proc = t.proc
      /\ s.waited = t.waited
  BY DEF Sent, SrvRec
<1>2. Append(t.in, m) \in Seq(Written) BY <1>0
<1>3. s \in SrvRec BY <1>0, <1>2 DEF Sent, SrvRec
<1> HIDE DEF s
<1> DEFINE d == IF m \in Starters THEN 1 ELSE 0
           e == IF m \in {"answer"} THEN 1 ELSE 0
<1>4. /\ Count(s.in, Starters) = Count(t.in, Starters) + d
      /\ Count(s.in, {"answer"}) = Count(t.in, {"answer"}) + e
  BY <1>0, <1>1, CountAppend
<1>8. d \in Nat /\ e \in Nat OBVIOUS
<1> HIDE DEF d, e
<1>5. /\ Count(t.in, Starters) \in Nat /\ Count(t.in, {"answer"}) \in Nat
      /\ Count(t.out, Endings) \in Nat /\ Count(t.out, Asks) \in Nat
      /\ Count(t.incoming, Endings) \in Nat /\ Count(t.incoming, Asks) \in Nat
  BY Numbers
<1> DEFINE u == IF t.turn = "active" THEN 1 ELSE 0
<1>9. /\ Turns(t) = Count(t.in, Starters) + u + Count(t.out, Endings)
                     + Count(t.incoming, Endings)
       /\ Turns(s) = Count(s.in, Starters) + u + Count(s.out, Endings)
                     + Count(s.incoming, Endings)
       /\ u \in Nat
  BY <1>1 DEF Turns
<1> HIDE DEF u
<1>10. /\ Count(s.out, Endings) = Count(t.out, Endings)
       /\ Count(s.incoming, Endings) = Count(t.incoming, Endings)
  BY <1>1
<1>6. Turns(s) = Turns(t) + d BY <1>4, <1>5, <1>8, <1>9, <1>10
<1>7. Questions(s) = Questions(t) + e BY <1>1, <1>4, <1>5, <1>8 DEF Questions
<1> QED BY <1>1, <1>3, <1>6, <1>7 DEF s, d, e

\* A server that was replaced by a fresh one has neither.
LEMMA FreshCounts ==
  ASSUME NEW s \in SrvRec, s.in = <<>>, s.out = <<>>, s.incoming = <<>>,
         s.turn = "idle"
  PROVE  Turns(s) = 0 /\ Questions(s) = 0
<1>1. \A S : Count(<<>>, S) = 0 BY CountEmpty
<1> QED BY <1>1 DEF Turns, Questions

-----------------------------------------------------------------------------
\* A step of one run.

\* The other registries and what is on its way keep their types.
OthersTyped ==
  /\ current \in 0 .. started /\ drain \in 0 .. started
  /\ steer \in [pc : {"idle", "send", "wait"}, run : 0 .. started,
                late : BOOLEAN]
  /\ stop \in [pc : {"idle", "kill"}, run : 0 .. started, cancel : BOOLEAN]

\* Run r and its server become n and s, no answer moves.
Changes(r, n, s) ==
  /\ run' = [run EXCEPT ![r] = n] /\ srv' = [srv EXCEPT ![r] = s]
  /\ answer' = answer

\* The same, and no run starts and the dispatch lock stays where it is.
Becomes(r, n, s) ==
  /\ run' = [run EXCEPT ![r] = n] /\ srv' = [srv EXCEPT ![r] = s]
  /\ UNCHANGED <<started, lock, answer>>

\* The clients about to answer run r find in n and s what they took.
Taken(r, n, s) ==
  \A c \in Clients : answer[c].pc = "send" /\ answer[c].run = r =>
    \/ n.req = answer[c].kind /\ answer[c].kind # "none"
    \/ n.pc = "done" /\ s.proc # "up"

\* What the invariant says of one run.
LEMMA OfRun ==
  ASSUME IInv, NEW r \in Runs
  PROVE  /\ Pair(run[r], srv[r], Removing(r), Marking(r))
         /\ run[r] \in GoodRec /\ srv[r] \in SrvRec
         /\ run \in [Runs -> GoodRec] /\ srv \in [Runs -> SrvRec] /\ RunsGood
BY DEF IInv, Pairs, Pair, Registers, RunsGood

\* A run that did something has started.
LEMMA Used ==
  ASSUME IInv, NEW r \in Runs,
         run[r].pc # "none" \/ run[r].age # "off" \/ srv[r].proc # "none"
           \/ srv[r].out # <<>> \/ srv[r].waited
  PROVE  r <= started
<1>1. r > started => run[r] = FreshRun /\ srv[r] = FreshSrv
  BY DEF IInv, Unused
<1>2. r \in Nat /\ started \in Nat BY DEF IInv, Registers, Runs
<1> QED BY <1>1, <1>2 DEF FreshRun, FreshSrv

\* Run r and its server become n and s: what is said of all runs and of the
\* answers on their way still holds.
LEMMA PairsStep ==
  ASSUME IInv, NEW r \in Runs, NEW n, NEW s, Changes(r, n, s),
         Pair(n, s, Removing(r), Marking(r)), Taken(r, n, s)
  PROVE  /\ run' \in [Runs -> GoodRec] /\ srv' \in [Runs -> SrvRec]
         /\ Pairs' /\ \A c \in Clients : Held(c)'
         /\ \A x \in Runs : x # r => run'[x] = run[x] /\ srv'[x] = srv[x]
<1>0. /\ run' = [run EXCEPT ![r] = n] /\ srv' = [srv EXCEPT ![r] = s]
      /\ answer' = answer
  BY DEF Changes
<1>1. run \in [Runs -> GoodRec] /\ srv \in [Runs -> SrvRec] BY OfRun
<1>2. n \in GoodRec /\ s \in SrvRec BY DEF Pair
<1>3. run' \in [Runs -> GoodRec] /\ srv' \in [Runs -> SrvRec]
  BY <1>0, <1>1, <1>2
<1>4. /\ run'[r] = n /\ srv'[r] = s
      /\ \A x \in Runs : x # r => run'[x] = run[x] /\ srv'[x] = srv[x]
  BY <1>0, <1>1
<1>5. \A x \in Runs : Removing(x)' = Removing(x) /\ Marking(x)' = Marking(x)
  BY <1>0 DEF Removing, Marking
<1>6. Pairs'
  <2>1. ASSUME NEW x \in Runs
        PROVE  Pair(run'[x], srv'[x], Removing(x), Marking(x))
    <3>1. CASE x = r BY <1>4, <3>1
    <3>2. CASE x # r BY <1>4, <3>2 DEF IInv, Pairs
    <3> QED BY <3>1, <3>2
  <2>2. \A x \in Runs : Pair(run[x], srv[x], Removing(x), Marking(x))'
    BY <1>5, <2>1
  <2> QED BY <2>2 DEF Pairs
<1>7. ASSUME NEW c \in Clients PROVE Held(c)'
  <2>1. SUFFICES ASSUME answer[c].pc = "send"
                 PROVE  \/ /\ run'[answer[c].run].req = answer[c].kind
                           /\ answer[c].kind # "none"
                        \/ /\ run'[answer[c].run].pc = "done"
                           /\ srv'[answer[c].run].proc # "up"
    BY <1>0 DEF Held
  <2>2. CASE answer[c].run = r BY <1>4, <2>1, <2>2 DEF Taken
  <2>3. CASE answer[c].run # r
    <3>1. answer[c].run \in Runs BY <2>1 DEF IInv, Holders
    <3>2. Held(c) BY DEF IInv
    <3> QED BY <1>4, <2>1, <2>3, <3>1, <3>2 DEF Held
  <2> QED BY <2>2, <2>3
<1> QED BY <1>3, <1>4, <1>6, <1>7

\* A step that changes one run and its server keeps the invariant if it keeps
\* what the invariant says of the two.
LEMMA PairStep ==
  ASSUME IInv, NEW r \in Runs, r <= started, NEW n, NEW s,
         Becomes(r, n, s), OthersTyped',
         Pair(n, s, Removing(r), Marking(r)), Taken(r, n, s)
  PROVE  IInv'
<1>1. Changes(r, n, s) /\ UNCHANGED <<started, lock, answer>>
  BY DEF Becomes, Changes
<1>2. /\ run' \in [Runs -> GoodRec] /\ srv' \in [Runs -> SrvRec]
      /\ Pairs' /\ \A c \in Clients : Held(c)'
      /\ \A x \in Runs : x # r => run'[x] = run[x] /\ srv'[x] = srv[x]
  BY <1>1, PairsStep
<1>3. Registers' BY <1>1, <1>2 DEF IInv, Registers, OthersTyped
<1>4. Holders' BY <1>1 DEF IInv, Holders
<1>5. Unused'
  <2>1. ASSUME NEW x \in Runs, x > started
        PROVE  run'[x] = FreshRun /\ srv'[x] = FreshSrv
    <3>1. started \in Nat /\ r \in Nat BY DEF Runs, IInv, Registers
    <3>2. x # r BY <2>1, <3>1
    <3> QED BY <1>2, <2>1, <3>2 DEF IInv, Unused
  <2> QED BY <1>1, <2>1 DEF Unused
<1> QED BY <1>2, <1>3, <1>4, <1>5 DEF IInv

\* n is a run that went on from o without a new turn or a new question.
QuietRun(o, n) ==
  /\ n \in GoodRec
  /\ n.req = o.req /\ n.wall = o.wall /\ n.responding = o.responding
  /\ n.completed = o.completed
  /\ NoTurnYet(n) => NoTurnYet(o)
  /\ o.pc = "done" => n.pc = "done"

\* Quiet steps keep what is said of turns and questions.
LEMMA QuietPair ==
  ASSUME NEW o, NEW t, NEW A, NEW M, Pair(o, t, A, M), NEW n, NEW s,
         QuietRun(o, n), QuietSrv(t, s), Alive(n, s)
  PROVE  Pair(n, s, A, M)
<1>1. n \in GoodRec /\ s \in SrvRec /\ t \in SrvRec
  BY DEF QuietRun, QuietSrv, Pair
<1>2. /\ Turns(t) \in Nat /\ Turns(s) \in Nat
      /\ Questions(t) \in Nat /\ Questions(s) \in Nat
  BY <1>1, CountsTyped
<1>3. OneTurn(n, s) BY <1>2 DEF Pair, OneTurn, QuietRun, QuietSrv
<1>4. OneQuestion(n, s, A)
  <2>1. Open(n, A) = Open(o, A) BY DEF Open, QuietRun
  <2>2. Open(o, A) \in Nat BY DEF Open
  <2> QED BY <1>2, <2>1, <2>2 DEF Pair, OneQuestion, QuietSrv
<1>5. Walled(n, M) BY DEF Pair, Walled, QuietRun
<1> QED BY <1>1, <1>3, <1>4, <1>5 DEF Pair

\* Quiet steps keep the invariant.
LEMMA QuietStep ==
  ASSUME IInv, NEW r \in Runs, r <= started, NEW n, NEW s,
         Becomes(r, n, s), OthersTyped',
         QuietRun(run[r], n), QuietSrv(srv[r], s), Alive(n, s)
  PROVE  IInv'
<1>1. Pair(run[r], srv[r], Removing(r), Marking(r)) BY OfRun
<1>2. Pair(n, s, Removing(r), Marking(r)) BY <1>1, QuietPair
<1>3. ASSUME NEW c \in Clients, answer[c].pc = "send", answer[c].run = r
      PROVE  \/ n.req = answer[c].kind /\ answer[c].kind # "none"
             \/ n.pc = "done" /\ s.proc # "up"
  <2>1. Held(c) BY DEF IInv
  <2> QED BY <1>3, <2>1 DEF Held, QuietRun, QuietSrv
<1>4. Taken(r, n, s) BY <1>3 DEF Taken
<1> QED BY <1>2, <1>4, PairStep

\* Quiet steps of the run alone.
LEMMA QuietRunStep ==
  ASSUME IInv, NEW r \in Runs, r <= started, NEW n,
         run' = [run EXCEPT ![r] = n], UNCHANGED <<srv, started, lock, answer>>,
         OthersTyped',
         QuietRun(run[r], n), Alive(n, srv[r])
  PROVE  IInv'
<1>1. srv[r] \in SrvRec /\ srv \in [Runs -> SrvRec] BY OfRun
<1>2. QuietSrv(srv[r], srv[r]) BY <1>1, QuietFields
<1>3. Becomes(r, n, srv[r]) BY <1>1 DEF Becomes
<1> QED BY <1>2, <1>3, QuietStep

\* Quiet steps of the server alone.
LEMMA QuietSrvStep ==
  ASSUME IInv, NEW r \in Runs, r <= started, NEW s,
         srv' = [srv EXCEPT ![r] = s], UNCHANGED <<run, started, lock, answer>>,
         OthersTyped',
         QuietSrv(srv[r], s), s.waited => srv[r].waited \/ s.proc # "up"
  PROVE  IInv'
<1>1. /\ run[r] \in GoodRec /\ run \in [Runs -> GoodRec]
      /\ Pair(run[r], srv[r], Removing(r), Marking(r))
  BY OfRun
<1>2. QuietRun(run[r], run[r]) BY <1>1 DEF QuietRun
<1>3. Becomes(r, run[r], s) BY <1>1 DEF Becomes
<1>4. Alive(run[r], s) BY <1>1 DEF Pair, Alive, QuietSrv
<1> QED BY <1>2, <1>3, <1>4, QuietStep

\* No input on its way is a state of the steer.
LEMMA NoSteerTyped ==
  ASSUME IInv
  PROVE  NoSteer \in [pc : {"idle", "send", "wait"}, run : 0 .. started,
                      late : BOOLEAN]
<1>1. 0 \in 0 .. started BY DEF IInv, Registers
<1> QED BY <1>1 DEF NoSteer

\* Most steps leave the other registries alone.
LEMMA OthersLocal ==
  ASSUME IInv, UNCHANGED <<started, current, drain, steer, stop>>
  PROVE  OthersTyped'
BY DEF IInv, Registers, OthersTyped

\* A run that its step changed is still faithful.
LEMMA StillGood ==
  ASSUME RunsGood', NEW r \in Runs, NEW n, run \in [Runs -> GoodRec],
         run' = [run EXCEPT ![r] = n]
  PROVE  n \in GoodRec
BY DEF RunsGood

-----------------------------------------------------------------------------
\* The quiet steps of a run.

\* An accepted request leads on; a turn that was asked for is one already.
LEMMA RunProceedsKept == ASSUME IInv, NEW r \in Runs, RunProceeds(r) PROVE IInv'
<1>0. PICK pc \in After(run[r].pc) :
        run' = [run EXCEPT ![r].call = "none", ![r].pc = pc]
  BY DEF RunProceeds
<1> DEFINE n == [run[r] EXCEPT !.call = "none", !.pc = pc]
<1>8. /\ pc \in {"thread", "turn", "goal", "loop"}
      /\ pc = "thread" => run[r].pc = "init"
      /\ pc = "turn" => run[r].pc = "thread"
  BY DEF After
<1>1. /\ Pair(run[r], srv[r], Removing(r), Marking(r)) /\ RunsGood
      /\ run[r] \in GoodRec /\ run \in [Runs -> GoodRec]
  BY OfRun
<1>2. /\ run' = [run EXCEPT ![r] = n]
      /\ UNCHANGED <<srv, started, current, drain, lock, steer, answer, stop>>
  BY <1>0, <1>1 DEF RunProceeds, Local
<1>3. n \in GoodRec BY <1>1, <1>2, RunProceedsGood, StillGood
<1>9. /\ n.pc = pc /\ n.req = run[r].req /\ n.wall = run[r].wall
      /\ n.responding = run[r].responding /\ n.completed = run[r].completed
  BY <1>1 DEF GoodRec, RunRec
<1>10. run[r].pc # "done"
  BY <1>1 DEF RunProceeds, GoodRec, Faithful, Calls
<1>11. NoTurnYet(n) => NoTurnYet(run[r])
  BY <1>8, <1>9 DEF NoTurnYet, Starters
<1>4. QuietRun(run[r], n) BY <1>3, <1>9, <1>10, <1>11 DEF QuietRun
<1>5. Alive(n, srv[r])
  BY <1>1, <1>8 DEF Pair, Alive, GoodRec, RunRec, Calls, Faithful, RunProceeds
<1>6. r <= started BY <1>1, Used DEF RunProceeds, GoodRec, Faithful, Calls
<1>7. OthersTyped' BY <1>2, OthersLocal
<1> HIDE DEF n
<1> QED BY <1>2, <1>4, <1>5, <1>6, <1>7, QuietRunStep

\* Taking the cancellation is quiet.
LEMMA LoopCancelledKept == ASSUME IInv, NEW r \in Runs, LoopCancelled(r) PROVE IInv'
<1> DEFINE n == [run[r] EXCEPT !.cancelled = TRUE, !.pc = "close"]
<1>1. /\ Pair(run[r], srv[r], Removing(r), Marking(r)) /\ RunsGood
      /\ run[r] \in GoodRec /\ run \in [Runs -> GoodRec]
  BY OfRun
<1>2. /\ run' = [run EXCEPT ![r] = n]
      /\ UNCHANGED <<srv, started, current, drain, lock, steer, answer, stop>>
  BY <1>1 DEF LoopCancelled, Local
<1>3. n \in GoodRec BY <1>1, <1>2, LoopCancelledGood, StillGood
<1>4. QuietRun(run[r], n)
  BY <1>1, <1>3 DEF QuietRun, GoodRec, RunRec, NoTurnYet, Starters, LoopCancelled
<1>5. Alive(n, srv[r])
  BY <1>1 DEF Pair, Alive, GoodRec, RunRec, Calls, Faithful, LoopCancelled
<1>6. r <= started BY <1>1, Used DEF LoopCancelled, GoodRec, Faithful, Calls
<1>7. OthersTyped' BY <1>2, OthersLocal
<1> HIDE DEF n
<1> QED BY <1>2, <1>4, <1>5, <1>6, <1>7, QuietRunStep

\* The exit is seen after it happened.
LEMMA LoopSeesExitKept == ASSUME IInv, NEW r \in Runs, LoopSeesExit(r) PROVE IInv'
<1> DEFINE n == [run[r] EXCEPT !.exited = TRUE]
<1>1. /\ Pair(run[r], srv[r], Removing(r), Marking(r)) /\ RunsGood
      /\ run[r] \in GoodRec /\ run \in [Runs -> GoodRec]
  BY OfRun
<1>2. /\ run' = [run EXCEPT ![r] = n]
      /\ UNCHANGED <<srv, started, current, drain, lock, steer, answer, stop>>
  BY <1>1 DEF LoopSeesExit, Local
<1>3. n \in GoodRec BY <1>1, <1>2, LoopSeesExitGood, StillGood
<1>4. QuietRun(run[r], n)
  BY <1>1, <1>3 DEF QuietRun, GoodRec, RunRec, NoTurnYet, Starters, LoopSeesExit
<1>5. Alive(n, srv[r])
  BY <1>1 DEF Pair, Alive, GoodRec, RunRec, Calls, Faithful, LoopSeesExit
<1>6. r <= started BY <1>1, Used DEF LoopSeesExit, GoodRec, Faithful, Calls
<1>7. OthersTyped' BY <1>2, OthersLocal
<1> HIDE DEF n
<1> QED BY <1>2, <1>4, <1>5, <1>6, <1>7, QuietRunStep

\* The end of the output is only noted.
LEMMA LoopSeesEndKept == ASSUME IInv, NEW r \in Runs, LoopSeesEnd(r) PROVE IInv'
<1> DEFINE n == [run[r] EXCEPT !.drained = TRUE]
<1>1. /\ Pair(run[r], srv[r], Removing(r), Marking(r)) /\ RunsGood
      /\ run[r] \in GoodRec /\ run \in [Runs -> GoodRec]
  BY OfRun
<1>2. /\ run' = [run EXCEPT ![r] = n]
      /\ UNCHANGED <<srv, started, current, drain, lock, steer, answer, stop>>
  BY <1>1 DEF LoopSeesEnd, Local
<1>3. n \in GoodRec BY <1>1, <1>2, LoopSeesEndGood, StillGood
<1>4. QuietRun(run[r], n)
  BY <1>1, <1>3 DEF QuietRun, GoodRec, RunRec, NoTurnYet, Starters, LoopSeesEnd
<1>5. Alive(n, srv[r])
  BY <1>1 DEF Pair, Alive, GoodRec, RunRec, Calls, Faithful, LoopSeesEnd
<1>6. r <= started BY <1>1, Used DEF LoopSeesEnd, GoodRec, Faithful, Calls
<1>7. OthersTyped' BY <1>2, OthersLocal
<1> HIDE DEF n
<1> QED BY <1>2, <1>4, <1>5, <1>6, <1>7, QuietRunStep

\* Only a completed run has timers.
LEMMA GraceEndsKept == ASSUME IInv, NEW r \in Runs, GraceEnds(r) PROVE IInv'
<1> DEFINE n == [run[r] EXCEPT !.age = "grace"]
<1>1. /\ Pair(run[r], srv[r], Removing(r), Marking(r)) /\ RunsGood
      /\ run[r] \in GoodRec /\ run \in [Runs -> GoodRec]
  BY OfRun
<1>2. /\ run' = [run EXCEPT ![r] = n]
      /\ UNCHANGED <<srv, started, current, drain, lock, steer, answer, stop>>
  BY <1>1 DEF GraceEnds, Local
<1>3. n \in GoodRec BY <1>1, <1>2, GraceEndsGood, StillGood
<1>4. QuietRun(run[r], n)
  BY <1>1, <1>3 DEF QuietRun, GoodRec, RunRec, NoTurnYet, Starters, GraceEnds
<1>5. Alive(n, srv[r])
  BY <1>1 DEF Pair, Alive, GoodRec, RunRec, Calls, Faithful, GraceEnds
<1>6. r <= started BY <1>1, Used DEF GraceEnds, GoodRec, Faithful, Calls
<1>7. OthersTyped' BY <1>2, OthersLocal
<1> HIDE DEF n
<1> QED BY <1>2, <1>4, <1>5, <1>6, <1>7, QuietRunStep

\* Only a completed run has timers.
LEMMA LimitEndsKept == ASSUME IInv, NEW r \in Runs, LimitEnds(r) PROVE IInv'
<1> DEFINE n == [run[r] EXCEPT !.age = "limit"]
<1>1. /\ Pair(run[r], srv[r], Removing(r), Marking(r)) /\ RunsGood
      /\ run[r] \in GoodRec /\ run \in [Runs -> GoodRec]
  BY OfRun
<1>2. /\ run' = [run EXCEPT ![r] = n]
      /\ UNCHANGED <<srv, started, current, drain, lock, steer, answer, stop>>
  BY <1>1 DEF LimitEnds, Local
<1>3. n \in GoodRec BY <1>1, <1>2, LimitEndsGood, StillGood
<1>4. QuietRun(run[r], n)
  BY <1>1, <1>3 DEF QuietRun, GoodRec, RunRec, NoTurnYet, Starters, LimitEnds
<1>5. Alive(n, srv[r])
  BY <1>1 DEF Pair, Alive, GoodRec, RunRec, Calls, Faithful, LimitEnds
<1>6. r <= started BY <1>1, Used DEF LimitEnds, GoodRec, Faithful, Calls
<1>7. OthersTyped' BY <1>2, OthersLocal
<1> HIDE DEF n
<1> QED BY <1>2, <1>4, <1>5, <1>6, <1>7, QuietRunStep

\* Only a completed run leaves its server behind.
LEMMA LoopDetachesKept == ASSUME IInv, NEW r \in Runs, LoopDetaches(r) PROVE IInv'
<1> DEFINE n == [run[r] EXCEPT !.pc = "detach"]
<1>1. /\ Pair(run[r], srv[r], Removing(r), Marking(r)) /\ RunsGood
      /\ run[r] \in GoodRec /\ run \in [Runs -> GoodRec]
  BY OfRun
<1>2. /\ run' = [run EXCEPT ![r] = n]
      /\ UNCHANGED <<srv, started, current, drain, lock, steer, answer, stop>>
  BY <1>1 DEF LoopDetaches, Local
<1>3. n \in GoodRec BY <1>1, <1>2, LoopDetachesGood, StillGood
<1>4. QuietRun(run[r], n)
  BY <1>1, <1>3 DEF QuietRun, GoodRec, RunRec, NoTurnYet, Starters, LoopDetaches
<1>5. Alive(n, srv[r])
  BY <1>1 DEF Pair, Alive, GoodRec, RunRec, Calls, Faithful, LoopDetaches
<1>6. r <= started BY <1>1, Used DEF LoopDetaches, GoodRec, Faithful, Calls
<1>7. OthersTyped' BY <1>2, OthersLocal
<1> HIDE DEF n
<1> QED BY <1>2, <1>4, <1>5, <1>6, <1>7, QuietRunStep

\* The loop ends after the server has left.
LEMMA LoopEndsKept == ASSUME IInv, NEW r \in Runs, LoopEnds(r) PROVE IInv'
<1> DEFINE n == [run[r] EXCEPT !.pc = "report"]
<1>1. /\ Pair(run[r], srv[r], Removing(r), Marking(r)) /\ RunsGood
      /\ run[r] \in GoodRec /\ run \in [Runs -> GoodRec]
  BY OfRun
<1>2. /\ run' = [run EXCEPT ![r] = n]
      /\ UNCHANGED <<srv, started, current, drain, lock, steer, answer, stop>>
  BY <1>1 DEF LoopEnds, Local
<1>3. n \in GoodRec BY <1>1, <1>2, LoopEndsGood, StillGood
<1>4. QuietRun(run[r], n)
  BY <1>1, <1>3 DEF QuietRun, GoodRec, RunRec, NoTurnYet, Starters, LoopEnds
<1>5. Alive(n, srv[r])
  BY <1>1 DEF Pair, Alive, GoodRec, RunRec, Calls, Faithful, LoopEnds
<1>6. r <= started BY <1>1, Used DEF LoopEnds, GoodRec, Faithful, Calls
<1>7. OthersTyped' BY <1>2, OthersLocal
<1> HIDE DEF n
<1> QED BY <1>2, <1>4, <1>5, <1>6, <1>7, QuietRunStep

\* A failed start takes its server with it.
LEMMA RunTearsDownKept == ASSUME IInv, NEW r \in Runs, RunTearsDown(r) PROVE IInv'
<1> DEFINE n == [run[r] EXCEPT !.pc = "report"]
           s == Shut(Killed(srv[r]))
<1>1. /\ Pair(run[r], srv[r], Removing(r), Marking(r)) /\ RunsGood
      /\ run[r] \in GoodRec /\ run \in [Runs -> GoodRec] /\ srv[r] \in SrvRec
  BY OfRun
<1>2. Becomes(r, n, s) /\ UNCHANGED <<drain, steer, stop>>
  BY <1>1 DEF Becomes, RunTearsDown, Local
<1>3. n \in GoodRec BY <1>1, <1>2, RunTearsDownGood, StillGood DEF Becomes
<1>4. QuietRun(run[r], n)
  BY <1>1, <1>3 DEF QuietRun, GoodRec, RunRec, NoTurnYet, Starters, RunTearsDown
<1>5. QuietSrv(srv[r], s) /\ s.proc = "gone" /\ s.waited = srv[r].waited
  BY <1>1, DownQuiet
<1>6. Alive(n, s)
  <2> HIDE DEF s
  <2> QED BY <1>1, <1>5 DEF Pair, Alive, GoodRec, RunRec, Calls, RunTearsDown
<1>7. r <= started BY <1>1, Used DEF RunTearsDown, GoodRec, Faithful, Calls
<1>8. OthersTyped'
  BY <1>2 DEF Becomes, OthersTyped, IInv, Registers, RunTearsDown, Local
<1> HIDE DEF n, s
<1> QED BY <1>2, <1>4, <1>5, <1>6, <1>7, <1>8, QuietStep

\* Closing the input after the turn is quiet.
LEMMA LoopSettlesKept == ASSUME IInv, NEW r \in Runs, LoopSettles(r) PROVE IInv'
<1> DEFINE n == [run[r] EXCEPT !.pc = "loop"]
           s == Shut(srv[r])
<1>1. /\ Pair(run[r], srv[r], Removing(r), Marking(r)) /\ RunsGood
      /\ run[r] \in GoodRec /\ run \in [Runs -> GoodRec] /\ srv[r] \in SrvRec
  BY OfRun
<1>2. Becomes(r, n, s) /\ UNCHANGED <<drain, steer, stop>>
  BY <1>1 DEF Becomes, LoopSettles, Local
<1>3. n \in GoodRec BY <1>1, <1>2, LoopSettlesGood, StillGood DEF Becomes
<1>4. QuietRun(run[r], n)
  BY <1>1, <1>3 DEF QuietRun, GoodRec, RunRec, NoTurnYet, Starters, LoopSettles
<1>5. QuietSrv(srv[r], s) /\ s.proc = srv[r].proc /\ s.waited = srv[r].waited
  BY <1>1, ShutQuiet
<1>6. Alive(n, s)
  <2> HIDE DEF s
  <2> QED BY <1>1, <1>5 DEF Pair, Alive, GoodRec, RunRec, Calls, LoopSettles
<1>7. r <= started BY <1>1, Used DEF LoopSettles, GoodRec, Faithful, Calls
<1>8. OthersTyped'
  BY <1>2 DEF Becomes, OthersTyped, IInv, Registers, LoopSettles, Local
<1> HIDE DEF n, s
<1> QED BY <1>2, <1>4, <1>5, <1>6, <1>7, <1>8, QuietStep

\* A cancelled run kills its server.
LEMMA LoopClosesKept == ASSUME IInv, NEW r \in Runs, LoopCloses(r) PROVE IInv'
<1> DEFINE n == [run[r] EXCEPT !.pc = "loop"]
           s == Shut(Killed(srv[r]))
<1>1. /\ Pair(run[r], srv[r], Removing(r), Marking(r)) /\ RunsGood
      /\ run[r] \in GoodRec /\ run \in [Runs -> GoodRec] /\ srv[r] \in SrvRec
  BY OfRun
<1>2. Becomes(r, n, s) /\ UNCHANGED <<drain, steer, stop>>
  BY <1>1 DEF Becomes, LoopCloses, Local
<1>3. n \in GoodRec BY <1>1, <1>2, LoopClosesGood, StillGood DEF Becomes
<1>4. QuietRun(run[r], n)
  BY <1>1, <1>3 DEF QuietRun, GoodRec, RunRec, NoTurnYet, Starters, LoopCloses
<1>5. QuietSrv(srv[r], s) /\ s.proc = "gone" /\ s.waited = srv[r].waited
  BY <1>1, DownQuiet
<1>6. Alive(n, s)
  <2> HIDE DEF s
  <2> QED BY <1>1, <1>5 DEF Pair, Alive, GoodRec, RunRec, Calls, LoopCloses
<1>7. r <= started BY <1>1, Used DEF LoopCloses, GoodRec, Faithful, Calls
<1>8. OthersTyped'
  BY <1>2 DEF Becomes, OthersTyped, IInv, Registers, LoopCloses, Local
<1> HIDE DEF n, s
<1> QED BY <1>2, <1>4, <1>5, <1>6, <1>7, <1>8, QuietStep

\* A server that does not leave is killed.
LEMMA LoopKillsKept == ASSUME IInv, NEW r \in Runs, LoopKills(r) PROVE IInv'
<1> DEFINE n == [run[r] EXCEPT !.killed = TRUE]
           s == Shut(Killed(srv[r]))
<1>1. /\ Pair(run[r], srv[r], Removing(r), Marking(r)) /\ RunsGood
      /\ run[r] \in GoodRec /\ run \in [Runs -> GoodRec] /\ srv[r] \in SrvRec
  BY OfRun
<1>2. Becomes(r, n, s) /\ UNCHANGED <<drain, steer, stop>>
  BY <1>1 DEF Becomes, LoopKills, Local
<1>3. n \in GoodRec BY <1>1, <1>2, LoopKillsGood, StillGood DEF Becomes
<1>4. QuietRun(run[r], n)
  BY <1>1, <1>3 DEF QuietRun, GoodRec, RunRec, NoTurnYet, Starters, LoopKills
<1>5. QuietSrv(srv[r], s) /\ s.proc = "gone" /\ s.waited = srv[r].waited
  BY <1>1, DownQuiet
<1>6. Alive(n, s)
  <2> HIDE DEF s
  <2> QED BY <1>1, <1>5 DEF Pair, Alive, GoodRec, RunRec, Calls, LoopKills
<1>7. r <= started BY <1>1, Used DEF LoopKills, GoodRec, Faithful, Calls
<1>8. OthersTyped'
  BY <1>2 DEF Becomes, OthersTyped, IInv, Registers, LoopKills, Local
<1> HIDE DEF n, s
<1> QED BY <1>2, <1>4, <1>5, <1>6, <1>7, <1>8, QuietStep

\* A completed run leaves its server behind.
LEMMA LoopLeavesKept == ASSUME IInv, NEW r \in Runs, LoopLeaves(r) PROVE IInv'
<1> DEFINE n == [run[r] EXCEPT !.pc = "report"]
           s == Shut(srv[r])
<1>1. /\ Pair(run[r], srv[r], Removing(r), Marking(r)) /\ RunsGood
      /\ run[r] \in GoodRec /\ run \in [Runs -> GoodRec] /\ srv[r] \in SrvRec
  BY OfRun
<1>2. Becomes(r, n, s) /\ UNCHANGED <<drain, steer, stop>>
  BY <1>1 DEF Becomes, LoopLeaves, Local
<1>3. n \in GoodRec BY <1>1, <1>2, LoopLeavesGood, StillGood DEF Becomes
<1>4. QuietRun(run[r], n)
  BY <1>1, <1>3 DEF QuietRun, GoodRec, RunRec, NoTurnYet, Starters, LoopLeaves
<1>5. QuietSrv(srv[r], s) /\ s.proc = srv[r].proc /\ s.waited = srv[r].waited
  BY <1>1, ShutQuiet
<1>6. Alive(n, s)
  <2> HIDE DEF s
  <2> QED BY <1>1, <1>5 DEF Pair, Alive, GoodRec, RunRec, Calls, LoopLeaves
<1>7. r <= started BY <1>1, Used DEF LoopLeaves, GoodRec, Faithful, Calls
<1>8. OthersTyped'
  BY <1>2 DEF Becomes, OthersTyped, IInv, Registers, LoopLeaves, Local
<1> HIDE DEF n, s
<1> QED BY <1>2, <1>4, <1>5, <1>6, <1>7, <1>8, QuietStep

\* An error while a request is made ends in a run without a server, or in one
\* that is torn down.
LEMMA FailsKept ==
  ASSUME IInv, NEW r \in Runs, run[r].pc \in Calls, Fails(r), Local
  PROVE  IInv'
<1>1. /\ Pair(run[r], srv[r], Removing(r), Marking(r)) /\ RunsGood
      /\ run[r] \in GoodRec /\ run \in [Runs -> GoodRec] /\ srv[r] \in SrvRec
      /\ srv \in [Runs -> SrvRec]
  BY OfRun
<1>2. r <= started BY <1>1, Used DEF Calls
<1>3. OthersTyped' BY OthersLocal DEF Local
<1>4. RunsGood' BY <1>1, FailsGood
<1>5. CASE run[r].pc = "again"
  <2> DEFINE n == [run[r] EXCEPT !.pc = "loop", !.call = "none"]
             s == Killed(srv[r])
  <2>1. Becomes(r, n, s) BY <1>1, <1>5 DEF Becomes, Fails, Local
  <2>2. n \in GoodRec BY <1>1, <1>4, <2>1, StillGood DEF Becomes
  <2>3. QuietRun(run[r], n)
    BY <1>1, <1>5, <2>2 DEF QuietRun, GoodRec, RunRec, NoTurnYet, Starters
  <2>4. QuietSrv(srv[r], s) /\ s.proc = "gone" /\ s.waited = srv[r].waited
    BY <1>1, KilledQuiet
  <2>5. Alive(n, s)
    <3> HIDE DEF s
    <3> QED BY <1>1, <2>4 DEF Pair, Alive, GoodRec, RunRec, Calls
  <2> HIDE DEF n, s
  <2> QED BY <1>2, <1>3, <2>1, <2>3, <2>4, <2>5, QuietStep
<1>6. CASE run[r].pc # "again"
  <2> DEFINE n == [run[r] EXCEPT !.pc = "failing", !.call = "none"]
  <2>1. run' = [run EXCEPT ![r] = n] /\ UNCHANGED <<srv, started, lock, answer>>
    BY <1>1, <1>6 DEF Fails, Local
  <2>2. n \in GoodRec BY <1>1, <1>4, <2>1, StillGood
  <2>3. QuietRun(run[r], n)
    BY <1>1, <2>2 DEF QuietRun, GoodRec, RunRec, NoTurnYet, Starters, Calls
  <2>4. Alive(n, srv[r])
    BY <1>1 DEF Pair, Alive, GoodRec, RunRec, Calls
  <2> HIDE DEF n
  <2> QED BY <1>2, <1>3, <2>1, <2>3, <2>4, QuietRunStep
<1> QED BY <1>5, <1>6

\* A request without a response fails the run.
LEMMA RunGivesUpKept == ASSUME IInv, NEW r \in Runs, RunGivesUp(r) PROVE IInv'
<1>1. run[r] \in GoodRec BY OfRun
<1>2. run[r].pc \in Calls BY <1>1 DEF GoodRec, Faithful, RunGivesUp
<1> QED BY <1>2, FailsKept DEF RunGivesUp

\* A refused request is repeated before there is a turn, or fails the run.
LEMMA RunRefusedKept == ASSUME IInv, NEW r \in Runs, RunRefused(r) PROVE IInv'
<1>1. /\ Pair(run[r], srv[r], Removing(r), Marking(r)) /\ RunsGood
      /\ run[r] \in GoodRec /\ run \in [Runs -> GoodRec]
  BY OfRun
<1>2. run[r].pc \in Calls BY <1>1 DEF GoodRec, Faithful, RunRefused
<1>3. CASE Fails(r) BY <1>2, <1>3, FailsKept DEF RunRefused
<1>4. CASE /\ run[r].pc = "thread" /\ UNCHANGED srv
           /\ run' = [run EXCEPT ![r].call = "none", ![r].tries = @ + 1]
  <2> DEFINE n == [run[r] EXCEPT !.call = "none", !.tries = @ + 1]
  <2>1. /\ run' = [run EXCEPT ![r] = n]
        /\ UNCHANGED <<srv, started, current, drain, lock, steer, answer, stop>>
    BY <1>1, <1>4 DEF RunRefused, Local
  <2>2. n \in GoodRec BY <1>1, <2>1, RunRefusedGood, StillGood
  <2>3. QuietRun(run[r], n)
    BY <1>1, <1>4, <2>2 DEF QuietRun, GoodRec, RunRec, NoTurnYet, Starters
  <2>4. Alive(n, srv[r]) BY <1>1, <1>4 DEF Pair, Alive, GoodRec, RunRec, Calls
  <2>5. r <= started BY <1>4, Used
  <2>6. OthersTyped' BY <2>1, OthersLocal
  <2> HIDE DEF n
  <2> QED BY <2>1, <2>3, <2>4, <2>5, <2>6, QuietRunStep
<1> QED BY <1>3, <1>4 DEF RunRefused

\* A turn is asked for only when there is none.
LEMMA RunRequestsKept == ASSUME IInv, NEW r \in Runs, RunRequests(r) PROVE IInv'
<1>1. /\ Pair(run[r], srv[r], Removing(r), Marking(r)) /\ RunsGood
      /\ run[r] \in GoodRec /\ run \in [Runs -> GoodRec] /\ srv[r] \in SrvRec
  BY OfRun
<1>2. run[r].pc \in Calls /\ run[r].call = "none" BY DEF RunRequests
<1>3. CASE ~ Writable(r) BY <1>2, <1>3, FailsKept DEF RunRequests
<1>4. CASE Writable(r)
  <2> DEFINE n == [run[r] EXCEPT !.call = "wait"]
             s == Sent(srv[r], "main", run[r].pc)
             d == IF run[r].pc \in Starters THEN 1 ELSE 0
             e == IF run[r].pc \in {"answer"} THEN 1 ELSE 0
  <2>1. Becomes(r, n, s) /\ UNCHANGED <<current, drain, steer, stop>>
    BY <1>1, <1>4 DEF Becomes, RunRequests, Local
  <2>2. n \in GoodRec BY <1>1, <2>1, RunRequestsGood, StillGood DEF Becomes
  <2>3. "main" \in Endpoints /\ run[r].pc \in Written
    BY <1>2 DEF Endpoints, Written
  <2>4. /\ s \in SrvRec /\ s.asks = srv[r].asks /\ s.turn = srv[r].turn
        /\ s.proc = srv[r].proc /\ s.waited = srv[r].waited
        /\ Turns(s) = Turns(srv[r]) + d /\ Questions(s) = Questions(srv[r]) + e
    BY <1>1, <2>3, SentCounts
  <2>5. e = 0 BY <1>2 DEF Calls
  <2>6. /\ n.call = "wait" /\ n.pc = run[r].pc /\ n.req = run[r].req
        /\ n.wall = run[r].wall /\ n.responding = run[r].responding
        /\ n.completed = run[r].completed /\ n.age = run[r].age
        /\ n.exited = run[r].exited
    BY <1>1 DEF GoodRec, RunRec
  <2> HIDE DEF n, s, e
  <2>7. Turns(srv[r]) \in Nat /\ Questions(srv[r]) \in Nat BY <1>1, CountsTyped
  <2>8. Alive(n, s) /\ ~ n.completed BY <1>1, <1>2, <2>4, <2>6 DEF Pair, Alive
  <2>9. OneTurn(n, s)
    <3>1. CASE run[r].pc \in Starters
      <4>1. Turns(srv[r]) = 0 BY <1>1, <1>2, <3>1 DEF Pair, OneTurn, NoTurnYet
      <4>2. ~ NoTurnYet(n) BY <2>6, <3>1 DEF NoTurnYet, Starters
      <4> QED BY <1>1, <2>4, <2>8, <3>1, <4>1, <4>2 DEF Pair, OneTurn
    <3>2. CASE run[r].pc \notin Starters
      <4>1. d = 0 BY <3>2
      <4>2. NoTurnYet(n) => NoTurnYet(run[r])
        BY <2>6, <3>2 DEF NoTurnYet, Starters
      <4> QED BY <1>1, <2>4, <2>7, <2>8, <4>1, <4>2 DEF Pair, OneTurn
    <3> QED BY <3>1, <3>2
  <2>10. OneQuestion(n, s, Removing(r))
    BY <1>1, <2>4, <2>5, <2>6, <2>7 DEF Pair, OneQuestion, Open
  <2>11. Walled(n, Marking(r)) BY <1>1, <2>6 DEF Pair, Walled
  <2>12. Pair(n, s, Removing(r), Marking(r))
    BY <2>2, <2>4, <2>8, <2>9, <2>10, <2>11 DEF Pair
  <2>13. Taken(r, n, s)
    BY <1>2, <2>6 DEF Taken, IInv, Held, Calls
  <2>14. r <= started BY <1>2, Used DEF Calls
  <2>15. OthersTyped' BY <2>1, OthersLocal DEF Becomes
  <2> QED BY <2>1, <2>12, <2>13, <2>14, <2>15, PairStep
<1> QED BY <1>3, <1>4

\* A steered input is only counted.
LEMMA SteerPassesKept == ASSUME IInv, SteerPasses PROVE IInv'
<1>0. current \in Runs /\ current <= started
  BY DEF SteerPasses, IInv, Registers, Runs
<1> DEFINE r == current
           n == [run[r] EXCEPT !.steers = @ + 1]
<1>1. /\ Pair(run[r], srv[r], Removing(r), Marking(r)) /\ RunsGood
      /\ run[r] \in GoodRec /\ run \in [Runs -> GoodRec]
  BY <1>0, OfRun
<1>2. /\ run' = [run EXCEPT ![r] = n] /\ UNCHANGED <<srv, started, lock, answer>>
      /\ UNCHANGED <<current, drain, stop>> /\ steer' = [pc |-> "send", run |-> r, late |-> FALSE]
  BY <1>1 DEF SteerPasses
<1>3. n \in GoodRec BY <1>0, <1>1, <1>2, SteerPassesGood, StillGood
<1>4. QuietRun(run[r], n)
  BY <1>1, <1>3 DEF QuietRun, GoodRec, RunRec, NoTurnYet, Starters
<1>5. Alive(n, srv[r]) BY <1>1 DEF Pair, Alive, GoodRec, RunRec
<1>6. OthersTyped' BY <1>2 DEF OthersTyped, IInv, Registers
<1> HIDE DEF n
<1> QED BY <1>0, <1>2, <1>4, <1>5, <1>6, QuietRunStep

-----------------------------------------------------------------------------
\* The server and its readers.

\* A server that goes on without more turns than before; a request it makes, or
\* takes the answer to, is made or answered once.
LEMMA SrvStep ==
  ASSUME IInv, NEW r \in Runs, r <= started, NEW s \in SrvRec,
         srv' = [srv EXCEPT ![r] = s],
         UNCHANGED <<run, started, lock, answer>>, OthersTyped',
         Turns(s) <= Turns(srv[r]), s.asks # "none" => s.turn = "active",
         Questions(s) + (IF srv[r].asks = "none" THEN 0 ELSE 1)
           <= Questions(srv[r]) + (IF s.asks = "none" THEN 0 ELSE 1),
         s.proc = srv[r].proc, s.waited = srv[r].waited
  PROVE  IInv'
<1>1. /\ Pair(run[r], srv[r], Removing(r), Marking(r)) /\ RunsGood
      /\ run[r] \in GoodRec /\ run \in [Runs -> GoodRec] /\ srv[r] \in SrvRec
  BY OfRun
<1>2. /\ Turns(s) \in Nat /\ Turns(srv[r]) \in Nat
      /\ Questions(s) \in Nat /\ Questions(srv[r]) \in Nat
  BY <1>1, CountsTyped
<1>3. OneTurn(run[r], s) BY <1>1, <1>2 DEF Pair, OneTurn
<1>4. OneQuestion(run[r], s, Removing(r))
  <2>1. Open(run[r], Removing(r)) \in Nat BY DEF Open
  <2> QED BY <1>1, <1>2, <2>1 DEF Pair, OneQuestion
<1>5. Alive(run[r], s) BY <1>1 DEF Pair, Alive
<1>6. Pair(run[r], s, Removing(r), Marking(r)) BY <1>1, <1>3, <1>4, <1>5 DEF Pair
<1>7. Becomes(r, run[r], s) BY <1>1 DEF Becomes
<1>8. Taken(r, run[r], s) BY DEF Taken, IInv, Held
<1> QED BY <1>6, <1>7, <1>8, PairStep

\* A server says m: one more message to read.
LEMMA SaysCounts ==
  ASSUME NEW t \in SrvRec, NEW s, NEW m \in Told,
         s.in = t.in, s.out = Append(t.out, m), s.incoming = t.incoming
  PROVE  /\ Count(s.out, Endings)
              = Count(t.out, Endings) + (IF m \in Endings THEN 1 ELSE 0)
         /\ Questions(s) = Questions(t) + (IF m \in Asks THEN 1 ELSE 0)
<1>1. t.out \in Seq(Told) BY DEF SrvRec
<1> DEFINE d == IF m \in Asks THEN 1 ELSE 0
<1>2. /\ Count(s.out, Endings)
           = Count(t.out, Endings) + (IF m \in Endings THEN 1 ELSE 0)
      /\ Count(s.out, Asks) = Count(t.out, Asks) + d
  BY <1>1, CountAppend
<1>3. d \in Nat OBVIOUS
<1> HIDE DEF d
<1>4. \A S : /\ Count(t.in, S) \in Nat /\ Count(t.out, S) \in Nat
             /\ Count(t.incoming, S) \in Nat
  BY CountsTyped
<1>5. Questions(s) = Questions(t) + d BY <1>2, <1>3, <1>4 DEF Questions
<1> QED BY <1>2, <1>5 DEF d

\* A notice is neither a turn nor a question.
LEMMA ServerNotesKept == ASSUME IInv, NEW r \in Runs, ServerNotes(r) PROVE IInv'
<1> DEFINE t == srv[r]
           s == [t EXCEPT !.out = Append(@, "note"), !.said = @ + 1]
<1>1. t \in SrvRec /\ srv \in [Runs -> SrvRec] BY OfRun
<1>2. t.out \in Seq(Told) /\ "note" \in Told /\ t.said + 1 \in 0 .. MaxSaid
  BY <1>1 DEF SrvRec, Told, ServerNotes
<1>3. Append(t.out, "note") \in Seq(Told) BY <1>2
<1>4. s \in SrvRec BY <1>1, <1>2, <1>3 DEF SrvRec
<1>5. /\ srv' = [srv EXCEPT ![r] = s] /\ UNCHANGED <<run, started, lock, answer>>
      /\ UNCHANGED <<current, drain, steer, stop>>
  BY <1>1 DEF ServerNotes
<1>6. /\ s.in = t.in /\ s.out = Append(t.out, "note") /\ s.incoming = t.incoming
      /\ s.turn = t.turn /\ s.asks = t.asks /\ s.proc = t.proc
      /\ s.waited = t.waited
  BY <1>1 DEF SrvRec
<1> HIDE DEF s
<1>7. /\ Count(s.out, Endings) = Count(t.out, Endings) + 0
      /\ Questions(s) = Questions(t) + 0
  BY <1>1, <1>2, <1>6, SaysCounts DEF Endings, Asks
<1>8. \A S : Count(t.out, S) \in Nat BY <1>1, CountsTyped
<1>9. Questions(t) \in Nat /\ Turns(t) \in Nat BY <1>1, CountsTyped
<1>10. Turns(s) = Turns(t) BY <1>6, <1>7, <1>8 DEF Turns
<1>11. QuietSrv(t, s) BY <1>4, <1>6, <1>7, <1>9, <1>10 DEF QuietSrv
<1>12. r <= started BY Used DEF ServerNotes, Says
<1>13. OthersTyped' BY <1>5, OthersLocal
<1> QED BY <1>5, <1>6, <1>11, <1>12, <1>13, QuietSrvStep

\* The server asks when nothing is open.
LEMMA ServerAsksKept == ASSUME IInv, NEW r \in Runs, ServerAsks(r) PROVE IInv'
<1>1. srv[r] \in SrvRec /\ srv \in [Runs -> SrvRec] BY OfRun
<1>2. PICK k \in Asks :
        /\ Says(r, k)
        /\ srv' = [srv EXCEPT ![r].out = Append(@, k), ![r].asks = k,
                              ![r].said = @ + 1]
  BY DEF ServerAsks
<1> DEFINE t == srv[r]
           s == [t EXCEPT !.out = Append(@, k), !.asks = k, !.said = @ + 1]
<1>3. /\ t.out \in Seq(Told) /\ k \in Told /\ t.said + 1 \in 0 .. MaxSaid
      /\ t.turn = "active" /\ t.asks = "none"
  BY <1>1, <1>2 DEF SrvRec, Told, ServerAsks
<1>4. Append(t.out, k) \in Seq(Told) BY <1>3
<1>5. s \in SrvRec BY <1>1, <1>3, <1>4 DEF SrvRec
<1>6. /\ srv' = [srv EXCEPT ![r] = s] /\ UNCHANGED <<run, started, lock, answer>>
      /\ UNCHANGED <<current, drain, steer, stop>>
  BY <1>1, <1>2 DEF ServerAsks
<1>7. /\ s.in = t.in /\ s.out = Append(t.out, k) /\ s.incoming = t.incoming
      /\ s.turn = t.turn /\ s.asks = k /\ s.proc = t.proc /\ s.waited = t.waited
  BY <1>1 DEF SrvRec
<1> HIDE DEF s
<1>8. k # "none" /\ k \notin Endings BY DEF Asks, Endings
<1>9. /\ Count(s.out, Endings) = Count(t.out, Endings) + 0
      /\ Questions(s) = Questions(t) + 1
  BY <1>1, <1>3, <1>7, <1>8, SaysCounts
<1>10. \A S : Count(t.out, S) \in Nat BY <1>1, CountsTyped
<1>11. Questions(t) \in Nat /\ Turns(t) \in Nat BY <1>1, CountsTyped
<1>12. Turns(s) = Turns(t) BY <1>7, <1>9, <1>10 DEF Turns
<1>13. Questions(s) + (IF t.asks = "none" THEN 0 ELSE 1)
        <= Questions(t) + (IF s.asks = "none" THEN 0 ELSE 1)
  BY <1>3, <1>7, <1>8, <1>9, <1>11
<1>14. r <= started BY <1>2, Used DEF Says
<1>15. OthersTyped' BY <1>6, OthersLocal
<1>16. Turns(s) <= Turns(t) /\ (s.asks # "none" => s.turn = "active")
  BY <1>3, <1>7, <1>11, <1>12
<1> QED BY <1>5, <1>6, <1>7, <1>13, <1>14, <1>15, <1>16, SrvStep

\* The end of a turn goes on its way; no request is open then.
LEMMA ServerEndsTurnKept ==
  ASSUME IInv, NEW r \in Runs, ServerEndsTurn(r)
  PROVE  IInv'
<1>1. srv[r] \in SrvRec /\ srv \in [Runs -> SrvRec] BY OfRun
<1>2. PICK k \in Endings :
        /\ Says(r, k)
        /\ srv' = [srv EXCEPT ![r].out = Append(@, k), ![r].turn = "idle"]
  BY DEF ServerEndsTurn
<1> DEFINE t == srv[r]
           s == [t EXCEPT !.out = Append(@, k), !.turn = "idle"]
<1>3. /\ t.out \in Seq(Told) /\ k \in Told
      /\ t.turn = "active" /\ t.asks = "none"
  BY <1>1, <1>2 DEF SrvRec, Told, ServerEndsTurn
<1>4. Append(t.out, k) \in Seq(Told) BY <1>3
<1>5. s \in SrvRec BY <1>1, <1>3, <1>4 DEF SrvRec
<1>6. /\ srv' = [srv EXCEPT ![r] = s] /\ UNCHANGED <<run, started, lock, answer>>
      /\ UNCHANGED <<current, drain, steer, stop>>
  BY <1>1, <1>2 DEF ServerEndsTurn
<1>7. /\ s.in = t.in /\ s.out = Append(t.out, k) /\ s.incoming = t.incoming
      /\ s.turn = "idle" /\ s.asks = t.asks /\ s.proc = t.proc
      /\ s.waited = t.waited
  BY <1>1 DEF SrvRec
<1> HIDE DEF s
<1>8. k \notin Asks BY DEF Asks, Endings
<1>9. /\ Count(s.out, Endings) = Count(t.out, Endings) + 1
      /\ Questions(s) = Questions(t) + 0
  BY <1>1, <1>3, <1>7, <1>8, SaysCounts
<1>10. \A S : /\ Count(t.in, S) \in Nat /\ Count(t.out, S) \in Nat
              /\ Count(t.incoming, S) \in Nat
  BY <1>1, CountsTyped
<1>11. Questions(t) \in Nat /\ Turns(t) \in Nat BY <1>1, CountsTyped
<1>12. Turns(s) = Turns(t) BY <1>3, <1>7, <1>9, <1>10 DEF Turns
<1>13. Questions(s) + (IF t.asks = "none" THEN 0 ELSE 1)
        <= Questions(t) + (IF s.asks = "none" THEN 0 ELSE 1)
  BY <1>3, <1>7, <1>9, <1>11
<1>14. r <= started BY <1>2, Used DEF Says
<1>15. OthersTyped' BY <1>6, OthersLocal
<1>16. Turns(s) <= Turns(t) /\ (s.asks # "none" => s.turn = "active")
  BY <1>3, <1>7, <1>11, <1>12
<1> QED BY <1>5, <1>6, <1>7, <1>13, <1>14, <1>15, <1>16, SrvStep

\* A server that leaves is quiet.
LEMMA ServerExitsKept == ASSUME IInv, NEW r \in Runs, ServerExits(r) PROVE IInv'
<1> DEFINE s == Killed(srv[r])
<1>1. srv[r] \in SrvRec BY OfRun
<1>2. /\ srv' = [srv EXCEPT ![r] = s] /\ UNCHANGED <<run, started, lock, answer>>
      /\ UNCHANGED <<current, drain, steer, stop>>
  BY DEF ServerExits
<1>3. QuietSrv(srv[r], s) /\ s.proc = "gone" /\ s.waited = srv[r].waited
  BY <1>1, KilledQuiet
<1>4. r <= started BY Used DEF ServerExits
<1>5. OthersTyped' BY <1>2, OthersLocal
<1> HIDE DEF s
<1> QED BY <1>2, <1>3, <1>4, <1>5, QuietSrvStep

\* The end of the output is quiet.
LEMMA ReaderEndsKept == ASSUME IInv, NEW r \in Runs, ReaderEnds(r) PROVE IInv'
<1> DEFINE t == srv[r]
           s == [t EXCEPT !.closed = TRUE]
<1>1. t \in SrvRec /\ srv \in [Runs -> SrvRec] BY OfRun
<1>2. /\ srv' = [srv EXCEPT ![r] = s] /\ UNCHANGED <<run, started, lock, answer>>
      /\ UNCHANGED <<current, drain, steer, stop>>
  BY <1>1 DEF ReaderEnds
<1>3. /\ s \in SrvRec /\ s.in = t.in /\ s.out = t.out /\ s.incoming = t.incoming
      /\ s.turn = t.turn /\ s.asks = t.asks /\ s.proc = t.proc
      /\ s.waited = t.waited
  BY <1>1 DEF SrvRec
<1> HIDE DEF s
<1>4. QuietSrv(t, s) BY <1>1, <1>3, QuietFields
<1>5. r <= started BY Used DEF ReaderEnds
<1>6. OthersTyped' BY <1>2, OthersLocal
<1> QED BY <1>2, <1>3, <1>4, <1>5, <1>6, QuietSrvStep

\* Output that nobody had read is lost.
LEMMA WaiterReturnsKept ==
  ASSUME IInv, NEW r \in Runs, WaiterReturns(r)
  PROVE  IInv'
<1> DEFINE t == srv[r]
           s == [t EXCEPT !.waited = TRUE, !.out = <<>>]
<1>1. t \in SrvRec /\ srv \in [Runs -> SrvRec] BY OfRun
<1>2. /\ srv' = [srv EXCEPT ![r] = s] /\ UNCHANGED <<run, started, lock, answer>>
      /\ UNCHANGED <<current, drain, steer, stop>> /\ t.proc = "gone"
  BY <1>1 DEF WaiterReturns
<1>3. <<>> \in Seq(Told) OBVIOUS
<1>4. s \in SrvRec BY <1>1, <1>3 DEF SrvRec
<1>5. /\ s.in = t.in /\ s.out = <<>> /\ s.incoming = t.incoming
      /\ s.turn = t.turn /\ s.asks = t.asks /\ s.proc = t.proc
  BY <1>1 DEF SrvRec
<1> HIDE DEF s
<1>6. Count(s.out, Endings) = 0 /\ Count(s.out, Asks) = 0 BY <1>5, CountEmpty
<1>7. \A S : /\ Count(t.in, S) \in Nat /\ Count(t.out, S) \in Nat
             /\ Count(t.incoming, S) \in Nat
  BY <1>1, CountsTyped
<1>8. Turns(s) <= Turns(t) BY <1>5, <1>6, <1>7 DEF Turns
<1>9. Questions(s) <= Questions(t) BY <1>5, <1>6, <1>7 DEF Questions
<1>10. QuietSrv(t, s) BY <1>4, <1>5, <1>8, <1>9 DEF QuietSrv
<1>11. r <= started BY <1>2, Used
<1>12. OthersTyped' BY <1>2, OthersLocal
<1>13. s.proc # "up" BY <1>2, <1>5
<1> QED BY <1>2, <1>10, <1>11, <1>12, <1>13, QuietSrvStep

\* The reader takes a message: a response is dropped or handed over, anything
\* else goes on to the run.
LEMMA DeliverQuiet ==
  ASSUME NEW t \in SrvRec, t.out # <<>>,
         NEW s \in SrvRec, s.in = t.in, s.out = Tail(t.out), s.turn = t.turn,
         s.asks = t.asks, s.proc = t.proc,
         \/ s.incoming = t.incoming /\ Head(t.out) \in Responses
         \/ s.incoming = Append(t.incoming, Head(t.out))
  PROVE  QuietSrv(t, s)
<1>1. t.out \in Seq(Told) /\ t.incoming \in Seq(Told) /\ Head(t.out) \in Told
  BY DEF SrvRec
<1>2. \A S : /\ Count(t.in, S) \in Nat /\ Count(t.out, S) \in Nat
             /\ Count(t.incoming, S) \in Nat
  BY CountsTyped
<1>3. \A S : /\ Count(s.in, S) \in Nat /\ Count(s.out, S) \in Nat
             /\ Count(s.incoming, S) \in Nat
  BY CountsTyped
<1>4. ASSUME NEW S, S = Asks \/ S = Endings
      PROVE  Count(s.out, S) + Count(s.incoming, S)
               <= Count(t.out, S) + Count(t.incoming, S)
  <2> DEFINE d == IF Head(t.out) \in S THEN 1 ELSE 0
  <2>1. Count(s.out, S) + d = Count(t.out, S) BY <1>1, CountTail
  <2>2. d \in Nat OBVIOUS
  <2>3. CASE s.incoming = t.incoming BY <1>3, <2>1, <2>2, <2>3
  <2>4. CASE s.incoming = Append(t.incoming, Head(t.out))
    <3>1. Count(s.incoming, S) = Count(t.incoming, S) + d
      BY <1>1, <2>4, CountAppend
    <3> HIDE DEF d
    <3> QED BY <1>2, <1>3, <2>1, <2>2, <3>1
  <2> QED BY <2>3, <2>4
<1>5. /\ Count(s.out, Asks) + Count(s.incoming, Asks)
           <= Count(t.out, Asks) + Count(t.incoming, Asks)
      /\ Count(s.out, Endings) + Count(s.incoming, Endings)
           <= Count(t.out, Endings) + Count(t.incoming, Endings)
  BY <1>4
<1>8. s.in = t.in /\ s.turn = t.turn OBVIOUS
<1>9. /\ Count(t.in, Starters) \in Nat /\ Count(t.in, {"answer"}) \in Nat
      /\ Count(t.out, Endings) \in Nat /\ Count(t.out, Asks) \in Nat
      /\ Count(t.incoming, Endings) \in Nat /\ Count(t.incoming, Asks) \in Nat
      /\ Count(s.out, Endings) \in Nat /\ Count(s.out, Asks) \in Nat
      /\ Count(s.incoming, Endings) \in Nat /\ Count(s.incoming, Asks) \in Nat
  BY Numbers
<1> DEFINE u == IF t.turn = "active" THEN 1 ELSE 0
<1>10. /\ Turns(t) = Count(t.in, Starters) + u + Count(t.out, Endings)
                     + Count(t.incoming, Endings)
       /\ Turns(s) = Count(s.in, Starters) + u + Count(s.out, Endings)
                     + Count(s.incoming, Endings)
       /\ u \in Nat
  BY <1>8 DEF Turns
<1> HIDE DEF u
<1>11. Count(s.in, Starters) = Count(t.in, Starters) BY <1>8
<1>6. Turns(s) <= Turns(t) BY <1>5, <1>9, <1>10, <1>11
<1>7. Questions(s) <= Questions(t) BY <1>5, <1>8, <1>9 DEF Questions
<1> QED BY <1>6, <1>7 DEF QuietSrv

\* Responses end here, everything else waits for the run.
LEMMA ReaderDeliversKept ==
  ASSUME IInv, NEW r \in Runs, ReaderDelivers(r)
  PROVE  IInv'
<1> DEFINE t == srv[r]
           m == Head(t.out)
           s == [t EXCEPT !.out = Tail(@)]
           u == [s EXCEPT !.incoming = Append(@, m)]
           n == [run[r] EXCEPT !.call = m]
<1>1. /\ Pair(run[r], srv[r], Removing(r), Marking(r)) /\ RunsGood
      /\ run[r] \in GoodRec /\ run \in [Runs -> GoodRec] /\ t \in SrvRec
      /\ srv \in [Runs -> SrvRec]
  BY OfRun
<1>2. t.out # <<>> BY DEF ReaderDelivers
<1>3. r <= started BY <1>2, Used
<1>4. /\ t.out \in Seq(Told) /\ t.incoming \in Seq(Told) /\ m \in Told
      /\ Tail(t.out) \in Seq(Told) /\ Append(t.incoming, m) \in Seq(Told)
  <2>1. t.out \in Seq(Told) /\ t.incoming \in Seq(Told) BY <1>1 DEF SrvRec
  <2>2. m \in Told BY <1>2, <2>1
  <2>3. Tail(t.out) \in Seq(Told) BY <1>2, <2>1
  <2> QED BY <2>1, <2>2, <2>3
<1>5. /\ s \in SrvRec /\ s.in = t.in /\ s.out = Tail(t.out)
      /\ s.incoming = t.incoming /\ s.turn = t.turn /\ s.asks = t.asks
      /\ s.proc = t.proc /\ s.waited = t.waited
  BY <1>1, <1>4 DEF SrvRec
<1>6. /\ u \in SrvRec /\ u.in = t.in /\ u.out = Tail(t.out)
      /\ u.incoming = Append(t.incoming, m) /\ u.turn = t.turn
      /\ u.asks = t.asks /\ u.proc = t.proc /\ u.waited = t.waited
  <2>1. u = [t EXCEPT !.out = Tail(@), !.incoming = Append(@, m)]
    BY <1>1 DEF SrvRec
  <2> QED BY <1>1, <1>4, <2>1 DEF SrvRec
<1>7. /\ UNCHANGED <<started, current, drain, lock, answer, stop>>
      /\ \/ /\ m \in {"ok", "no"} /\ run[r].call = "wait"
            /\ run' = [run EXCEPT ![r] = n] /\ srv' = [srv EXCEPT ![r] = s]
            /\ UNCHANGED steer
         \/ /\ m \in {"steered", "refused"} /\ srv' = [srv EXCEPT ![r] = s]
            /\ UNCHANGED run /\ steer' = NoSteer
         \/ srv' = [srv EXCEPT ![r] = u] /\ UNCHANGED <<run, steer>>
  BY <1>1 DEF ReaderDelivers
<1>8. OthersTyped'
  <2>1. steer' = steer \/ steer' = NoSteer BY <1>7
  <2>2. steer' \in [pc : {"idle", "send", "wait"}, run : 0 .. started,
                    late : BOOLEAN]
    BY <2>1, NoSteerTyped DEF IInv, Registers
  <2> QED BY <1>7, <2>2 DEF OthersTyped, IInv, Registers
<1> HIDE DEF s, u, m
<1>9. QuietSrv(t, u) BY <1>1, <1>2, <1>6, DeliverQuiet DEF m
<1>10. m \in Responses => QuietSrv(t, s)
  BY <1>1, <1>2, <1>5, DeliverQuiet DEF m
<1>11. CASE /\ m \in {"ok", "no"} /\ run[r].call = "wait"
            /\ run' = [run EXCEPT ![r] = n] /\ srv' = [srv EXCEPT ![r] = s]
            /\ UNCHANGED steer
  <2>1. QuietSrv(t, s) BY <1>10, <1>11 DEF Responses
  <2>2. n \in GoodRec BY <1>1, <1>11, ReaderDeliversGood, StillGood
  <2>3. QuietRun(run[r], n)
    BY <1>1, <1>11, <2>2 DEF QuietRun, GoodRec, RunRec, NoTurnYet
  <2>4. Alive(n, s) BY <1>1, <1>5 DEF Pair, Alive, GoodRec, RunRec
  <2>5. Becomes(r, n, s) BY <1>7, <1>11 DEF Becomes
  <2> HIDE DEF n
  <2> QED BY <1>3, <1>8, <2>1, <2>3, <2>4, <2>5, QuietStep
<1>12. CASE /\ m \in {"steered", "refused"} /\ srv' = [srv EXCEPT ![r] = s]
            /\ UNCHANGED run
  <2>1. QuietSrv(t, s) BY <1>10, <1>12 DEF Responses
  <2>2. UNCHANGED <<run, started, lock, answer>> BY <1>7, <1>12
  <2>3. s.waited => t.waited \/ s.proc # "up" BY <1>5
  <2> QED BY <1>3, <1>8, <1>12, <2>1, <2>2, <2>3, QuietSrvStep
<1>13. CASE srv' = [srv EXCEPT ![r] = u] /\ UNCHANGED <<run, steer>>
  <2>1. UNCHANGED <<run, started, lock, answer>> BY <1>7, <1>13
  <2>2. u.waited => t.waited \/ u.proc # "up" BY <1>6
  <2> QED BY <1>3, <1>8, <1>9, <1>13, <2>1, <2>2, QuietSrvStep
<1> QED BY <1>7, <1>11, <1>12, <1>13

\* The server reads a request and responds: what asked for a turn is one now.
LEMMA ReadQuiet ==
  ASSUME NEW t \in SrvRec, t.in # <<>>, NEW a \in Responses,
         NEW s \in SrvRec, s.in = Tail(t.in), s.out = Append(t.out, a),
         s.incoming = t.incoming, s.asks = t.asks, s.proc = t.proc,
         \/ s.turn = t.turn
         \/ s.turn = "active" /\ Head(t.in) \in Starters
  PROVE  QuietSrv(t, s)
<1>1. t.in \in Seq(Written) /\ t.out \in Seq(Told) /\ a \in Told
  BY DEF SrvRec, Told
<1>2. /\ Count(t.in, Starters) \in Nat /\ Count(t.in, {"answer"}) \in Nat
      /\ Count(t.out, Endings) \in Nat /\ Count(t.out, Asks) \in Nat
      /\ Count(t.incoming, Endings) \in Nat /\ Count(t.incoming, Asks) \in Nat
  BY Numbers
<1>3. Count(s.in, Starters) \in Nat /\ Count(s.in, {"answer"}) \in Nat BY Numbers
<1>4. a \notin Endings /\ a \notin Asks BY DEF Responses, Endings, Asks
<1>5. /\ Count(s.out, Endings) = Count(t.out, Endings) + 0
      /\ Count(s.out, Asks) = Count(t.out, Asks) + 0
  BY <1>1, <1>4, CountAppend
<1> DEFINE d == IF Head(t.in) \in Starters THEN 1 ELSE 0
           e == IF Head(t.in) \in {"answer"} THEN 1 ELSE 0
<1>6. /\ Count(s.in, Starters) + d = Count(t.in, Starters)
      /\ Count(s.in, {"answer"}) + e = Count(t.in, {"answer"})
  BY <1>1, CountTail
<1>7. d \in Nat /\ e \in Nat OBVIOUS
<1>8. s.turn = t.turn \/ (s.turn = "active" /\ d = 1) OBVIOUS
<1> HIDE DEF d, e
<1>9. Turns(s) <= Turns(t)
  <2>1. CASE s.turn = t.turn
    <3> DEFINE u == IF t.turn = "active" THEN 1 ELSE 0
    <3>1. /\ Turns(t) = Count(t.in, Starters) + u + Count(t.out, Endings)
                          + Count(t.incoming, Endings)
          /\ Turns(s) = Count(s.in, Starters) + u + Count(s.out, Endings)
                          + Count(t.incoming, Endings)
          /\ u \in Nat
      BY <2>1 DEF Turns
    <3> HIDE DEF u
    <3>2. Count(s.in, Starters) <= Count(t.in, Starters) BY <1>2, <1>3, <1>6, <1>7
    <3>3. Count(s.out, Endings) = Count(t.out, Endings) BY <1>2, <1>5
    <3> QED BY <1>2, <1>3, <3>1, <3>2, <3>3
  <2>2. CASE s.turn = "active" /\ d = 1
    BY <1>2, <1>3, <1>5, <1>6, <2>2 DEF Turns
  <2> QED BY <1>8, <2>1, <2>2
<1>10. Questions(s) <= Questions(t) BY <1>2, <1>3, <1>5, <1>6, <1>7 DEF Questions
<1>11. t.turn = "active" => s.turn = "active" OBVIOUS
<1> QED BY <1>9, <1>10, <1>11 DEF QuietSrv

\* The server reads the answer: nothing is open any more.
LEMMA AnswerRead ==
  ASSUME NEW t \in SrvRec, t.in # <<>>, Head(t.in) = "answer",
         NEW s \in SrvRec, s.in = Tail(t.in), s.out = t.out,
         s.incoming = t.incoming, s.turn = t.turn
  PROVE  Turns(s) = Turns(t) /\ Questions(s) + 1 = Questions(t)
<1>1. t.in \in Seq(Written) BY DEF SrvRec
<1>2. \A S : /\ Count(t.in, S) \in Nat /\ Count(t.out, S) \in Nat
             /\ Count(t.incoming, S) \in Nat
  BY CountsTyped
<1>3. \A S : Count(s.in, S) \in Nat BY CountsTyped
<1>4. "answer" \notin Starters BY DEF Starters
<1>5. /\ Count(s.in, Starters) + 0 = Count(t.in, Starters)
      /\ Count(s.in, {"answer"}) + 1 = Count(t.in, {"answer"})
  BY <1>1, <1>4, CountTail
<1>6. Turns(s) = Turns(t) BY <1>2, <1>3, <1>5 DEF Turns
<1>7. Questions(s) + 1 = Questions(t) BY <1>2, <1>3, <1>5 DEF Questions
<1> QED BY <1>6, <1>7

\* Whatever the server reads, there is no turn or question more than before.
LEMMA ServerReadsKept == ASSUME IInv, NEW r \in Runs, ServerReads(r) PROVE IInv'
<1> DEFINE t == srv[r]
           m == Head(t.in)
           w == IF m \in Big THEN "none" ELSE t.writer
           s == [t EXCEPT !.in = Tail(@), !.writer = w]
           Said(a, v) == [s EXCEPT !.out = Append(@, a), !.turn = v]
<1>1. /\ Pair(run[r], srv[r], Removing(r), Marking(r))
      /\ t \in SrvRec /\ srv \in [Runs -> SrvRec]
  BY OfRun
<1>2. t.in # <<>> BY DEF ServerReads
<1>3. r <= started BY Used DEF ServerReads
<1>4. /\ UNCHANGED <<run, started, lock, answer>>
      /\ UNCHANGED <<current, drain, steer, stop>>
  BY DEF ServerReads
<1>5. OthersTyped' BY <1>4, OthersLocal
<1>6. t.in \in Seq(Written) /\ t.out \in Seq(Told) /\ t.writer \in Endpoints
  BY <1>1 DEF SrvRec
<1>7. Tail(t.in) \in Seq(Written) /\ w \in Endpoints
  BY <1>2, <1>6 DEF Endpoints
<1>8. \/ /\ m \in Calls
         /\ srv' = [srv EXCEPT ![r] = [s EXCEPT !.out = Append(@, "ok"),
              !.turn = IF m \in {"turn", "again"} THEN "active" ELSE @]]
      \/ srv' = [srv EXCEPT ![r] = [s EXCEPT !.out = Append(@, "no")]]
      \/ srv' = [srv EXCEPT ![r] = [s EXCEPT !.out =
           Append(@, IF t.turn = "active" THEN "steered" ELSE "refused")]]
      \/ m = "answer" /\ srv' = [srv EXCEPT ![r] = [s EXCEPT !.asks = "none"]]
  BY <1>1 DEF ServerReads
<1> HIDE DEF w, m
<1>9. /\ s \in SrvRec /\ s.in = Tail(t.in) /\ s.out = t.out
      /\ s.incoming = t.incoming /\ s.turn = t.turn /\ s.asks = t.asks
      /\ s.proc = t.proc /\ s.waited = t.waited
  BY <1>1, <1>7 DEF SrvRec
<1> HIDE DEF s
<1>10. ASSUME NEW a \in Responses, NEW u,
              \/ u = [s EXCEPT !.out = Append(@, a)]
              \/ /\ u = [s EXCEPT !.out = Append(@, a), !.turn = "active"]
                 /\ m \in Starters,
              srv' = [srv EXCEPT ![r] = u]
       PROVE  IInv'
  <2>1. Append(t.out, a) \in Seq(Told) BY <1>6 DEF Told
  <2>2. CASE u = [s EXCEPT !.out = Append(@, a)]
    <3>1. /\ u \in SrvRec /\ u.in = Tail(t.in) /\ u.out = Append(t.out, a)
          /\ u.incoming = t.incoming /\ u.turn = t.turn /\ u.asks = t.asks
          /\ u.proc = t.proc /\ u.waited = t.waited
      BY <1>9, <2>1, <2>2 DEF SrvRec
    <3>2. QuietSrv(t, u) BY <1>1, <1>2, <3>1, ReadQuiet
    <3> QED BY <1>3, <1>4, <1>5, <1>10, <3>1, <3>2, QuietSrvStep
  <2>3. CASE /\ u = [s EXCEPT !.out = Append(@, a), !.turn = "active"]
             /\ m \in Starters
    <3>1. /\ u \in SrvRec /\ u.in = Tail(t.in) /\ u.out = Append(t.out, a)
          /\ u.incoming = t.incoming /\ u.turn = "active" /\ u.asks = t.asks
          /\ u.proc = t.proc /\ u.waited = t.waited
      BY <1>9, <2>1, <2>3 DEF SrvRec
    <3>2. QuietSrv(t, u) BY <1>1, <1>2, <2>3, <3>1, ReadQuiet DEF m
    <3> QED BY <1>3, <1>4, <1>5, <1>10, <3>1, <3>2, QuietSrvStep
  <2> QED BY <1>10, <2>2, <2>3
<1>11. CASE /\ m \in Calls
            /\ srv' = [srv EXCEPT ![r] = [s EXCEPT !.out = Append(@, "ok"),
                 !.turn = IF m \in {"turn", "again"} THEN "active" ELSE @]]
  <2> DEFINE u == [s EXCEPT !.out = Append(@, "ok"),
                   !.turn = IF m \in {"turn", "again"} THEN "active" ELSE @]
  <2>1. "ok" \in Responses BY DEF Responses
  <2>2. \/ u = [s EXCEPT !.out = Append(@, "ok")]
        \/ /\ u = [s EXCEPT !.out = Append(@, "ok"), !.turn = "active"]
           /\ m \in Starters
    BY <1>9 DEF SrvRec, Starters
  <2>3. srv' = [srv EXCEPT ![r] = u] BY <1>11
  <2> HIDE DEF u
  <2> QED BY <1>10, <2>1, <2>2, <2>3
<1>12. CASE srv' = [srv EXCEPT ![r] = [s EXCEPT !.out = Append(@, "no")]]
  <2>1. "no" \in Responses BY DEF Responses
  <2> QED BY <1>10, <1>12, <2>1
<1>13. CASE srv' = [srv EXCEPT ![r] = [s EXCEPT !.out =
              Append(@, IF t.turn = "active" THEN "steered" ELSE "refused")]]
  <2> DEFINE a == IF t.turn = "active" THEN "steered" ELSE "refused"
  <2>1. a \in Responses BY DEF Responses
  <2>2. srv' = [srv EXCEPT ![r] = [s EXCEPT !.out = Append(@, a)]] BY <1>13
  <2> HIDE DEF a
  <2> QED BY <1>10, <2>1, <2>2
<1>14. CASE m = "answer" /\ srv' = [srv EXCEPT ![r] = [s EXCEPT !.asks = "none"]]
  <2> DEFINE u == [s EXCEPT !.asks = "none"]
  <2>1. /\ u \in SrvRec /\ u.in = Tail(t.in) /\ u.out = t.out
        /\ u.incoming = t.incoming /\ u.turn = t.turn /\ u.asks = "none"
        /\ u.proc = t.proc /\ u.waited = t.waited
    BY <1>9 DEF SrvRec
  <2>2. srv' = [srv EXCEPT ![r] = u] BY <1>14
  <2> HIDE DEF u
  <2>3. Turns(u) = Turns(t) /\ Questions(u) + 1 = Questions(t)
    BY <1>1, <1>2, <1>14, <2>1, AnswerRead DEF m
  <2>4. /\ Turns(u) \in Nat /\ Turns(t) \in Nat /\ Questions(u) \in Nat
        /\ Questions(t) \in Nat
    BY <1>1, <2>1, CountsTyped
  <2>5. /\ Turns(u) <= Turns(t) /\ (u.asks # "none" => u.turn = "active")
        /\ Questions(u) + (IF t.asks = "none" THEN 0 ELSE 1)
             <= Questions(t) + (IF u.asks = "none" THEN 0 ELSE 1)
    BY <2>1, <2>3, <2>4
  <2> QED BY <1>3, <1>4, <1>5, <2>1, <2>2, <2>5, SrvStep
<1> QED BY <1>8, <1>11, <1>12, <1>13, <1>14

-----------------------------------------------------------------------------
\* Messages, ends and starts.

\* The run takes the next message.
LEMMA TakenCounts ==
  ASSUME NEW t \in SrvRec, t.incoming # <<>>,
         NEW s \in SrvRec, s.in = t.in, s.out = t.out,
         s.incoming = Tail(t.incoming), s.turn = t.turn
  PROVE  /\ Turns(s) + (IF Head(t.incoming) \in Endings THEN 1 ELSE 0) = Turns(t)
         /\ Questions(s) + (IF Head(t.incoming) \in Asks THEN 1 ELSE 0)
              = Questions(t)
<1>1. t.incoming \in Seq(Told) BY DEF SrvRec
<1> DEFINE d == IF Head(t.incoming) \in Endings THEN 1 ELSE 0
           e == IF Head(t.incoming) \in Asks THEN 1 ELSE 0
<1>2. /\ Count(s.incoming, Endings) + d = Count(t.incoming, Endings)
      /\ Count(s.incoming, Asks) + e = Count(t.incoming, Asks)
  BY <1>1, CountTail
<1>3. d \in Nat /\ e \in Nat OBVIOUS
<1> HIDE DEF d, e
<1>4. /\ Count(t.in, Starters) \in Nat /\ Count(t.in, {"answer"}) \in Nat
      /\ Count(t.out, Endings) \in Nat /\ Count(t.out, Asks) \in Nat
      /\ Count(s.incoming, Endings) \in Nat /\ Count(s.incoming, Asks) \in Nat
  BY Numbers
<1>5. Turns(s) + d = Turns(t) BY <1>2, <1>3, <1>4 DEF Turns
<1>6. Questions(s) + e = Questions(t) BY <1>2, <1>3, <1>4 DEF Questions
<1> QED BY <1>5, <1>6 DEF d, e

\* What handling a message changes in the run.
LEMMA HandledFields ==
  ASSUME NEW n \in GoodRec, NEW m
  PROVE  /\ Handled(n, m).pc = n.pc /\ Handled(n, m).age = n.age
         /\ Handled(n, m).exited = n.exited
         /\ Handled(n, m).completed = n.completed
         /\ m \in Responses => Handled(n, m) = n
         /\ m \notin Responses /\ m \in Asks =>
              /\ Handled(n, m).req = m /\ Handled(n, m).wall # "answered"
              /\ m # "input" /\ Handled(n, m).wall = "asked" => n.wall = "asked"
         /\ m \notin Responses /\ m \notin Asks =>
              /\ Handled(n, m).req = n.req /\ Handled(n, m).wall # "answered"
              /\ Handled(n, m).wall = "asked" => n.wall = "asked"
<1>1. n \in RunRec BY DEF GoodRec
<1> DEFINE w == IF n.wall = "answered" THEN "none" ELSE n.wall
           p == [n EXCEPT !.responding = FALSE, !.wall = w]
           v == IF m = "input" THEN "asked" ELSE p.wall
           q == [p EXCEPT !.req = m, !.wall = v]
<1>2. Progress(n) = p BY <1>1 DEF Progress, RunRec
<1>3. w # "answered" /\ (w = "asked" => n.wall = "asked") OBVIOUS
<1> HIDE DEF w
<1>4. /\ p.pc = n.pc /\ p.age = n.age /\ p.exited = n.exited
      /\ p.completed = n.completed /\ p.req = n.req /\ p.wall = w
      /\ p = [n EXCEPT !.responding = FALSE, !.wall = w]
  BY <1>1 DEF RunRec
<1>5. v # "answered" /\ (m # "input" /\ v = "asked" => n.wall = "asked")
  BY <1>3, <1>4
<1>7. /\ q.pc = p.pc /\ q.age = p.age /\ q.exited = p.exited
      /\ q.completed = p.completed /\ q.req = m /\ q.wall = v
  BY <1>1 DEF RunRec
<1> HIDE DEF p, v, q
<1>8. CASE m \in Responses BY <1>8 DEF Handled
<1>9. CASE m \notin Responses /\ m \in Asks
  <2>1. Handled(n, m) = q BY <1>2, <1>4, <1>9 DEF Handled, q, v
  <2> QED BY <1>4, <1>5, <1>7, <1>9, <2>1
<1>10. CASE m \notin Responses /\ m \notin Asks
  <2>1. Handled(n, m) = p BY <1>2, <1>10 DEF Handled
  <2> QED BY <1>3, <1>4, <1>10, <2>1
<1> QED BY <1>8, <1>9, <1>10

\* Handling a message keeps what is said of run and server: a request that
\* arrives is the only one, and none was open before it.
LEMMA HandledPair ==
  ASSUME NEW o, NEW t, NEW A, NEW M, Pair(o, t, A, M), o.pc = "loop",
         t.incoming # <<>>,
         NEW s \in SrvRec, s.in = t.in, s.out = t.out,
         s.incoming = Tail(t.incoming), s.turn = t.turn, s.asks = t.asks,
         s.proc = t.proc, s.waited = t.waited,
         NEW m, m = Head(t.incoming), NEW n, n = Handled(o, m)
  PROVE  /\ Pair(n, s, A, M)
         /\ m \in Endings => Turns(s) = 0
         /\ m \in Asks => Open(o, A) = 0
         /\ m \notin Asks => n.req = o.req
<1>1. o \in GoodRec /\ t \in SrvRec BY DEF Pair
<1>2. n \in GoodRec BY <1>1, HandledGood
<1>3. /\ n.pc = o.pc /\ n.age = o.age /\ n.exited = o.exited
      /\ n.completed = o.completed
      /\ m \in Responses => n = o
      /\ m \notin Responses /\ m \in Asks =>
           /\ n.req = m /\ n.wall # "answered"
           /\ m # "input" /\ n.wall = "asked" => o.wall = "asked"
      /\ m \notin Responses /\ m \notin Asks =>
           /\ n.req = o.req /\ n.wall # "answered"
           /\ n.wall = "asked" => o.wall = "asked"
  BY <1>1, HandledFields
<1> DEFINE d == IF m \in Endings THEN 1 ELSE 0
           e == IF m \in Asks THEN 1 ELSE 0
<1>4. Turns(s) + d = Turns(t) /\ Questions(s) + e = Questions(t)
  BY <1>1, TakenCounts
<1>5. /\ Turns(s) \in Nat /\ Turns(t) \in Nat
      /\ Questions(s) \in Nat /\ Questions(t) \in Nat
  BY <1>1, CountsTyped
<1>6. Alive(n, s) BY <1>3 DEF Pair, Alive
<1>7. OneTurn(n, s) /\ (m \in Endings => Turns(s) = 0)
  <2>1. ~ NoTurnYet(n) BY <1>3 DEF NoTurnYet, Starters
  <2>2. /\ Turns(t) <= 1 /\ (o.completed => Turns(t) = 0)
        /\ (t.asks # "none" => t.turn = "active")
    BY DEF Pair, OneTurn
  <2>3. d \in Nat /\ (m \in Endings => d = 1) OBVIOUS
  <2> HIDE DEF d
  <2>4. Turns(s) <= 1 /\ (o.completed => Turns(s) = 0)
    BY <1>4, <1>5, <2>2, <2>3
  <2>5. m \in Endings => Turns(s) = 0 BY <1>4, <1>5, <2>2, <2>3
  <2> QED BY <1>3, <2>1, <2>2, <2>4, <2>5 DEF OneTurn
<1>8. /\ Open(o, A) \in Nat /\ Open(n, A) \in 0 .. 1 BY DEF Open
<1>9. Questions(t) + Open(o, A) <= IF t.asks = "none" THEN 0 ELSE 1
  BY DEF Pair, OneQuestion
<1>10. o.wall = "asked" => Open(o, A) = 1 BY DEF Open
<1>11. Walled(o, M) BY DEF Pair
<1>12. CASE m \in Responses
  <2>1. n = o /\ m \notin Asks /\ e = 0 BY <1>3, <1>12 DEF Responses, Asks
  <2>2. OneQuestion(n, s, A) BY <1>4, <1>5, <1>8, <1>9, <2>1 DEF OneQuestion
  <2> QED BY <1>2, <1>6, <1>7, <1>11, <2>1, <2>2 DEF Pair
<1>13. CASE m \notin Responses /\ m \in Asks
  <2>1. e = 1 BY <1>13
  <2>2. /\ Questions(s) = 0 /\ Open(o, A) = 0 /\ t.asks # "none"
    BY <1>4, <1>5, <1>8, <1>9, <2>1
  <2>3. OneQuestion(n, s, A) BY <1>8, <2>2 DEF OneQuestion
  <2>4. Walled(n, M) BY <1>3, <1>10, <1>13, <2>2 DEF Walled
  <2> QED BY <1>2, <1>6, <1>7, <1>13, <2>2, <2>3, <2>4 DEF Pair
<1>14. CASE m \notin Responses /\ m \notin Asks
  <2>1. e = 0 BY <1>14
  <2>2. Open(n, A) <= Open(o, A)
    <3>1. n.req = o.req /\ (n.wall = "asked" => o.wall = "asked") BY <1>3, <1>14
    <3> QED BY <3>1 DEF Open
  <2>3. OneQuestion(n, s, A)
    BY <1>4, <1>5, <1>8, <1>9, <2>1, <2>2 DEF OneQuestion
  <2>4. Walled(n, M) BY <1>3, <1>11, <1>14 DEF Walled
  <2> QED BY <1>2, <1>3, <1>6, <1>7, <1>14, <2>3, <2>4 DEF Pair
<1> QED BY <1>12, <1>13, <1>14

\* With no turn on its way a run may be completed, or ask for the next turn.
LEMMA EndedPair ==
  ASSUME NEW n, NEW s, NEW A, NEW M, Pair(n, s, A, M), Turns(s) = 0,
         NEW k \in GoodRec, k.req = n.req, k.wall = n.wall,
         k.responding = n.responding, Alive(k, s)
  PROVE  Pair(k, s, A, M)
<1>1. OneTurn(k, s) BY DEF Pair, OneTurn
<1>2. OneQuestion(k, s, A) BY DEF Pair, OneQuestion, Open
<1>3. Walled(k, M) BY DEF Pair, Walled
<1> QED BY <1>1, <1>2, <1>3 DEF Pair

\* Who answers holds the lock, so nobody else does.
LEMMA AnswersAlone ==
  ASSUME IInv, NEW c \in Clients, answer[c].pc # "idle"
  PROVE  /\ lock = c /\ answer[c].run \in Runs /\ answer[c].run <= started
         /\ \A d \in Clients : d # c => answer[d].pc = "idle"
         /\ answer[c] \in [pc : {"idle", "send", "mark", "clear"},
                           run : 0 .. started, kind : Asks \cup {"none"}]
<1>1. answer[c] \in [pc : {"idle", "send", "mark", "clear"},
                     run : 0 .. started, kind : Asks \cup {"none"}]
  BY DEF IInv, Registers
<1>2. lock = c /\ answer[c].run \in Runs BY DEF IInv, Holders
<1>3. \A d \in Clients : d # c => answer[d].pc = "idle" BY <1>2 DEF IInv, Holders
<1>4. started \in Nat BY DEF IInv, Registers
<1>5. answer[c].run <= started BY <1>1, <1>4
<1> QED BY <1>1, <1>2, <1>3, <1>5

\* While a client is about to answer, its request is the open one.
LEMMA SenderAlone ==
  ASSUME IInv, NEW c \in Clients, answer[c].pc = "send"
  PROVE  \A r : Removing(r) = {} /\ Marking(r) = {}
BY AnswersAlone DEF Removing, Marking

\* A server that was not started yet.
LEMMA FreshSrvTyped ==
  /\ FreshSrv \in SrvRec
  /\ FreshSrv.in = <<>> /\ FreshSrv.out = <<>> /\ FreshSrv.incoming = <<>>
  /\ FreshSrv.turn = "idle" /\ FreshSrv.asks = "none" /\ FreshSrv.waited = FALSE
  /\ FreshSrv.proc = "none"
<1>1. <<>> \in Seq(Written) /\ <<>> \in Seq(Told) OBVIOUS
<1>2. 0 \in 0 .. MaxSaid OBVIOUS
<1>3. "none" \in Endpoints /\ "none" \in Asks \cup {"none"} BY DEF Endpoints
<1> QED BY <1>1, <1>2, <1>3 DEF FreshSrv, SrvRec

\* A message keeps the request that a client is about to answer.
LEMMA LoopHandlesKept == ASSUME IInv, NEW r \in Runs, LoopHandles(r) PROVE IInv'
<1> DEFINE t == srv[r]
           o == run[r]
           s == [t EXCEPT !.incoming = Tail(@)]
<1>1. /\ Pair(run[r], srv[r], Removing(r), Marking(r)) /\ RunsGood
      /\ run[r] \in GoodRec /\ run \in [Runs -> GoodRec] /\ srv[r] \in SrvRec
      /\ srv \in [Runs -> SrvRec]
  BY OfRun
<1>2. o.pc = "loop" /\ t.incoming # <<>> BY DEF LoopHandles
<1>3. PICK m : m = Head(t.incoming) OBVIOUS
<1>4. PICK n : n = Handled(o, m) OBVIOUS
<1>5. /\ UNCHANGED <<started, current, lock, answer, stop>>
      /\ steer' = [steer EXCEPT !.late = @ \/ Overtakes(r)]
      /\ drain' = drain \/ (drain' = r /\ current = r)
      /\ \/ /\ run' = [run EXCEPT ![r] = n]
            /\ \/ srv' = [srv EXCEPT ![r] = s]
               \/ srv' = [srv EXCEPT ![r] = Killed(s)]
         \/ /\ m \in {"done", "bare"} /\ ~ o.completed
            /\ run' = [run EXCEPT ![r] = [n EXCEPT !.again = TRUE, !.pc = "again"]]
            /\ srv' = [srv EXCEPT ![r] = s]
         \/ /\ m \in {"done", "bare"} /\ ~ o.completed
            /\ run' = [run EXCEPT ![r] = Completed(n)]
            /\ srv' = [srv EXCEPT ![r] = s]
  BY <1>3, <1>4 DEF LoopHandles
<1>6. Tail(t.incoming) \in Seq(Told) BY <1>1, <1>2 DEF SrvRec
<1>7. /\ s \in SrvRec /\ s.in = t.in /\ s.out = t.out
      /\ s.incoming = Tail(t.incoming) /\ s.turn = t.turn /\ s.asks = t.asks
      /\ s.proc = t.proc /\ s.waited = t.waited
  BY <1>1, <1>6 DEF SrvRec
<1> HIDE DEF s
<1>8. /\ Pair(n, s, Removing(r), Marking(r))
      /\ m \in Endings => Turns(s) = 0
      /\ m \in Asks => Open(o, Removing(r)) = 0
      /\ m \notin Asks => n.req = o.req
  BY <1>1, <1>2, <1>3, <1>4, <1>7, HandledPair
<1>9. /\ n \in GoodRec /\ n.pc = "loop" /\ n.completed = o.completed
      /\ n.exited = o.exited
  BY <1>1, <1>2, <1>4, HandledGood, HandledFields
<1>10. r <= started BY <1>2, Used
<1>11. OthersTyped'
  BY <1>5 DEF OthersTyped, IInv, Registers
<1>12. ASSUME NEW k, k.req = n.req, NEW u PROVE Taken(r, k, u)
  <2>1. ASSUME NEW c \in Clients, answer[c].pc = "send", answer[c].run = r
        PROVE  k.req = answer[c].kind /\ answer[c].kind # "none"
    <3>1. o.req = answer[c].kind /\ answer[c].kind # "none"
      BY <1>2, <2>1 DEF IInv, Held
    <3>2. Removing(r) = {} BY <2>1, SenderAlone
    <3>3. Open(o, Removing(r)) # 0 BY <3>1, <3>2 DEF Open
    <3> QED BY <1>8, <1>12, <3>1, <3>3
  <2> QED BY <2>1 DEF Taken
<1>13. ASSUME NEW k, NEW u, run' = [run EXCEPT ![r] = k],
              srv' = [srv EXCEPT ![r] = u], k.req = n.req,
              Pair(k, u, Removing(r), Marking(r))
       PROVE  IInv'
  <2>1. Becomes(r, k, u) BY <1>5, <1>13 DEF Becomes
  <2>2. Taken(r, k, u) BY <1>12, <1>13
  <2> QED BY <1>10, <1>11, <1>13, <2>1, <2>2, PairStep
<1>14. CASE /\ run' = [run EXCEPT ![r] = n]
            /\ srv' = [srv EXCEPT ![r] = s]
  BY <1>8, <1>13, <1>14
<1>15. CASE /\ run' = [run EXCEPT ![r] = n]
            /\ srv' = [srv EXCEPT ![r] = Killed(s)]
  <2> DEFINE u == Killed(s)
  <2>1. QuietSrv(s, u) /\ u.proc = "gone" /\ u.waited = s.waited
    BY <1>7, KilledQuiet
  <2> HIDE DEF u
  <2>2. QuietRun(n, n) BY <1>9 DEF QuietRun
  <2>3. Alive(n, u) BY <1>8, <2>1 DEF Pair, Alive
  <2>4. Pair(n, u, Removing(r), Marking(r)) BY <1>8, <2>1, <2>2, <2>3, QuietPair
  <2> QED BY <1>13, <1>15, <2>4 DEF u
<1>16. CASE /\ m \in {"done", "bare"} /\ ~ o.completed
            /\ run' = [run EXCEPT ![r] = [n EXCEPT !.again = TRUE, !.pc = "again"]]
            /\ srv' = [srv EXCEPT ![r] = s]
  <2> DEFINE k == [n EXCEPT !.again = TRUE, !.pc = "again"]
  <2>1. /\ k.req = n.req /\ k.wall = n.wall /\ k.responding = n.responding
        /\ k.pc = "again" /\ k.completed = n.completed /\ k.age = n.age
        /\ k.exited = n.exited
    BY <1>9 DEF GoodRec, RunRec
  <2>2. run' = [run EXCEPT ![r] = k] BY <1>16
  <2> HIDE DEF k
  <2>3. RunsGood' BY <1>1, LoopHandlesGood
  <2>4. k \in GoodRec BY <1>1, <2>2, <2>3, StillGood
  <2>5. Turns(s) = 0 BY <1>8, <1>16 DEF Endings
  <2>6. Alive(k, s) BY <1>8, <1>9, <1>16, <2>1 DEF Pair, Alive
  <2>7. Pair(k, s, Removing(r), Marking(r))
    BY <1>8, <2>1, <2>4, <2>5, <2>6, EndedPair
  <2> QED BY <1>13, <1>16, <2>1, <2>2, <2>7
<1>17. CASE /\ m \in {"done", "bare"} /\ ~ o.completed
            /\ run' = [run EXCEPT ![r] = Completed(n)]
            /\ srv' = [srv EXCEPT ![r] = s]
  <2> DEFINE k == Completed(n)
  <2>1. /\ k.req = n.req /\ k.wall = n.wall /\ k.responding = n.responding
        /\ k.pc = "settle" /\ k.completed /\ k.exited = n.exited
    BY <1>9 DEF GoodRec, RunRec, Completed
  <2>2. run' = [run EXCEPT ![r] = k] BY <1>17
  <2>3. k \in GoodRec BY <1>9, <1>17, CompletedGood
  <2> HIDE DEF k
  <2>5. Turns(s) = 0 BY <1>8, <1>17 DEF Endings
  <2>6. Alive(k, s) BY <1>8, <1>9, <1>17, <2>1 DEF Pair, Alive, Calls
  <2>7. Pair(k, s, Removing(r), Marking(r))
    BY <1>8, <2>1, <2>3, <2>5, <2>6, EndedPair
  <2> QED BY <1>13, <1>17, <2>1, <2>2, <2>7
<1> QED BY <1>5, <1>14, <1>15, <1>16, <1>17

\* A run that ends with its server alive was completed, and nobody answers it.
LEMMA RunEndsKept == ASSUME IInv, NEW r \in Runs, RunEnds(r) PROVE IInv'
<1> DEFINE t == srv[r]
           n == [FreshRun EXCEPT !.pc = "done", !.abort = run[r].abort,
                                 !.outcome = Recorded(run[r])]
           s == [FreshSrv EXCEPT !.proc = t.proc]
<1>1. /\ Pair(run[r], srv[r], Removing(r), Marking(r)) /\ RunsGood
      /\ run[r] \in GoodRec /\ run \in [Runs -> GoodRec] /\ srv[r] \in SrvRec
      /\ srv \in [Runs -> SrvRec]
  BY OfRun
<1>2. run[r].pc = "report" BY DEF RunEnds
<1>3. Becomes(r, n, s) BY DEF Becomes, RunEnds, Over
<1>4. n \in GoodRec BY <1>1, <1>3, RunEndsGood, StillGood DEF Becomes
<1>5. /\ s \in SrvRec /\ s.in = <<>> /\ s.out = <<>> /\ s.incoming = <<>>
      /\ s.turn = "idle" /\ s.asks = "none" /\ s.proc = t.proc
      /\ s.waited = FALSE
  <2>1. t.proc \in {"none", "up", "gone"} BY <1>1 DEF SrvRec
  <2> QED BY <2>1, FreshSrvTyped DEF SrvRec
<1>6. /\ n.pc = "done" /\ n.completed = FALSE /\ n.age = "off" /\ n.req = "none"
      /\ n.wall = "none" /\ n.exited = FALSE
  BY DEF FreshRun
<1> HIDE DEF n, s
<1>7. Turns(s) = 0 /\ Questions(s) = 0 BY <1>5, FreshCounts
<1>8. Pair(n, s, Removing(r), Marking(r))
  <2>1. Alive(n, s) BY <1>5, <1>6 DEF Alive, Calls
  <2>2. OneTurn(n, s) BY <1>5, <1>7 DEF OneTurn
  <2>3. OneQuestion(n, s, Removing(r))
    BY <1>5, <1>6, <1>7 DEF OneQuestion, Open
  <2>4. Walled(n, Marking(r)) BY <1>6 DEF Walled
  <2> QED BY <1>4, <1>5, <2>1, <2>2, <2>3, <2>4 DEF Pair
<1>9. ASSUME NEW c \in Clients, answer[c].pc = "send", answer[c].run = r
      PROVE  t.proc # "up"
  <2> SUFFICES ASSUME t.proc = "up" PROVE FALSE
    OBVIOUS
  <2>1. run[r].req = answer[c].kind /\ answer[c].kind # "none"
    BY <1>2, <1>9 DEF IInv, Held
  <2>2. Removing(r) = {} BY <1>9, SenderAlone
  <2>3. Open(run[r], Removing(r)) = 1 BY <2>1, <2>2 DEF Open
  <2>4. run[r].completed BY <1>1, <1>2 DEF Pair, Alive
  <2>5. Turns(t) = 0 BY <1>1, <2>4 DEF Pair, OneTurn
  <2>6. t.turn # "active"
    <3>1. /\ Count(t.in, Starters) \in Nat /\ Count(t.out, Endings) \in Nat
          /\ Count(t.incoming, Endings) \in Nat
      BY <1>1, Numbers
    <3> QED BY <2>5, <3>1 DEF Turns
  <2>7. t.asks = "none" BY <1>1, <2>6 DEF Pair, OneTurn
  <2>8. Questions(t) \in Nat BY <1>1, CountsTyped
  <2> QED BY <1>1, <2>3, <2>7, <2>8 DEF Pair, OneQuestion
<1>10. Taken(r, n, s) BY <1>5, <1>6, <1>9 DEF Taken
<1>11. r <= started BY <1>2, Used
<1>12. OthersTyped'
  <2>1. UNCHANGED <<started, steer, stop>> /\ current' \in {0, current}
        /\ drain' \in {0, drain}
    BY DEF RunEnds, Over
  <2> QED BY <2>1 DEF OthersTyped, IInv, Registers
<1> QED BY <1>3, <1>8, <1>10, <1>11, <1>12, PairStep

\* A new run takes the next number; nothing was said to it yet.
LEMMA SendStartsKept == ASSUME IInv, SendStarts PROVE IInv'
<1> DEFINE r == started + 1
<1>1. lock = "send" /\ lock' = "none" /\ UNCHANGED <<drain, steer, answer, stop>>
  BY DEF SendStarts
<1>2. \A c \in Clients : answer[c].pc = "idle" BY <1>1 DEF IInv, Holders
<1>3. started \in Nat /\ started < MaxRuns /\ r \in Runs
  BY <1>1 DEF IInv, Registers, Holders, Runs
<1>4. CASE current # 0
  <2>1. UNCHANGED <<started, current, run, srv>> BY <1>4 DEF SendStarts
  <2>2. Registers' BY <1>1, <2>1 DEF IInv, Registers
  <2>3. Holders' BY <1>1, <1>2 DEF Holders
  <2>4. Unused' BY <2>1 DEF IInv, Unused
  <2>5. Pairs' BY <1>1, <2>1 DEF IInv, Pairs, Removing, Marking
  <2>6. \A c \in Clients : Held(c)' BY <1>1, <1>2 DEF Held
  <2> QED BY <2>2, <2>3, <2>4, <2>5, <2>6 DEF IInv
<1>5. CASE current = 0
  <2>1. Registered(r) BY <1>5 DEF SendStarts
  <2>2. /\ srv[r] = FreshSrv /\ srv[r] \in SrvRec /\ srv \in [Runs -> SrvRec]
        /\ run \in [Runs -> GoodRec] /\ RunsGood
    BY <1>3, OfRun DEF IInv, Unused
  <2>3. PICK n, s : /\ Changes(r, n, s) /\ started' = r /\ current' = r
                    /\ \/ /\ n = [FreshRun EXCEPT !.pc = "init"]
                          /\ s = [srv[r] EXCEPT !.proc = "up"]
                       \/ /\ n = [FreshRun EXCEPT !.pc = "report"]
                          /\ s = srv[r]
    <3>1. srv = [srv EXCEPT ![r] = srv[r]] BY <2>2
    <3> QED BY <1>1, <2>1, <3>1 DEF Registered, Changes
  <2>4. RunsGood' BY <2>2, SendStartsGood
  <2>5. n \in GoodRec BY <1>3, <2>2, <2>3, <2>4, StillGood DEF Changes
  <2>6. /\ n.pc \in {"init", "report"} /\ (n.pc = "report" => s.proc # "up")
        /\ n.completed = FALSE /\ n.age = "off" /\ n.req = "none"
        /\ n.wall = "none" /\ n.exited = FALSE
    BY <2>2, <2>3 DEF FreshRun, FreshSrv
  <2>7. /\ s \in SrvRec /\ s.in = <<>> /\ s.out = <<>> /\ s.incoming = <<>>
        /\ s.turn = "idle" /\ s.asks = "none" /\ s.waited = FALSE
    <3>1. s = FreshSrv \/ s = [FreshSrv EXCEPT !.proc = "up"] BY <2>2, <2>3
    <3> QED BY <3>1, FreshSrvTyped DEF SrvRec
  <2>8. Turns(s) = 0 /\ Questions(s) = 0 BY <2>7, FreshCounts
  <2>9. Pair(n, s, Removing(r), Marking(r))
    <3>1. Alive(n, s) BY <2>6, <2>7 DEF Alive
    <3>2. OneTurn(n, s) BY <2>7, <2>8 DEF OneTurn
    <3>3. OneQuestion(n, s, Removing(r))
      BY <2>6, <2>7, <2>8 DEF OneQuestion, Open
    <3>4. Walled(n, Marking(r)) BY <2>6 DEF Walled
    <3> QED BY <2>5, <2>7, <3>1, <3>2, <3>3, <3>4 DEF Pair
  <2>10. Taken(r, n, s) BY <1>2 DEF Taken
  <2> HIDE DEF r
  <2>11. /\ run' \in [Runs -> GoodRec] /\ srv' \in [Runs -> SrvRec]
         /\ Pairs' /\ \A c \in Clients : Held(c)'
         /\ \A x \in Runs : x # r => run'[x] = run[x] /\ srv'[x] = srv[x]
    BY <1>3, <2>3, <2>9, <2>10, PairsStep
  <2>12. started' = started + 1 /\ current' = started + 1 BY <2>3 DEF r
  <2>13. Registers'
    <3>1. /\ drain \in 0 .. started /\ answer \in [Clients ->
               [pc : {"idle", "send", "mark", "clear"},
                run : 0 .. started, kind : Asks \cup {"none"}]]
          /\ steer \in [pc : {"idle", "send", "wait"}, run : 0 .. started,
                late : BOOLEAN]
          /\ stop \in [pc : {"idle", "kill"}, run : 0 .. started, cancel : BOOLEAN]
      BY DEF IInv, Registers
    <3>2. 0 .. started \subseteq 0 .. started' BY <1>3, <2>12
    <3>3. /\ started' \in 0 .. MaxRuns /\ current' \in 0 .. started'
          /\ drain' \in 0 .. started' /\ lock' \in Clients \cup {"none", "send"}
      BY <1>1, <1>3, <2>12, <3>1, <3>2
    <3>4. answer' \in [Clients -> [pc : {"idle", "send", "mark", "clear"},
                run : 0 .. started', kind : Asks \cup {"none"}]]
      BY <1>1, <3>1, <3>2
    <3>5. /\ steer' \in [pc : {"idle", "send", "wait"}, run : 0 .. started',
                         late : BOOLEAN]
          /\ stop' \in [pc : {"idle", "kill"}, run : 0 .. started', cancel : BOOLEAN]
      BY <1>1, <3>1, <3>2
    <3> QED BY <2>11, <3>3, <3>4, <3>5 DEF Registers
  <2>14. Holders' BY <1>1, <1>2 DEF Holders
  <2>15. Unused'
    <3>1. ASSUME NEW x \in Runs, x > started + 1
          PROVE  run'[x] = FreshRun /\ srv'[x] = FreshSrv
      <4>1. x \in Nat BY DEF Runs
      <4>2. x # r /\ x > started BY <1>3, <3>1, <4>1 DEF r
      <4> QED BY <2>11, <4>2 DEF IInv, Unused
    <3> QED BY <2>12, <3>1 DEF Unused
  <2> QED BY <2>11, <2>13, <2>14, <2>15 DEF IInv
<1> QED BY <1>4, <1>5

-----------------------------------------------------------------------------
\* Steers, stops and answers.

\* Steps that touch neither runs nor answers.
LEMMA RegistryStep ==
  ASSUME IInv, UNCHANGED <<run, srv, started, lock, answer>>, OthersTyped'
  PROVE  IInv'
<1>1. Registers' BY DEF IInv, Registers, OthersTyped
<1>2. Holders' BY DEF IInv, Holders
<1>3. Unused' BY DEF IInv, Unused
<1>4. Pairs' BY DEF IInv, Pairs, Removing, Marking
<1>5. \A c \in Clients : Held(c)' BY DEF IInv, Held
<1> QED BY <1>1, <1>2, <1>3, <1>4, <1>5 DEF IInv

\* Who steers forgets its request.
LEMMA SteerGivesUpKept == ASSUME IInv, SteerGivesUp PROVE IInv'
<1>1. OthersTyped' BY DEF SteerGivesUp, OthersTyped, IInv, Registers, NoSteer
<1> QED BY <1>1, RegistryStep DEF SteerGivesUp

\* A stop finds a run that has started.
LEMMA StopFindsKept == ASSUME IInv, StopFinds PROVE IInv'
<1>1. UNCHANGED <<started, current, drain, lock, run, srv, steer, answer>>
  BY DEF StopFinds
<1>2. stop' \in [pc : {"idle", "kill"}, run : 0 .. started, cancel : BOOLEAN]
  <2>1. current \in 0 .. started /\ drain \in 0 .. started
    BY DEF IInv, Registers
  <2>2. \/ stop' = [pc |-> "kill", run |-> current, cancel |-> TRUE]
        \/ stop' = [pc |-> "kill", run |-> drain, cancel |-> FALSE]
    BY DEF StopFinds
  <2>3. /\ [pc |-> "kill", run |-> current, cancel |-> TRUE]
              \in [pc : {"idle", "kill"}, run : 0 .. started, cancel : BOOLEAN]
        /\ [pc |-> "kill", run |-> drain, cancel |-> FALSE]
              \in [pc : {"idle", "kill"}, run : 0 .. started, cancel : BOOLEAN]
    <3>1. TRUE \in BOOLEAN /\ FALSE \in BOOLEAN /\ "kill" \in {"idle", "kill"}
      OBVIOUS
    <3> QED BY <2>1, <3>1, Zenon
  <2> QED BY <2>2, <2>3, Zenon
<1>3. OthersTyped' BY <1>1, <1>2 DEF OthersTyped, IInv, Registers
<1> QED BY <1>1, <1>3, RegistryStep

\* A send takes the lock when nobody answers.
LEMMA SendWaitsKept == ASSUME IInv, SendWaits PROVE IInv'
<1>1. /\ UNCHANGED <<started, current, drain, run, srv, steer, answer, stop>>
      /\ lock = "none" /\ lock' = "send" /\ started < MaxRuns
  BY DEF SendWaits
<1>2. Registers' BY <1>1 DEF IInv, Registers
<1>3. \A c \in Clients : answer[c].pc = "idle" BY <1>1 DEF IInv, Holders
<1>4. Holders' BY <1>1, <1>3 DEF Holders
<1>5. Unused' BY <1>1 DEF IInv, Unused
<1>6. Pairs' BY <1>1 DEF IInv, Pairs, Removing, Marking
<1>7. \A c \in Clients : Held(c)' BY <1>1 DEF IInv, Held
<1> QED BY <1>2, <1>4, <1>5, <1>6, <1>7 DEF IInv

\* A steered input is neither a turn nor an answer.
LEMMA SteerSendsKept == ASSUME IInv, SteerSends PROVE IInv'
<1> DEFINE r == steer.run
           s == Sent(srv[r], "steer", "steer")
<1>1. /\ UNCHANGED <<started, current, drain, lock, run, answer, stop>>
      /\ \/ UNCHANGED srv /\ steer' = NoSteer
         \/ /\ srv' = [srv EXCEPT ![r] = s]
            /\ steer' = [steer EXCEPT !.pc = "wait"]
  BY DEF SteerSends
<1>2. steer \in [pc : {"idle", "send", "wait"}, run : 0 .. started,
                late : BOOLEAN]
  BY DEF IInv, Registers
<1>3. steer' \in [pc : {"idle", "send", "wait"}, run : 0 .. started,
                     late : BOOLEAN]
  <2>1. [steer EXCEPT !.pc = "wait"]
          \in [pc : {"idle", "send", "wait"}, run : 0 .. started, late : BOOLEAN]
    BY <1>2
  <2>2. \/ steer' = NoSteer
        \/ steer' = [steer EXCEPT !.pc = "wait"]
    BY <1>1
  <2> QED BY <2>1, <2>2, NoSteerTyped
<1>4. OthersTyped' BY <1>1, <1>3 DEF OthersTyped, IInv, Registers
<1>5. started \in Nat /\ r \in 0 .. started BY <1>2 DEF IInv, Registers
<1>6. srv \in [Runs -> SrvRec] BY DEF IInv, Registers
<1>7. CASE UNCHANGED srv BY <1>1, <1>4, <1>7, RegistryStep
<1>8. CASE srv' = [srv EXCEPT ![r] = s] /\ r \notin Runs
  <2>1. UNCHANGED srv BY <1>6, <1>8
  <2> QED BY <1>7, <2>1
<1>9. CASE srv' = [srv EXCEPT ![r] = s] /\ r \in Runs
  <2>1. srv[r] \in SrvRec BY <1>6, <1>9
  <2>2. "steer" \in Endpoints /\ "steer" \in Written BY DEF Endpoints, Written
  <2>3. "steer" \notin Starters /\ "steer" \notin {"answer"} BY DEF Starters
  <2>4. /\ s \in SrvRec /\ s.asks = srv[r].asks /\ s.turn = srv[r].turn
        /\ s.proc = srv[r].proc /\ s.waited = srv[r].waited
        /\ Turns(s) = Turns(srv[r]) + 0 /\ Questions(s) = Questions(srv[r]) + 0
    BY <2>1, <2>2, <2>3, SentCounts
  <2> HIDE DEF s
  <2>5. Turns(srv[r]) \in Nat /\ Questions(srv[r]) \in Nat BY <2>1, CountsTyped
  <2>6. QuietSrv(srv[r], s) BY <2>4, <2>5 DEF QuietSrv
  <2>7. r <= started BY <1>5
  <2>8. UNCHANGED <<run, started, lock, answer>> BY <1>1
  <2> HIDE DEF r
  <2> QED BY <1>4, <1>9, <2>4, <2>6, <2>7, <2>8, QuietSrvStep
<1> QED BY <1>1, <1>7, <1>8, <1>9

\* A stopped run lives on without its process.
LEMMA StopKillsKept == ASSUME IInv, StopKills PROVE IInv'
<1> DEFINE r == stop.run
           n == [run[r] EXCEPT !.abort = @ \/ (stop.cancel /\ run[r].pc # "done")]
           s == IF srv[r].proc = "up" THEN Killed(srv[r]) ELSE srv[r]
<1>1. /\ UNCHANGED <<started, current, drain, lock, steer, answer>>
      /\ run' = [run EXCEPT ![r] = n] /\ srv' = [srv EXCEPT ![r] = s]
      /\ stop' = [pc |-> "idle", run |-> 0, cancel |-> FALSE]
  BY DEF StopKills
<1>2. OthersTyped' BY <1>1 DEF OthersTyped, IInv, Registers
<1>3. started \in Nat /\ r \in 0 .. started BY DEF IInv, Registers
<1>4. run \in [Runs -> GoodRec] /\ srv \in [Runs -> SrvRec] /\ RunsGood
  BY DEF IInv, Registers, RunsGood
<1>5. CASE r \notin Runs
  <2>1. UNCHANGED <<run, srv>> BY <1>1, <1>4, <1>5
  <2> QED BY <1>1, <1>2, <2>1, RegistryStep
<1>6. CASE r \in Runs
  <2>1. /\ Pair(run[r], srv[r], Removing(r), Marking(r))
        /\ run[r] \in GoodRec /\ srv[r] \in SrvRec
    BY <1>6, OfRun
  <2>2. n \in GoodRec BY <1>1, <1>4, <1>6, StopKillsGood, StillGood
  <2>3. QuietRun(run[r], n)
    BY <2>1, <2>2 DEF QuietRun, GoodRec, RunRec, NoTurnYet, Starters
  <2>4. QuietSrv(srv[r], s) /\ (s.proc = "up" => srv[r].proc = "up")
        /\ s.waited = srv[r].waited
    BY <2>1, KilledQuiet, QuietFields
  <2>5. Alive(n, s)
    <3> HIDE DEF s
    <3> QED BY <2>1, <2>4 DEF Pair, Alive, GoodRec, RunRec
  <2>6. Becomes(r, n, s) BY <1>1 DEF Becomes
  <2>7. r <= started BY <1>3
  <2> HIDE DEF n, s, r
  <2> QED BY <1>2, <1>6, <2>3, <2>4, <2>5, <2>6, <2>7, QuietStep
<1> QED BY <1>5, <1>6

\* What a client with answer record a has left to do at its run.
RemovingOf(c, a) == IF a.pc \in {"mark", "clear"} THEN {c} ELSE {}
MarkingOf(c, a)  == IF a.pc = "mark" THEN {c} ELSE {}

\* Client c, the only one that answers, goes on to record a with run r.
AnswerMoves(c, r, a) ==
  /\ answer' = [answer EXCEPT ![c] = a]
  /\ a \in [pc : {"idle", "send", "mark", "clear"}, run : 0 .. started,
            kind : Asks \cup {"none"}]
  /\ \A d \in Clients : d # c => answer[d].pc = "idle"
  /\ answer[c].pc # "idle" => answer[c].run = r
  /\ a.pc # "idle" => a.run = r /\ lock' = c
  /\ lock' \in Clients \cup {"none"}
  /\ UNCHANGED <<started, current, drain, steer, stop>>

\* One client goes on with its answer.
LEMMA AnswerStep ==
  ASSUME IInv, NEW c \in Clients, NEW r \in Runs, r <= started, NEW a,
         AnswerMoves(c, r, a), NEW n, NEW s,
         run' = [run EXCEPT ![r] = n], srv' = [srv EXCEPT ![r] = s],
         Pair(n, s, RemovingOf(c, a), MarkingOf(c, a)),
         a.pc = "send" => n.req = a.kind /\ a.kind # "none"
  PROVE  IInv'
<1>0. /\ answer' = [answer EXCEPT ![c] = a]
      /\ a \in [pc : {"idle", "send", "mark", "clear"}, run : 0 .. started,
                kind : Asks \cup {"none"}]
      /\ \A d \in Clients : d # c => answer[d].pc = "idle"
      /\ answer[c].pc # "idle" => answer[c].run = r
      /\ a.pc # "idle" => a.run = r /\ lock' = c
      /\ lock' \in Clients \cup {"none"}
      /\ UNCHANGED <<started, current, drain, steer, stop>>
  BY DEF AnswerMoves
<1>1. /\ run \in [Runs -> GoodRec] /\ srv \in [Runs -> SrvRec]
      /\ answer \in [Clients -> [pc : {"idle", "send", "mark", "clear"},
                                 run : 0 .. started, kind : Asks \cup {"none"}]]
  BY DEF IInv, Registers
<1>2. n \in GoodRec /\ s \in SrvRec BY DEF Pair
<1>3. /\ run' \in [Runs -> GoodRec] /\ srv' \in [Runs -> SrvRec]
      /\ run'[r] = n /\ srv'[r] = s
      /\ \A x \in Runs : x # r => run'[x] = run[x] /\ srv'[x] = srv[x]
  BY <1>1, <1>2
<1>4. /\ answer' \in [Clients -> [pc : {"idle", "send", "mark", "clear"},
                                  run : 0 .. started, kind : Asks \cup {"none"}]]
      /\ answer'[c] = a
      /\ \A d \in Clients : d # c => answer'[d] = answer[d]
  BY <1>0, <1>1
<1>5. Registers' BY <1>0, <1>3, <1>4 DEF IInv, Registers
<1>6. \A d \in Clients : answer'[d].pc # "idle" => d = c /\ a.run = r /\ lock' = c
  BY <1>0, <1>4
<1>7. Holders' BY <1>0, <1>4, <1>6 DEF Holders
<1>8. Unused'
  <2>1. ASSUME NEW x \in Runs, x > started
        PROVE  run'[x] = FreshRun /\ srv'[x] = FreshSrv
    <3>1. started \in Nat /\ r \in Nat BY DEF Runs, IInv, Registers
    <3>2. x # r BY <2>1, <3>1
    <3> QED BY <1>3, <2>1, <3>2 DEF IInv, Unused
  <2> QED BY <1>0, <2>1 DEF Unused
<1>9. Removing(r)' = RemovingOf(c, a) /\ Marking(r)' = MarkingOf(c, a)
  BY <1>0, <1>4, <1>6 DEF Removing, Marking, RemovingOf, MarkingOf
<1>10. ASSUME NEW x \in Runs, x # r
       PROVE  Removing(x)' = Removing(x) /\ Marking(x)' = Marking(x)
  <2>1. \A d \in Clients : answer[d].pc # "idle" => answer[d].run = r BY <1>0
  <2>2. \A d \in Clients : answer'[d].pc # "idle" => answer'[d].run = r
    BY <1>4, <1>6
  <2>3. Removing(x) = {} /\ Marking(x) = {}
    BY <1>10, <2>1 DEF Removing, Marking
  <2>4. Removing(x)' = {} /\ Marking(x)' = {}
    BY <1>10, <2>2 DEF Removing, Marking
  <2> QED BY <2>3, <2>4
<1>11. Pairs'
  <2>1. ASSUME NEW x \in Runs
        PROVE  Pair(run'[x], srv'[x], Removing(x)', Marking(x)')
    <3>1. CASE x = r BY <1>3, <1>9, <3>1
    <3>2. CASE x # r BY <1>3, <1>10, <3>2 DEF IInv, Pairs
    <3> QED BY <3>1, <3>2
  <2>2. \A x \in Runs : Pair(run[x], srv[x], Removing(x), Marking(x))'
    BY <2>1
  <2> QED BY <2>2 DEF Pairs
<1>12. ASSUME NEW d \in Clients PROVE Held(d)'
  <2>1. CASE d = c BY <1>0, <1>3, <1>4, <2>1 DEF Held
  <2>2. CASE d # c BY <1>6, <2>2 DEF Held
  <2> QED BY <2>1, <2>2
<1> QED BY <1>5, <1>7, <1>8, <1>11, <1>12 DEF IInv

\* A client takes the open request with the dispatch lock.
LEMMA AnswerTakesKept == ASSUME IInv, NEW c \in Clients, AnswerTakes(c) PROVE IInv'
<1> DEFINE r == current
           a == [pc |-> "send", run |-> r, kind |-> run[r].req]
<1>1. /\ lock = "none" /\ r # 0 /\ run[r].req # "none" /\ lock' = c
      /\ answer' = [answer EXCEPT ![c] = a]
      /\ UNCHANGED <<started, current, drain, run, srv, steer, stop>>
  BY DEF AnswerTakes
<1>2. r \in 0 .. started /\ started \in 0 .. MaxRuns /\ r \in Runs /\ r <= started
  BY <1>1 DEF IInv, Registers, Runs
<1>3. /\ Pair(run[r], srv[r], Removing(r), Marking(r)) /\ run[r] \in GoodRec
      /\ run \in [Runs -> GoodRec] /\ srv \in [Runs -> SrvRec]
  BY <1>2, OfRun
<1>4. \A d \in Clients : answer[d].pc = "idle" BY <1>1 DEF IInv, Holders
<1>5. a \in [pc : {"idle", "send", "mark", "clear"}, run : 0 .. started,
             kind : Asks \cup {"none"}]
  BY <1>2, <1>3 DEF GoodRec, RunRec
<1>6. AnswerMoves(c, r, a) BY <1>1, <1>4, <1>5 DEF AnswerMoves
<1>7. Removing(r) = RemovingOf(c, a) /\ Marking(r) = MarkingOf(c, a)
  BY <1>4 DEF Removing, Marking, RemovingOf, MarkingOf
<1>8. Pair(run[r], srv[r], RemovingOf(c, a), MarkingOf(c, a)) BY <1>3, <1>7
<1>9. run' = [run EXCEPT ![r] = run[r]] /\ srv' = [srv EXCEPT ![r] = srv[r]]
  BY <1>1, <1>3
<1>10. a.pc = "send" => run[r].req = a.kind /\ a.kind # "none" BY <1>1
<1> HIDE DEF a, r
<1> QED BY <1>2, <1>6, <1>8, <1>9, <1>10, AnswerStep

\* What a client that answers finds: its run, and nobody else who answers.
LEMMA AnswererFinds ==
  ASSUME IInv, NEW c \in Clients, answer[c].pc # "idle",
         NEW r, r = answer[c].run
  PROVE  /\ r \in Runs /\ r <= started
         /\ Pair(run[r], srv[r], Removing(r), Marking(r)) /\ RunsGood
         /\ run[r] \in GoodRec /\ srv[r] \in SrvRec
         /\ run \in [Runs -> GoodRec] /\ srv \in [Runs -> SrvRec]
         /\ Removing(r) = RemovingOf(c, answer[c])
         /\ Marking(r) = MarkingOf(c, answer[c])
<1>1. /\ answer[c].run \in Runs /\ answer[c].run <= started
      /\ \A d \in Clients : d # c => answer[d].pc = "idle"
      /\ answer[c] \in [pc : {"idle", "send", "mark", "clear"},
                        run : 0 .. started, kind : Asks \cup {"none"}]
  BY AnswersAlone
<1>2. /\ Removing(r) = RemovingOf(c, answer[c])
      /\ Marking(r) = MarkingOf(c, answer[c])
  BY <1>1 DEF Removing, Marking, RemovingOf, MarkingOf
<1> QED BY <1>1, <1>2, OfRun

\* A client whose answer cannot be written gives up.
LEMMA AnswerFailsKept == ASSUME IInv, NEW c \in Clients, AnswerFails(c) PROVE IInv'
<1>0. PICK r : r = answer[c].run OBVIOUS
<1> DEFINE a == [pc |-> "idle", run |-> 0, kind |-> "none"]
<1>1. /\ answer[c].pc = "send" /\ answer' = [answer EXCEPT ![c] = a]
      /\ lock' = IF lock = c THEN "none" ELSE lock
      /\ UNCHANGED <<started, current, drain, run, srv, steer, stop>>
  BY DEF AnswerFails, AnswerReturns
<1>2. /\ r \in Runs /\ r <= started
      /\ Pair(run[r], srv[r], Removing(r), Marking(r))
      /\ run \in [Runs -> GoodRec] /\ srv \in [Runs -> SrvRec]
      /\ Removing(r) = RemovingOf(c, answer[c])
      /\ Marking(r) = MarkingOf(c, answer[c])
  BY <1>0, <1>1, AnswererFinds
<1>3. /\ lock = c /\ \A d \in Clients : d # c => answer[d].pc = "idle"
  BY <1>1, AnswersAlone
<1>4. started \in Nat BY DEF IInv, Registers
<1>5. AnswerMoves(c, r, a) BY <1>0, <1>1, <1>3, <1>4 DEF AnswerMoves
<1>6. RemovingOf(c, a) = {} /\ MarkingOf(c, a) = {} /\ Removing(r) = {}
      /\ Marking(r) = {}
  BY <1>1, <1>2 DEF RemovingOf, MarkingOf
<1>7. Pair(run[r], srv[r], RemovingOf(c, a), MarkingOf(c, a)) BY <1>2, <1>6
<1>8. run' = [run EXCEPT ![r] = run[r]] /\ srv' = [srv EXCEPT ![r] = srv[r]]
  BY <1>1, <1>2
<1>9. a.pc # "send" OBVIOUS
<1> HIDE DEF a
<1> QED BY <1>2, <1>5, <1>7, <1>8, <1>9, AnswerStep

\* The answer takes the place of the request; a question keeps its wall.
LEMMA AnswerSendsKept == ASSUME IInv, NEW c \in Clients, AnswerSends(c) PROVE IInv'
<1>0. PICK r : r = answer[c].run OBVIOUS
<1>1. PICK k : k = answer[c].kind OBVIOUS
<1> DEFINE o == run[r]
           t == srv[r]
           a == [answer[c] EXCEPT !.pc = IF k = "input" THEN "mark" ELSE "clear"]
           n == [o EXCEPT !.wall = IF k = "input" THEN "answered" ELSE @]
           s == Sent(t, c, "answer")
<1>2. /\ answer[c].pc = "send" /\ t.proc = "up"
      /\ srv' = [srv EXCEPT ![r] = s] /\ run' = [run EXCEPT ![r] = n]
      /\ answer' = [answer EXCEPT ![c].pc = IF k = "input" THEN "mark" ELSE "clear"]
      /\ UNCHANGED <<started, current, drain, lock, steer, stop>>
  BY <1>0, <1>1 DEF AnswerSends, Writable
<1>3. /\ r \in Runs /\ r <= started
      /\ Pair(o, t, Removing(r), Marking(r)) /\ RunsGood
      /\ o \in GoodRec /\ t \in SrvRec
      /\ run \in [Runs -> GoodRec] /\ srv \in [Runs -> SrvRec]
      /\ Removing(r) = RemovingOf(c, answer[c])
      /\ Marking(r) = MarkingOf(c, answer[c])
  BY <1>0, <1>2, AnswererFinds
<1>4. /\ lock = c /\ \A d \in Clients : d # c => answer[d].pc = "idle"
      /\ answer[c] \in [pc : {"idle", "send", "mark", "clear"},
                        run : 0 .. started, kind : Asks \cup {"none"}]
  BY <1>2, AnswersAlone
<1>5. o.req = k /\ k # "none"
  <2>1. Held(c) BY DEF IInv
  <2> QED BY <1>0, <1>1, <1>2, <2>1 DEF Held
<1>6. Removing(r) = {} /\ Marking(r) = {}
  BY <1>2, <1>3 DEF RemovingOf, MarkingOf
<1>7. /\ a \in [pc : {"idle", "send", "mark", "clear"}, run : 0 .. started,
                kind : Asks \cup {"none"}]
      /\ a.pc = (IF k = "input" THEN "mark" ELSE "clear") /\ a.run = r
  BY <1>0, <1>4
<1>8. answer' = [answer EXCEPT ![c] = a] BY <1>2
<1>9. AnswerMoves(c, r, a)
  BY <1>0, <1>2, <1>4, <1>7, <1>8 DEF AnswerMoves
<1>10. RemovingOf(c, a) = {c} /\ (k = "input" => MarkingOf(c, a) = {c})
  BY <1>7 DEF RemovingOf, MarkingOf
<1>11. n \in GoodRec BY <1>2, <1>3, AnswerSendsGood, StillGood
<1>12. /\ n.pc = o.pc /\ n.call = o.call /\ n.age = o.age /\ n.req = o.req
       /\ n.exited = o.exited /\ n.completed = o.completed
       /\ n.responding = o.responding
       /\ n.wall = IF k = "input" THEN "answered" ELSE o.wall
  BY <1>3 DEF GoodRec, RunRec
<1>13. c \in Endpoints /\ "answer" \in Written BY DEF Endpoints, Written
<1>14. "answer" \notin Starters BY DEF Starters
<1>15. /\ s \in SrvRec /\ s.asks = t.asks /\ s.turn = t.turn
       /\ s.proc = t.proc /\ s.waited = t.waited
       /\ Turns(s) = Turns(t) + 0 /\ Questions(s) = Questions(t) + 1
  BY <1>3, <1>13, <1>14, SentCounts
<1> HIDE DEF a, n, s
<1>16. Turns(t) \in Nat /\ Questions(t) \in Nat BY <1>3, CountsTyped
<1>17. Alive(n, s) BY <1>3, <1>12, <1>15 DEF Pair, Alive
<1>18. OneTurn(n, s)
  BY <1>3, <1>12, <1>15, <1>16 DEF Pair, OneTurn, NoTurnYet
<1>19. n.wall # "asked" BY <1>3, <1>5, <1>12 DEF Pair, Walled
<1>20. OneQuestion(n, s, RemovingOf(c, a))
  <2>1. Open(o, Removing(r)) = 1 BY <1>5, <1>6 DEF Open
  <2>2. Questions(t) = 0 /\ t.asks # "none"
    BY <1>3, <1>16, <2>1 DEF Pair, OneQuestion
  <2>3. Open(n, RemovingOf(c, a)) = 0 BY <1>10, <1>19 DEF Open
  <2> QED BY <1>15, <2>2, <2>3 DEF OneQuestion
<1>21. Walled(n, MarkingOf(c, a))
  BY <1>3, <1>5, <1>6, <1>10, <1>12, <1>19 DEF Pair, Walled
<1>22. Pair(n, s, RemovingOf(c, a), MarkingOf(c, a))
  BY <1>11, <1>15, <1>17, <1>18, <1>20, <1>21 DEF Pair
<1>23. a.pc # "send" BY <1>7
<1> QED BY <1>2, <1>3, <1>9, <1>22, <1>23, AnswerStep

\* The barrier is raised before the request goes.
LEMMA AnswerMarksKept == ASSUME IInv, NEW c \in Clients, AnswerMarks(c) PROVE IInv'
<1>0. PICK r : r = answer[c].run OBVIOUS
<1> DEFINE o == run[r]
           a == [answer[c] EXCEPT !.pc = "clear"]
           n == [o EXCEPT !.responding = TRUE]
<1>1. /\ answer[c].pc = "mark" /\ run' = [run EXCEPT ![r] = n]
      /\ answer' = [answer EXCEPT ![c].pc = "clear"]
      /\ UNCHANGED <<started, current, drain, lock, srv, steer, stop>>
  BY <1>0 DEF AnswerMarks
<1>2. /\ r \in Runs /\ r <= started
      /\ Pair(o, srv[r], Removing(r), Marking(r)) /\ RunsGood
      /\ o \in GoodRec /\ srv[r] \in SrvRec
      /\ run \in [Runs -> GoodRec] /\ srv \in [Runs -> SrvRec]
      /\ Removing(r) = RemovingOf(c, answer[c])
  BY <1>0, <1>1, AnswererFinds
<1>3. /\ lock = c /\ \A d \in Clients : d # c => answer[d].pc = "idle"
      /\ answer[c] \in [pc : {"idle", "send", "mark", "clear"},
                        run : 0 .. started, kind : Asks \cup {"none"}]
  BY <1>1, AnswersAlone
<1>4. /\ a \in [pc : {"idle", "send", "mark", "clear"}, run : 0 .. started,
                kind : Asks \cup {"none"}]
      /\ a.pc = "clear" /\ a.run = r
  BY <1>0, <1>3
<1>5. answer' = [answer EXCEPT ![c] = a] BY <1>1
<1>6. AnswerMoves(c, r, a) BY <1>0, <1>1, <1>3, <1>4, <1>5 DEF AnswerMoves
<1>7. RemovingOf(c, a) = Removing(r) BY <1>1, <1>2, <1>4 DEF RemovingOf
<1>8. n \in GoodRec BY <1>1, <1>2, AnswerMarksGood, StillGood
<1>9. /\ n.pc = o.pc /\ n.call = o.call /\ n.age = o.age /\ n.req = o.req
      /\ n.exited = o.exited /\ n.completed = o.completed
      /\ n.responding /\ n.wall = o.wall
  BY <1>2 DEF GoodRec, RunRec
<1> HIDE DEF a, n
<1>10. Alive(n, srv[r]) BY <1>2, <1>9 DEF Pair, Alive
<1>11. OneTurn(n, srv[r]) BY <1>2, <1>9 DEF Pair, OneTurn, NoTurnYet
<1>12. OneQuestion(n, srv[r], RemovingOf(c, a))
  BY <1>2, <1>7, <1>9 DEF Pair, OneQuestion, Open
<1>13. Walled(n, MarkingOf(c, a)) BY <1>2, <1>9 DEF Pair, Walled
<1>14. Pair(n, srv[r], RemovingOf(c, a), MarkingOf(c, a))
  BY <1>2, <1>8, <1>10, <1>11, <1>12, <1>13 DEF Pair
<1>15. srv' = [srv EXCEPT ![r] = srv[r]] BY <1>1, <1>2
<1>16. a.pc # "send" BY <1>4
<1> QED BY <1>1, <1>2, <1>6, <1>14, <1>15, <1>16, AnswerStep

\* The request goes when the barrier is up, or none is needed.
LEMMA AnswerClearsKept == ASSUME IInv, NEW c \in Clients, AnswerClears(c) PROVE IInv'
<1>0. PICK r : r = answer[c].run OBVIOUS
<1> DEFINE o == run[r]
           a == [pc |-> "idle", run |-> 0, kind |-> "none"]
           n == [o EXCEPT !.req = "none",
                          !.wall = IF @ = "asked" THEN "lost" ELSE @]
<1>1. /\ answer[c].pc = "clear" /\ run' = [run EXCEPT ![r] = n]
      /\ answer' = [answer EXCEPT ![c] = a]
      /\ lock' = IF lock = c THEN "none" ELSE lock
      /\ UNCHANGED <<started, current, drain, srv, steer, stop>>
  BY <1>0 DEF AnswerClears, AnswerReturns
<1>2. /\ r \in Runs /\ r <= started
      /\ Pair(o, srv[r], Removing(r), Marking(r)) /\ RunsGood
      /\ o \in GoodRec /\ srv[r] \in SrvRec
      /\ run \in [Runs -> GoodRec] /\ srv \in [Runs -> SrvRec]
      /\ Marking(r) = MarkingOf(c, answer[c])
  BY <1>0, <1>1, AnswererFinds
<1>3. lock = c /\ \A d \in Clients : d # c => answer[d].pc = "idle"
  BY <1>1, AnswersAlone
<1>4. started \in Nat BY DEF IInv, Registers
<1>5. AnswerMoves(c, r, a) BY <1>0, <1>1, <1>3, <1>4 DEF AnswerMoves
<1>6. RemovingOf(c, a) = {} /\ Marking(r) = {}
  BY <1>1, <1>2 DEF RemovingOf, MarkingOf
<1>7. n \in GoodRec BY <1>1, <1>2, AnswerClearsGood, StillGood
<1>8. /\ n.pc = o.pc /\ n.call = o.call /\ n.age = o.age /\ n.req = "none"
      /\ n.exited = o.exited /\ n.completed = o.completed
      /\ n.responding = o.responding
      /\ n.wall = IF o.wall = "asked" THEN "lost" ELSE o.wall
  BY <1>2 DEF GoodRec, RunRec
<1>9. a.pc # "send" OBVIOUS
<1> HIDE DEF a, n
<1>10. Alive(n, srv[r]) BY <1>2, <1>8 DEF Pair, Alive
<1>11. OneTurn(n, srv[r]) BY <1>2, <1>8 DEF Pair, OneTurn, NoTurnYet
<1>12. OneQuestion(n, srv[r], RemovingOf(c, a))
  <2>1. Questions(srv[r]) \in Nat BY <1>2, CountsTyped
  <2>2. Open(n, RemovingOf(c, a)) = 0 BY <1>8 DEF Open
  <2>3. Open(o, Removing(r)) \in Nat BY DEF Open
  <2> QED BY <1>2, <2>1, <2>2, <2>3 DEF Pair, OneQuestion
<1>13. Walled(n, MarkingOf(c, a)) BY <1>2, <1>6, <1>8 DEF Pair, Walled
<1>14. Pair(n, srv[r], RemovingOf(c, a), MarkingOf(c, a))
  BY <1>2, <1>7, <1>10, <1>11, <1>12, <1>13 DEF Pair
<1>15. srv' = [srv EXCEPT ![r] = srv[r]] BY <1>1, <1>2
<1> QED BY <1>1, <1>2, <1>5, <1>9, <1>14, <1>15, AnswerStep

-----------------------------------------------------------------------------
\* The questions of the system.

\* At the start nothing runs and nobody answers.
LEMMA InitKept == Init => IInv
<1> SUFFICES ASSUME Init PROVE IInv
  OBVIOUS
<1>1. Registers
  <2>1. run \in [Runs -> GoodRec] BY FreshGood DEF Init
  <2>2. srv \in [Runs -> SrvRec] BY FreshSrvTyped DEF Init
  <2> QED BY <2>1, <2>2 DEF Init, Registers, NoSteer
<1>2. Holders BY DEF Init, Holders
<1>3. Unused BY DEF Init, Unused
<1>4. ASSUME NEW r \in Runs
      PROVE  Pair(run[r], srv[r], Removing(r), Marking(r))
  <2>1. run[r] = FreshRun /\ srv[r] = FreshSrv BY DEF Init
  <2>2. Turns(FreshSrv) = 0 /\ Questions(FreshSrv) = 0
    BY FreshSrvTyped, FreshCounts
  <2>3. Alive(FreshRun, FreshSrv)
    BY FreshSrvTyped DEF Alive, FreshRun, Calls
  <2>4. OneTurn(FreshRun, FreshSrv) BY <2>2, FreshSrvTyped DEF OneTurn
  <2>5. OneQuestion(FreshRun, FreshSrv, Removing(r))
    BY <2>2, FreshSrvTyped DEF OneQuestion, Open, FreshRun
  <2>6. Walled(FreshRun, Marking(r)) BY DEF Walled, FreshRun
  <2> QED BY <2>1, <2>3, <2>4, <2>5, <2>6, FreshGood, FreshSrvTyped DEF Pair
<1>5. \A c \in Clients : Held(c) BY DEF Init, Held
<1> QED BY <1>1, <1>2, <1>3, <1>4, <1>5 DEF IInv, Pairs

\* Every step of the goroutine of a run.
LEMMA RunKept == ASSUME IInv, NEW r \in Runs, Run(r) PROVE IInv'
<1>1. CASE RunRequests(r) \/ RunProceeds(r) \/ RunRefused(r)
           \/ RunGivesUp(r) \/ RunTearsDown(r)
  BY <1>1, RunRequestsKept, RunProceedsKept, RunRefusedKept, RunGivesUpKept,
     RunTearsDownKept
<1>2. CASE LoopHandles(r) \/ LoopSettles(r) \/ LoopCancelled(r)
           \/ LoopCloses(r) \/ LoopSeesExit(r) \/ LoopSeesEnd(r)
  BY <1>2, LoopHandlesKept, LoopSettlesKept, LoopCancelledKept,
     LoopClosesKept, LoopSeesExitKept, LoopSeesEndKept
<1>3. CASE LoopKills(r) \/ LoopDetaches(r) \/ LoopLeaves(r)
           \/ LoopEnds(r) \/ RunEnds(r)
  BY <1>3, LoopKillsKept, LoopDetachesKept, LoopLeavesKept, LoopEndsKept,
     RunEndsKept
<1> QED BY <1>1, <1>2, <1>3 DEF Run

\* Every step of the system keeps the invariant of the questions.
LEMMA StepKept == ASSUME IInv, [Next]_vars PROVE IInv'
<1>1. CASE UNCHANGED vars
  <2>1. OthersTyped' BY <1>1, OthersLocal DEF vars
  <2> QED BY <1>1, <2>1, RegistryStep DEF vars
<1>2. CASE SendWaits \/ SendStarts BY <1>2, SendWaitsKept, SendStartsKept
<1>3. ASSUME NEW r \in Runs, Run(r) PROVE IInv' BY <1>3, RunKept
<1>4. ASSUME NEW r \in Runs, Server(r) PROVE IInv'
  BY <1>4, ServerReadsKept, ServerNotesKept, ServerAsksKept,
     ServerEndsTurnKept, ServerExitsKept DEF Server
<1>5. ASSUME NEW r \in Runs, Reader(r) \/ WaiterReturns(r) PROVE IInv'
  BY <1>5, ReaderDeliversKept, ReaderEndsKept, WaiterReturnsKept DEF Reader
<1>6. ASSUME NEW r \in Runs, GraceEnds(r) \/ LimitEnds(r) PROVE IInv'
  BY <1>6, GraceEndsKept, LimitEndsKept
<1>7. CASE SteerPasses \/ SteerSends \/ SteerGivesUp
  BY <1>7, SteerPassesKept, SteerSendsKept, SteerGivesUpKept
<1>8. ASSUME NEW c \in Clients, AnswerTakes(c) \/ Answer(c) PROVE IInv'
  BY <1>8, AnswerTakesKept, AnswerFailsKept, AnswerSendsKept,
     AnswerMarksKept, AnswerClearsKept DEF Answer
<1>9. CASE StopFinds \/ StopKills BY <1>9, StopFindsKept, StopKillsKept
<1> QED BY <1>1, <1>2, <1>3, <1>4, <1>5, <1>6, <1>7, <1>8, <1>9 DEF Next

\* Every variable of a run, its server, its answers and its stops keeps its type
\* (TypeOK), whatever the server says and whoever steers, answers or stops.
THEOREM RunTypesCorrect == Spec => []TypeOK
<1>1. Init => IInv BY InitKept
<1>2. IInv /\ [Next]_vars => IInv' BY StepKept
<1>3. IInv => TypeOK
  <2> SUFFICES ASSUME IInv PROVE TypeOK
    OBVIOUS
  <2>1. Registers BY DEF IInv
  <2>2. run \in [Runs -> RunRec] BY <2>1 DEF Registers, GoodRec
  <2> QED BY <2>1, <2>2 DEF TypeOK, Registers, RunRec, SrvRec
<1> QED BY <1>1, <1>2, <1>3, PTL DEF Spec

\* One request gets one answer, whichever clients answer at once (AnsweredOnce):
\* a request is on its way, open, or answered, and never two of them.
THEOREM AnsweredOnceCorrect == Spec => []AnsweredOnce
<1>1. Init => IInv BY InitKept
<1>2. IInv /\ [Next]_vars => IInv' BY StepKept
<1>3. IInv => AnsweredOnce
  <2> SUFFICES ASSUME IInv, NEW r \in Runs
               PROVE  Cardinality({i \in DOMAIN srv[r].in : srv[r].in[i] = "answer"})
                        <= IF srv[r].asks = "none" THEN 0 ELSE 1
    BY DEF AnsweredOnce
  <2> DEFINE t == srv[r]
  <2>1. Pair(run[r], t, Removing(r), Marking(r)) /\ t \in SrvRec BY OfRun
  <2>2. Cardinality({i \in DOMAIN t.in : t.in[i] = "answer"})
          = Count(t.in, {"answer"})
    <3>1. {i \in DOMAIN t.in : t.in[i] = "answer"}
            = {i \in DOMAIN t.in : t.in[i] \in {"answer"}}
      OBVIOUS
    <3> QED BY <3>1 DEF Count
  <2>3. /\ Count(t.in, {"answer"}) \in Nat /\ Count(t.out, Asks) \in Nat
        /\ Count(t.incoming, Asks) \in Nat
    BY <2>1, Numbers
  <2>4. Open(run[r], Removing(r)) \in Nat BY DEF Open
  <2>5. Questions(t) + Open(run[r], Removing(r))
          <= IF t.asks = "none" THEN 0 ELSE 1
    BY <2>1 DEF Pair, OneQuestion
  <2> HIDE DEF t
  <2>6. Count(t.in, {"answer"}) <= IF t.asks = "none" THEN 0 ELSE 1
    BY <2>3, <2>4, <2>5 DEF Questions
  <2> QED BY <2>2, <2>6 DEF t
<1> QED BY <1>1, <1>2, <1>3, PTL DEF Spec

-----------------------------------------------------------------------------
\* The barrier for steered inputs.

\* Where an input was found free to go, it still is, until a question is recorded.
Barred ==
  steer.pc = "send" =>
    /\ steer.run \in Runs
    /\ ~ steer.late => /\ run[steer.run].req # "input"
                       /\ run[steer.run].wall \in {"none", "lost"}

\* A run in which no question appears and no barrier rises.
Calm(x) == run'[x].req \in {run[x].req, "none"} /\ run'[x].wall \in {run[x].wall, "none"}

\* What is free stays free in calm runs.
LEMMA CalmBarred ==
  ASSUME Barred, \A x \in Runs : Calm(x), steer'.pc = "send" => steer' = steer
  PROVE  Barred'
BY DEF Barred, Calm

\* A run that keeps its request and its barrier leaves all runs calm.
LEMMA ChangedCalm ==
  ASSUME IInv, NEW r \in Runs, NEW n, run' = [run EXCEPT ![r] = n],
         n.req = run[r].req, n.wall = run[r].wall
  PROVE  \A x \in Runs : Calm(x)
<1>1. run \in [Runs -> GoodRec] BY DEF IInv, Registers
<1> QED BY <1>1 DEF Calm

\* Runs that stay as they are are calm.
LEMMA SameCalm == ASSUME run' = run PROVE \A x \in Runs : Calm(x)
BY DEF Calm

\* An error on the way to the turn asks nothing.
LEMMA FailsCalm == ASSUME IInv, NEW r \in Runs, Fails(r) PROVE \A x \in Runs : Calm(x)
<1>1. run[r] \in RunRec BY OfRun DEF GoodRec
<1>2. PICK p \in {"loop", "failing"} :
        run' = [run EXCEPT ![r].pc = p, ![r].call = "none"]
  BY DEF Fails
<1> DEFINE n == [run[r] EXCEPT !.pc = p, !.call = "none"]
<1>3. n.req = run[r].req /\ n.wall = run[r].wall BY <1>1 DEF RunRec
<1>4. run' = [run EXCEPT ![r] = n] BY <1>2, OfRun
<1> HIDE DEF n
<1> QED BY <1>3, <1>4, ChangedCalm

\* The goroutine of a run asks nothing but when it handles a message.
LEMMA RunCalm ==
  ASSUME IInv, NEW r \in Runs, Run(r), ~ LoopHandles(r)
  PROVE  steer' = steer /\ \A x \in Runs : Calm(x)
<1>1. run \in [Runs -> GoodRec] /\ run[r] \in RunRec BY OfRun DEF GoodRec
<1>2. CASE RunRequests(r)
  <2> DEFINE n == [run[r] EXCEPT !.call = "wait"]
  <2>1. steer' = steer BY <1>2 DEF RunRequests, Local
  <2>2. n.req = run[r].req /\ n.wall = run[r].wall BY <1>1 DEF RunRec
  <2>3. run' = [run EXCEPT ![r] = n] \/ Fails(r) BY <1>1, <1>2 DEF RunRequests
  <2> HIDE DEF n
  <2> QED BY <2>1, <2>2, <2>3, ChangedCalm, FailsCalm
<1>3. CASE RunRefused(r)
  <2> DEFINE n == [run[r] EXCEPT !.call = "none", !.tries = @ + 1]
  <2>1. steer' = steer BY <1>3 DEF RunRefused, Local
  <2>2. n.req = run[r].req /\ n.wall = run[r].wall BY <1>1 DEF RunRec
  <2>3. run' = [run EXCEPT ![r] = n] \/ Fails(r) BY <1>1, <1>3 DEF RunRefused
  <2> HIDE DEF n
  <2> QED BY <2>1, <2>2, <2>3, ChangedCalm, FailsCalm
<1>4. CASE RunGivesUp(r)
  BY <1>4, FailsCalm DEF RunGivesUp, Local
<1>5. CASE RunProceeds(r)
  <2>1. steer' = steer BY <1>5 DEF RunProceeds, Local
  <2>2. PICK pc : run' = [run EXCEPT ![r].call = "none", ![r].pc = pc]
    BY <1>5 DEF RunProceeds
  <2> DEFINE n == [run[r] EXCEPT !.call = "none", !.pc = pc]
  <2>3. n.req = run[r].req /\ n.wall = run[r].wall BY <1>1 DEF RunRec
  <2>4. run' = [run EXCEPT ![r] = n] BY <1>1, <2>2
  <2> HIDE DEF n
  <2> QED BY <2>1, <2>3, <2>4, ChangedCalm
<1>6. ASSUME NEW n, run' = [run EXCEPT ![r] = n], steer' = steer,
             n.req = run[r].req, n.wall = run[r].wall
      PROVE  steer' = steer /\ \A x \in Runs : Calm(x)
  BY <1>6, ChangedCalm
<1>7. CASE RunTearsDown(r) \/ LoopSettles(r) \/ LoopCloses(r)
           \/ LoopDetaches(r) \/ LoopLeaves(r) \/ LoopEnds(r)
  <2>1. steer' = steer
    BY <1>7 DEF RunTearsDown, LoopSettles, LoopCloses, LoopDetaches, LoopLeaves, LoopEnds, Local
  <2>2. PICK p : run' = [run EXCEPT ![r].pc = p]
    BY <1>7 DEF RunTearsDown, LoopSettles, LoopCloses, LoopDetaches, LoopLeaves, LoopEnds
  <2> DEFINE n == [run[r] EXCEPT !.pc = p]
  <2>3. n.req = run[r].req /\ n.wall = run[r].wall BY <1>1 DEF RunRec
  <2>4. run' = [run EXCEPT ![r] = n] BY <1>1, <2>2
  <2> HIDE DEF n
  <2> QED BY <1>6, <2>1, <2>3, <2>4
<1>8. CASE LoopCancelled(r)
  <2> DEFINE n == [run[r] EXCEPT !.cancelled = TRUE, !.pc = "close"]
  <2>1. run' = [run EXCEPT ![r] = n] /\ steer' = steer
    BY <1>1, <1>8 DEF LoopCancelled, Local
  <2>2. n.req = run[r].req /\ n.wall = run[r].wall BY <1>1 DEF RunRec
  <2> HIDE DEF n
  <2> QED BY <1>6, <2>1, <2>2
<1>9. CASE LoopSeesExit(r)
  <2> DEFINE n == [run[r] EXCEPT !.exited = TRUE]
  <2>1. run' = [run EXCEPT ![r] = n] /\ steer' = steer BY <1>1, <1>9 DEF LoopSeesExit, Local
  <2>2. n.req = run[r].req /\ n.wall = run[r].wall BY <1>1 DEF RunRec
  <2> HIDE DEF n
  <2> QED BY <1>6, <2>1, <2>2
<1>10. CASE LoopSeesEnd(r)
  <2> DEFINE n == [run[r] EXCEPT !.drained = TRUE]
  <2>1. run' = [run EXCEPT ![r] = n] /\ steer' = steer BY <1>1, <1>10 DEF LoopSeesEnd, Local
  <2>2. n.req = run[r].req /\ n.wall = run[r].wall BY <1>1 DEF RunRec
  <2> HIDE DEF n
  <2> QED BY <1>6, <2>1, <2>2
<1>11. CASE LoopKills(r)
  <2> DEFINE n == [run[r] EXCEPT !.killed = TRUE]
  <2>1. run' = [run EXCEPT ![r] = n] /\ steer' = steer BY <1>1, <1>11 DEF LoopKills, Local
  <2>2. n.req = run[r].req /\ n.wall = run[r].wall BY <1>1 DEF RunRec
  <2> HIDE DEF n
  <2> QED BY <1>6, <2>1, <2>2
<1>12. CASE RunEnds(r)
  BY <1>1, <1>12 DEF RunEnds, FreshRun, Calm
<1> QED BY <1>2, <1>3, <1>4, <1>5, <1>7, <1>8, <1>9, <1>10, <1>11, <1>12 DEF Run

\* A message that asks nothing of the user records no question.
LEMMA HandledCalm ==
  ASSUME NEW n \in RunRec, NEW m, m # "input"
  PROVE  /\ Handled(n, m).req # "input" \/ n.req = "input"
         /\ Handled(n, m).wall \in {n.wall, "none"}
BY DEF Handled, Progress, RunRec

\* A question that comes behind the back of an input makes it late.
LEMMA LoopHandlesBarred ==
  ASSUME IInv, Barred, NEW r \in Runs, LoopHandles(r)
  PROVE  Barred'
<1> SUFFICES ASSUME steer'.pc = "send"
             PROVE  /\ steer'.run \in Runs
                    /\ ~ steer'.late => /\ run'[steer'.run].req # "input"
                                        /\ run'[steer'.run].wall \in {"none", "lost"}
  BY DEF Barred
<1>1. run \in [Runs -> GoodRec] /\ run[r] \in RunRec BY OfRun DEF GoodRec
<1>2. PICK m : m = Head(srv[r].incoming) OBVIOUS
<1>3. PICK n : n = Handled(run[r], m) OBVIOUS
<1>4. steer' = [steer EXCEPT !.late = @ \/ Overtakes(r)] BY DEF LoopHandles
<1>5. steer \in [pc : {"idle", "send", "wait"}, run : 0 .. started,
                late : BOOLEAN]
  BY DEF IInv, Registers
<1>6. steer.pc = "send" /\ steer'.run = steer.run BY <1>4, <1>5
<1>7. \/ run' = [run EXCEPT ![r] = n]
      \/ run' = [run EXCEPT ![r] = [n EXCEPT !.again = TRUE, !.pc = "again"]]
      \/ run' = [run EXCEPT ![r] = Completed(n)]
  BY <1>2, <1>3 DEF LoopHandles
<1>8. steer.run \in Runs BY <1>6 DEF Barred
<1>9. CASE steer'.late BY <1>6, <1>8, <1>9
<1>10. CASE ~ steer'.late
  <2>1. ~ steer.late /\ ~ Overtakes(r) BY <1>4, <1>5, <1>10
  <2>2. run[steer.run].req # "input" /\ run[steer.run].wall \in {"none", "lost"}
    BY <1>6, <2>1 DEF Barred
  <2>3. CASE steer.run # r BY <1>1, <1>6, <1>7, <1>8, <2>2, <2>3
  <2>4. CASE steer.run = r
    <3>1. m # "input" BY <1>2, <1>6, <2>1, <2>4 DEF Overtakes
    <3>2. n.req # "input" /\ n.wall \in {"none", "lost"}
      BY <1>1, <1>3, <2>2, <2>4, <3>1, HandledCalm
    <3>3. n \in RunRec
      <4>1. run[r] \in GoodRec /\ run[r].pc = "loop" BY OfRun DEF LoopHandles
      <4> QED BY <1>3, <4>1, HandledGood DEF GoodRec
    <3>4. PICK k : /\ run' = [run EXCEPT ![r] = k]
                   /\ k.req = n.req /\ k.wall = n.wall
      <4>1. n.req = n.req /\ n.wall = n.wall OBVIOUS
      <4>2. /\ [n EXCEPT !.again = TRUE, !.pc = "again"].req = n.req
            /\ [n EXCEPT !.again = TRUE, !.pc = "again"].wall = n.wall
        BY <3>3 DEF RunRec
      <4>3. Completed(n).req = n.req /\ Completed(n).wall = n.wall
        BY <3>3 DEF Completed, RunRec
      <4> QED BY <1>7, <4>1, <4>2, <4>3
    <3>5. run'[r].req = n.req /\ run'[r].wall = n.wall BY <1>1, <3>4
    <3> QED BY <1>6, <1>8, <2>4, <3>2, <3>5
  <2> QED BY <2>3, <2>4
<1> QED BY <1>9, <1>10

\* The last look finds a run that is free.
LEMMA SteerPassesBarred == ASSUME IInv, SteerPasses PROVE Barred'
<1>1. /\ current \in Runs /\ run[current] \in GoodRec /\ run \in [Runs -> GoodRec]
      /\ Pair(run[current], srv[current], Removing(current), Marking(current))
  <2>1. current \in Runs BY DEF SteerPasses, IInv, Registers, Runs
  <2> QED BY <2>1, OfRun
<1>2. /\ steer' = [pc |-> "send", run |-> current, late |-> FALSE]
      /\ run' = [run EXCEPT ![current].steers = @ + 1]
      /\ ~ run[current].responding /\ run[current].req # "input"
  BY DEF SteerPasses, BlocksSteer
<1>3. run[current].wall \in {"none", "lost"}
  BY <1>1, <1>2 DEF Pair, Walled, GoodRec, RunRec
<1>4. run'[current].req # "input" /\ run'[current].wall \in {"none", "lost"}
  BY <1>1, <1>2, <1>3 DEF GoodRec, RunRec
<1> QED BY <1>1, <1>2, <1>4 DEF Barred

\* An answer to a question finds the question open, so no input is past it.
LEMMA AnswerSendsBarred ==
  ASSUME IInv, Barred, NEW c \in Clients, AnswerSends(c)
  PROVE  Barred'
<1>1. PICK r : r = answer[c].run OBVIOUS
<1>2. /\ answer[c].pc = "send" /\ srv[r].proc = "up" /\ steer' = steer
      /\ run' = [run EXCEPT ![r].wall =
           IF answer[c].kind = "input" THEN "answered" ELSE @]
  BY <1>1 DEF AnswerSends, Writable
<1>3. r \in Runs /\ run[r].req = answer[c].kind
  BY <1>1, <1>2 DEF IInv, Holders, Held
<1>4. run \in [Runs -> GoodRec] /\ run[r] \in RunRec BY <1>3, OfRun DEF GoodRec
<1> SUFFICES ASSUME steer.pc = "send", ~ steer.late
             PROVE  /\ run'[steer.run].req # "input"
                    /\ run'[steer.run].wall \in {"none", "lost"}
  BY <1>2 DEF Barred
<1>5. /\ steer.run \in Runs /\ run[steer.run].req # "input"
      /\ run[steer.run].wall \in {"none", "lost"}
  BY DEF Barred
<1>6. CASE steer.run # r BY <1>2, <1>3, <1>4, <1>5, <1>6
<1>7. CASE steer.run = r BY <1>2, <1>3, <1>4, <1>5, <1>7 DEF RunRec
<1> QED BY <1>6, <1>7

\* The other steps of an answer raise nothing that SteerBarrier looks at.
LEMMA AnswerCalm ==
  ASSUME IInv, NEW c \in Clients, AnswerMarks(c) \/ AnswerClears(c), Barred
  PROVE  Barred'
<1>1. PICK r : r = answer[c].run OBVIOUS
<1>2. r \in Runs
  BY <1>1 DEF AnswerMarks, AnswerClears, IInv, Holders
<1>3. run \in [Runs -> GoodRec] /\ run[r] \in RunRec BY <1>2, OfRun DEF GoodRec
<1>4. steer' = steer BY DEF AnswerMarks, AnswerClears
<1>5. \/ run' = [run EXCEPT ![r].responding = TRUE]
      \/ run' = [run EXCEPT ![r].req = "none",
                           ![r].wall = IF @ = "asked" THEN "lost" ELSE @]
  BY <1>1 DEF AnswerMarks, AnswerClears
<1>6. \A x \in Runs : /\ run'[x].req \in {run[x].req, "none"}
                      /\ run'[x].wall \in {run[x].wall, "lost"}
  BY <1>2, <1>3, <1>5 DEF RunRec
<1> QED BY <1>4, <1>6 DEF Barred

\* Every step keeps an input from passing a question it could have seen.
LEMMA BarredKept == ASSUME IInv, Barred, [Next]_vars PROVE Barred'
<1>0. run \in [Runs -> GoodRec] /\ \A r \in Runs : run[r] \in RunRec
  BY OfRun DEF GoodRec, IInv, Registers
<1> DEFINE Still == run' = run /\ (steer'.pc = "send" => steer' = steer)
<1>1. ASSUME Still PROVE Barred' BY <1>1 DEF Barred
<1>2. CASE UNCHANGED vars BY <1>1, <1>2 DEF vars
<1>3. CASE SendWaits \/ StopFinds \/ SteerGivesUp \/ SteerSends
  <2>1. SendWaits \/ StopFinds => Still BY DEF SendWaits, StopFinds
  <2>2. SteerGivesUp => Still BY DEF SteerGivesUp, NoSteer
  <2>3. SteerSends => Still
    <3>1. SteerSends => run' = run BY DEF SteerSends
    <3>2. SteerSends => steer' = NoSteer \/ steer' = [steer EXCEPT !.pc = "wait"]
      BY DEF SteerSends
    <3>3. NoSteer.pc = "idle" BY DEF NoSteer
    <3>4. [steer EXCEPT !.pc = "wait"].pc = "wait" BY DEF IInv, Registers
    <3> QED BY <3>1, <3>2, <3>3, <3>4
  <2> QED BY <1>1, <1>3, <2>1, <2>2, <2>3
<1>4. CASE SendStarts
  <2>1. steer' = steer BY <1>4 DEF SendStarts
  <2>2. \A x \in Runs : Calm(x)
    <3>1. UNCHANGED run \/ Registered(started + 1)
      BY <1>4 DEF SendStarts
    <3> QED BY <1>0, <3>1 DEF Registered, FreshRun, Calm
  <2> QED BY <2>1, <2>2, CalmBarred
<1>5. ASSUME NEW r \in Runs, Run(r) PROVE Barred'
  <2>1. CASE LoopHandles(r) BY <2>1, LoopHandlesBarred
  <2>2. CASE ~ LoopHandles(r) BY <1>5, <2>2, RunCalm, CalmBarred
  <2> QED BY <2>1, <2>2
<1>6. ASSUME NEW r \in Runs,
             Server(r) \/ ReaderEnds(r) \/ WaiterReturns(r)
      PROVE  Barred'
  <2>1. Still
    BY <1>6 DEF Server, ServerReads, ServerNotes, ServerAsks, ServerEndsTurn,
                ServerExits, ReaderEnds, WaiterReturns
  <2> QED BY <1>1, <2>1
<1>7. ASSUME NEW r \in Runs, ReaderDelivers(r) PROVE Barred'
  <2>1. steer'.pc = "send" => steer' = steer
    BY <1>7 DEF ReaderDelivers, NoSteer
  <2>2. \/ run' = run \/ \E m : run' = [run EXCEPT ![r].call = m]
    BY <1>7 DEF ReaderDelivers
  <2>3. \A x \in Runs : Calm(x) BY <1>0, <2>2 DEF Calm, RunRec
  <2> QED BY <2>1, <2>3, CalmBarred
<1>8. ASSUME NEW r \in Runs, GraceEnds(r) \/ LimitEnds(r) PROVE Barred'
  <2>1. steer' = steer BY <1>8 DEF GraceEnds, LimitEnds, Local
  <2>2. PICK a : run' = [run EXCEPT ![r].age = a]
    BY <1>8 DEF GraceEnds, LimitEnds
  <2>3. \A x \in Runs : Calm(x) BY <1>0, <2>2 DEF Calm, RunRec
  <2> QED BY <2>1, <2>3, CalmBarred
<1>9. CASE SteerPasses BY <1>9, SteerPassesBarred
<1>10. ASSUME NEW c \in Clients, AnswerTakes(c) \/ AnswerFails(c) PROVE Barred'
  <2>1. Still BY <1>10 DEF AnswerTakes, AnswerFails
  <2> QED BY <1>1, <2>1
<1>11. ASSUME NEW c \in Clients, AnswerSends(c) \/ AnswerMarks(c) \/ AnswerClears(c)
       PROVE  Barred'
  BY <1>11, AnswerSendsBarred, AnswerCalm
<1>12. CASE StopKills
  <2>1. steer' = steer BY <1>12 DEF StopKills
  <2>2. \E b : run' = [run EXCEPT ![stop.run].abort = b] BY <1>12 DEF StopKills
  <2>3. \A x \in Runs : Calm(x) BY <1>0, <2>2 DEF Calm, RunRec
  <2> QED BY <2>1, <2>3, CalmBarred
<1> HIDE DEF Still
<1> QED BY <1>2, <1>3, <1>4, <1>5, <1>6, <1>7, <1>8, <1>9, <1>10, <1>11, <1>12
        DEF Next, Reader, Answer

\* turn/steer is written past no question of the user and no answer that has not
\* been followed by an event (SteerBarrier), except past a question recorded after
\* this input's last look at the barrier, or removed with an earlier one.
THEOREM SteerBarrierCorrect == Spec => SteerBarrier
<1>1. Init => IInv /\ Barred
  <2>1. Init => Barred BY DEF Init, Barred, NoSteer
  <2> QED BY <2>1, InitKept
<1>2. IInv /\ Barred /\ [Next]_vars => (IInv /\ Barred)'
  BY StepKept, BarredKept
<1> DEFINE Guarded == steer.pc = "send" /\ steer'.pc = "wait" =>
                        run[steer.run].wall \in {"none", "lost"} \/ steer.late
<1>3. Barred => [Guarded]_vars BY DEF Barred
<1> HIDE DEF Guarded
<1>4. Init /\ [][Next]_vars => [][Guarded]_vars BY <1>1, <1>2, <1>3, PTL
<1> QED BY <1>4 DEF Spec, SteerBarrier, Guarded

=============================================================================
