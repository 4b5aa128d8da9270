------------------------ MODULE ConversationRunProofs ------------------------
(***************************************************************************)
(* Theorems of ConversationRun, for every number of slots, requests, runs  *)
(* and ticks, every lease and heartbeat, and every set of faults that the  *)
(* statement of the theorem allows.                                        *)
(***************************************************************************)
EXTENDS ConversationRun, FiniteSetTheorems, TLAPS

-----------------------------------------------------------------------------
(* What the helpers of the model return.                                   *)

LEMMA RunsInBounds == Runs \subseteq 0 .. MaxRuns /\ 0 \in 0 .. MaxRuns
BY RunAssumption DEF RunAssumption, Runs

LEMMA NoRowType == \A s \in Status : NoRow(s) \in Row
BY RunsInBounds DEF NoRow, Row

LEMMA FailedType == \A r \in 0 .. MaxRuns : Failed(r) \in Row
BY RunsInBounds DEF Failed, Row, Status, Terminal

LEMMA WithStateType ==
  ASSUME row \in Row, NEW r \in 0 .. MaxRuns, NEW t \in Nat, NEW live \in BOOLEAN
  PROVE  /\ WithState(r, t, live) \in Row
         /\ WithState(r, t, live).status = row.status
         /\ WithState(r, t, live).run = r
<1>1. t + Lease \in Nat
  BY RunAssumption DEF RunAssumption
<1>2. CASE live = TRUE
  BY <1>1, <1>2 DEF WithState, Row
<1>3. CASE live = FALSE
  BY <1>1, <1>3 DEF WithState, Row
<1>4. QED
  BY <1>2, <1>3

LEMMA UpdateType ==
  ASSUME row \in Row, NEW new \in Row, Update(new)
  PROVE  row' \in Row
BY DEF Update, Row

LEMMA InType ==
  ASSUME NEW label \in MainPc, NEW r \in 0 .. MaxRuns
  PROVE  In(label, r) \in Delivery
BY DEF In, Delivery, MainOp

LEMMA NothingType ==
  /\ NoDelivery \in Delivery /\ NoAgent \in Agent
  /\ NoAside \in Aside /\ NoRequest \in Request
BY RunsInBounds DEF NoDelivery, In, Delivery, MainPc, MainOp, NoAgent, Agent,
   NoAside, Aside, NoRequest, Request, ReqPc

LEMMA GotoType ==
  ASSUME main \in [Workers -> Delivery], NEW w \in Workers, NEW label \in MainPc,
         Goto(w, label)
  PROVE  main' \in [Workers -> Delivery]
BY InType DEF Goto, Delivery

LEMMA BeginType ==
  ASSUME main \in [Workers -> Delivery], clock \in Nat, NEW w \in Workers,
         NEW o \in MainOp, Begin(w, o)
  PROVE  main' \in [Workers -> Delivery]
BY DEF Begin, Delivery, MainPc

LEMMA ReturnType ==
  ASSUME TypeOK, NEW w \in Workers, Return(w)
  PROVE  /\ main' \in [Workers -> Delivery]
         /\ agent' \in [Workers -> Agent]
         /\ jobs' \in [Runs -> Workers \cup {"none", "waiting", "done"}]
BY NothingType DEF Return, TypeOK

LEMMA LeaveType ==
  ASSUME TypeOK, NEW w \in Workers, Leave(w)
  PROVE  /\ main' \in [Workers -> Delivery]
         /\ agent' \in [Workers -> Agent]
         /\ jobs' \in [Runs -> Workers \cup {"none", "waiting", "done"}]
         /\ active' \in [Runs -> Workers \cup {Nil}]
BY ReturnType DEF Leave, TypeOK

LEMMA ThrowType ==
  ASSUME TypeOK, NEW w \in Workers, Throw(w)
  PROVE  /\ main' \in [Workers -> Delivery]
         /\ agent' \in [Workers -> Agent]
BY GotoType, NothingType DEF Throw, StopTimer, TypeOK, MainPc, FailPc

LEMMA PublishType ==
  ASSUME TypeOK, NEW r, NEW event \in {"answer_done", "run_failed"},
         Publish(r, event)
  PROVE  term' \in [Runs -> SUBSET {"answer_done", "run_failed"}]
BY DEF Publish, TypeOK

LEMMA RespondType ==
  ASSUME TypeOK, NEW q \in Requests, Respond(q)
  PROVE  req' \in [Requests -> Request]
BY NothingType DEF Respond, TypeOK
-----------------------------------------------------------------------------
(* Types.                                                                  *)

LEMMA TypeInit == Init => TypeOK
BY NoRowType, NothingType, RunsInBounds
   DEF Init, TypeOK, Status, NoDelivery, NoAgent, NoAside, NoRequest

LEMMA TypeWeb ==
  ASSUME TypeOK, NEW q \in Requests, Web(q)
  PROVE  TypeOK'
<1> USE DEF TypeOK, queueVars, procVars, workerVars
<1>1. req[q] \in Request /\ row \in Row /\ 0 \in 0 .. MaxRuns
  BY RunsInBounds
<1>2. ASSUME NEW c \in ReqPc PROVE [req[q] EXCEPT !.pc = c] \in Request
  BY <1>1 DEF Request
<1>3. CASE Post(q)
  <2>1. issued + 1 \in 0 .. MaxRuns /\ clock + Lease \in Nat
    BY <1>3, RunAssumption DEF Post, RunAssumption
  <2>2. row' \in Row
    BY <1>3, <2>1, <1>1 DEF Post, Row, Status
  <2>3. req' \in [Requests -> Request]
    <3>1. [[req[q] EXCEPT !.pc = "enqueue"] EXCEPT !.run = issued + 1] \in Request
      <4>1. [req[q] EXCEPT !.pc = "enqueue"] \in Request
        BY <1>2 DEF ReqPc
      <4>2. ASSUME NEW n \in Request PROVE [n EXCEPT !.run = issued + 1] \in Request
        BY <2>1 DEF Request
      <4>3. QED
        BY <4>1, <4>2
    <3>2. req' = [req EXCEPT ![q] = [[@ EXCEPT !.pc = "enqueue"]
                                        EXCEPT !.run = issued + 1]]
      BY <1>3 DEF Post
    <3>3. QED
      BY <3>1, <3>2
  <2>4. QED
    BY <1>3, <2>1, <2>2, <2>3 DEF Post
<1>4. CASE Enqueue(q)
  BY <1>4, <1>2 DEF Enqueue, ReqPc
<1>5. CASE EnqueueFails(q)
  BY <1>5, <1>2 DEF EnqueueFails, ReqPc
<1>6. CASE Touch(q)
  BY <1>6, <1>2, RespondType DEF Touch, ReqPc
<1>7. CASE Undo(q)
  <2>1. req[q].run \in 0 .. MaxRuns
    BY <1>1 DEF Request
  <2>2. row' \in Row
    BY <1>7, <2>1, FailedType, UpdateType DEF Undo
  <2>3. QED
    BY <1>7, <2>2, RespondType DEF Undo
<1>8. CASE StopRead(q)
  <2>1. [pc |-> "stop", run |-> row.run, lease |-> 0, text |-> row.text] \in Request
    BY <1>1 DEF Row, Request, ReqPc
  <2>2. QED
    BY <1>8, <2>1 DEF StopRead
<1>9. CASE StopWrite(q)
  <2>1. row' \in Row
    <3>1. [status |-> "completed", run |-> req[q].run, lease |-> 0,
           live |-> FALSE, text |-> req[q].text] \in Row
      BY <1>1 DEF Request, Row, Status, Terminal
    <3>2. QED
      BY <1>9, <1>1, <3>1 DEF StopWrite
  <2>2. req' \in [Requests -> Request]
    BY <1>9, <1>2, RespondType DEF StopWrite, ReqPc
  <2>3. QED
    BY <1>9, <2>1, <2>2 DEF StopWrite
<1>10. CASE Cancel(q)
  <2>1. agent' \in [Workers -> Agent]
    <3>1. CASE UNCHANGED agent
      BY <3>1
    <3>2. CASE ~ UNCHANGED agent
      <4> DEFINE w == active[req[q].run]
      <4>1. agent' = [agent EXCEPT ![w].cancelled = TRUE]
        BY <1>10, <3>2 DEF Cancel
      <4>2. CASE w \in Workers
        BY <4>1, <4>2 DEF Agent
      <4>3. CASE w \notin Workers
        BY <4>1, <4>3
      <4>4. QED
        BY <4>2, <4>3
    <3>3. QED
      BY <3>1, <3>2
  <2>2. QED
    BY <1>10, <2>1, RespondType DEF Cancel
<1>11. CASE ViewRead(q)
  <2>1. [pc |-> "expire", run |-> row.run, lease |-> row.lease, text |-> 0] \in Request
    BY <1>1 DEF Row, Request, ReqPc
  <2>2. QED
    BY <1>11, <2>1 DEF ViewRead
<1>12. CASE ViewExpire(q)
  <2>1. row' \in Row
    BY <1>12, <1>1, FailedType DEF ViewExpire, Request
  <2>2. req' \in [Requests -> Request]
    BY <1>12, <1>2, RespondType DEF ViewExpire, ReqPc
  <2>3. QED
    BY <1>12, <2>1, <2>2 DEF ViewExpire
<1>13. CASE RetryRead(q)
  BY <1>13, <1>2 DEF RetryRead, ReqPc
<1>14. CASE RetryClear(q)
  <2>1. clock + Lease \in Nat
    BY RunAssumption DEF RunAssumption
  <2>2. issued' \in 0 .. MaxRuns
    BY <1>14, RunAssumption DEF RetryClear, RunAssumption
  <2>3. req' \in [Requests -> Request]
    <3>1. CASE Respond(q)
      BY <3>1, RespondType
    <3>2. CASE ~Respond(q)
      BY <1>14, <3>2, <2>1, <2>2, <1>1 DEF RetryClear, Request, ReqPc
    <3>3. QED
      BY <3>1, <3>2
  <2>4. QED
    BY <1>14, <2>2, <2>3 DEF RetryClear
<1>15. CASE RetryWrite(q)
  <2>1. [status |-> "streaming", run |-> req[q].run, lease |-> req[q].lease,
         live |-> TRUE, text |-> 0] \in Row
    BY <1>1 DEF Request, Row, Status
  <2>2. row' \in Row
    BY <1>15, <2>1, UpdateType DEF RetryWrite
  <2>3. req' \in [Requests -> Request]
    BY <1>15, <1>1 DEF RetryWrite, Request, ReqPc
  <2>4. QED
    BY <1>15, <2>2, <2>3 DEF RetryWrite
<1>16. CASE Delete(q)
  BY <1>16, NoRowType DEF Delete, Status
<1>17. QED
  BY <1>3, <1>4, <1>5, <1>6, <1>7, <1>8, <1>9, <1>10, <1>11, <1>12, <1>13,
     <1>14, <1>15, <1>16 DEF Web

LEMMA TypeJob ==
  ASSUME TypeOK, NEW w \in Workers, Job(w)
  PROVE  TypeOK'
<1> USE DEF TypeOK, queueVars, procVars, workerVars
<1>1. /\ main[w] \in Delivery /\ main[w].run \in 0 .. MaxRuns
      /\ main[w].stamp \in Nat /\ row \in Row
  BY DEF Delivery
<1>2. CASE \E r \in Runs : Take(w, r)
  <2>1. PICK r \in Runs : Take(w, r)
    BY <1>2
  <2>2. In("load", r) \in Delivery
    BY RunsInBounds, InType DEF MainPc
  <2>3. QED
    BY <2>1, <2>2 DEF Take
<1>3. CASE Load(w)
  BY <1>3, BeginType, ReturnType DEF Load, MainOp
<1>4. CASE AssertStreaming(w)
  <2>1. CASE Mine(main[w].run)
    <3>1. [main[w] EXCEPT !.pc = "write"] \in Delivery
      BY <1>1 DEF Delivery, MainPc
    <3>2. main' = [main EXCEPT ![w] = [main[w] EXCEPT !.pc = "write"]]
      BY <1>4, <2>1 DEF AssertStreaming
    <3>3. QED
      BY <1>4, <2>1, <3>1, <3>2 DEF AssertStreaming
  <2>2. CASE ~Mine(main[w].run)
    BY <1>4, <2>2, LeaveType DEF AssertStreaming
  <2>3. QED
    BY <2>1, <2>2
<1>5. CASE Write(w)
  <2> DEFINE r == main[w].run
             o == main[w].op
             saved == WithState(r, main[w].stamp, o # "done")
  <2>1. saved \in Row
    BY <1>1, WithStateType
  <2>2. [saved EXCEPT !.text = r] \in Row
    BY <1>1, <2>1 DEF Row
  <2>3. [saved EXCEPT !.status = "completed", !.text = r] \in Row
    BY <1>1, <2>1 DEF Row, Status, Terminal
  <2>4. row' \in Row
    BY <1>5, <1>1, <2>1, <2>2, <2>3, UpdateType DEF Write
  <2>5. main' \in [Workers -> Delivery]
    BY <1>5, GotoType, BeginType DEF Write, MainPc, MainOp
  <2>6. QED
    BY <1>5, <2>4, <2>5 DEF Write
<1>6. CASE Prepare(w)
  <2>1. main' \in [Workers -> Delivery]
    BY <1>6, GotoType DEF Prepare, MainPc
  <2>2. ASSUME NEW n \in Agent PROVE [[n EXCEPT !.timer = TRUE] EXCEPT !.beat = clock] \in Agent
    <3>1. [n EXCEPT !.timer = TRUE] \in Agent
      BY DEF Agent
    <3>2. ASSUME NEW m \in Agent PROVE [m EXCEPT !.beat = clock] \in Agent
      BY DEF Agent
    <3>3. QED
      BY <3>1, <3>2
  <2>3. agent' = [agent EXCEPT ![w] = [[@ EXCEPT !.timer = TRUE] EXCEPT !.beat = clock]]
    BY <1>6 DEF Prepare
  <2>4. agent' \in [Workers -> Agent]
    BY <2>2, <2>3
  <2>5. QED
    BY <1>6, <2>1, <2>4 DEF Prepare
<1>7. CASE StartAgent(w)
  BY <1>7, GotoType DEF StartAgent, MainPc, Agent
<1>8. CASE Emit(w)
  BY <1>8, BeginType DEF Emit, MainOp
<1>9. CASE AgentReturns(w)
  BY <1>9, BeginType, NothingType DEF AgentReturns, StopTimer, MainOp
<1>10. CASE AgentFails(w)
  BY <1>10, ThrowType DEF AgentFails
<1>11. CASE Cite(w)
  BY <1>11, <1>1, ThrowType, GotoType DEF Cite, MainPc
<1>12. CASE AnswerDone(w)
  BY <1>12, PublishType, LeaveType DEF AnswerDone, Delivery, MainPc
<1>13. CASE Final(w)
  BY <1>13, <1>1, WithStateType, UpdateType, LeaveType DEF Final
<1>14. CASE FailRead(w)
  BY <1>14, GotoType, LeaveType DEF FailRead, MainPc, FailPc
<1>15. CASE FailWrite(w)
  BY <1>15, <1>1, FailedType, UpdateType, GotoType DEF FailWrite, MainPc, FailPc
<1>16. CASE FailEvent(w)
  BY <1>16, PublishType, GotoType, LeaveType DEF FailEvent, MainPc, FailPc
<1>17. CASE FailFinal(w)
  BY <1>17, <1>1, FailedType, UpdateType, LeaveType DEF FailFinal
<1>18. CASE DbError(w)
  BY <1>18, ThrowType, LeaveType, ReturnType DEF DbError
<1>19. QED
  BY <1>2, <1>3, <1>4, <1>5, <1>6, <1>7, <1>8, <1>9, <1>10, <1>11, <1>12,
     <1>13, <1>14, <1>15, <1>16, <1>17, <1>18 DEF Job

LEMMA TypeBeside ==
  ASSUME TypeOK, NEW w \in Workers, Beside(w)
  PROVE  TypeOK'
<1> USE DEF TypeOK, queueVars, procVars, workerVars
<1>1. main[w].run \in 0 .. MaxRuns /\ side[w] \in Aside
  BY DEF Delivery
<1>2. ASSUME NEW kind \in {"beat", "tool"}, SideStart(w, kind)
      PROVE  side' \in [Workers -> Aside]
  BY <1>1, <1>2 DEF SideStart, Aside
<1>3. CASE Heartbeat(w)
  BY <1>3, <1>2 DEF Heartbeat, SideStart, Agent
<1>4. CASE ToolHook(w)
  BY <1>4, <1>2 DEF ToolHook, SideStart
<1>5. CASE SideAssert(w)
  <2>1. side' \in [Workers -> Aside]
    <3>1. CASE Mine(side[w].run)
      BY <1>5, <1>1, <3>1 DEF SideAssert, Aside
    <3>2. CASE ~ Mine(side[w].run)
      BY <1>5, <3>2, NothingType DEF SideAssert
    <3>3. QED
      BY <3>1, <3>2
  <2>2. agent' \in [Workers -> Agent]
    <3>1. CASE UNCHANGED agent
      BY <3>1
    <3>2. CASE ~ UNCHANGED agent
      <4>1. agent' = [agent EXCEPT ![w].timer = FALSE]
        BY <1>5, <3>2 DEF SideAssert
      <4>2. QED
        BY <4>1 DEF Agent
    <3>3. QED
      BY <3>1, <3>2
  <2>3. QED
    BY <1>5, <2>1, <2>2 DEF SideAssert
<1>6. CASE SideWrite(w)
  <2>1. side[w].run \in 0 .. MaxRuns /\ side[w].stamp \in Nat
    BY <1>1 DEF Aside
  <2>2. row' \in Row
    BY <1>6, <2>1, WithStateType, UpdateType DEF SideWrite
  <2>3. QED
    BY <1>6, <2>2, NothingType DEF SideWrite
<1>7. CASE SideFails(w)
  BY <1>7, NothingType DEF SideFails
<1>8. QED
  BY <1>3, <1>4, <1>5, <1>6, <1>7 DEF Beside

LEMMA TypeRuntime == TypeOK /\ Runtime => TypeOK'
<1> SUFFICES ASSUME TypeOK, Runtime PROVE TypeOK'
  OBVIOUS
<1> USE DEF TypeOK, queueVars, procVars, workerVars
<1>1. CASE Shutdown
  <2>1. \A w \in Workers, b \in BOOLEAN : [agent[w] EXCEPT !.cancelled = b] \in Agent
    BY DEF Agent
  <2>2. \A w \in Workers : agent[w].cancelled \in BOOLEAN
    BY DEF Agent
  <2>3. agent' \in [Workers -> Agent]
    BY <1>1, <2>1, <2>2 DEF Shutdown
  <2>4. shut' \in [Runs -> {"idle"} \cup FailPc]
    BY <1>1 DEF Shutdown, FailPc
  <2>5. QED
    BY <1>1, <2>3, <2>4 DEF Shutdown
<1>2. ASSUME Die PROVE TypeOK'
  BY <1>2, NothingType DEF Die
<1>3. CASE Exit
  BY <1>3, <1>2 DEF Exit
<1>4. CASE Crash
  BY <1>4, <1>2 DEF Crash
<1>5. CASE Restart
  BY <1>5 DEF Restart
<1>6. ASSUME NEW r \in Runs, ShutFail(r) PROVE TypeOK'
  BY <1>6, RunsInBounds, FailedType, UpdateType, PublishType DEF ShutFail, FailPc
<1>7. ASSUME NEW r \in Runs, Stalled(r) PROVE TypeOK'
  BY <1>7 DEF Stalled
<1>8. QED
  BY <1>1, <1>3, <1>4, <1>5, <1>6, <1>7 DEF Runtime

LEMMA TypeStep == TypeOK /\ [Next]_vars => TypeOK'
<1> SUFFICES ASSUME TypeOK, [Next]_vars PROVE TypeOK'
  OBVIOUS
<1>1. CASE Tick
  BY <1>1 DEF Tick, TypeOK, queueVars, procVars, workerVars
<1>2. CASE UNCHANGED vars
  BY <1>2 DEF vars, TypeOK, queueVars, procVars, workerVars
<1>3. QED
  BY <1>1, <1>2, TypeWeb, TypeJob, TypeBeside, TypeRuntime DEF Next

\* Every variable keeps its type, whatever the bounds and the faults.
THEOREM TypeCorrect == Spec => []TypeOK
BY TypeInit, TypeStep, PTL DEF Spec
-----------------------------------------------------------------------------
(* The registry of active runs.                                            *)

\* A delivery that goes on, under the run it was taken for, stays registered.
LEMMA MoveOn ==
  ASSUME TypeOK, RegisteredIsInProgress, NEW w \in Workers, NEW d,
         UNCHANGED active, main' = [main EXCEPT ![w] = d],
         d.run = main[w].run, d.pc \notin {"idle", "load"}
  PROVE  RegisteredIsInProgress'
BY DEF TypeOK, RegisteredIsInProgress, Registered

LEMMA GotoRegistered ==
  ASSUME TypeOK, RegisteredIsInProgress, NEW w \in Workers, UNCHANGED active,
         NEW label \in MainPc \ {"idle", "load"}, Goto(w, label)
  PROVE  RegisteredIsInProgress'
BY MoveOn DEF Goto, In

LEMMA BeginRegistered ==
  ASSUME TypeOK, RegisteredIsInProgress, NEW w \in Workers, UNCHANGED active,
         NEW o, Begin(w, o)
  PROVE  RegisteredIsInProgress'
BY MoveOn DEF Begin

LEMMA LeaveRegistered ==
  ASSUME TypeOK, RegisteredIsInProgress, NEW w \in Workers, Leave(w)
  PROVE  RegisteredIsInProgress'
BY DEF TypeOK, RegisteredIsInProgress, Registered, Leave, Return

\* A slot whose delivery is not registered may change it at will.
LEMMA Unregistered ==
  ASSUME TypeOK, RegisteredIsInProgress, NEW w \in Workers, NEW d,
         UNCHANGED active, main' = [main EXCEPT ![w] = d],
         main[w].pc \in {"idle", "load"}
  PROVE  RegisteredIsInProgress'
BY DEF TypeOK, RegisteredIsInProgress, Registered

LEMMA RegisteredUnchanged ==
  ASSUME RegisteredIsInProgress, UNCHANGED <<active, main>>
  PROVE  RegisteredIsInProgress'
BY DEF RegisteredIsInProgress, Registered

LEMMA RegisteredJob ==
  ASSUME TypeOK, RegisteredIsInProgress, NEW w \in Workers, Job(w)
  PROVE  RegisteredIsInProgress'
<1>1. CASE \E r \in Runs : Take(w, r)
  BY <1>1, Unregistered DEF Take, procVars
<1>2. CASE Load(w)
  <2>1. CASE Mine(main[w].run)
    BY <1>2, <2>1 DEF Load, Begin, TypeOK, RegisteredIsInProgress, Registered
  <2>2. CASE ~ Mine(main[w].run)
    BY <1>2, <2>2, Unregistered DEF Load, Return
  <2>3. QED
    BY <2>1, <2>2
<1>3. CASE AssertStreaming(w)
  <2>1. CASE Mine(main[w].run)
    <3>1. main' = [main EXCEPT ![w] = [main[w] EXCEPT !.pc = "write"]]
      BY <1>3, <2>1 DEF AssertStreaming
    <3>2. main[w] \in Delivery
      BY DEF TypeOK
    <3>3. /\ [main[w] EXCEPT !.pc = "write"].run = main[w].run
          /\ [main[w] EXCEPT !.pc = "write"].pc = "write"
      BY <3>2 DEF Delivery
    <3>4. QED
      BY <1>3, <2>1, <3>1, <3>3, MoveOn DEF AssertStreaming
  <2>2. CASE ~ Mine(main[w].run)
    BY <1>3, <2>2, LeaveRegistered DEF AssertStreaming
  <2>3. QED
    BY <2>1, <2>2
<1>4. CASE Write(w)
  BY <1>4, GotoRegistered, BeginRegistered DEF Write, procVars, MainPc
<1>5. CASE Prepare(w) \/ StartAgent(w)
  BY <1>5, GotoRegistered DEF Prepare, StartAgent, procVars, MainPc
<1>6. CASE Emit(w) \/ AgentReturns(w)
  BY <1>6, BeginRegistered DEF Emit, AgentReturns, procVars
<1>7. CASE AgentFails(w)
  BY <1>7, GotoRegistered DEF AgentFails, Throw, procVars, MainPc, FailPc
<1>8. CASE Cite(w)
  BY <1>8, GotoRegistered DEF Cite, Throw, procVars, MainPc, FailPc
<1>9. CASE AnswerDone(w)
  <2>1. CASE Leave(w)
    BY <2>1, LeaveRegistered
  <2>2. CASE ~ Leave(w)
    <3>1. main' = [main EXCEPT ![w] = [main[w] EXCEPT !.pc = "final", !.stamp = clock]]
      BY <1>9, <2>2 DEF AnswerDone
    <3>2. main[w] \in Delivery
      BY DEF TypeOK
    <3>3. /\ [main[w] EXCEPT !.pc = "final", !.stamp = clock].run = main[w].run
          /\ [main[w] EXCEPT !.pc = "final", !.stamp = clock].pc = "final"
      BY <3>2 DEF Delivery
    <3>4. QED
      BY <1>9, <2>2, <3>1, <3>3, MoveOn DEF AnswerDone
  <2>3. QED
    BY <2>1, <2>2
<1>10. CASE Final(w) \/ FailFinal(w)
  BY <1>10, LeaveRegistered DEF Final, FailFinal
<1>11. CASE FailRead(w) \/ FailWrite(w) \/ FailEvent(w)
  BY <1>11, LeaveRegistered, GotoRegistered
     DEF FailRead, FailWrite, FailEvent, procVars, MainPc, FailPc
<1>12. CASE DbError(w)
  BY <1>12, LeaveRegistered, GotoRegistered, Unregistered
     DEF DbError, Throw, Return, MainPc, FailPc
<1>13. QED
  BY <1>1, <1>2, <1>3, <1>4, <1>5, <1>6, <1>7, <1>8, <1>9, <1>10, <1>11, <1>12
     DEF Job

LEMMA RegisteredStep ==
  TypeOK /\ RegisteredIsInProgress /\ [Next]_vars => RegisteredIsInProgress'
<1> SUFFICES ASSUME TypeOK, RegisteredIsInProgress, [Next]_vars
             PROVE  RegisteredIsInProgress'
  OBVIOUS
<1>1. ASSUME NEW q \in Requests, Web(q) PROVE UNCHANGED <<active, main>>
  BY <1>1 DEF Web, Post, Enqueue, EnqueueFails, Touch, Undo, StopRead, StopWrite,
     Cancel, ViewRead, ViewExpire, RetryRead, RetryClear, RetryWrite, Delete,
     workerVars, procVars
<1>2. ASSUME NEW w \in Workers, Beside(w) PROVE UNCHANGED <<active, main>>
  BY <1>2 DEF Beside, Heartbeat, ToolHook, SideStart, SideAssert, SideWrite,
     SideFails, procVars
<1>3. ASSUME Exit \/ Crash PROVE RegisteredIsInProgress'
  BY <1>3 DEF Exit, Crash, Die, RegisteredIsInProgress
<1>4. ASSUME Runtime, ~ Exit, ~ Crash PROVE UNCHANGED <<active, main>>
  BY <1>4 DEF Runtime, Shutdown, Restart, ShutFail, Stalled, workerVars, procVars
<1>5. ASSUME Tick \/ UNCHANGED vars PROVE UNCHANGED <<active, main>>
  BY <1>5 DEF Tick, vars, workerVars, procVars
<1>6. QED
  BY <1>1, <1>2, <1>3, <1>4, <1>5, RegisteredJob, RegisteredUnchanged DEF Next

\* The registry that /runs/cancel and the shutdown read names only deliveries
\* that are in progress, whatever fails, stalls or restarts.
THEOREM RegistryCorrect == Spec => []RegisteredIsInProgress
<1>1. Init => RegisteredIsInProgress
  BY DEF Init, RegisteredIsInProgress
<1>2. QED
  BY <1>1, TypeCorrect, RegisteredStep, PTL DEF Spec

-----------------------------------------------------------------------------
(* The compare-and-set of the stream route.                                *)

\* Only the web handlers change what a request is about to do.
LEMMA OnlyWebWritesRequests ==
  ASSUME [Next]_vars, ~ \E q \in Requests : Web(q)
  PROVE  UNCHANGED req
<1>1. ASSUME NEW w \in Workers, Job(w) PROVE UNCHANGED req
  BY <1>1 DEF Job, Take, Load, AssertStreaming, Write, Prepare, StartAgent, Emit,
     AgentReturns, AgentFails, Cite, AnswerDone, Final, FailRead, FailWrite,
     FailEvent, FailFinal, DbError
<1>2. ASSUME NEW w \in Workers, Beside(w) PROVE UNCHANGED req
  BY <1>2 DEF Beside, Heartbeat, ToolHook, SideStart, SideAssert, SideWrite, SideFails
<1>3. ASSUME Runtime PROVE UNCHANGED req
  BY <1>3 DEF Runtime, Shutdown, Exit, Crash, Die, Restart, ShutFail, Stalled
<1>4. QED
  BY <1>1, <1>2, <1>3 DEF Next, Tick, vars

LEMMA TimeForward ==
  ASSUME TypeOK, [Next]_vars
  PROVE  clock' \in {clock, clock + 1}
<1>1. ASSUME NEW q \in Requests, Web(q) PROVE clock' = clock
  BY <1>1 DEF Web, Post, Enqueue, EnqueueFails, Touch, Undo, StopRead, StopWrite,
     Cancel, ViewRead, ViewExpire, RetryRead, RetryClear, RetryWrite, Delete
<1>2. ASSUME NEW w \in Workers, Job(w) PROVE clock' = clock
  BY <1>2 DEF Job, Take, Load, AssertStreaming, Write, Prepare, StartAgent, Emit,
     AgentReturns, AgentFails, Cite, AnswerDone, Final, FailRead, FailWrite,
     FailEvent, FailFinal, DbError
<1>3. ASSUME NEW w \in Workers, Beside(w) PROVE clock' = clock
  BY <1>3 DEF Beside, Heartbeat, ToolHook, SideStart, SideAssert, SideWrite, SideFails
<1>4. ASSUME Runtime PROVE clock' = clock
  BY <1>4 DEF Runtime, Shutdown, Exit, Crash, Die, Restart, ShutFail, Stalled
<1>5. QED
  BY <1>1, <1>2, <1>3, <1>4 DEF Next, Tick, vars

\* A connection that decided to expire a row did so when the lease was over.
DecidedOnLease ==
  \A q \in Requests : req[q].pc = "expire" => req[q].lease <= clock

LEMMA DecidedStep == TypeOK /\ DecidedOnLease /\ [Next]_vars => DecidedOnLease'
<1> SUFFICES ASSUME TypeOK, DecidedOnLease, [Next]_vars PROVE DecidedOnLease'
  OBVIOUS
<1>1. ASSUME NEW q \in Requests, Web(q) PROVE DecidedOnLease'
  <2>1. clock' = clock
    BY <1>1 DEF Web, Post, Enqueue, EnqueueFails, Touch, Undo, StopRead, StopWrite,
       Cancel, ViewRead, ViewExpire, RetryRead, RetryClear, RetryWrite, Delete
  <2>2. CASE UNCHANGED req
    BY <2>1, <2>2 DEF DecidedOnLease
  <2>3. CASE ViewRead(q)
    BY <2>1, <2>3 DEF ViewRead, DecidedOnLease, TypeOK
  <2>4. CASE ~ ViewRead(q) /\ ~ UNCHANGED req
    <3>1. \A p \in Requests \ {q} : req'[p] = req[p]
      BY <1>1, <2>4 DEF Web, Post, Enqueue, EnqueueFails, Touch, Undo, StopRead,
         StopWrite, Cancel, ViewExpire, RetryRead, RetryClear, RetryWrite, Delete,
         Respond, TypeOK
    <3>2. req'[q].pc # "expire"
      BY <1>1, <2>4 DEF Web, Post, Enqueue, EnqueueFails, Touch, Undo, StopRead,
         StopWrite, Cancel, ViewExpire, RetryRead, RetryClear, RetryWrite, Delete,
         Respond, NoRequest, TypeOK, Request
    <3>3. QED
      BY <2>1, <3>1, <3>2 DEF DecidedOnLease
  <2>5. QED
    BY <2>2, <2>3, <2>4
<1>2. CASE ~ \E q \in Requests : Web(q)
  <2>1. req' = req
    BY <1>2, OnlyWebWritesRequests
  <2>2. clock' >= clock /\ clock' \in Nat
    BY TimeForward DEF TypeOK
  <2>3. ASSUME NEW q \in Requests, req[q].pc = "expire" PROVE req[q].lease <= clock'
    <3>1. req[q].lease \in Nat /\ req[q].lease <= clock
      BY <2>3 DEF DecidedOnLease, TypeOK, Request
    <3>2. QED
      BY <2>2, <3>1 DEF TypeOK
  <2>4. QED
    BY <2>1, <2>3 DEF DecidedOnLease
<1>3. QED
  BY <1>1, <1>2

\* However the run's heartbeats, a stop, a retry and other connections fall
\* between the read and the write, a row is expired only while it is streaming
\* and its lease is over.
THEOREM ExpiryCorrect == Spec => ExpiryRespectsLease
<1>1. Init => DecidedOnLease
  BY DEF Init, DecidedOnLease, NoRequest
<1>2. TypeOK /\ DecidedOnLease /\ [Next]_vars =>
        [\A q \in Requests : Expired(q) => row.status = "streaming" /\ row.lease <= clock]_vars
  <2> SUFFICES ASSUME TypeOK, DecidedOnLease, Next, NEW q \in Requests, Expired(q)
               PROVE  row.status = "streaming" /\ row.lease <= clock
    OBVIOUS
  <2>1. req[q].pc = "expire" /\ req'[q].pc = "cancel"
    BY DEF Expired
  <2>2. ViewExpire(q)
    <3>1. PICK p \in Requests : Web(p)
      BY <2>1, OnlyWebWritesRequests
    <3>2. p = q
      BY <2>1, <3>1 DEF Web, Post, Enqueue, EnqueueFails, Touch, Undo, StopRead,
         StopWrite, Cancel, ViewRead, ViewExpire, RetryRead, RetryClear, RetryWrite,
         Delete, Respond, TypeOK
    <3>3. QED
      BY <2>1, <3>1, <3>2 DEF Web, Post, Enqueue, EnqueueFails, Touch, Undo, StopRead,
         StopWrite, Cancel, ViewRead, RetryRead, RetryClear, RetryWrite, Delete
  <2>3. row.status = "streaming" /\ row.lease = req[q].lease
    BY <2>1, <2>2 DEF ViewExpire, Respond, NoRequest, TypeOK
  <2>4. QED
    BY <2>1, <2>3 DEF DecidedOnLease
<1>3. QED
  BY <1>1, <1>2, TypeCorrect, DecidedStep, PTL DEF Spec, ExpiryRespectsLease

-----------------------------------------------------------------------------
(* The queue keeps the job of a streaming row. Regenerating an answer and   *)
(* rejected statements are excluded: with them the code does drop jobs.     *)

\* What every actor of an answer that is never regenerated works on.
OneRun ==
  /\ \A w \in Workers : /\ main[w].pc # "idle" => main[w].run = 1
                        /\ side[w].pc # "idle" => side[w].run = 1
                        /\ agent[w].timer => main[w].pc # "idle"
  /\ \A r \in Runs : jobs[r] # "none" \/ shut[r] # "idle" => r = 1
  /\ \A q \in Requests : /\ req[q].pc \notin {"retry_clear", "retry_write"}
                         /\ req[q].pc # "idle" => req[q].run = 1
  /\ row.status = "streaming" => row.run = 1

\* Before the first POST nothing else has begun.
Fresh ==
  row.status = "absent" =>
    /\ issued = 0
    /\ \A w \in Workers : main[w].pc = "idle" /\ side[w].pc = "idle"
    /\ \A r \in Runs : jobs[r] = "none" /\ shut[r] = "idle"
    /\ \A q \in Requests : req[q].pc = "idle"

\* Past its terminal write, no actor sees the row streaming again.
Settled ==
  row.status = "streaming" =>
    /\ \A w \in Workers :
         main[w].pc \notin {"cite", "answer_done", "final", "fail_event", "fail_final"}
    /\ \A r \in Runs : shut[r] \notin {"fail_event", "fail_final"}

QueueInv == OneRun /\ Fresh /\ Settled /\ JobOutlivesStreaming

\* No statement but the INSERT of a new answer makes a row streaming.
LEMMA StaysEnded ==
  ASSUME TypeOK, NEW new \in Row, Update(new),
         new.status \in {row.status} \cup Terminal
  PROVE  /\ row'.status = "streaming" => row.status = "streaming" /\ row' = new
         /\ row'.status = "absent" => row.status = "absent"
         /\ new.status \in Terminal => row'.status # "streaming"
BY DEF Update, Terminal, TypeOK, Row

LEMMA QueueWeb ==
  ASSUME TypeOK, QueueInv, "retry" \notin Env, "dberror" \notin Env,
         NEW q \in Requests, Web(q)
  PROVE  QueueInv'
<1> USE DEF QueueInv, TypeOK, queueVars, procVars, workerVars
<1>1. CASE Post(q)
  <2>1. OneRun'
    BY <1>1 DEF Post, OneRun, Fresh, Request
  <2>2. Fresh'
    BY <1>1 DEF Post, Fresh
  <2>3. Settled'
    BY <1>1 DEF Post, Settled, Fresh
  <2>4. JobOutlivesStreaming'
    BY <1>1 DEF Post, JobOutlivesStreaming, Mine, Request
  <2>5. QED
    BY <2>1, <2>2, <2>3, <2>4
<1>2. CASE Enqueue(q)
  <2>1. OneRun'
    BY <1>2 DEF Enqueue, OneRun, Request
  <2>2. Fresh' /\ Settled'
    BY <1>2 DEF Enqueue, Fresh, Settled
  <2>3. JobOutlivesStreaming'
    BY <1>2 DEF Enqueue, JobOutlivesStreaming, Mine, Request
  <2>4. QED
    BY <2>1, <2>2, <2>3
<1>3. CASE EnqueueFails(q)
  <2>1. OneRun'
    BY <1>3 DEF EnqueueFails, OneRun, Request
  <2>2. Fresh' /\ Settled'
    BY <1>3 DEF EnqueueFails, Fresh, Settled
  <2>3. JobOutlivesStreaming'
    BY <1>3 DEF EnqueueFails, JobOutlivesStreaming, Mine, Request
  <2>4. QED
    BY <2>1, <2>2, <2>3
<1>4. CASE Touch(q) \/ Undo(q) \/ StopRead(q) \/ StopWrite(q) \/ Cancel(q)
        \/ ViewRead(q) \/ ViewExpire(q) \/ Delete(q)
  <2>1. /\ UNCHANGED <<main, side, jobs, stalls, shut>>
        /\ \A w \in Workers : agent'[w].timer = agent[w].timer
    BY <1>4 DEF Touch, Undo, StopRead, StopWrite, Cancel, ViewRead, ViewExpire,
       Delete, Agent
  <2>2. row'.status = "streaming" => row' = row
    <3>1. req[q].run \in 0 .. MaxRuns
      BY DEF Request
    <3>2. Undo(q) => row'.status # "streaming"
      BY <3>1, FailedType, StaysEnded DEF Undo, Failed, Terminal
    <3>3. QED
      BY <1>4, <3>2 DEF Touch, StopRead, StopWrite, Cancel, ViewRead, ViewExpire,
         Delete, Failed, NoRow
  <2>3. /\ \A p \in Requests \ {q} : req'[p] = req[p]
        /\ req'[q].pc \notin {"retry_clear", "retry_write"}
        /\ req'[q].pc # "idle" => req'[q].run = 1
    BY <1>4 DEF Touch, Undo, StopRead, StopWrite, Cancel, ViewRead, ViewExpire,
       Delete, Respond, NoRequest, OneRun, Request
  <2>4. row'.status = "streaming" => req[q].pc \notin {"enqueue", "undo"}
    <3>1. req[q].run \in 0 .. MaxRuns
      BY DEF Request
    <3>2. Undo(q) => row'.status # "streaming"
      BY <3>1, FailedType, StaysEnded DEF Undo, Failed, Terminal
    <3>3. Delete(q) => row'.status # "streaming"
      BY DEF Delete, NoRow
    <3>4. QED
      BY <1>4, <3>2, <3>3 DEF Touch, StopRead, StopWrite, Cancel, ViewRead, ViewExpire
  <2>5. row'.status # "absent"
    <3>1. row.status # "absent"
      BY <1>4 DEF Touch, Undo, StopRead, StopWrite, Cancel, ViewRead, ViewExpire,
         Delete, Fresh
    <3>2. req[q].run \in 0 .. MaxRuns
      BY DEF Request
    <3>3. Undo(q) => row'.status # "absent"
      BY <3>1, <3>2, FailedType, StaysEnded DEF Undo, Failed, Terminal
    <3>4. QED
      BY <1>4, <3>1, <3>3 DEF Touch, StopRead, StopWrite, Cancel, ViewRead, ViewExpire,
         Delete, Failed, NoRow
  <2>6. OneRun'
    BY <2>1, <2>2, <2>3 DEF OneRun
  <2>7. Fresh' /\ Settled'
    BY <2>1, <2>2, <2>5 DEF Fresh, Settled
  <2>8. JobOutlivesStreaming'
    BY <2>1, <2>2, <2>3, <2>4 DEF JobOutlivesStreaming, Mine
  <2>9. QED
    BY <2>6, <2>7, <2>8
<1>5. QED
  BY <1>1, <1>2, <1>3, <1>4
     DEF Web, RetryRead, RetryClear, RetryWrite, OneRun

\* What a step of one slot has to respect.
LEMMA QueueSlot ==
  ASSUME TypeOK, QueueInv, NEW w \in Workers,
         UNCHANGED <<stalls, shut, req>>,
         row.status # "absent", row'.status # "absent",
         \A v \in Workers \ {w} : /\ main'[v] = main[v] /\ side'[v] = side[v]
                                  /\ agent'[v].timer = agent[v].timer,
         main'[w].pc # "idle" => main'[w].run = 1,
         side'[w].pc # "idle" => side'[w].run = 1,
         agent'[w].timer => main'[w].pc # "idle",
         \A r \in Runs : jobs'[r] # "none" => r = 1,
         row'.status = "streaming" =>
           /\ row.status = "streaming" /\ row'.run = 1
           /\ main'[w].pc \notin {"cite", "answer_done", "final", "fail_event", "fail_final"}
           /\ jobs' = jobs \/ jobs'[1] \in Workers \cup {"waiting"}
  PROVE  QueueInv'
<1> USE DEF QueueInv
<1>1. OneRun'
  BY DEF OneRun
<1>2. Fresh' /\ Settled'
  BY DEF Fresh, Settled
<1>3. JobOutlivesStreaming'
  BY DEF JobOutlivesStreaming, Mine, OneRun
<1>4. QED
  BY <1>1, <1>2, <1>3

LEMMA QueueJob ==
  ASSUME TypeOK, QueueInv, "dberror" \notin Env, NEW w \in Workers, Job(w)
  PROVE  QueueInv'
<1> DEFINE past == {"cite", "answer_done", "final", "fail_event", "fail_final"}
<1> USE DEF queueVars, procVars, workerVars
<1>1. /\ main[w] \in Delivery /\ main[w].run \in 0 .. MaxRuns
      /\ main[w].stamp \in Nat /\ row \in Row
      /\ main \in [Workers -> Delivery] /\ agent \in [Workers -> Agent]
      /\ jobs \in [Runs -> Workers \cup {"none", "waiting", "done"}]
  BY DEF TypeOK, Delivery
<1>2. /\ main[w].pc # "idle" => main[w].run = 1
      /\ side[w].pc # "idle" => side[w].run = 1
      /\ agent[w].timer => main[w].pc # "idle"
      /\ \A r \in Runs : jobs[r] # "none" => r = 1
      /\ row.status = "streaming" => row.run = 1
  BY DEF QueueInv, OneRun
<1>3. main[w].pc \in past => row.status # "streaming"
  BY DEF QueueInv, Settled
<1>4. row.status # "absent"
  BY DEF QueueInv, Fresh, Job, Take, Load, AssertStreaming, Write, Prepare, StartAgent, Emit,
     AgentReturns, AgentFails, Cite, AnswerDone, Final, FailRead, FailWrite,
     FailEvent, FailFinal, DbError
<1>5. UNCHANGED <<stalls, shut, req, side>>
  BY DEF Job, Take, Load, AssertStreaming, Write, Prepare, StartAgent, Emit,
     AgentReturns, AgentFails, Cite, AnswerDone, Final, FailRead, FailWrite,
     FailEvent, FailFinal, DbError
<1>6. \A v \in Workers \ {w} : main'[v] = main[v] /\ agent'[v].timer = agent[v].timer
  BY <1>1 DEF Job, Take, Load, AssertStreaming, Write, Prepare, StartAgent, Emit,
     AgentReturns, AgentFails, Cite, AnswerDone, Final, FailRead, FailWrite,
     FailEvent, FailFinal, DbError, Goto, Begin, Return, Leave, StopTimer, Throw, Agent
<1>7. SUFFICES
        /\ main'[w].pc # "idle" => main'[w].run = 1
        /\ agent'[w].timer => main'[w].pc # "idle"
        /\ \A r \in Runs : jobs'[r] # "none" => r = 1
        /\ row'.status # "absent"
        /\ row'.status = "streaming" =>
             /\ row.status = "streaming" /\ row'.run = 1
             /\ main'[w].pc \notin past
             /\ jobs' = jobs \/ jobs'[1] \in Workers \cup {"waiting"}
  BY <1>2, <1>4, <1>5, <1>6, QueueSlot
<1>8. ASSUME Return(w)
      PROVE  /\ main'[w].pc = "idle" /\ ~ agent'[w].timer
             /\ \A r \in Runs : jobs'[r] # "none" => r = 1
  <2>1. /\ main' = [main EXCEPT ![w] = NoDelivery]
        /\ agent' = [agent EXCEPT ![w] = NoAgent]
    BY <1>8 DEF Return
  <2>2. \A r \in Runs : jobs'[r] # "none" => jobs[r] # "none"
    BY <1>1, <1>8, RunAssumption DEF Return, RunAssumption
  <2>3. QED
    BY <1>1, <1>2, <2>1, <2>2 DEF NoDelivery, In, NoAgent
<1>9. CASE \E r \in Runs : Take(w, r)
  <2>1. PICK r \in Runs : Take(w, r)
    BY <1>9
  <2>2. r = 1 /\ UNCHANGED <<row, agent>> /\ jobs' = [jobs EXCEPT ![r] = w]
    BY <1>2, <2>1 DEF Take
  <2>3. main'[w].run = 1 /\ main'[w].pc = "load"
    BY <1>1, <2>1, <2>2 DEF Take, In
  <2>4. jobs'[1] = w /\ \A s \in Runs : jobs'[s] # "none" => s = 1
    BY <1>1, <1>2, <2>2
  <2>5. QED
    BY <1>2, <1>4, <2>2, <2>3, <2>4
<1>10. CASE Load(w) \/ AssertStreaming(w) \/ FailRead(w)
  <2>1. main[w].run = 1
    BY <1>2, <1>10 DEF Load, AssertStreaming, FailRead
  <2>2. CASE Mine(main[w].run)
    <3>1. /\ main'[w].pc \notin past \cup {"idle"} /\ main'[w].run = 1
          /\ UNCHANGED <<jobs, agent, row>>
      BY <1>1, <1>10, <2>1, <2>2 DEF Load, AssertStreaming, FailRead, Begin, Goto, In, Delivery
    <3>2. QED
      BY <1>2, <1>4, <3>1
  <2>3. CASE ~ Mine(main[w].run)
    <3>1. Return(w) /\ UNCHANGED row
      BY <1>10, <2>3 DEF Load, AssertStreaming, FailRead, Leave
    <3>2. row.status # "streaming"
      BY <1>2, <2>1, <2>3 DEF Mine
    <3>3. QED
      BY <1>4, <1>8, <3>1, <3>2
  <2>4. QED
    BY <2>2, <2>3
<1>11. CASE Write(w)
  <2> DEFINE saved == WithState(main[w].run, main[w].stamp, main[w].op # "done")
             text == [saved EXCEPT !.text = main[w].run]
             done == [saved EXCEPT !.status = "completed", !.text = main[w].run]
  <2>1. main[w].run = 1
    BY <1>2, <1>11 DEF Write
  <2>2. saved \in Row /\ saved.status = row.status /\ saved.run = 1
    BY <1>1, <2>1, WithStateType
  <2>3. text \in Row /\ text.status = row.status /\ text.run = 1
    BY <1>1, <2>2 DEF Row
  <2>4. done \in Row /\ done.status = "completed"
    BY <1>1, <2>2 DEF Row, Status, Terminal
  <2>5. /\ UNCHANGED <<jobs, agent>>
        /\ main'[w].run = 1 /\ main'[w].pc # "idle"
    BY <1>1, <1>11, <2>1 DEF Write, Goto, Begin, In
  <2>6. CASE main'[w].pc \notin past
    <3>1. Update(saved) \/ Update(text)
      BY <1>1, <1>11, <2>6 DEF Write, Goto, In
    <3>2. QED
      BY <1>2, <1>4, <2>2, <2>3, <2>5, <2>6, <3>1, StaysEnded
  <2>7. CASE main'[w].pc \in past
    <3>1. Update(done)
      BY <1>1, <1>11, <2>7 DEF Write, Goto, Begin, In
    <3>2. row'.status # "streaming" /\ row'.status # "absent"
      BY <1>1, <1>4, <2>4, <3>1, StaysEnded DEF Terminal, TypeOK
    <3>3. QED
      BY <1>2, <2>5, <3>2
  <2>8. QED
    BY <2>6, <2>7
<1>12. CASE Prepare(w) \/ StartAgent(w) \/ Emit(w) \/ AgentReturns(w) \/ AgentFails(w)
  <2>1. UNCHANGED <<jobs, row>> /\ main[w].run = 1
    BY <1>2, <1>12 DEF Prepare, StartAgent, Emit, AgentReturns, AgentFails
  <2>2. main'[w].run = 1 /\ main'[w].pc \notin past \cup {"idle"}
    BY <1>1, <1>12, <2>1 DEF Prepare, StartAgent, Emit, AgentReturns, AgentFails,
       Throw, Goto, Begin, In
  <2>3. QED
    BY <1>2, <1>4, <2>1, <2>2
<1>13. CASE Cite(w)
  <2>1. UNCHANGED <<jobs, row>> /\ main[w].run = 1 /\ main[w].pc \in past
    BY <1>2, <1>13 DEF Cite
  <2>2. main'[w].run = 1 /\ main'[w].pc # "idle"
    BY <1>1, <1>13, <2>1 DEF Cite, Throw, Goto, In
  <2>3. QED
    BY <1>2, <1>3, <1>4, <2>1, <2>2
<1>14. CASE AnswerDone(w) \/ FailEvent(w)
  <2>1. UNCHANGED row /\ main[w].run = 1 /\ row.status # "streaming"
    BY <1>2, <1>3, <1>14 DEF AnswerDone, FailEvent
  <2>2. CASE Return(w)
    BY <1>4, <1>8, <2>1, <2>2
  <2>3. CASE ~ Return(w)
    <3>1. UNCHANGED jobs /\ main'[w].run = 1 /\ main'[w].pc # "idle"
      BY <1>1, <1>14, <2>1, <2>3 DEF AnswerDone, FailEvent, Leave, Goto, In, Delivery
    <3>2. QED
      BY <1>2, <1>4, <2>1, <3>1
  <2>4. QED
    BY <2>2, <2>3
<1>15. CASE Final(w)
  <2>1. Return(w) /\ row.status # "streaming"
    BY <1>3, <1>15 DEF Final, Leave
  <2>2. row'.status # "streaming" /\ row'.status # "absent"
    BY <1>1, <1>4, <1>15, <2>1, WithStateType, StaysEnded DEF Final, TypeOK
  <2>3. QED
    BY <1>8, <2>1, <2>2
<1>16. CASE FailWrite(w) \/ FailFinal(w)
  <2>1. row'.status # "streaming" /\ row'.status # "absent"
    BY <1>1, <1>4, <1>16, FailedType, StaysEnded
       DEF FailWrite, FailFinal, Failed, Terminal, TypeOK
  <2>2. CASE FailWrite(w)
    <3>1. UNCHANGED jobs /\ main'[w].run = 1 /\ main'[w].pc # "idle"
      BY <1>1, <1>2, <2>2 DEF FailWrite, Goto, In
    <3>2. QED
      BY <1>2, <2>1, <3>1
  <2>3. CASE FailFinal(w)
    BY <1>8, <2>1, <2>3 DEF FailFinal, Leave
  <2>4. QED
    BY <1>16, <2>2, <2>3
<1>17. QED
  BY <1>9, <1>10, <1>11, <1>12, <1>13, <1>14, <1>15, <1>16 DEF Job, DbError

LEMMA QueueBeside ==
  ASSUME TypeOK, QueueInv, NEW w \in Workers, Beside(w)
  PROVE  QueueInv'
<1> USE DEF queueVars, procVars
<1>1. /\ side[w] \in Aside /\ row \in Row
      /\ side \in [Workers -> Aside] /\ agent \in [Workers -> Agent]
  BY DEF TypeOK
<1>2. /\ main[w].pc # "idle" => main[w].run = 1
      /\ side[w].pc # "idle" => side[w].run = 1
      /\ agent[w].timer => main[w].pc # "idle"
      /\ \A r \in Runs : jobs[r] # "none" => r = 1
      /\ row.status = "streaming" => row.run = 1
  BY DEF QueueInv, OneRun
<1>3. row.status = "streaming" =>
        main[w].pc \notin {"cite", "answer_done", "final", "fail_event", "fail_final"}
  BY DEF QueueInv, Settled
<1>4. row.status # "absent"
  BY <1>2 DEF QueueInv, Fresh, Beside, Heartbeat, ToolHook, SideStart, SideAssert,
     SideWrite, SideFails
<1>5. UNCHANGED <<main, jobs, stalls, shut, req>>
  BY DEF Beside, Heartbeat, ToolHook, SideStart, SideAssert, SideWrite, SideFails
<1>6. \A v \in Workers : /\ v # w => side'[v] = side[v]
                         /\ agent'[v].timer => agent[v].timer
                         /\ v # w => agent'[v].timer = agent[v].timer
  BY <1>1 DEF Beside, Heartbeat, ToolHook, SideStart, SideAssert, SideWrite,
     SideFails, Agent
<1>7. side'[w].pc # "idle" => side'[w].run = 1
  <2>1. CASE Heartbeat(w) \/ ToolHook(w)
    BY <1>1, <1>2, <2>1 DEF Heartbeat, ToolHook, SideStart
  <2>2. CASE SideAssert(w) /\ Mine(side[w].run)
    <3>1. /\ side[w].pc # "idle"
          /\ \E t : side' = [side EXCEPT ![w] = [side[w] EXCEPT !.pc = "write", !.stamp = t]]
      BY <1>1, <2>2 DEF SideAssert
    <3>2. QED
      BY <1>1, <1>2, <3>1 DEF Aside
  <2>3. CASE SideAssert(w) /\ ~ Mine(side[w].run)
    BY <1>1, <2>3 DEF SideAssert, NoAside
  <2>4. CASE SideWrite(w) \/ SideFails(w)
    <3>1. side' = [side EXCEPT ![w] = NoAside]
      BY <2>4 DEF SideWrite, SideFails
    <3>2. QED
      BY <1>1, <3>1 DEF NoAside
  <2>5. QED
    BY <2>1, <2>2, <2>3, <2>4 DEF Beside
<1>8. /\ row'.status # "absent"
      /\ row'.status = "streaming" => row.status = "streaming" /\ row'.run = 1
  <2>1. CASE SideWrite(w)
    <3>1. side[w].run = 1 /\ side[w].run \in 0 .. MaxRuns /\ side[w].stamp \in Nat
      BY <1>1, <1>2, <2>1 DEF SideWrite, Aside
    <3>2. Update(WithState(1, side[w].stamp, TRUE))
      BY <2>1, <3>1 DEF SideWrite
    <3>3. WithState(1, side[w].stamp, TRUE) \in Row
      BY <1>1, <3>1, WithStateType
    <3>4. /\ WithState(1, side[w].stamp, TRUE).status = row.status
          /\ WithState(1, side[w].stamp, TRUE).run = 1
      BY <1>1 DEF WithState, TypeOK, Row
    <3>5. QED
      BY <1>1, <1>4, <3>2, <3>3, <3>4, StaysEnded
  <2>2. CASE ~ SideWrite(w)
    <3>1. UNCHANGED row
      BY <2>2 DEF Beside, Heartbeat, ToolHook, SideStart, SideAssert, SideFails
    <3>2. QED
      BY <1>2, <1>4, <3>1
  <2>3. QED
    BY <2>1, <2>2
<1>9. QED
  BY <1>2, <1>3, <1>4, <1>5, <1>6, <1>7, <1>8, QueueSlot

LEMMA QueueRuntime ==
  ASSUME TypeOK, RegisteredIsInProgress, QueueInv, Runtime
  PROVE  QueueInv'
<1> USE DEF QueueInv, queueVars, procVars, workerVars
<1>1. CASE Shutdown
  <2>1. \A r \in Runs : active[r] # Nil =>
          /\ active[r] \in Workers
          /\ main[active[r]].pc # "idle" /\ main[active[r]].run = r
    BY DEF RegisteredIsInProgress, Registered, TypeOK
  <2>2. \A r \in Runs : active[r] # Nil => r = 1 /\ row.status # "absent"
    BY <2>1 DEF OneRun, Fresh
  <2>3. \A w \in Workers : agent'[w].timer = agent[w].timer
    BY <1>1 DEF Shutdown, TypeOK, Agent
  <2>4. OneRun'
    BY <1>1, <2>2, <2>3 DEF Shutdown, OneRun
  <2>5. Fresh' /\ Settled'
    BY <1>1, <2>2 DEF Shutdown, Fresh, Settled
  <2>6. JobOutlivesStreaming'
    BY <1>1 DEF Shutdown, JobOutlivesStreaming, Mine
  <2>7. QED
    BY <2>4, <2>5, <2>6
<1>2. ASSUME Die PROVE QueueInv'
  <2>1. OneRun'
    BY <1>2 DEF Die, OneRun, NoDelivery, In, NoAside, NoAgent
  <2>2. Fresh' /\ Settled'
    BY <1>2 DEF Die, Fresh, Settled, NoDelivery, In, NoAside
  <2>3. JobOutlivesStreaming'
    BY <1>2 DEF Die, JobOutlivesStreaming, Mine
  <2>4. QED
    BY <2>1, <2>2, <2>3
<1>3. CASE Exit \/ Crash
  BY <1>2, <1>3 DEF Exit, Crash
<1>4. CASE Restart
  BY <1>4 DEF Restart, OneRun, Fresh, Settled, JobOutlivesStreaming, Mine
<1>5. ASSUME NEW r \in Runs, ShutFail(r) PROVE QueueInv'
  <2>1. shut[r] # "idle" /\ r = 1 /\ row.status # "absent"
    BY <1>5 DEF ShutFail, OneRun, Fresh
  <2>2. /\ UNCHANGED <<main, side, agent, jobs, stalls, req>>
        /\ \A s \in Runs \ {r} : shut'[s] = shut[s]
    BY <1>5 DEF ShutFail, TypeOK
  <2>3. Failed(r) \in Row /\ Failed(r).status = "failed"
    BY FailedType, RunsInBounds DEF Failed
  <2>4. /\ row'.status # "absent"
        /\ row'.status = "streaming" =>
             /\ row' = row
             /\ shut'[r] \notin {"fail_event", "fail_final"}
    <3>1. CASE Update(Failed(r))
      BY <2>1, <2>3, <3>1, StaysEnded DEF Terminal
    <3>2. CASE ~ Update(Failed(r))
      BY <1>5, <2>1, <3>2 DEF ShutFail, Settled, TypeOK
    <3>3. QED
      BY <3>1, <3>2
  <2>5. OneRun'
    BY <2>1, <2>2, <2>4 DEF OneRun
  <2>6. Fresh' /\ Settled'
    BY <2>2, <2>4 DEF Fresh, Settled
  <2>7. JobOutlivesStreaming'
    BY <2>2, <2>4 DEF JobOutlivesStreaming, Mine
  <2>8. QED
    BY <2>5, <2>6, <2>7
<1>6. ASSUME NEW r \in Runs, Stalled(r) PROVE QueueInv'
  <2>1. jobs[r] \in Workers /\ jobs[r] # "none"
    BY <1>6, RunAssumption DEF Stalled, RunAssumption
  <2>2. r = 1 /\ row.status # "absent"
    BY <2>1 DEF OneRun, Fresh
  <2>3. /\ \A s \in Runs \ {r} : jobs'[s] = jobs[s] /\ stalls'[s] = stalls[s]
        /\ jobs'[r] = "waiting" \/ stalls'[r] > 1
        /\ UNCHANGED <<row, workerVars, req>>
    BY <1>6 DEF Stalled, TypeOK
  <2>4. OneRun'
    BY <2>2, <2>3 DEF OneRun
  <2>5. Fresh' /\ Settled'
    BY <2>2, <2>3 DEF Fresh, Settled
  <2>6. JobOutlivesStreaming'
    BY <2>3 DEF JobOutlivesStreaming, Mine
  <2>7. QED
    BY <2>4, <2>5, <2>6
<1>7. QED
  BY <1>1, <1>3, <1>4, <1>5, <1>6 DEF Runtime

LEMMA QueueStep ==
  ASSUME "retry" \notin Env, "dberror" \notin Env
  PROVE  TypeOK /\ RegisteredIsInProgress /\ QueueInv /\ [Next]_vars => QueueInv'
<1> SUFFICES ASSUME TypeOK, RegisteredIsInProgress, QueueInv, [Next]_vars
             PROVE  QueueInv'
  OBVIOUS
<1>1. CASE Tick \/ UNCHANGED vars
  BY <1>1 DEF Tick, vars, queueVars, procVars, workerVars, QueueInv, OneRun, Fresh,
     Settled, JobOutlivesStreaming, Mine
<1>2. QED
  BY <1>1, QueueWeb, QueueJob, QueueBeside, QueueRuntime DEF Next

\* As long as no answer is regenerated and no statement is rejected, every
\* streaming row keeps the job that will end it: through stops, expiries,
\* crashes, redeliveries, shutdowns and lost Redis replies.
THEOREM QueueCorrect ==
  ASSUME "retry" \notin Env, "dberror" \notin Env
  PROVE  Spec => []JobOutlivesStreaming
<1>1. Init => QueueInv
  BY DEF Init, QueueInv, OneRun, Fresh, Settled, JobOutlivesStreaming, Mine, NoRow,
     NoDelivery, In, NoAside, NoAgent, NoRequest
<1>2. QueueInv => JobOutlivesStreaming
  BY DEF QueueInv
<1>3. QED
  BY <1>1, <1>2, TypeCorrect, RegistryCorrect, QueueStep, PTL DEF Spec

-----------------------------------------------------------------------------
(* What is announced. Regenerating an answer, shutdowns and throwing Redis  *)
(* commands are excluded: with them two outcomes can be announced.          *)


\* One delivery is at work at a time, and no shutdown or undone request beside it.
Alone ==
  /\ \A r \in Runs : shut[r] = "idle"
  /\ \A q \in Requests : req[q].pc # "undo"
  /\ \A v, w \in Workers : main[v].pc # "idle" /\ main[w].pc # "idle" => v = w
  /\ "stall" \notin Env =>
       /\ \A w \in Workers : main[w].pc # "idle" => jobs[1] = w
       /\ \A q \in Requests : req[q].pc = "enqueue" =>
            jobs[1] = "none" /\ \A p \in Requests : req[p].pc = "enqueue" => p = q

\* What has been announced where the delivery is, and what its row holds by then.
Told(w) ==
  LET pc == main[w].pc IN
    /\ pc \in {"write", "cite", "answer_done", "fail_write", "fail_event"} => term[1] = {}
    /\ pc = "fail_final" => term[1] = {"run_failed"}
    /\ pc = "fail_event" => row.status # "streaming"
    /\ (pc \in {"cite", "answer_done"} /\ row.status # "deleted") =>
         row.status = "completed" /\ row.run = 1 /\ row.text = 1
    /\ (pc = "answer_done" /\ row.status # "deleted") => 1 \in cites

\* Only run 1 announces anything, once there is a row.
TermsOfRun ==
  /\ row.status # "absent" => 1 \in Runs
  /\ row.status = "absent" => \A r \in Runs : term[r] = {}
  /\ \A r \in Runs : term[r] # {} => r = 1

AnnouncedInv ==
  /\ OneRun /\ Fresh /\ Alone /\ TermsOfRun /\ AnnouncedIsSettled
  /\ \A w \in Workers : Told(w)

\* The property, of the one run there is.
Announced1 ==
  term[1] # {} =>
    /\ Cardinality(term[1]) = 1 /\ row.status # "streaming"
    /\ ("answer_done" \in term[1] /\ row.status # "deleted") =>
         1 \in cites /\ row.status = "completed" /\ row.run = 1 /\ row.text = 1

LEMMA ThatRun ==
  ASSUME OneRun, TermsOfRun, 1 \in Runs
  PROVE  AnnouncedIsSettled <=> Announced1
BY DEF OneRun, TermsOfRun, AnnouncedIsSettled, Announced1, Mine

LEMMA ThatRunNext ==
  ASSUME OneRun', TermsOfRun', 1 \in Runs, Announced1'
  PROVE  AnnouncedIsSettled'
BY DEF OneRun, TermsOfRun, AnnouncedIsSettled, Announced1, Mine

\* What any step keeps that changes neither the terms nor, but to end it, the row.
LEMMA AnnouncedFrame ==
  ASSUME 1 \in Runs, Announced1, term'[1] = term[1], row.status # "streaming" => row'.status # "streaming",
         \/ row'.status = "deleted"
         \/ /\ 1 \in cites => 1 \in cites'
            /\ row.status = "deleted" => row'.status = "deleted"
            /\ (row.status = "completed" /\ row.run = 1 /\ row.text = 1) =>
                 row'.status = "completed" /\ row'.run = 1 /\ row'.text = 1
  PROVE  Announced1'
BY DEF Announced1

\* A refreshed state leaves status and text of the row.
LEMMA Refreshed ==
  ASSUME TypeOK, OneRun, NEW t \in Nat, NEW live \in BOOLEAN, 1 \in 0 .. MaxRuns,
         Update(WithState(1, t, live))
  PROVE  /\ row'.status = row.status /\ row'.text = row.text
         /\ row.run = 1 => row'.run = 1
         /\ row.status = "streaming" => row'.run = 1
BY DEF Update, WithState, TypeOK, Row, OneRun

\* A step of the delivery of one slot.
LEMMA SlotStep ==
  ASSUME TypeOK, AnnouncedInv, NEW w \in Workers,
         "stall" \in Env => \A v \in Workers : v = w,
         UNCHANGED <<stalls, shut, req, side>>,
         row.status # "absent", row'.status # "absent",
         \A v \in Workers \ {w} : main'[v] = main[v] /\ agent'[v].timer = agent[v].timer,
         main'[w].pc # "idle" => main'[w].run = 1,
         agent'[w].timer => main'[w].pc # "idle",
         \A r \in Runs : jobs'[r] # "none" => r = 1,
         jobs[1] # jobs'[1] => jobs[1] # "none",
         \/ main[w].pc # "idle" /\ (main'[w].pc # "idle" => jobs'[1] = jobs[1])
         \/ jobs[1] = "waiting" /\ jobs'[1] = w,
         row'.status = "streaming" => row.status = "streaming" /\ row'.run = 1,
         \A r \in Runs \ {1} : term'[r] = term[r],
         Announced1', Told(w)'
  PROVE  AnnouncedInv'
<1> USE DEF AnnouncedInv
<1>1. OneRun'
  BY DEF OneRun
<1>2. Fresh'
  BY DEF Fresh
<1>3. \A v \in Workers \ {w} : main[v].pc = "idle" /\ main'[v].pc = "idle"
  BY RunAssumption DEF Alone, RunAssumption
<1>4. Alone'
  <2>1. /\ \A r \in Runs : shut'[r] = "idle"
        /\ \A q \in Requests : req'[q].pc # "undo"
        /\ \A u, v \in Workers : main'[u].pc # "idle" /\ main'[v].pc # "idle" => u = v
    BY <1>3 DEF Alone
  <2>2. ASSUME "stall" \notin Env, NEW v \in Workers, main'[v].pc # "idle"
        PROVE  jobs'[1] = v
    BY <1>3, <2>2 DEF Alone
  <2>3. ASSUME "stall" \notin Env, NEW q \in Requests, req'[q].pc = "enqueue"
        PROVE  jobs'[1] = "none" /\ \A p \in Requests : req'[p].pc = "enqueue" => p = q
    BY <2>3 DEF Alone
  <2> QED BY <2>1, <2>2, <2>3 DEF Alone
<1>5. TermsOfRun'
  BY DEF TermsOfRun
<1>6. AnnouncedIsSettled'
  BY <1>1, <1>5, ThatRunNext DEF TermsOfRun
<1>7. ASSUME NEW v \in Workers PROVE Told(v)'
  BY <1>3 DEF Told
<1> QED BY <1>1, <1>2, <1>4, <1>5, <1>6, <1>7

\* A step beside the deliveries: the row keeps its status and text, or is expired,
\* stopped or deleted.
LEMMA BesideStep ==
  ASSUME TypeOK, AnnouncedInv, UNCHANGED <<term, main, stalls, shut>>,
         row.status # "absent", row'.status # "absent", 1 \in Runs,
         \A w \in Workers : /\ side'[w].pc # "idle" => side'[w].run = 1
                            /\ agent'[w].timer => agent[w].timer,
         \/ UNCHANGED <<jobs, req>>
         \/ UNCHANGED jobs /\ \E q \in Requests :
              /\ \A p \in Requests \ {q} : req'[p] = req[p]
              /\ req'[q].pc \notin {"enqueue", "undo", "retry_clear", "retry_write"}
              /\ req'[q].pc # "idle" => req'[q].run = 1,
         row'.status = "streaming" => row.status = "streaming" /\ row'.run = 1,
         \/ row'.status = "deleted"
         \/ /\ 1 \in cites => 1 \in cites'
            /\ row.status = "deleted" => row'.status = "deleted"
            /\ (row.status = "completed" /\ row.run = 1 /\ row.text = 1) =>
                 row'.status = "completed" /\ row'.run = 1 /\ row'.text = 1
  PROVE  AnnouncedInv'
<1> USE DEF AnnouncedInv
<1>1. OneRun'
  BY DEF OneRun
<1>2. Fresh'
  BY DEF Fresh
<1>3. Alone'
  <2>1. /\ \A r \in Runs : shut'[r] = "idle"
        /\ \A q \in Requests : req'[q].pc # "undo"
        /\ \A u, v \in Workers : main'[u].pc # "idle" /\ main'[v].pc # "idle" => u = v
    BY DEF Alone
  <2>2. ASSUME "stall" \notin Env, NEW v \in Workers, main'[v].pc # "idle"
        PROVE  jobs'[1] = v
    BY <2>2 DEF Alone
  <2>3. ASSUME "stall" \notin Env, NEW q \in Requests, req'[q].pc = "enqueue"
        PROVE  jobs'[1] = "none" /\ \A p \in Requests : req'[p].pc = "enqueue" => p = q
    BY <2>3 DEF Alone
  <2> QED BY <2>1, <2>2, <2>3 DEF Alone
<1>4. TermsOfRun'
  BY DEF TermsOfRun
<1>5. Announced1
  BY ThatRun
<1>6. Announced1'
  BY <1>5, AnnouncedFrame
<1>7. AnnouncedIsSettled'
  BY <1>1, <1>4, <1>6, ThatRunNext
<1>8. ASSUME NEW v \in Workers PROVE Told(v)'
  BY DEF Told
<1> QED BY <1>1, <1>2, <1>3, <1>4, <1>7, <1>8

LEMMA AnnouncedWeb ==
  ASSUME TypeOK, AnnouncedInv, "retry" \notin Env, "rediserror" \notin Env,
         NEW q \in Requests, Web(q)
  PROVE  AnnouncedInv'
<1> USE DEF TypeOK, queueVars, procVars, workerVars
<1>1. CASE Post(q)
  <2> USE DEF AnnouncedInv
  <2>1. /\ row.status = "absent" /\ issued = 0 /\ 1 \in Runs
        /\ row' = [status |-> "streaming", run |-> 1, lease |-> clock + Lease,
                   live |-> TRUE, text |-> 0]
        /\ UNCHANGED <<main, side, agent, jobs, shut, term>>
    BY <1>1, RunAssumption DEF Post, Fresh, RunAssumption, Runs
  <2>2. /\ \A p \in Requests : req[p].pc = "idle"
        /\ \A w \in Workers : main[w].pc = "idle" /\ side[w].pc = "idle"
        /\ \A r \in Runs : jobs[r] = "none" /\ term[r] = {}
    BY <2>1 DEF Fresh, TermsOfRun
  <2>3. /\ \A p \in Requests \ {q} : req'[p] = req[p]
        /\ req'[q].pc = "enqueue" /\ req'[q].run = 1
    BY <1>1, <2>1 DEF Post, Request
  <2>4. OneRun'
    BY <2>1, <2>2, <2>3 DEF OneRun
  <2>5. Fresh' /\ TermsOfRun'
    BY <2>1, <2>2 DEF Fresh, TermsOfRun
  <2>6. Alone'
    BY <2>1, <2>2, <2>3 DEF Alone
  <2>7. AnnouncedIsSettled'
    BY <2>1, <2>2 DEF AnnouncedIsSettled
  <2>8. \A w \in Workers : Told(w)'
    BY <2>1, <2>2 DEF Told
  <2> QED BY <2>4, <2>5, <2>6, <2>7, <2>8
<1>2. CASE Enqueue(q)
  <2> USE DEF AnnouncedInv
  <2>1. /\ req[q].pc = "enqueue" /\ req[q].run = 1 /\ row.status # "absent" /\ 1 \in Runs
        /\ UNCHANGED <<row, main, side, agent, shut, term, cites>>
        /\ jobs' = [jobs EXCEPT ![1] = "waiting"]
    BY <1>2 DEF Enqueue, OneRun, Fresh, TermsOfRun
  <2>2. /\ \A p \in Requests \ {q} : req'[p] = req[p]
        /\ req'[q].pc = "touch" /\ req'[q].run = 1
    BY <1>2, <2>1 DEF Enqueue, Request
  <2>3. OneRun'
    BY <2>1, <2>2 DEF OneRun
  <2>4. Fresh' /\ TermsOfRun'
    BY <2>1 DEF Fresh, TermsOfRun
  <2>5. Alone'
    BY <2>1, <2>2, RunAssumption DEF Alone, RunAssumption
  <2>6. AnnouncedIsSettled'
    BY <2>1 DEF AnnouncedIsSettled, Mine
  <2>7. \A w \in Workers : Told(w)'
    BY <2>1 DEF Told
  <2> QED BY <2>3, <2>4, <2>5, <2>6, <2>7
<1>3. CASE Touch(q) \/ StopRead(q) \/ StopWrite(q) \/ Cancel(q)
        \/ ViewRead(q) \/ ViewExpire(q) \/ Delete(q)
  <2>1. row.status # "absent" /\ 1 \in Runs
    BY <1>3 DEF Touch, StopRead, StopWrite, Cancel, ViewRead, ViewExpire, Delete,
       AnnouncedInv, Fresh, TermsOfRun
  <2>2. /\ UNCHANGED <<term, main, side, stalls, shut, jobs>>
        /\ \A w \in Workers : agent'[w].timer = agent[w].timer
    <3>1. Cancel(q) => \A w \in Workers : agent'[w].timer = agent[w].timer
      BY DEF Cancel, Agent
    <3>2. UNCHANGED <<term, main, side, stalls, shut, jobs>>
      BY <1>3 DEF Touch, StopRead, StopWrite, Cancel, ViewRead, ViewExpire, Delete
    <3> QED BY <1>3, <3>1, <3>2 DEF Touch, StopRead, StopWrite, ViewRead, ViewExpire, Delete
  <2>3. /\ \A p \in Requests \ {q} : req'[p] = req[p]
        /\ req'[q].pc \notin {"enqueue", "undo", "retry_clear", "retry_write"}
              \/ req'[q] = req[q]
        /\ req'[q].pc # "idle" => req'[q].run = 1
    BY <1>3 DEF Touch, StopRead, StopWrite, Cancel, ViewRead, ViewExpire, Delete,
       Respond, NoRequest, AnnouncedInv, OneRun, Request
  <2>4. UNCHANGED req \/ req'[q].pc \notin {"enqueue", "undo", "retry_clear", "retry_write"}
    BY <1>3, <2>3 DEF Touch, StopRead, StopWrite, Cancel, ViewRead, ViewExpire, Delete
  <2>5. \A w \in Workers : side[w].pc # "idle" => side[w].run = 1
    BY DEF AnnouncedInv, OneRun
  <2>6. \/ UNCHANGED <<row, cites>>
        \/ row.status = "streaming" /\ row'.status \in Terminal /\ UNCHANGED cites
        \/ row'.status = "deleted"
    BY <1>3 DEF Touch, StopRead, StopWrite, Cancel, ViewRead, ViewExpire, Delete,
       Failed, NoRow, Terminal
  <2>7. row.status = "streaming" => row.run = 1
    BY DEF AnnouncedInv, OneRun
  <2> QED BY <2>1, <2>2, <2>3, <2>4, <2>5, <2>6, <2>7, BesideStep DEF Terminal
<1>4. QED
  BY <1>1, <1>2, <1>3 DEF Web, EnqueueFails, Undo, RetryRead, RetryClear, RetryWrite,
     AnnouncedInv, OneRun, Alone

LEMMA AnnouncedBeside ==
  ASSUME TypeOK, AnnouncedInv, NEW w \in Workers, Beside(w)
  PROVE  AnnouncedInv'
<1> USE DEF queueVars, procVars
<1>1. /\ side[w] \in Aside /\ row \in Row
      /\ side \in [Workers -> Aside] /\ agent \in [Workers -> Agent]
  BY DEF TypeOK
<1>2. /\ \A v \in Workers : side[v].pc # "idle" => side[v].run = 1
      /\ \A v \in Workers : agent[v].timer => main[v].pc # "idle"
      /\ main[w].pc # "idle" => main[w].run = 1
      /\ row.status = "streaming" => row.run = 1
  BY DEF AnnouncedInv, OneRun
<1>3. row.status # "absent" /\ 1 \in Runs
  BY <1>2 DEF AnnouncedInv, Fresh, TermsOfRun, Beside, Heartbeat, ToolHook, SideStart, SideAssert,
     SideWrite, SideFails
<1>4. UNCHANGED <<main, jobs, stalls, shut, req, term, cites>>
  BY DEF Beside, Heartbeat, ToolHook, SideStart, SideAssert, SideWrite, SideFails
<1>5. \A v \in Workers : /\ v # w => side'[v] = side[v]
                         /\ agent'[v].timer => agent[v].timer
  BY <1>1 DEF Beside, Heartbeat, ToolHook, SideStart, SideAssert, SideWrite,
     SideFails, Agent
<1>6. side'[w].pc # "idle" => side'[w].run = 1
  <2>1. CASE Heartbeat(w) \/ ToolHook(w)
    BY <1>1, <1>2, <2>1 DEF Heartbeat, ToolHook, SideStart
  <2>2. CASE SideAssert(w) /\ Mine(side[w].run)
    <3>1. /\ side[w].pc # "idle"
          /\ \E t : side' = [side EXCEPT ![w] = [side[w] EXCEPT !.pc = "write", !.stamp = t]]
      BY <1>1, <2>2 DEF SideAssert
    <3>2. QED
      BY <1>1, <1>2, <3>1 DEF Aside
  <2>3. CASE SideAssert(w) /\ ~ Mine(side[w].run)
    BY <1>1, <2>3 DEF SideAssert, NoAside
  <2>4. CASE SideWrite(w) \/ SideFails(w)
    <3>1. side' = [side EXCEPT ![w] = NoAside]
      BY <2>4 DEF SideWrite, SideFails
    <3>2. QED
      BY <1>1, <3>1 DEF NoAside
  <2>5. QED
    BY <2>1, <2>2, <2>3, <2>4 DEF Beside
<1>7. /\ row'.status = row.status /\ row'.text = row.text
      /\ row.run = 1 => row'.run = 1
  <2>1. CASE SideWrite(w)
    <3>1. side[w].run = 1 /\ side[w].stamp \in Nat
      BY <1>1, <1>2, <2>1 DEF SideWrite, Aside
    <3>2. Update(WithState(1, side[w].stamp, TRUE)) /\ 1 \in 0 .. MaxRuns
      BY <1>1, <2>1, <3>1 DEF SideWrite, Aside
    <3>3. QED
      BY <3>1, <3>2, Refreshed DEF AnnouncedInv
  <2>2. CASE ~ SideWrite(w)
    BY <2>2 DEF Beside, Heartbeat, ToolHook, SideStart, SideAssert, SideFails
  <2>3. QED
    BY <2>1, <2>2
<1> QED
  BY <1>2, <1>3, <1>4, <1>5, <1>6, <1>7, BesideStep

LEMMA AnnouncedRuntime ==
  ASSUME TypeOK, AnnouncedInv, "shutdown" \notin Env,
         "stall" \in Env => \A v, w \in Workers : v = w, Runtime
  PROVE  AnnouncedInv'
<1> USE DEF AnnouncedInv, queueVars, procVars, workerVars
<1>1. ASSUME Die PROVE AnnouncedInv'
  <2>1. OneRun'
    BY <1>1 DEF Die, OneRun, NoDelivery, In, NoAside, NoAgent
  <2>2. Fresh' /\ TermsOfRun'
    BY <1>1 DEF Die, Fresh, TermsOfRun, NoDelivery, In, NoAside
  <2>3. Alone'
    BY <1>1 DEF Die, Alone, NoDelivery, In
  <2>4. AnnouncedIsSettled'
    BY <1>1 DEF Die, AnnouncedIsSettled, Mine
  <2>5. \A w \in Workers : Told(w)'
    BY <1>1 DEF Die, Told, NoDelivery, In
  <2> QED BY <2>1, <2>2, <2>3, <2>4, <2>5
<1>2. CASE Exit \/ Crash
  BY <1>1, <1>2 DEF Exit, Crash
<1>3. CASE Restart
  BY <1>3 DEF Restart, OneRun, Fresh, TermsOfRun, Alone, AnnouncedIsSettled, Mine, Told
<1>4. ASSUME NEW r \in Runs, Stalled(r) PROVE AnnouncedInv'
  <2>1. jobs[r] \in Workers /\ jobs[r] # "none"
    BY <1>4, RunAssumption DEF Stalled, RunAssumption
  <2>2. r = 1 /\ row.status # "absent"
    BY <2>1 DEF OneRun, Fresh
  <2>3. /\ \A s \in Runs \ {r} : jobs'[s] = jobs[s]
        /\ UNCHANGED <<row, cites, term, workerVars, req>>
    BY <1>4 DEF Stalled, TypeOK
  <2>4. "stall" \notin Env =>
          /\ \A w \in Workers : main[w].pc = "idle"
          /\ \A q \in Requests : req[q].pc # "enqueue"
    BY <1>4, <2>1, <2>2 DEF Stalled, Alone, OneRun
  <2>5. OneRun'
    BY <2>2, <2>3 DEF OneRun
  <2>6. Fresh' /\ TermsOfRun'
    BY <2>2, <2>3 DEF Fresh, TermsOfRun
  <2>7. Alone'
    BY <2>3, <2>4 DEF Alone
  <2>8. AnnouncedIsSettled' /\ \A w \in Workers : Told(w)'
    BY <2>3 DEF AnnouncedIsSettled, Mine, Told
  <2> QED BY <2>5, <2>6, <2>7, <2>8
<1>5. ASSUME NEW r \in Runs PROVE ~ ShutFail(r)
  BY DEF ShutFail, Alone
<1>6. QED
  BY <1>2, <1>3, <1>4, <1>5 DEF Runtime, Shutdown

LEMMA AnnouncedJob ==
  ASSUME TypeOK, AnnouncedInv, "rediserror" \notin Env, NEW w \in Workers,
         "stall" \in Env => \A v \in Workers : v = w, Job(w)
  PROVE  AnnouncedInv'
<1> USE DEF queueVars, procVars, workerVars
<1>1. /\ main[w] \in Delivery /\ main[w].stamp \in Nat /\ row \in Row
      /\ main \in [Workers -> Delivery] /\ agent \in [Workers -> Agent]
      /\ jobs \in [Runs -> Workers \cup {"none", "waiting", "done"}]
      /\ term \in [Runs -> SUBSET {"answer_done", "run_failed"}]
  BY DEF TypeOK, Delivery
<1>2. /\ main[w].pc # "idle" => main[w].run = 1
      /\ agent[w].timer => main[w].pc # "idle"
      /\ \A r \in Runs : jobs[r] # "none" => r = 1
      /\ row.status = "streaming" => row.run = 1
  BY DEF AnnouncedInv, OneRun
<1>3. row.status # "absent" /\ 1 \in Runs /\ 1 \in 0 .. MaxRuns
  <2>1. main[w].pc # "idle" \/ \E r \in Runs : jobs[r] = "waiting"
    BY DEF Job, Take, Load, AssertStreaming, Write, Prepare, StartAgent, Emit, AgentReturns,
       AgentFails, Cite, AnswerDone, Final, FailRead, FailWrite, FailEvent, FailFinal,
       DbError, FailPc
  <2>2. row.status # "absent"
    BY <2>1 DEF AnnouncedInv, Fresh
  <2>3. 1 \in Runs
    BY <2>2 DEF AnnouncedInv, TermsOfRun
  <2> QED BY <2>2, <2>3, RunsInBounds
<1>4. Announced1 /\ Told(w)
  BY <1>3, ThatRun DEF AnnouncedInv
<1>5. UNCHANGED <<stalls, shut, req, side>>
  BY DEF Job, Take, Load, AssertStreaming, Write, Prepare, StartAgent, Emit,
     AgentReturns, AgentFails, Cite, AnswerDone, Final, FailRead, FailWrite,
     FailEvent, FailFinal, DbError
<1>6. \A v \in Workers \ {w} : main'[v] = main[v] /\ agent'[v].timer = agent[v].timer
  BY <1>1 DEF Job, Take, Load, AssertStreaming, Write, Prepare, StartAgent, Emit,
     AgentReturns, AgentFails, Cite, AnswerDone, Final, FailRead, FailWrite,
     FailEvent, FailFinal, DbError, Goto, Begin, Return, Leave, StopTimer, Throw, Agent
<1>7. SUFFICES
        /\ main'[w].pc # "idle" => main'[w].run = 1
        /\ agent'[w].timer => main'[w].pc # "idle"
        /\ \A r \in Runs : jobs'[r] # "none" => r = 1
        /\ jobs[1] # jobs'[1] => jobs[1] # "none"
        /\ \/ main[w].pc # "idle" /\ (main'[w].pc # "idle" => jobs'[1] = jobs[1])
           \/ jobs[1] = "waiting" /\ jobs'[1] = w
        /\ row'.status # "absent"
        /\ row'.status = "streaming" => row.status = "streaming" /\ row'.run = 1
        /\ \A r \in Runs \ {1} : term'[r] = term[r]
        /\ Announced1' /\ Told(w)'
  BY <1>3, <1>5, <1>6, SlotStep
<1>8. ASSUME Return(w), main[w].pc # "idle"
      PROVE  /\ main'[w].pc = "idle" /\ ~ agent'[w].timer
             /\ \A r \in Runs : jobs'[r] # "none" => r = 1
             /\ jobs[1] # jobs'[1] => jobs[1] # "none"
             /\ Told(w)'
  <2>1. /\ main' = [main EXCEPT ![w] = NoDelivery]
        /\ agent' = [agent EXCEPT ![w] = NoAgent]
        /\ jobs' = IF jobs[1] = w THEN [jobs EXCEPT ![1] = "done"] ELSE jobs
    BY <1>2, <1>8 DEF Return
  <2>2. /\ \A r \in Runs : jobs'[r] # "none" => jobs[r] # "none"
        /\ jobs[1] # jobs'[1] => jobs[1] # "none"
    BY <1>1, <1>3, <2>1, RunAssumption DEF RunAssumption
  <2>3. main'[w].pc = "idle" /\ ~ agent'[w].timer
    BY <1>1, <2>1 DEF NoDelivery, In, NoAgent
  <2>4. QED
    BY <1>2, <2>2, <2>3 DEF Told
\* What goes on with its job, and where that leads.
<1>9. ASSUME UNCHANGED jobs, main[w].pc # "idle", main'[w].pc # "idle",
             main'[w].run = main[w].run
      PROVE  /\ main'[w].run = 1
             /\ \A r \in Runs : jobs'[r] # "none" => r = 1
  BY <1>2, <1>9
<1>10. CASE \E r \in Runs : Take(w, r)
  <2>1. PICK r \in Runs : Take(w, r)
    BY <1>10
  <2>2. /\ r = 1 /\ UNCHANGED <<row, agent, term, cites>> /\ jobs[1] = "waiting"
        /\ jobs' = [jobs EXCEPT ![1] = w]
    BY <1>2, <2>1 DEF Take
  <2>3. main'[w].run = 1 /\ main'[w].pc = "load"
    BY <1>1, <2>1, <2>2 DEF Take, In
  <2>4. jobs'[1] = w /\ \A s \in Runs : jobs'[s] # "none" => s = 1
    BY <1>1, <1>2, <1>3, <2>2
  <2>5. Announced1' /\ Told(w)'
    BY <1>4, <2>2, <2>3 DEF Announced1, Told
  <2> QED
    BY <1>2, <1>3, <2>2, <2>3, <2>4, <2>5
<1>11. CASE Load(w) \/ AssertStreaming(w) \/ FailRead(w)
  <2>1. /\ main[w].run = 1 /\ main[w].pc # "idle" /\ UNCHANGED <<row, term, cites>>
    BY <1>2, <1>11 DEF Load, AssertStreaming, FailRead
  <2>2. Announced1'
    BY <1>4, <2>1 DEF Announced1
  <2>3. CASE Mine(main[w].run)
    <3>1. /\ main'[w].pc \in {"assert", "write", "fail_write"} /\ main'[w].run = 1
          /\ UNCHANGED <<jobs, agent>>
      BY <1>1, <1>11, <2>1, <2>3 DEF Load, AssertStreaming, FailRead, Begin, Goto, In, Delivery
    <3>2. term[1] = {}
      BY <1>4, <2>3 DEF Announced1, Mine
    <3>3. Told(w)'
      BY <2>1, <3>1, <3>2 DEF Told
    <3> QED
      BY <1>2, <1>3, <2>1, <2>2, <3>1, <3>3
  <2>4. CASE ~ Mine(main[w].run)
    <3>1. Return(w)
      BY <1>11, <2>4 DEF Load, AssertStreaming, FailRead, Leave
    <3> QED
      BY <1>2, <1>3, <1>8, <2>1, <2>2, <3>1
  <2> QED
    BY <2>3, <2>4
<1>12. CASE Write(w)
  <2> DEFINE saved == WithState(main[w].run, main[w].stamp, main[w].op # "done")
             text == [saved EXCEPT !.text = main[w].run]
             done == [saved EXCEPT !.status = "completed", !.text = main[w].run]
  <2>1. main[w].run = 1 /\ main[w].pc = "write" /\ term[1] = {}
    BY <1>2, <1>4, <1>12 DEF Write, Told
  <2>2. /\ saved \in Row /\ saved.status = row.status /\ saved.run = 1
        /\ text \in Row /\ text.status = row.status /\ text.run = 1
    BY <1>1, <1>3, <2>1, WithStateType DEF WithState, Row
  <2>3. done \in Row /\ done.status = "completed" /\ done.run = 1 /\ done.text = 1
    BY <1>1, <1>3, <2>1, <2>2 DEF Row, Status, Terminal
  <2>4. /\ UNCHANGED <<jobs, agent, term, cites>>
        /\ main'[w].run = 1 /\ main'[w].pc \in {"prepare", "agent", "assert", "cite"}
    BY <1>1, <1>12, <2>1 DEF Write, Goto, Begin, In
  <2>5. Announced1'
    BY <2>1, <2>4 DEF Announced1
  <2>6. CASE main'[w].pc # "cite"
    <3>1. Update(saved) \/ Update(text)
      BY <1>1, <1>12, <2>6 DEF Write, Goto, In
    <3>2. /\ row'.status # "absent"
          /\ row'.status = "streaming" => row.status = "streaming" /\ row'.run = 1
      BY <1>2, <1>3, <2>2, <3>1, StaysEnded DEF AnnouncedInv
    <3>3. Told(w)'
      BY <2>4, <2>6 DEF Told
    <3> QED
      BY <1>2, <2>1, <2>4, <2>5, <3>2, <3>3
  <2>7. CASE main'[w].pc = "cite"
    <3>1. Update(done)
      BY <1>1, <1>12, <2>7 DEF Write, Goto, Begin, In
    <3>2. row'.status # "streaming" /\ row'.status # "absent"
      BY <1>1, <1>3, <2>3, <3>1, StaysEnded DEF Terminal
    <3>3. row'.status # "deleted" => row'.status = "completed" /\ row'.run = 1 /\ row'.text = 1
      <4> HIDE DEF done
      <4> QED BY <2>3, <3>1 DEF Update, Row
    <3>4. Told(w)'
      BY <2>1, <2>4, <2>7, <3>3 DEF Told
    <3> QED
      BY <1>2, <2>1, <2>4, <2>5, <3>2, <3>4
  <2> QED
    BY <2>6, <2>7
<1>13. CASE Prepare(w) \/ StartAgent(w) \/ Emit(w) \/ AgentReturns(w) \/ AgentFails(w)
  <2>1. UNCHANGED <<jobs, row, term, cites>> /\ main[w].run = 1 /\ main[w].pc # "idle"
    BY <1>2, <1>13 DEF Prepare, StartAgent, Emit, AgentReturns, AgentFails
  <2>2. main'[w].run = 1 /\ main'[w].pc \in {"setup", "agent", "assert", "fail_read"}
    BY <1>1, <1>13, <2>1 DEF Prepare, StartAgent, Emit, AgentReturns, AgentFails,
       Throw, Goto, Begin, In
  <2>3. Announced1' /\ Told(w)'
    BY <1>4, <2>1, <2>2 DEF Announced1, Told
  <2> QED
    BY <1>2, <1>3, <2>1, <2>2, <2>3
<1>14. CASE Cite(w)
  <2>1. /\ UNCHANGED <<jobs, row, term>> /\ main[w].run = 1 /\ main[w].pc = "cite"
        /\ term[1] = {}
    BY <1>2, <1>4, <1>14 DEF Cite, Told
  <2>2. /\ main'[w].run = 1
        /\ \/ main'[w].pc = "fail_read"
           \/ main'[w].pc = "answer_done" /\ 1 \in cites'
    BY <1>1, <1>14, <2>1 DEF Cite, Throw, Goto, In
  <2>3. Announced1' /\ Told(w)'
    BY <1>4, <2>1, <2>2 DEF Announced1, Told
  <2> QED
    BY <1>2, <1>3, <2>1, <2>2, <2>3
<1>15. CASE AnswerDone(w)
  <2>1. /\ UNCHANGED <<jobs, row, cites>> /\ main[w].run = 1 /\ main[w].pc = "answer_done"
        /\ term' = [term EXCEPT ![1] = @ \cup {"answer_done"}] /\ term[1] = {}
        /\ main' = [main EXCEPT ![w].pc = "final", ![w].stamp = clock]
        /\ UNCHANGED agent
    BY <1>2, <1>4, <1>15 DEF AnswerDone, Told, Publish
  <2>2. main'[w].run = 1 /\ main'[w].pc = "final" /\ term'[1] = {"answer_done"}
    BY <1>1, <1>3, <2>1 DEF Delivery
  <2>3. Cardinality({"answer_done"}) = 1
    BY FS_Singleton
  <2>4. row.status # "deleted" =>
          1 \in cites /\ row.status = "completed" /\ row.run = 1 /\ row.text = 1
    BY <1>4, <2>1 DEF Told
  <2>5. Announced1' /\ Told(w)'
    BY <2>1, <2>2, <2>3, <2>4 DEF Announced1, Told
  <2> QED
    BY <1>1, <1>2, <1>3, <2>1, <2>2, <2>5
<1>16. CASE Final(w)
  <2>1. /\ main[w].run = 1 /\ main[w].pc # "idle" /\ Return(w) /\ UNCHANGED <<term, cites>>
        /\ Update(WithState(1, main[w].stamp, FALSE))
    BY <1>2, <1>16 DEF Final, Leave
  <2>2. /\ row'.status = row.status /\ row'.text = row.text
        /\ row.run = 1 => row'.run = 1
    BY <1>1, <1>3, <2>1, Refreshed DEF AnnouncedInv
  <2>3. Announced1'
    BY <1>3, <1>4, <2>1, <2>2, AnnouncedFrame
  <2> QED
    BY <1>2, <1>3, <1>8, <2>1, <2>2, <2>3
<1>17. CASE FailWrite(w) \/ FailFinal(w)
  <2>1. /\ main[w].run = 1 /\ main[w].pc # "idle" /\ UNCHANGED <<term, cites>>
        /\ Update(Failed(1)) /\ (term[1] = {} \/ term[1] = {"run_failed"})
    BY <1>2, <1>4, <1>17 DEF FailWrite, FailFinal, Told
  <2>2. row'.status # "streaming" /\ row'.status # "absent"
    BY <1>3, <2>1, FailedType, StaysEnded DEF Failed, Terminal
  <2>3. Announced1'
    BY <1>4, <2>1, <2>2 DEF Announced1
  <2>4. CASE FailWrite(w)
    <3>1. UNCHANGED <<jobs, agent>> /\ main'[w].run = 1 /\ main'[w].pc = "fail_event"
          /\ main[w].pc = "fail_write"
      BY <1>1, <1>2, <2>4 DEF FailWrite, Goto, In
    <3>2. Told(w)'
      BY <1>4, <2>1, <2>2, <3>1 DEF Told
    <3> QED
      BY <1>2, <2>1, <2>2, <2>3, <3>1, <3>2
  <2>5. CASE FailFinal(w)
    BY <1>8, <2>1, <2>2, <2>3, <2>5 DEF FailFinal, Leave
  <2> QED
    BY <1>17, <2>4, <2>5
<1>18. CASE FailEvent(w)
  <2>1. /\ UNCHANGED <<jobs, row, cites, agent>> /\ main[w].run = 1 /\ main[w].pc = "fail_event"
        /\ term' = [term EXCEPT ![1] = @ \cup {"run_failed"}]
        /\ term[1] = {} /\ row.status # "streaming" /\ Goto(w, "fail_final")
    BY <1>2, <1>4, <1>18 DEF FailEvent, Told, Publish
  <2>2. main'[w].run = 1 /\ main'[w].pc = "fail_final" /\ term'[1] = {"run_failed"}
    BY <1>1, <1>3, <2>1 DEF Goto, In
  <2>3. Cardinality({"run_failed"}) = 1
    BY FS_Singleton
  <2>4. Announced1' /\ Told(w)'
    BY <2>1, <2>2, <2>3 DEF Announced1, Told
  <2> QED
    BY <1>1, <1>2, <1>3, <2>1, <2>2, <2>4
<1>19. CASE DbError(w)
  <2>1. UNCHANGED <<row, term, cites>> /\ main[w].run = 1 /\ main[w].pc # "idle"
    BY <1>2, <1>19 DEF DbError, FailPc
  <2>2. Announced1'
    BY <1>4, <2>1 DEF Announced1
  <2>3. CASE Return(w)
    BY <1>2, <1>3, <1>8, <2>1, <2>2, <2>3
  <2>4. CASE ~ Return(w)
    <3>1. UNCHANGED jobs /\ main'[w].run = 1 /\ main'[w].pc = "fail_read"
      BY <1>1, <1>19, <2>1, <2>4 DEF DbError, Leave, Throw, Goto, In
    <3>2. Told(w)'
      BY <3>1 DEF Told
    <3> QED
      BY <1>2, <1>3, <2>1, <2>2, <3>1, <3>2
  <2> QED
    BY <2>3, <2>4
<1>20. QED
  BY <1>10, <1>11, <1>12, <1>13, <1>14, <1>15, <1>16, <1>17, <1>18, <1>19 DEF Job

LEMMA AnnouncedStep ==
  ASSUME "retry" \notin Env, "shutdown" \notin Env, "rediserror" \notin Env,
         "stall" \in Env => \A v, w \in Workers : v = w
  PROVE  TypeOK /\ AnnouncedInv /\ [Next]_vars => AnnouncedInv'
<1> SUFFICES ASSUME TypeOK, AnnouncedInv, [Next]_vars PROVE AnnouncedInv'
  OBVIOUS
<1>1. CASE Tick \/ UNCHANGED vars
  BY <1>1 DEF Tick, vars, queueVars, procVars, workerVars, AnnouncedInv, OneRun, Fresh,
     Alone, TermsOfRun, AnnouncedIsSettled, Mine, Told
<1>2. QED
  BY <1>1, AnnouncedWeb, AnnouncedJob, AnnouncedBeside, AnnouncedRuntime DEF Next

\* As long as no answer is regenerated, no shutdown fails the runs it finds and no
\* Redis command throws, a reader that closed at a terminal event misses nothing:
\* through stops, expiries, deletions, crashes with redelivery and rejected
\* statements. A job that loses its lock while it runs is delivered to a second slot
\* and then both announce, so either there is one slot or no job loses its lock so.
THEOREM AnnouncedCorrect ==
  ASSUME "retry" \notin Env, "shutdown" \notin Env, "rediserror" \notin Env,
         "stall" \in Env => \A v, w \in Workers : v = w
  PROVE  Spec => []AnnouncedIsSettled
<1>1. Init => AnnouncedInv
  <2> SUFFICES ASSUME Init PROVE AnnouncedInv
    OBVIOUS
  <2>1. OneRun /\ Fresh /\ Alone /\ TermsOfRun
    BY DEF Init, OneRun, Fresh, Alone, TermsOfRun, NoRow, NoDelivery, In, NoAside, NoAgent,
       NoRequest
  <2>2. AnnouncedIsSettled
    BY DEF Init, AnnouncedIsSettled
  <2>3. \A w \in Workers : Told(w)
    BY DEF Init, Told, NoDelivery, In
  <2> QED BY <2>1, <2>2, <2>3 DEF AnnouncedInv
<1>2. AnnouncedInv => AnnouncedIsSettled
  BY DEF AnnouncedInv
<1>3. QED
  BY <1>1, <1>2, TypeCorrect, AnnouncedStep, PTL DEF Spec

-----------------------------------------------------------------------------
(* The lease of a runtime that keeps up.                                   *)


\* In a system that keeps up, what is about to be written was taken from the clock
\* at this instant, and no heartbeat is overdue.
Timed ==
  /\ \A w \in Workers :
       main[w].pc \in {"assert", "write", "final"} => main[w].stamp = clock
  /\ \A w \in Workers : side[w].pc # "idle" => side[w].stamp = clock
  /\ \A w \in Workers : agent[w].timer =>
       agent[w].beat <= clock /\ clock <= agent[w].beat + Beat

\* The delivery has renewed the lease at least once.
Begun(w) ==
  Registered(w) /\ ~ (main[w].pc \in {"assert", "write"} /\ main[w].op = "first")

\* While the delivery waits for its provider the timer is armed, and the row has the
\* lease of the last heartbeat, or the statements that write it are under way.
Renewed(w) ==
  row.status = "streaming" =>
    /\ Begun(w) => row.lease > clock
    /\ main[w].pc = "prepare" => row.lease >= clock + Lease
    /\ (\/ main[w].pc \in {"setup", "agent"}
        \/ main[w].pc \in {"assert", "write"} /\ main[w].op \in {"state", "delta"})
         => agent[w].timer
    /\ main[w].pc \in {"setup", "agent"} =>
         \/ row.lease >= agent[w].beat + Lease
         \/ side[w].pc \in {"beat", "write"} /\ agent[w].beat = clock

HealthyInv == Timed /\ \A w \in Workers : Renewed(w)

\* The row ends, or keeps its lease, or has a new one.
Kept ==
  row'.status = "streaming" =>
    row.status = "streaming" /\ (row'.lease = row.lease \/ row'.lease = clock + Lease)

LEMMA RenewedKept ==
  ASSUME TypeOK, Timed, Kept, clock' = clock, NEW v \in Workers, Renewed(v),
         main'[v] = main[v], agent'[v].timer = agent[v].timer,
         agent'[v].beat = agent[v].beat, side'[v] = side[v]
  PROVE  Renewed(v)'
<1>1. clock \in Nat /\ row.lease \in Nat /\ agent[v].beat \in Nat /\ Lease \in Nat \ {0}
  BY RunAssumption DEF TypeOK, Row, Agent, RunAssumption
<1>2. agent[v].timer => agent[v].beat <= clock
  BY DEF Timed
<1> QED
  BY <1>1, <1>2 DEF Renewed, Begun, Kept, Registered

\* A step of one slot.
LEMMA HealthySlot ==
  ASSUME TypeOK, HealthyInv, Kept, clock' = clock, NEW w \in Workers,
         \A v \in Workers \ {w} : /\ main'[v] = main[v] /\ side'[v] = side[v]
                                  /\ agent'[v] = agent[v],
         main'[w].pc \in {"assert", "write", "final"} => main'[w].stamp = clock,
         side'[w].pc # "idle" => side'[w].stamp = clock,
         agent'[w].timer => \/ agent[w].timer /\ agent'[w].beat = agent[w].beat
                            \/ agent'[w].beat = clock,
         Renewed(w)'
  PROVE  HealthyInv'
<1>1. clock \in Nat /\ Beat \in Nat
  BY RunAssumption DEF TypeOK, RunAssumption
<1>2. Timed'
  BY <1>1 DEF HealthyInv, Timed
<1>3. ASSUME NEW v \in Workers PROVE Renewed(v)'
  BY RenewedKept DEF HealthyInv
<1> QED
  BY <1>2, <1>3 DEF HealthyInv

LEMMA HealthyWeb ==
  ASSUME TypeOK, QueueInv, HealthyInv, "retry" \notin Env, NEW q \in Requests, Web(q)
  PROVE  HealthyInv'
<1> USE DEF queueVars, procVars, workerVars
<1>1. CASE Post(q)
  <2>1. \A w \in Workers : main'[w].pc = "idle" /\ side'[w].pc = "idle" /\ ~ agent'[w].timer
    BY <1>1 DEF Post, QueueInv, Fresh, OneRun
  <2> QED
    BY <2>1 DEF HealthyInv, Timed, Renewed, Begun, Registered
<1>2. CASE ~ Post(q)
  <2>1. /\ UNCHANGED <<clock, main, side>>
        /\ \A w \in Workers : agent'[w].timer = agent[w].timer /\ agent'[w].beat = agent[w].beat
    <3>1. Cancel(q) =>
            /\ UNCHANGED <<clock, main, side>>
            /\ \A w \in Workers : agent'[w].timer = agent[w].timer /\ agent'[w].beat = agent[w].beat
      BY DEF Cancel, TypeOK, Agent
    <3> QED
      BY <1>2, <3>1 DEF Web, Enqueue, EnqueueFails, Touch, Undo, StopRead, StopWrite, ViewRead,
         ViewExpire, RetryRead, RetryClear, RetryWrite, Delete, QueueInv, OneRun
  <2>2. Kept
    <3>1. req[q].run \in 0 .. MaxRuns
      BY DEF TypeOK, Request
    <3>2. Undo(q) => row'.status # "streaming"
      BY <3>1, FailedType, StaysEnded DEF Undo, Failed, Terminal
    <3> QED
      BY <1>2, <3>2 DEF Web, Enqueue, EnqueueFails, Touch, StopRead, StopWrite, Cancel, ViewRead,
         ViewExpire, RetryRead, RetryClear, RetryWrite, Delete, QueueInv, OneRun, Kept, Failed, NoRow
  <2>3. Timed'
    BY <2>1 DEF HealthyInv, Timed
  <2>4. \A w \in Workers : Renewed(w)'
    BY <2>1, <2>2, RenewedKept DEF HealthyInv
  <2> QED
    BY <2>3, <2>4 DEF HealthyInv
<1> QED BY <1>1, <1>2

\* What a write of slot w leaves.
LEMMA NewLease ==
  ASSUME TypeOK, NEW r \in 0 .. MaxRuns, NEW t \in Nat, NEW live \in BOOLEAN,
         NEW new \in Row, new.status = row.status, new.lease = WithState(r, t, live).lease,
         Update(new)
  PROVE  row'.status = "streaming" => row.status = "streaming" /\ row'.lease = t + Lease
BY DEF Update, WithState, TypeOK, Row

LEMMA HealthyBeside ==
  ASSUME TypeOK, QueueInv, HealthyInv, "dberror" \notin Env, NEW w \in Workers, Beside(w)
  PROVE  HealthyInv'
<1> USE DEF queueVars, procVars
<1>1. /\ side[w] \in Aside /\ row \in Row /\ clock \in Nat /\ row.lease \in Nat
      /\ side \in [Workers -> Aside] /\ agent \in [Workers -> Agent] /\ agent[w] \in Agent
      /\ Lease \in Nat \ {0} /\ Beat \in Nat
  BY RunAssumption DEF TypeOK, Row, RunAssumption
<1>2. /\ side[w].pc # "idle" => side[w].run = 1 /\ side[w].stamp = clock
      /\ agent[w].timer => main[w].pc # "idle" /\ agent[w].beat <= clock
      /\ row.status = "streaming" => row.run = 1
      /\ main[w].pc # "idle" => main[w].run = 1
  BY DEF QueueInv, OneRun, HealthyInv, Timed
<1>3. Renewed(w)
  BY DEF HealthyInv
<1>4. /\ UNCHANGED <<main, clock>>
      /\ \A v \in Workers \ {w} : side'[v] = side[v] /\ agent'[v] = agent[v]
  BY <1>1 DEF Beside, Heartbeat, ToolHook, SideStart, SideAssert, SideWrite, SideFails
<1>5. SUFFICES /\ Kept
               /\ side'[w].pc # "idle" => side'[w].stamp = clock
               /\ agent'[w].timer => \/ agent[w].timer /\ agent'[w].beat = agent[w].beat
                                     \/ agent'[w].beat = clock
               /\ Renewed(w)'
  <2>1. main'[w].pc \in {"assert", "write", "final"} => main'[w].stamp = clock
    BY <1>4 DEF HealthyInv, Timed
  <2> QED BY <1>4, <2>1, HealthySlot
<1>6. CASE Heartbeat(w)
  <2>1. /\ side'[w].pc = "beat" /\ side'[w].stamp = clock /\ agent[w].timer /\ UNCHANGED row
        /\ agent'[w].timer = agent[w].timer /\ agent'[w].beat = clock
    BY <1>1, <1>6 DEF Heartbeat, SideStart, Agent
  <2>2. Renewed(w)'
    BY <1>1, <1>3, <1>4, <2>1 DEF Renewed, Begun, Registered
  <2> QED BY <2>1, <2>2 DEF Kept
<1>7. CASE ToolHook(w)
  <2>1. /\ side[w].pc = "idle" /\ side'[w].stamp = clock /\ UNCHANGED <<row, agent>>
    BY <1>1, <1>7 DEF ToolHook, SideStart
  <2>2. Renewed(w)'
    BY <1>1, <1>3, <1>4, <2>1 DEF Renewed, Begun, Registered
  <2> QED BY <1>1, <2>1, <2>2 DEF Kept
<1>8. CASE SideAssert(w)
  <2>1. side[w].pc \in {"beat", "tool"} /\ UNCHANGED row /\ side[w].stamp = clock
    BY <1>2, <1>8 DEF SideAssert
  <2>2. CASE Mine(side[w].run)
    <3>1. /\ side'[w].pc = "write" /\ side'[w].stamp = clock /\ UNCHANGED agent
      BY <1>1, <1>8, <2>1, <2>2 DEF SideAssert, Aside
    <3>2. Renewed(w)'
      BY <1>1, <1>3, <1>4, <2>1, <3>1 DEF Renewed, Begun, Registered
    <3> QED BY <2>1, <3>1, <3>2 DEF Kept
  <2>3. CASE ~ Mine(side[w].run)
    <3>1. /\ side'[w].pc = "idle" /\ (agent'[w].timer => agent[w].timer)
          /\ agent'[w].beat = agent[w].beat
      BY <1>1, <1>8, <2>1, <2>3 DEF SideAssert, NoAside, Agent
    <3>2. row.status # "streaming"
      BY <1>2, <2>1, <2>3 DEF Mine
    <3>3. Renewed(w)'
      BY <2>1, <3>2 DEF Renewed
    <3> QED BY <2>1, <3>1, <3>3 DEF Kept
  <2> QED BY <2>2, <2>3
<1>9. CASE SideWrite(w)
  <2>1. /\ side'[w].pc = "idle" /\ UNCHANGED agent
        /\ side[w].run = 1 /\ side[w].stamp = clock /\ 1 \in 0 .. MaxRuns
        /\ Update(WithState(1, clock, TRUE))
    BY <1>1, <1>2, <1>9 DEF SideWrite, NoAside, Aside
  <2>2. WithState(1, clock, TRUE) \in Row /\ WithState(1, clock, TRUE).status = row.status
    BY <1>1, <2>1, WithStateType DEF WithState, Row
  <2>3. row'.status = "streaming" => row.status = "streaming" /\ row'.lease = clock + Lease
    BY <1>1, <2>1, <2>2, NewLease
  <2>4. agent[w].beat \in Nat
    BY <1>1 DEF Agent
  <2>5. Renewed(w)'
    BY <1>1, <1>2, <1>3, <1>4, <2>1, <2>3, <2>4 DEF Renewed, Begun, Registered
  <2> QED BY <2>1, <2>3, <2>5 DEF Kept
<1> QED
  BY <1>6, <1>7, <1>8, <1>9 DEF Beside, SideFails

LEMMA HealthyJob ==
  ASSUME TypeOK, QueueInv, HealthyInv, "dberror" \notin Env, NEW w \in Workers, Job(w)
  PROVE  HealthyInv'
<1> USE DEF queueVars, procVars, workerVars
<1>1. /\ main[w] \in Delivery /\ main[w].stamp \in Nat /\ row \in Row /\ clock \in Nat
      /\ main \in [Workers -> Delivery] /\ agent \in [Workers -> Agent] /\ agent[w] \in Agent
      /\ Lease \in Nat \ {0} /\ Beat \in Nat /\ row.lease \in Nat
  BY RunAssumption DEF TypeOK, Delivery, Row, RunAssumption
<1>2. /\ main[w].pc # "idle" => main[w].run = 1
      /\ agent[w].timer => main[w].pc # "idle" /\ agent[w].beat <= clock
      /\ row.status = "streaming" => row.run = 1
      /\ main[w].pc \in {"cite", "answer_done", "final", "fail_event", "fail_final"}
           => row.status # "streaming"
      /\ main[w].pc \in {"assert", "write", "final"} => main[w].stamp = clock
  BY DEF QueueInv, OneRun, HealthyInv, Timed, Settled
<1>3. Renewed(w)
  BY DEF HealthyInv
<1>4. UNCHANGED <<clock, side>>
  BY DEF Job, Take, Load, AssertStreaming, Write, Prepare, StartAgent, Emit,
     AgentReturns, AgentFails, Cite, AnswerDone, Final, FailRead, FailWrite,
     FailEvent, FailFinal, DbError
<1>5. \A v \in Workers \ {w} : main'[v] = main[v] /\ agent'[v] = agent[v]
  BY <1>1 DEF Job, Take, Load, AssertStreaming, Write, Prepare, StartAgent, Emit,
     AgentReturns, AgentFails, Cite, AnswerDone, Final, FailRead, FailWrite,
     FailEvent, FailFinal, DbError, Goto, Begin, Return, Leave, StopTimer, Throw
<1>6. SUFFICES
        /\ Kept
        /\ main'[w].pc \in {"assert", "write", "final"} => main'[w].stamp = clock
        /\ agent'[w].timer => \/ agent[w].timer /\ agent'[w].beat = agent[w].beat
                              \/ agent'[w].beat = clock
        /\ Renewed(w)'
  <2>1. side'[w].pc # "idle" => side'[w].stamp = clock
    BY <1>4 DEF HealthyInv, Timed
  <2> QED BY <1>4, <1>5, <2>1, HealthySlot
\* The end of a delivery.
<1>7. ASSUME Return(w) PROVE main'[w].pc = "idle" /\ ~ agent'[w].timer
  BY <1>1, <1>7 DEF Return, NoDelivery, In, NoAgent
<1>8. ASSUME Return(w), Kept
      PROVE  /\ main'[w].pc \in {"assert", "write", "final"} => main'[w].stamp = clock
             /\ agent'[w].timer => agent'[w].beat = clock
             /\ Renewed(w)'
  BY <1>7, <1>8 DEF Renewed, Begun, Registered
<1>9. CASE \E r \in Runs : Take(w, r)
  <2>1. /\ main'[w].pc = "load" /\ UNCHANGED <<row, agent>> /\ main[w].pc = "idle"
    BY <1>1, <1>9 DEF Take, In
  <2>2. Kept /\ Renewed(w)'
    BY <2>1 DEF Kept, Renewed, Begun, Registered
  <2> QED BY <1>2, <2>1, <2>2
<1>10. CASE Load(w) \/ AssertStreaming(w) \/ FailRead(w)
  <2>1. UNCHANGED row /\ main[w].pc \in {"load", "assert", "fail_read"}
    BY <1>10 DEF Load, AssertStreaming, FailRead
  <2>2. Kept
    BY <2>1 DEF Kept
  <2>3. CASE Mine(main[w].run)
    <3>1. UNCHANGED agent
      BY <1>10, <2>3 DEF Load, AssertStreaming, FailRead
    <3>2. \/ main'[w].pc = "assert" /\ main'[w].op = "first" /\ main'[w].stamp = clock
          \/ /\ main[w].pc = "assert" /\ main'[w].pc = "write"
             /\ main'[w].op = main[w].op /\ main'[w].stamp = main[w].stamp
          \/ main'[w].pc = "fail_write" /\ main[w].pc = "fail_read"
      BY <1>1, <1>10, <2>3 DEF Load, AssertStreaming, FailRead, Begin, Goto, In, Delivery
    <3>3. Renewed(w)'
      BY <1>3, <1>4, <2>1, <3>1, <3>2 DEF Renewed, Begun, Registered
    <3> QED
      BY <1>2, <2>2, <3>1, <3>2, <3>3
  <2>4. CASE ~ Mine(main[w].run)
    BY <1>8, <1>10, <2>2, <2>4 DEF Load, AssertStreaming, FailRead, Leave
  <2> QED
    BY <2>3, <2>4
<1>11. CASE Write(w)
  <2> DEFINE saved == WithState(main[w].run, main[w].stamp, main[w].op # "done")
             text == [saved EXCEPT !.text = main[w].run]
             done == [saved EXCEPT !.status = "completed", !.text = main[w].run]
  <2>1. main[w].pc = "write" /\ main[w].stamp = clock /\ UNCHANGED agent
        /\ main[w].run \in 0 .. MaxRuns
    BY <1>1, <1>2, <1>11 DEF Write, Delivery
  <2>2. /\ saved \in Row /\ saved.status = row.status /\ saved.lease = clock + Lease
        /\ text \in Row /\ text.status = row.status /\ text.lease = clock + Lease
    BY <1>1, <2>1, WithStateType DEF WithState, Row
  <2>3. done \in Row /\ done.status = "completed"
    BY <1>1, <2>1, <2>2 DEF Row, Status, Terminal
  <2>4. /\ main'[w].pc \in {"prepare", "agent", "assert", "cite"}
        /\ main'[w].pc = "assert" => main'[w].op = "done" /\ main'[w].stamp = clock
        /\ main'[w].pc = "agent" => main[w].op \in {"state", "delta"}
    BY <1>1, <1>11, <2>1 DEF Write, Goto, Begin, In
  <2>5. row'.status = "streaming" => row.status = "streaming" /\ row'.lease = clock + Lease
    <3>1. Update(saved) \/ Update(text) \/ Update(done)
      BY <1>11 DEF Write
    <3> HIDE DEF saved, text, done
    <3> QED
      BY <2>2, <2>3, <3>1 DEF Update, TypeOK, Row
  <2>6. agent[w].beat \in Nat
    BY <1>1 DEF Agent
  <2>7. Renewed(w)'
    BY <1>1, <1>2, <1>3, <1>4, <2>1, <2>4, <2>5, <2>6 DEF Renewed, Begun, Registered
  <2> QED
    BY <2>1, <2>4, <2>5, <2>7 DEF Kept
<1>12. CASE Prepare(w) \/ StartAgent(w)
  <2>1. /\ UNCHANGED row /\ main[w].pc \in {"prepare", "setup"}
        /\ main'[w].pc \in {"setup", "agent"}
        /\ \/ main[w].pc = "prepare" /\ agent'[w].timer /\ agent'[w].beat = clock
           \/ main[w].pc = "setup" /\ agent'[w].timer = agent[w].timer
              /\ agent'[w].beat = agent[w].beat
    BY <1>1, <1>12 DEF Prepare, StartAgent, Goto, In, Agent
  <2>2. Renewed(w)'
    BY <1>1, <1>3, <1>4, <2>1 DEF Renewed, Begun, Registered
  <2> QED
    BY <2>1, <2>2 DEF Kept
<1>13. CASE Emit(w) \/ AgentReturns(w)
  <2>1. /\ UNCHANGED row /\ main[w].pc = "agent" /\ main'[w].pc = "assert"
        /\ main'[w].stamp = clock
        /\ \/ main'[w].op \in {"delta", "state"} /\ UNCHANGED agent
           \/ main'[w].op \in {"flush", "done"} /\ ~ agent'[w].timer
    BY <1>1, <1>13 DEF Emit, AgentReturns, Begin, StopTimer, NoAgent
  <2>2. Renewed(w)'
    BY <1>1, <1>3, <1>4, <2>1 DEF Renewed, Begun, Registered
  <2> QED
    BY <2>1, <2>2 DEF Kept
<1>14. CASE AgentFails(w) \/ Cite(w) \/ AnswerDone(w)
  <2>1. /\ UNCHANGED row /\ main[w].pc \in {"setup", "agent", "cite", "answer_done"}
        /\ main'[w].pc = "final" => main'[w].stamp = clock
        /\ main'[w].pc \in {"idle", "fail_read", "answer_done", "final"}
        /\ agent'[w].timer => agent'[w] = agent[w]
    BY <1>1, <1>14 DEF AgentFails, Cite, AnswerDone, Leave, Return, Throw, Goto, StopTimer, In,
       NoAgent, NoDelivery, Delivery
  <2>2. Renewed(w)'
    BY <1>1, <1>2, <1>3, <1>4, <2>1 DEF Renewed, Begun, Registered
  <2> QED
    BY <2>1, <2>2 DEF Kept
<1>15. CASE Final(w) \/ FailFinal(w)
  <2>1. Return(w) /\ row.status # "streaming"
    BY <1>2, <1>15 DEF Final, FailFinal, Leave
  <2>2. WithState(main[w].run, main[w].stamp, FALSE).status = row.status
    BY <1>1 DEF WithState, Row
  <2>3. Kept
    <3>1. PICK new : Update(new) /\ new.status # "streaming"
                     /\ (row.status # "deleted" => row' = [new EXCEPT !.lease = 0])
      <4>1. Final(w) => Update(WithState(main[w].run, main[w].stamp, FALSE))
        BY DEF Final
      <4>2. FailFinal(w) => Update(Failed(main[w].run)) /\ Failed(main[w].run).status = "failed"
        BY DEF FailFinal, Failed
      <4> QED BY <1>15, <2>1, <2>2, <4>1, <4>2 DEF Update
    <3>2. row'.status # "streaming"
      BY <1>1, <3>1, <2>1 DEF Update, Row
    <3> QED BY <3>2 DEF Kept
  <2> QED
    BY <1>8, <2>1, <2>3
<1>16. CASE FailWrite(w) \/ FailEvent(w)
  <2>1. /\ row'.status # "streaming" \/ UNCHANGED row
        /\ main'[w].pc \in {"idle", "fail_event", "fail_final"}
        /\ agent'[w].timer => agent'[w] = agent[w]
        /\ main[w].pc = "fail_event" \/ row'.status # "streaming"
    BY <1>1, <1>16 DEF FailWrite, FailEvent, Update, Failed, Goto, In, Leave, Return, NoAgent,
       NoDelivery
  <2>2. row'.status # "streaming"
    BY <1>2, <2>1
  <2> QED
    BY <1>2, <2>1, <2>2 DEF Kept, Renewed
<1>17. QED
  BY <1>9, <1>10, <1>11, <1>12, <1>13, <1>14, <1>15, <1>16 DEF Job, DbError

LEMMA HealthyRuntime ==
  ASSUME TypeOK, QueueInv, HealthyInv, Runtime
  PROVE  HealthyInv'
<1> USE DEF queueVars, procVars, workerVars
<1>1. ASSUME Die PROVE HealthyInv'
  BY <1>1 DEF Die, HealthyInv, Timed, Renewed, Begun, Registered, NoDelivery, In, NoAside, NoAgent
<1>2. ASSUME /\ UNCHANGED <<clock, main, side>> /\ Kept
             /\ \A w \in Workers : /\ agent'[w].timer = agent[w].timer
                                    /\ agent'[w].beat = agent[w].beat
      PROVE HealthyInv'
  <2>1. Timed'
    BY <1>2 DEF HealthyInv, Timed
  <2>2. \A w \in Workers : Renewed(w)'
    BY <1>2, RenewedKept DEF HealthyInv
  <2> QED BY <2>1, <2>2 DEF HealthyInv
<1>3. CASE Exit \/ Crash
  BY <1>1, <1>3 DEF Exit, Crash
<1>4. CASE Shutdown
  <2>1. /\ UNCHANGED <<clock, main, side, row>>
        /\ \A w \in Workers : agent'[w].timer = agent[w].timer /\ agent'[w].beat = agent[w].beat
    BY <1>4 DEF Shutdown, TypeOK, Agent
  <2> QED BY <1>2, <2>1 DEF Kept
<1>5. CASE Restart \/ \E r \in Runs : Stalled(r)
  BY <1>2, <1>5 DEF Restart, Stalled, Kept
<1>6. ASSUME NEW r \in Runs, ShutFail(r) PROVE HealthyInv'
  BY <1>2, <1>6 DEF ShutFail, Update, Failed, Kept
<1>7. QED
  BY <1>3, <1>4, <1>5, <1>6 DEF Runtime

LEMMA HealthyTick ==
  ASSUME TypeOK, HealthyInv, Beat < Lease, Prompt, Tick
  PROVE  HealthyInv'
<1>1. /\ clock \in Nat /\ clock' = clock + 1 /\ row.lease \in Nat /\ Beat \in Nat /\ Lease \in Nat
      /\ \A w \in Workers : agent[w].beat \in Nat
  BY RunAssumption DEF Tick, TypeOK, Row, Agent, RunAssumption
<1>2. UNCHANGED <<row, main, agent, side>>
  BY DEF Tick, workerVars
<1>3. Timed'
  BY <1>1, <1>2 DEF HealthyInv, Timed, Prompt
<1>4. \A w \in Workers : Renewed(w)'
  BY <1>1, <1>2 DEF HealthyInv, Timed, Renewed, Begun, Registered, Prompt
<1> QED
  BY <1>3, <1>4 DEF HealthyInv

\* No expiry succeeds on a run whose runtime keeps up, however many slots,
\* deliveries of the run and readers there are and whatever of its processes stops,
\* as long as its heartbeats come faster than the lease ends and no statement is
\* rejected.
THEOREM HealthyCorrect ==
  ASSUME "retry" \notin Env, "dberror" \notin Env, Beat < Lease
  PROVE  PromptSpec => HealthyRunNotExpired
<1>1. Init => HealthyInv
  BY DEF Init, HealthyInv, Timed, Renewed, Begun, Registered, NoRow, NoDelivery, In, NoAside, NoAgent
<1>2. TypeOK /\ QueueInv /\ HealthyInv /\ [PromptNext]_vars => HealthyInv'
  <2> SUFFICES ASSUME TypeOK, QueueInv, HealthyInv, [PromptNext]_vars PROVE HealthyInv'
    OBVIOUS
  <2>1. CASE UNCHANGED vars
    BY <2>1 DEF vars, queueVars, procVars, workerVars, HealthyInv, Timed, Renewed, Begun, Registered
  <2> QED
    BY <2>1, HealthyWeb, HealthyJob, HealthyBeside, HealthyRuntime, HealthyTick DEF PromptNext
<1>3. [PromptNext]_vars => [Next]_vars
  BY DEF PromptNext, Next
<1>4. Init => QueueInv
  BY DEF Init, QueueInv, OneRun, Fresh, Settled, JobOutlivesStreaming, Mine, NoRow,
     NoDelivery, In, NoAside, NoAgent, NoRequest
<1>5. TypeOK /\ HealthyInv /\
        [\A q \in Requests : Expired(q) => row.status = "streaming" /\ row.lease <= clock]_vars
        => [\A q \in Requests, w \in Workers :
              Expired(q) /\ Registered(w) /\ main[w].op # "first" => main[w].run # row.run]_vars
  <2> SUFFICES ASSUME TypeOK, HealthyInv, NEW q \in Requests, NEW w \in Workers,
                      row.status = "streaming" /\ row.lease <= clock,
                      Registered(w), main[w].op # "first"
               PROVE  FALSE
    OBVIOUS
  <2>1. row.lease > clock
    BY DEF HealthyInv, Renewed, Begun
  <2>2. row.lease \in Nat /\ clock \in Nat
    BY DEF TypeOK, Row
  <2> QED BY <2>1, <2>2
<1> QED
  BY <1>1, <1>2, <1>3, <1>4, <1>5, TypeCorrect, RegistryCorrect, QueueStep, ExpiryCorrect, PTL
     DEF PromptSpec, Spec, ExpiryRespectsLease, HealthyRunNotExpired
=============================================================================
