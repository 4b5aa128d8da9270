--------------------------- MODULE ConversationRun ---------------------------
(***************************************************************************)
(* The life of one assistant answer: the `messages` row, the web handlers  *)
(* that start, stop, regenerate, expire and delete it, the BullMQ jobs     *)
(* that generate it, and the agent runtime that runs those jobs.           *)
(*                                                                         *)
(* The handlers share nothing but the database row (single autocommitted   *)
(* statements), the queue and the Redis stream, so every handler is cut at *)
(* each of its awaits: a row that is read in one step is used in a later   *)
(* one, after any other actor may have written it.                         *)
(***************************************************************************)
EXTENDS Integers, FiniteSets

CONSTANTS
  Workers,    \* slots of the respond worker (its BullMQ concurrency)
  Requests,   \* HTTP requests and SSE connections the web app serves at once
  MaxRuns,    \* bound: how many run ids are ever created for this answer
  Lease,      \* STREAMING_ASSISTANT_LEASE_TIMEOUT_MS, in ticks
  Beat,       \* STREAMING_ASSISTANT_HEARTBEAT_INTERVAL_MS, in ticks
  MaxClock,   \* bound: the last instant
  Env,        \* which events of the environment may happen
  Nil

EnvEvents == {"stop", "retry", "expire", "delete", "crash", "stall",
              "shutdown", "dberror", "rediserror"}

ASSUME RunAssumption ==
  /\ MaxRuns \in Nat
  /\ Lease \in Nat \ {0}
  /\ Beat \in Nat \ {0}
  /\ MaxClock \in Nat
  /\ Env \subseteq EnvEvents
  /\ Nil \notin Workers
  /\ Workers \cap {"none", "waiting", "done"} = {}

VARIABLES
  clock,      \* wall clock of every process
  row,        \* the assistant row of `messages`
  cites,      \* runs whose `message_citations` rows exist
  issued,     \* run ids created so far: run n is the n-th
  jobs,       \* respond job of each run; a worker slot is the lock's holder
  stalls,     \* how often BullMQ found the run's job stalled
  term,       \* terminal events in the Redis stream of each run
  proc,       \* the agent-runtime process
  active,     \* activeConversationRuns: the delivery registered for a run
  main,       \* each worker slot's delivery: the main flow of the job
  agent,      \* its provider query and heartbeatTimer
  side,       \* its heartbeat or tool hook in flight
  shut,       \* shutdownRuntime's failConversationResponseRun, for each run
  req         \* what each web request has read and still has to do

Runs == 1 .. MaxRuns

queueVars == <<jobs, stalls>>
procVars == <<proc, active, shut>>
workerVars == <<main, agent, side, procVars>>
vars == <<clock, row, cites, issued, queueVars, term, workerVars, req>>

-----------------------------------------------------------------------------
(* Types.                                                                  *)

Terminal == {"completed", "failed"}
Status == {"absent", "streaming", "deleted"} \cup Terminal

\* run, lease and live abstract structuredJson: run_id, run_lease_expires_at
\* (0 unless streaming: nothing reads it then) and whether a live-only field
\* (phase, status_text, active tool) is set. text is the run whose output
\* contentMarkdown holds, 0 for a notice or "".
Row == [status : Status, run : 0 .. MaxRuns, lease : Nat,
        live : BOOLEAN, text : 0 .. MaxRuns]

FailPc == {"fail_read", "fail_write", "fail_event", "fail_final"}
MainPc == {"idle", "load", "assert", "write", "prepare", "setup", "agent",
           "cite", "answer_done", "final"} \cup FailPc
\* What the assert and the write in progress are for; the write's `now`.
MainOp == {"none", "first", "state", "delta", "flush", "done"}
Delivery == [pc : MainPc, run : 0 .. MaxRuns, op : MainOp, stamp : Nat]
\* activeRun.cancel is set, and was called; the timer, and when it last fired.
Agent == [ready : BOOLEAN, cancelled : BOOLEAN, timer : BOOLEAN, beat : Nat]
Aside == [pc : {"idle", "beat", "tool", "write"}, run : 0 .. MaxRuns, stamp : Nat]
ReqPc == {"idle", "enqueue", "touch", "undo", "stop", "expire", "cancel",
          "retry_clear", "retry_write"}
Request == [pc : ReqPc, run : 0 .. MaxRuns, lease : Nat, text : 0 .. MaxRuns]

NoRow(s) == [status |-> s, run |-> 0, lease |-> 0, live |-> FALSE, text |-> 0]
In(label, r) == [pc |-> label, run |-> r, op |-> "none", stamp |-> 0]
NoDelivery == In("idle", 0)
NoAgent == [ready |-> FALSE, cancelled |-> FALSE, timer |-> FALSE, beat |-> 0]
NoAside == [pc |-> "idle", run |-> 0, stamp |-> 0]
NoRequest == [pc |-> "idle", run |-> 0, lease |-> 0, text |-> 0]

TypeOK ==
  /\ clock \in Nat
  /\ row \in Row
  /\ cites \subseteq 0 .. MaxRuns
  /\ issued \in 0 .. MaxRuns
  /\ jobs \in [Runs -> Workers \cup {"none", "waiting", "done"}]
  /\ stalls \in [Runs -> Nat]
  /\ term \in [Runs -> SUBSET {"answer_done", "run_failed"}]
  /\ proc \in {"up", "closing", "down"}
  /\ active \in [Runs -> Workers \cup {Nil}]
  /\ main \in [Workers -> Delivery]
  /\ agent \in [Workers -> Agent]
  /\ side \in [Workers -> Aside]
  /\ shut \in [Runs -> {"idle"} \cup FailPc]
  /\ req \in [Requests -> Request]

Init ==
  /\ clock = 0
  /\ row = NoRow("absent")
  /\ cites = {}
  /\ issued = 0
  /\ jobs = [r \in Runs |-> "none"]
  /\ stalls = [r \in Runs |-> 0]
  /\ term = [r \in Runs |-> {}]
  /\ proc = "up"
  /\ active = [r \in Runs |-> Nil]
  /\ main = [w \in Workers |-> NoDelivery]
  /\ agent = [w \in Workers |-> NoAgent]
  /\ side = [w \in Workers |-> NoAside]
  /\ shut = [r \in Runs |-> "idle"]
  /\ req = [q \in Requests |-> NoRequest]

-----------------------------------------------------------------------------
(* The row, as the statements see it.                                      *)

\* assertAssistantMessageStillStreaming, and the same test at the job's entry.
Mine(r) == row.status = "streaming" /\ row.run = r

\* An UPDATE whose WHERE names only the id: no effect once the row is gone.
Update(new) ==
  row' = IF row.status = "deleted" THEN row
         ELSE IF new.status = "streaming" THEN new
         ELSE [new EXCEPT !.lease = 0]

\* Mutant: the lease is subtracted from the time of the write.
WithStateLeaseBackwards(r, t, live) ==
  [row EXCEPT !.run = r, !.lease = t - Lease, !.live = live]

\* structuredJson replaced by run r's local state, refreshed at time t.
WithState(r, t, live) ==
  [row EXCEPT !.run = r, !.lease = t + Lease, !.live = live]

\* The terminal row of a failed or expired run.
Failed(r) ==
  [status |-> "failed", run |-> r, lease |-> 0, live |-> FALSE, text |-> 0]

-----------------------------------------------------------------------------
(* The web application.                                                    *)

Respond(q) == req' = [req EXCEPT ![q] = NoRequest]

\* POST messages: the placeholder is inserted with a new run and its lease.
Post(q) ==
  /\ req[q].pc = "idle"
  /\ row.status = "absent" /\ issued < MaxRuns
  /\ clock + Lease <= MaxClock
  /\ issued' = issued + 1
  /\ row' = [status |-> "streaming", run |-> issued + 1,
             lease |-> clock + Lease, live |-> TRUE, text |-> 0]
  /\ req' = [req EXCEPT ![q].pc = "enqueue", ![q].run = issued + 1]
  /\ UNCHANGED <<clock, cites, queueVars, term, workerVars>>

\* enqueueConversationResponse: the job id is the message id and the run id.
Enqueue(q) ==
  /\ req[q].pc = "enqueue"
  /\ jobs' = [jobs EXCEPT ![req[q].run] = "waiting"]
  /\ req' = [req EXCEPT ![q].pc = "touch"]
  /\ UNCHANGED <<clock, row, cites, issued, stalls, term, workerVars>>

\* It throws; when only the reply was lost, the job is queued all the same.
EnqueueFails(q) ==
  /\ "rediserror" \in Env
  /\ req[q].pc = "enqueue"
  /\ jobs' \in {jobs, [jobs EXCEPT ![req[q].run] = "waiting"]}
  /\ req' = [req EXCEPT ![q].pc = "undo"]
  /\ UNCHANGED <<clock, row, cites, issued, stalls, term, workerVars>>

\* A retry, which a first run is not, then bumps conversations.updatedAt inside the
\* same try block.
Touch(q) ==
  /\ req[q].pc = "touch"
  /\ \/ Respond(q)
     \/ /\ "dberror" \in Env /\ req[q].run > 1
        /\ req' = [req EXCEPT ![q].pc = "undo"]
  /\ UNCHANGED <<clock, row, cites, issued, queueVars, term, workerVars>>

\* The catch block fails the run it created; its update names only the id.
Undo(q) ==
  /\ req[q].pc = "undo"
  /\ Update(Failed(req[q].run))
  /\ Respond(q)
  /\ UNCHANGED <<clock, cites, issued, queueVars, term, workerVars>>

\* Reads the answer that a stop, or the expiry of the stream route, is about.
StopRead(q) ==
  /\ "stop" \in Env
  /\ req[q].pc = "idle"
  /\ row.status = "streaming"
  /\ req' = [req EXCEPT ![q] = [pc |-> "stop", run |-> row.run,
                                lease |-> 0, text |-> row.text]]
  /\ UNCHANGED <<clock, row, cites, issued, queueVars, term, workerVars>>

\* The guarded UPDATE of the stop route writes back what StopRead saw.
StopWrite(q) ==
  /\ req[q].pc = "stop"
  /\ IF row.status = "streaming"
     THEN /\ row' = [status |-> "completed", run |-> req[q].run,
                     lease |-> 0, live |-> FALSE, text |-> req[q].text]
          /\ req' = [req EXCEPT ![q].pc = "cancel"]
     ELSE Respond(q) /\ UNCHANGED row
  /\ UNCHANGED <<clock, cites, issued, queueVars, term, workerVars>>

\* cancelActiveConversationRun, best effort: it is lost when the runtime is
\* unreachable, and ignored when the run has no cancel function yet.
Cancel(q) ==
  /\ req[q].pc = "cancel"
  /\ LET w == active[req[q].run]
     IN \/ /\ w # Nil /\ agent[w].ready
           /\ agent' = [agent EXCEPT ![w].cancelled = TRUE]
        \/ UNCHANGED agent
  /\ Respond(q)
  /\ UNCHANGED <<clock, row, cites, issued, queueVars, term, main, side,
                 procVars>>

\* Mutant: only answers that already have text are expired.
ViewReadStarted(q) ==
  /\ "expire" \in Env
  /\ req[q].pc = "idle"
  /\ row.status = "streaming" /\ row.lease <= clock /\ row.text # 0
  /\ req' = [req EXCEPT ![q] = [pc |-> "expire", run |-> row.run,
                                lease |-> row.lease, text |-> 0]]
  /\ UNCHANGED <<clock, row, cites, issued, queueVars, term, workerVars>>

\* syncFromDatabase of an open SSE connection finds the lease over.
ViewRead(q) ==
  /\ "expire" \in Env
  /\ req[q].pc = "idle"
  /\ row.status = "streaming" /\ row.lease <= clock
  /\ req' = [req EXCEPT ![q] = [pc |-> "expire", run |-> row.run,
                                lease |-> row.lease, text |-> 0]]
  /\ UNCHANGED <<clock, row, cites, issued, queueVars, term, workerVars>>

\* Mutant: the update compares only the status.
ViewExpireByStatus(q) ==
  /\ req[q].pc = "expire"
  /\ IF row.status = "streaming"
     THEN /\ row' = Failed(req[q].run)
          /\ req' = [req EXCEPT ![q].pc = "cancel"]
     ELSE Respond(q) /\ UNCHANGED row
  /\ UNCHANGED <<clock, cites, issued, queueVars, term, workerVars>>

\* expireStreamingAssistantMessage compares status and lease as it writes.
ViewExpire(q) ==
  /\ req[q].pc = "expire"
  /\ IF row.status = "streaming" /\ row.lease = req[q].lease
     THEN /\ row' = Failed(req[q].run)
          /\ req' = [req EXCEPT ![q].pc = "cancel"]
     ELSE Respond(q) /\ UNCHANGED row
  /\ UNCHANGED <<clock, cites, issued, queueVars, term, workerVars>>

\* POST retry: findRegeneratableConversationTurn on what was read.
RetryRead(q) ==
  /\ "retry" \in Env
  /\ req[q].pc = "idle"
  /\ row.status \in Terminal
  /\ issued < MaxRuns /\ clock + Lease <= MaxClock
  /\ req' = [req EXCEPT ![q].pc = "retry_clear"]
  /\ UNCHANGED <<clock, row, cites, issued, queueVars, term, workerVars>>

\* The citations go first; then the new run id and its lease are made up. An
\* unusable model profile ends the request there, as does the bound on runs.
RetryClear(q) ==
  /\ req[q].pc = "retry_clear"
  /\ cites' = {}
  /\ \/ /\ issued < MaxRuns
        /\ issued' = issued + 1
        /\ req' = [req EXCEPT ![q] = [pc |-> "retry_write", run |-> issued + 1,
                                      lease |-> clock + Lease, text |-> 0]]
     \/ Respond(q) /\ UNCHANGED issued
  /\ UNCHANGED <<clock, row, queueVars, term, workerVars>>

\* The row is reset under a new run, whatever it holds by now.
RetryWrite(q) ==
  /\ req[q].pc = "retry_write"
  /\ Update([status |-> "streaming", run |-> req[q].run,
             lease |-> req[q].lease, live |-> TRUE, text |-> 0])
  /\ req' = [req EXCEPT ![q].pc = "enqueue", ![q].lease = 0]
  /\ UNCHANGED <<clock, cites, issued, queueVars, term, workerVars>>

\* DELETE conversation cascades to its messages and their citations.
Delete(q) ==
  /\ "delete" \in Env
  /\ req[q].pc = "idle"
  /\ row.status \notin {"absent", "deleted"}
  /\ row' = NoRow("deleted")
  /\ cites' = {}
  /\ UNCHANGED <<clock, issued, queueVars, term, workerVars, req>>

Web(q) ==
  \/ Post(q) \/ Enqueue(q) \/ EnqueueFails(q) \/ Touch(q) \/ Undo(q)
  \/ StopRead(q) \/ StopWrite(q) \/ Cancel(q)
  \/ ViewRead(q) \/ ViewExpire(q)
  \/ RetryRead(q) \/ RetryClear(q) \/ RetryWrite(q)
  \/ Delete(q)

-----------------------------------------------------------------------------
(* The agent runtime: the main flow of a delivery, one step per await.     *)

Goto(w, label) == main' = [main EXCEPT ![w] = In(label, main[w].run)]

\* A persist operation starts with its assert; its `now` is taken here.
Begin(w, o) ==
  main' = [main EXCEPT ![w] = [pc |-> "assert", run |-> main[w].run,
                               op |-> o, stamp |-> clock]]

\* The delivery ends; the job leaves the queue if its lock is still held.
Return(w) ==
  LET r == main[w].run
  IN /\ main' = [main EXCEPT ![w] = NoDelivery]
     /\ agent' = [agent EXCEPT ![w] = NoAgent]
     /\ jobs' = IF jobs[r] = w THEN [jobs EXCEPT ![r] = "done"] ELSE jobs

\* Mutant: the registry entry outlives the job.
LeaveStaysRegistered(w) == Return(w) /\ UNCHANGED active

\* The same from inside the try: clearInterval and unregisterActiveRun.
Leave(w) ==
  /\ Return(w)
  /\ active' = [active EXCEPT ![main[w].run] = Nil]

\* The query is closed and the timer cleared: cancelling no longer does
\* anything.
StopTimer(w) == agent' = [agent EXCEPT ![w] = NoAgent]

\* An exception reaches the catch block of the job.
Throw(w) == Goto(w, "fail_read") /\ StopTimer(w)

\* BullMQ hands a waiting job to a free slot.
Take(w, r) ==
  /\ proc # "down"
  /\ main[w].pc = "idle" /\ side[w].pc = "idle"
  /\ jobs[r] = "waiting"
  /\ jobs' = [jobs EXCEPT ![r] = w]
  /\ main' = [main EXCEPT ![w] = In("load", r)]
  /\ UNCHANGED <<clock, row, cites, issued, stalls, term, agent, side,
                 procVars, req>>

\* The job skips a row that is not streaming this run; else it registers.
Load(w) ==
  /\ main[w].pc = "load"
  /\ IF Mine(main[w].run)
     THEN /\ active' = [active EXCEPT ![main[w].run] = w]
          /\ Begin(w, "first")
          /\ UNCHANGED <<jobs, agent>>
     ELSE Return(w) /\ UNCHANGED active
  /\ UNCHANGED <<clock, row, cites, issued, stalls, term, side, proc, shut, req>>

\* A failed assert is AssistantRunStoppedError: the job returns silently.
AssertStreaming(w) ==
  /\ main[w].pc = "assert"
  /\ IF Mine(main[w].run)
     THEN /\ main' = [main EXCEPT ![w].pc = "write"]
          /\ UNCHANGED <<jobs, agent, active>>
     ELSE Leave(w)
  /\ UNCHANGED <<clock, row, cites, issued, stalls, term, side, proc, shut, req>>

\* The UPDATE of the operation, and where the flow goes on.
Write(w) ==
  LET r == main[w].run
      o == main[w].op
      saved == WithState(r, main[w].stamp, o # "done")
  IN /\ main[w].pc = "write"
     /\ \/ o = "first" /\ Update(saved) /\ Goto(w, "prepare")
        \/ o = "state" /\ Update(saved) /\ Goto(w, "agent")
        \/ o = "delta" /\ Update([saved EXCEPT !.text = r]) /\ Goto(w, "agent")
        \/ o = "flush" /\ Update([saved EXCEPT !.text = r]) /\ Begin(w, "done")
        \/ /\ o = "done"
           /\ Update([saved EXCEPT !.status = "completed", !.text = r])
           /\ Goto(w, "cite")
     /\ UNCHANGED <<clock, cites, issued, queueVars, term, agent, side,
                    procVars, req>>

\* The knowledge summary is in; setInterval arms the heartbeat.
Prepare(w) ==
  /\ main[w].pc = "prepare"
  /\ agent' = [agent EXCEPT ![w].timer = TRUE, ![w].beat = clock]
  /\ Goto(w, "setup")
  /\ UNCHANGED <<clock, row, cites, issued, queueVars, term, side, procVars, req>>

\* The provider query exists and onCancelReady has published its cancel.
StartAgent(w) ==
  /\ main[w].pc = "setup"
  /\ agent' = [agent EXCEPT ![w].ready = TRUE]
  /\ Goto(w, "agent")
  /\ UNCHANGED <<clock, row, cites, issued, queueVars, term, side, procVars, req>>

\* The provider yields output: text, or thinking, status and progress.
Emit(w) ==
  /\ main[w].pc = "agent" /\ ~agent[w].cancelled
  /\ \E o \in {"delta", "state"} : Begin(w, o)
  /\ UNCHANGED <<clock, row, cites, issued, queueVars, term, agent, side,
                 procVars, req>>

\* The query ended. The last delta is forced out unless it already is.
AgentReturns(w) ==
  /\ main[w].pc = "agent"
  /\ \E o \in {"flush", "done"} : Begin(w, o)
  /\ StopTimer(w)
  /\ UNCHANGED <<clock, row, cites, issued, queueVars, term, side, procVars, req>>

\* Mutant: an error before or in the query ends the job without failing the row.
AgentFailsSilently(w) ==
  /\ main[w].pc \in {"setup", "agent"}
  /\ Leave(w)
  /\ UNCHANGED <<clock, row, cites, issued, stalls, term, side, proc, shut, req>>

\* No usable model, a provider error or timeout, or an answer whose
\* citations cannot be materialised.
AgentFails(w) ==
  /\ main[w].pc \in {"setup", "agent"}
  /\ Throw(w)
  /\ UNCHANGED <<clock, row, cites, issued, queueVars, term, side, procVars, req>>

\* persistMessageCitations; its rows reference the message.
Cite(w) ==
  /\ main[w].pc = "cite"
  /\ IF row.status = "deleted"
     THEN Throw(w) /\ UNCHANGED cites
     ELSE /\ cites' = cites \cup {main[w].run}
          /\ Goto(w, "answer_done")
          /\ UNCHANGED agent
  /\ UNCHANGED <<clock, row, issued, queueVars, term, side, procVars, req>>

\* appendConversationStreamEvent of a terminal event, at the end of run r.
Publish(r, event) == term' = [term EXCEPT ![r] = @ \cup {event}]

\* publishConversationEvent swallows a Redis error, also one that comes after
\* the event was added; the snapshot is then skipped.
AnswerDone(w) ==
  /\ main[w].pc = "answer_done"
  /\ \/ /\ Publish(main[w].run, "answer_done")
        /\ main' = [main EXCEPT ![w].pc = "final", ![w].stamp = clock]
        /\ UNCHANGED <<jobs, agent, active>>
     \/ /\ "rediserror" \in Env
        /\ UNCHANGED term \/ Publish(main[w].run, "answer_done")
        /\ Leave(w)
  /\ UNCHANGED <<clock, row, cites, issued, stalls, side, proc, shut, req>>

\* The last snapshot records the event's id, with no assert before it.
Final(w) ==
  /\ main[w].pc = "final"
  /\ Update(WithState(main[w].run, main[w].stamp, FALSE))
  /\ Leave(w)
  /\ UNCHANGED <<clock, cites, issued, stalls, term, side, proc, shut, req>>

-----------------------------------------------------------------------------
(* failConversationResponseRun, called by the job's catch block.           *)

\* Mutant: run_failed is published before the row is updated.
FailReadEventFirst(w) ==
  /\ main[w].pc = "fail_read"
  /\ IF Mine(main[w].run)
     THEN Goto(w, "fail_event") /\ UNCHANGED <<jobs, agent, active>>
     ELSE Leave(w)
  /\ UNCHANGED <<clock, row, cites, issued, stalls, term, side, proc, shut, req>>

\* Applied only to a row that is streaming the run.
FailRead(w) ==
  /\ main[w].pc = "fail_read"
  /\ IF Mine(main[w].run)
     THEN Goto(w, "fail_write") /\ UNCHANGED <<jobs, agent, active>>
     ELSE Leave(w)
  /\ UNCHANGED <<clock, row, cites, issued, stalls, term, side, proc, shut, req>>

\* The update of what was read, by then, names only the id.
FailWrite(w) ==
  /\ main[w].pc = "fail_write"
  /\ Update(Failed(main[w].run))
  /\ Goto(w, "fail_event")
  /\ UNCHANGED <<clock, cites, issued, queueVars, term, agent, side, procVars, req>>

FailEvent(w) ==
  /\ main[w].pc = "fail_event"
  /\ \/ /\ Publish(main[w].run, "run_failed")
        /\ Goto(w, "fail_final")
        /\ UNCHANGED <<jobs, agent, active>>
     \/ /\ "rediserror" \in Env
        /\ UNCHANGED term \/ Publish(main[w].run, "run_failed")
        /\ Leave(w)
  /\ UNCHANGED <<clock, row, cites, issued, stalls, side, proc, shut, req>>

\* The second update stores the event's id: status and content once more.
FailFinal(w) ==
  /\ main[w].pc = "fail_final"
  /\ Update(Failed(main[w].run))
  /\ Leave(w)
  /\ UNCHANGED <<clock, cites, issued, stalls, term, side, proc, shut, req>>

\* A statement is rejected: the catch block takes over, unless the flow is
\* already in it or has not entered the try.
DbError(w) ==
  /\ "dberror" \in Env
  /\ \/ /\ main[w].pc \in {"assert", "write", "cite", "final"}
        /\ Throw(w)
        /\ UNCHANGED <<jobs, active>>
     \/ main[w].pc \in FailPc \ {"fail_event"} /\ Leave(w)
     \/ main[w].pc = "load" /\ Return(w) /\ UNCHANGED active
  /\ UNCHANGED <<clock, row, cites, issued, stalls, term, side, proc, shut, req>>

Job(w) ==
  \/ \E r \in Runs : Take(w, r)
  \/ Load(w) \/ AssertStreaming(w) \/ Write(w) \/ Prepare(w) \/ StartAgent(w)
  \/ Emit(w) \/ AgentReturns(w) \/ AgentFails(w)
  \/ Cite(w) \/ AnswerDone(w) \/ Final(w)
  \/ FailRead(w) \/ FailWrite(w) \/ FailEvent(w) \/ FailFinal(w)
  \/ DbError(w)

-----------------------------------------------------------------------------
(* What runs beside the main flow of a delivery: the heartbeat timer, and  *)
(* the provider's tool hooks. One of them is in flight at a time.          *)

SideStart(w, kind) ==
  /\ agent[w].timer /\ side[w].pc = "idle"
  /\ side' = [side EXCEPT ![w] = [pc |-> kind, run |-> main[w].run,
                                  stamp |-> clock]]
  /\ UNCHANGED <<clock, row, cites, issued, queueVars, term, main, procVars, req>>

\* The interval elapses: persistAssistantHeartbeat takes its `now`.
Heartbeat(w) ==
  /\ clock >= agent[w].beat + Beat
  /\ SideStart(w, "beat")
  /\ agent' = [agent EXCEPT ![w].beat = clock]

\* publishToolMessage, called by the provider before and after a tool.
ToolHook(w) ==
  /\ agent[w].ready /\ ~agent[w].cancelled
  /\ SideStart(w, "tool")
  /\ UNCHANGED agent

\* A heartbeat that finds the run stopped clears the timer; a hook's error
\* goes back to the provider. A hook takes its `now` only after the assert.
SideAssert(w) ==
  /\ side[w].pc \in {"beat", "tool"}
  /\ IF Mine(side[w].run)
     THEN /\ side' = [side EXCEPT ![w].pc = "write",
                       ![w].stamp = IF side[w].pc = "tool" THEN clock ELSE @]
          /\ UNCHANGED agent
     ELSE /\ side' = [side EXCEPT ![w] = NoAside]
          /\ agent' = IF side[w].pc = "beat"
                      THEN [agent EXCEPT ![w].timer = FALSE] ELSE agent
  /\ UNCHANGED <<clock, row, cites, issued, queueVars, term, main, procVars, req>>

\* Mutant: a heartbeat does not move the lease.
SideWriteKeepsLease(w) ==
  /\ side[w].pc = "write"
  /\ Update([row EXCEPT !.run = side[w].run, !.live = TRUE])
  /\ side' = [side EXCEPT ![w] = NoAside]
  /\ UNCHANGED <<clock, cites, issued, queueVars, term, main, agent, procVars, req>>

SideWrite(w) ==
  /\ side[w].pc = "write"
  /\ Update(WithState(side[w].run, side[w].stamp, TRUE))
  /\ side' = [side EXCEPT ![w] = NoAside]
  /\ UNCHANGED <<clock, cites, issued, queueVars, term, main, agent, procVars, req>>

\* A rejected statement is logged, or handed to the provider: nothing else.
SideFails(w) ==
  /\ "dberror" \in Env /\ side[w].pc # "idle"
  /\ side' = [side EXCEPT ![w] = NoAside]
  /\ UNCHANGED <<clock, row, cites, issued, queueVars, term, main, agent,
                 procVars, req>>

Beside(w) ==
  Heartbeat(w) \/ ToolHook(w) \/ SideAssert(w) \/ SideWrite(w) \/ SideFails(w)

-----------------------------------------------------------------------------
(* Shutdown, crash and recovery of the agent-runtime process.              *)

\* On a signal every registered run is cancelled and failed, concurrently.
Shutdown ==
  /\ "shutdown" \in Env /\ proc = "up"
  /\ proc' = "closing"
  /\ agent' = [w \in Workers |-> [agent[w] EXCEPT !.cancelled =
                 @ \/ (agent[w].ready /\ \E r \in Runs : active[r] = w)]]
  /\ shut' = [r \in Runs |-> IF active[r] = Nil THEN "idle" ELSE "fail_read"]
  /\ UNCHANGED <<clock, row, cites, issued, queueVars, term, main, side,
                 active, req>>

\* failConversationResponseRun again, called by shutdownRuntime.
ShutFail(r) ==
  /\ \/ /\ shut[r] = "fail_read"
        /\ shut' = [shut EXCEPT ![r] = IF Mine(r) THEN "fail_write" ELSE "idle"]
        /\ UNCHANGED <<row, term>>
     \/ /\ shut[r] = "fail_write"
        /\ Update(Failed(r))
        /\ shut' = [shut EXCEPT ![r] = "fail_event"]
        /\ UNCHANGED term
     \/ /\ shut[r] = "fail_event"
        /\ \/ /\ Publish(r, "run_failed")
              /\ shut' = [shut EXCEPT ![r] = "fail_final"]
           \/ /\ "rediserror" \in Env
              /\ UNCHANGED term \/ Publish(r, "run_failed")
              /\ shut' = [shut EXCEPT ![r] = "idle"]
        /\ UNCHANGED row
     \/ /\ shut[r] = "fail_final"
        /\ Update(Failed(r))
        /\ shut' = [shut EXCEPT ![r] = "idle"]
        /\ UNCHANGED term
  /\ UNCHANGED <<clock, cites, issued, queueVars, main, agent, side, proc,
                 active, req>>

\* The process ends: its memory is gone, its job locks are not.
Die ==
  /\ proc' = "down"
  /\ main' = [w \in Workers |-> NoDelivery]
  /\ agent' = [w \in Workers |-> NoAgent]
  /\ side' = [w \in Workers |-> NoAside]
  /\ active' = [r \in Runs |-> Nil]
  /\ shut' = [r \in Runs |-> "idle"]
  /\ UNCHANGED <<clock, row, cites, issued, queueVars, term, req>>

\* respondWorker.close(true) waits for no job; then process.exit.
Exit ==
  /\ proc = "closing"
  /\ \A r \in Runs : shut[r] = "idle"
  /\ Die

Crash == "crash" \in Env /\ proc # "down" /\ Die

Restart ==
  /\ proc = "down"
  /\ proc' = "up"
  /\ UNCHANGED <<clock, row, cites, issued, queueVars, term, main, agent,
                 side, active, shut, req>>

\* BullMQ finds the lock of an active job expired: the worker is dead, or its
\* event loop was blocked. A job may stall once (maxStalledCount), then fails.
Stalled(r) ==
  /\ proc = "up"
  /\ jobs[r] \in Workers
  /\ "stall" \in Env \/ main[jobs[r]].run # r
  /\ jobs' = [jobs EXCEPT ![r] = IF stalls[r] = 0 THEN "waiting" ELSE "done"]
  /\ stalls' = [stalls EXCEPT ![r] = @ + 1]
  /\ UNCHANGED <<clock, row, cites, issued, term, workerVars, req>>

Runtime ==
  \/ Shutdown \/ Exit \/ Crash \/ Restart
  \/ \E r \in Runs : ShutFail(r) \/ Stalled(r)

-----------------------------------------------------------------------------
(* Time. While anything can still write a lease, time stops one lease      *)
(* short of MaxClock, so that every lease ends within the bound.           *)

Busy ==
  \/ \E w \in Workers : main[w].pc # "idle" \/ side[w].pc # "idle"
  \/ \E r \in Runs : shut[r] # "idle" \/ jobs[r] \notin {"none", "done"}
  \/ \E q \in Requests : req[q].pc # "idle"

Tick ==
  /\ clock < MaxClock
  /\ Busy => clock + Lease < MaxClock
  /\ clock' = clock + 1
  /\ UNCHANGED <<row, cites, issued, queueVars, term, workerVars, req>>

Next ==
  \/ \E q \in Requests : Web(q)
  \/ \E w \in Workers : Job(w) \/ Beside(w)
  \/ Runtime
  \/ Tick

Spec == Init /\ [][Next]_vars

-----------------------------------------------------------------------------
(* Fairness. Statements, HTTP calls and Redis commands complete. The       *)
(* provider's answer ends, however often it yields: the query guard's      *)
(* timeouts and the turn limit bound it, hence SF. BullMQ delivers, and    *)
(* looks for stalled jobs, as long as the process is up often enough.      *)
(* Nothing makes users, the environment or the provider's output fair.     *)

WebStep(q) == Enqueue(q) \/ Touch(q) \/ Undo(q) \/ StopWrite(q) \/ Cancel(q)
              \/ ViewExpire(q) \/ RetryClear(q) \/ RetryWrite(q)
JobStep(w) == Load(w) \/ AssertStreaming(w) \/ Write(w) \/ Prepare(w) \/ StartAgent(w)
              \/ Cite(w) \/ AnswerDone(w) \/ Final(w)
              \/ FailRead(w) \/ FailWrite(w) \/ FailEvent(w) \/ FailFinal(w)

RuntimeFairness ==
  /\ \A q \in Requests : WF_vars(WebStep(q))
  /\ \A w \in Workers : /\ SF_vars(\E r \in Runs : Take(w, r))
                        /\ WF_vars(JobStep(w))
                        /\ SF_vars(AgentReturns(w) \/ AgentFails(w))
                        /\ WF_vars(SideAssert(w) \/ SideWrite(w))
  /\ \A r \in Runs : WF_vars(ShutFail(r)) /\ SF_vars(Stalled(r))
  /\ WF_vars(Exit) /\ WF_vars(Restart) /\ WF_vars(Tick)

\* A system that keeps up: heartbeats start when they are due, and what a
\* delivery or an enqueuing request has in flight takes less than a tick.
\* How long a job waits for a slot, which other conversations share, is open.
Prompt ==
  /\ \A w \in Workers :
       /\ agent[w].timer => clock < agent[w].beat + Beat
       /\ main[w].pc \in {"idle", "setup", "agent"}
       /\ side[w].pc = "idle"
  /\ \A q \in Requests : req[q].pc \notin {"enqueue", "touch", "undo"}

PromptNext ==
  \/ \E q \in Requests : Web(q)
  \/ \E w \in Workers : Job(w) \/ Beside(w)
  \/ Runtime
  \/ Prompt /\ Tick

PromptSpec == Init /\ [][PromptNext]_vars

-----------------------------------------------------------------------------
(* Properties.                                                             *)

Expired(q) == req[q].pc = "expire" /\ req'[q].pc = "cancel"
Registered(w) == main[w].pc \notin {"idle", "load"}

\* The stream route reads the row, compares the lease with its clock and only
\* then writes: a row that it fails is streaming at that moment, and its lease
\* over, however often the run renewed it in between.
ExpiryRespectsLease ==
  [][\A q \in Requests : Expired(q) =>
       row.status = "streaming" /\ row.lease <= clock]_vars

\* A streaming answer still has its job in the queue, waiting or held by a
\* slot, or the request that will add it: no path through the job, its catch
\* block, a crash or a shutdown drops the job of a row it leaves streaming.
\* BullMQ itself gives up on a job that stalled twice.
JobOutlivesStreaming ==
  \A r \in Runs : Mine(r) =>
    \/ jobs[r] \in Workers \cup {"waiting"}
    \/ stalls[r] > 1
    \/ \E q \in Requests : req[q].run = r /\ req[q].pc \in {"enqueue", "undo"}

\* activeConversationRuns names only deliveries in progress: /runs/cancel and
\* the shutdown never act on a run whose job has returned, whichever way.
RegisteredIsInProgress ==
  \A r \in Runs : active[r] # Nil =>
    Registered(active[r]) /\ main[active[r]].run = r

\* A reader that got a terminal event and closed its stream misses nothing: no
\* other outcome follows, whichever of the job's statements are rejected and
\* wherever it is restarted; the row of that run is no longer streaming; an
\* answer that was announced is stored with its citations, and nothing overwrites
\* it afterwards, short of a retry.
AnnouncedIsSettled ==
  \A r \in Runs : term[r] # {} =>
    /\ Cardinality(term[r]) = 1
    /\ ~Mine(r)
    /\ ("answer_done" \in term[r] /\ row.status # "deleted") =>
         /\ r \in cites
         /\ row.status = "completed" /\ row.run = r /\ row.text = r

\* A run whose runtime keeps up is never failed by a reader: from its first
\* heartbeat on, no expiry succeeds, not even one that was decided earlier.
HealthyRunNotExpired ==
  [][\A q \in Requests, w \in Workers :
       Expired(q) /\ Registered(w) /\ main[w].op # "first" => main[w].run # row.run]_vars

(* What the repository says of the program, and the program does not do.   *)

\* process-conversation-job.test.ts: "stops persisting output when the
\* assistant was already finalized elsewhere". Once a stop has completed the
\* answer, its status and text stay.
FinalizedElsewhereIsKept ==
  [][row.status \in Terminal /\ row'.status \in Terminal =>
       row'.status = row.status /\ row'.text = row.text]_row

\* implementation-tracker.md: events, jobs and tool timeline of an old run no
\* longer flow back into a new round. The row never returns to an older run.
OldRunNeverTakesOver == [][row'.run >= row.run]_row

\* anchor-desk-technical-design: expiry is for a crashed or long lost worker.
ExpiredOnlyIfWorkerLost ==
  [][(\E q \in Requests : Expired(q)) => \E r \in Runs : stalls[r] > 0]_vars
=============================================================================
