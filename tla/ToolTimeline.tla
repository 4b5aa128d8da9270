---------------------------- MODULE ToolTimeline ----------------------------
(***************************************************************************)
(* The process view of an answer: what its tools and its thinking are      *)
(* doing.                                                                  *)
(*                                                                         *)
(* The hooks of parallel tool uses and the loop that reads the model's     *)
(* messages run side by side in one job.  Each checks that the answer      *)
(* still streams, inserts a tool row, announces it, folds it into the run  *)
(* state that they share, and writes that state whole: the writes may      *)
(* arrive in any order.  A page builds the view from the tool rows and the *)
(* stored run state; a page that is open builds it from what it receives,  *)
(* event by event, or row by row when an event is missing.                 *)
(*                                                                         *)
(* The page is connected all the time: ConversationStream has the          *)
(* connections, ConversationRun the heartbeat (one more writer of the run  *)
(* state) and the ends of a run that are one step here.                    *)
(***************************************************************************)
EXTENDS Naturals, FiniteSets, Sequences, SequencesExt

CONSTANTS
  Uses,         \* tool uses of the query
  ToolNames,
  MaxSpoken     \* bound: pieces of thinking or text that the model streams

ASSUME TimelineAssumption ==
  IsFiniteSet(Uses) /\ MaxSpoken \in Nat

VARIABLES
  toolOf,      \* the tool of each use
  hook,        \* the hook of each use
  loop,        \* the loop over the model's messages, and the end of the job
  runState,    \* currentRunState: the process steps and the thinking text
  stored,      \* the answer's row: its status and the run state written last
  useRows,     \* the tool rows of the run, in createdAt order
  openView     \* what the open page holds

timelineVars == <<toolOf, hook, loop, runState, stored, useRows, openView>>

-----------------------------------------------------------------------------
(* Process steps.                                                          *)

Thinking(parts, open) == [kind |-> "thinking", parts |-> parts, open |-> open]
ToolStep(id, name, status) ==
  [kind |-> "tool", id |-> id, use |-> id, name |-> name, status |-> status]

IsTool(step) == step.kind = "tool"
IsOpenThinking(step) == step.kind = "thinking" /\ step.open

\* closeStreamingAssistantThinkingProcessSteps.
CloseThinking(steps) ==
  [i \in DOMAIN steps |->
     IF IsOpenThinking(steps[i]) THEN [steps[i] EXCEPT !.open = FALSE]
     ELSE steps[i]]

\* appendStreamingAssistantThinkingProcessStep.
AppendThinking(steps, delta) ==
  IF delta = <<>> THEN steps
  ELSE IF steps # <<>> /\ IsOpenThinking(Last(steps))
  THEN [steps EXCEPT ![Len(steps)].parts = @ \o delta]
  ELSE Append(CloseThinking(steps), Thinking(delta, TRUE))

\* joinThinkingStepText.
ThinkingText(steps) ==
  FlattenSeq([i \in DOMAIN steps |->
                IF IsTool(steps[i]) THEN <<>> ELSE steps[i].parts])

OpenToolStep(step, name) ==
  IsTool(step) /\ step.name = name /\ step.status = "streaming"

\* findOpenToolProcessStepIndex: by id, by use, else the last open step of the
\* same tool.
FindStep(steps, use) ==
  LET byId == SelectInSeq(steps, LAMBDA s : IsTool(s) /\ s.id = use)
      byUse == SelectInSeq(steps, LAMBDA s : IsTool(s) /\ s.use = use)
  IN IF byId # 0 THEN byId ELSE IF byUse # 0 THEN byUse
     ELSE SelectLastInSeq(steps, LAMBDA s : OpenToolStep(s, toolOf[use]))

\* upsertStreamingAssistantToolProcessStep.
Upsert(steps, row) ==
  LET closed == CloseThinking(steps)
      at == FindStep(closed, row.use)
  IN IF at = 0
     THEN Append(closed, ToolStep(row.use, toolOf[row.use], row.status))
     ELSE [closed EXCEPT ![at].status = row.status, ![at].use = row.use]

-----------------------------------------------------------------------------
(* The process view.                                                       *)

Entry(id, name, status, closed) ==
  [id |-> id, name |-> name, status |-> status, closed |-> closed]

\* Mutant: a row goes to the open call of its tool, whichever use it is.
FindEntryByName(entries, use) ==
  SelectLastInSeq(entries, LAMBDA e : e.name = toolOf[use] /\ ~e.closed)

\* findOpenToolCallEntryIndex: the entry the use pushed, else the last open one
\* of the same tool.
FindEntry(entries, use) ==
  LET pushed == SelectLastInSeq(entries, LAMBDA e : e.id = use)
  IN IF pushed # 0 THEN pushed
     ELSE SelectLastInSeq(entries, LAMBDA e : e.name = toolOf[use] /\ ~e.closed)

\* buildToolTimelineEntries: a row that starts a use is always a new entry.
AddEntry(entries, row) ==
  LET at == FindEntry(entries, row.use)
      new == Entry(row.use, toolOf[row.use], row.status, row.status # "streaming")
  IN IF row.status = "streaming" \/ at = 0 THEN Append(entries, new)
     ELSE [entries EXCEPT ![at].status = row.status, ![at].closed = TRUE]
ToolEntries(rows) == FoldLeft(AddEntry, <<>>, rows)

\* buildAssistantProcessTimelineEntries: the entry of each tool step (or one
\* made up from the step), then the entries that no step claims.  The order on
\* the page, by time, is left out.
ProcessView(steps, rows) ==
  LET entries == ToolEntries(rows)
      entryOf(step) ==
        LET at == SelectLastInSeq(entries, LAMBDA e : e.id = step.id)
        IN IF at # 0 THEN entries[at]
           ELSE Entry(step.id, step.name, step.status, step.status # "streaming")
      tools == SelectSeq(steps, IsTool)
      ofSteps == [i \in DOMAIN tools |-> entryOf(tools[i])]
  IN ofSteps \o SelectSeq(entries,
       LAMBDA e : \A i \in DOMAIN ofSteps : ofSteps[i].id # e.id)

\* Every use that has a row is shown once, as its latest row says.
ShownOnce(view, use) ==
  Cardinality({i \in DOMAIN view : view[i].id = use}) = 1
Truthful(steps, rows) ==
  LET view == ProcessView(steps, rows)
  IN \A i \in DOMAIN rows :
       LET use == rows[i].use
           latest == rows[SelectLastInSeq(rows, LAMBDA r : r.use = use)]
       IN /\ ShownOnce(view, use)
          /\ \A k \in DOMAIN view : view[k].id = use => view[k].status = latest.status

-----------------------------------------------------------------------------
(* Types.                                                                  *)

\* A use, or an answer, that completed and one that failed are not told apart.
RunStatus == {"streaming", "ended"}
HookPc == {"idle", "insert", "announce", "write"}
NoState == [steps |-> <<>>, thought |-> <<>>]

\* Every variable has its type; a hook announces a row that exists.
TimelineTypeOK ==
  /\ toolOf \in [Uses -> ToolNames]
  /\ \A u \in Uses :
       /\ hook[u].pc \in HookPc
       /\ hook[u].phase \in {"none"} \cup RunStatus
       /\ hook[u].row \in 0 .. Len(useRows)
  /\ loop.pc \in {"idle", "announce", "write", "done", "final", "over"}
  /\ loop.said \in 0 .. MaxSpoken
  /\ stored.status \in RunStatus
  /\ \A i \in DOMAIN useRows :
       useRows[i].use \in Uses /\ useRows[i].status \in RunStatus
  /\ openView.status \in RunStatus
  /\ ToSet(openView.rows) \subseteq DOMAIN useRows

TimelineInit ==
  /\ toolOf \in [Uses -> ToolNames]
  /\ hook = [u \in Uses |-> [pc |-> "idle", phase |-> "none", row |-> 0,
                             snap |-> NoState]]
  /\ loop = [pc |-> "idle", kind |-> "text", said |-> 0, snap |-> NoState]
  /\ runState = NoState
  /\ stored = [status |-> "streaming", state |-> NoState]
  /\ useRows = <<>>
  /\ openView = [status |-> "streaming", rows |-> <<>>, steps |-> <<>>]

-----------------------------------------------------------------------------
(* The open page.                                                          *)

\* handleToolMessage: a row that was seen is dropped.
SeeRow(page, i) ==
  IF i \in ToSet(page.rows) THEN page
  ELSE [page EXCEPT !.rows = Append(@, i), !.steps = Upsert(@, useRows'[i])]

\* applyAssistantThinkingDeltaEvent and applyAssistantDeltaEvent.
SeeThought(page, delta) == [page EXCEPT !.steps = AppendThinking(@, delta)]
SeeText(page) == [page EXCEPT !.steps = CloseThinking(@)]

\* applyAssistantTerminalEvent: the steps are replaced, the rows stay.
SeeEnd(page, row) ==
  [page EXCEPT !.status = row.status, !.steps = row.state.steps]

\* publishConversationEvent: the page receives the event, unless it has stopped
\* listening.  Nothing in the job depends on when.  Redis loses no event here:
\* when the start of a use is lost, its end goes to another open call of the tool,
\* until the page is loaded again.
Announce(seen) == openView' = IF openView.status = "streaming" THEN seen ELSE openView

\* Five seconds without an event: the handler sends the rows it has not sent, in
\* the order of the table, and the end of an answer that ended.
SyncPage ==
  /\ openView.status = "streaming"
  /\ LET unsent == SelectSeq([i \in DOMAIN useRows |-> i],
                             LAMBDA i : i \notin ToSet(openView.rows))
         seen == FoldLeft(LAMBDA p, i :
                            [p EXCEPT !.rows = Append(@, i),
                                      !.steps = Upsert(@, useRows[i])],
                          openView, unsent)
     IN openView' = IF stored.status = "streaming" THEN seen ELSE SeeEnd(seen, stored)
  /\ UNCHANGED <<toolOf, hook, loop, runState, stored, useRows>>

-----------------------------------------------------------------------------
(* The hooks: publishToolMessage.                                          *)

StillStreaming == stored.status = "streaming"

\* The tool is called; later it returns, or fails.
StartHook(u) ==
  /\ hook[u].pc = "idle" /\ StillStreaming
  /\ hook[u].phase # "ended"
  /\ hook' = [hook EXCEPT ![u].pc = "insert",
               ![u].phase = IF @ = "none" THEN "streaming" ELSE "ended"]
  /\ UNCHANGED <<toolOf, loop, runState, stored, useRows, openView>>

InsertRow(u) ==
  /\ hook[u].pc = "insert"
  /\ useRows' = Append(useRows, [use |-> u, status |-> hook[u].phase])
  /\ hook' = [hook EXCEPT ![u].pc = "announce", ![u].row = Len(useRows')]
  /\ UNCHANGED <<toolOf, loop, runState, stored, openView>>

\* The row is announced; then the run state that all share is read, changed and
\* kept in one go, and its write begins.  (The page and the job do not read each
\* other: nothing is lost by taking the two in one step.)
AnnounceRow(u) ==
  /\ hook[u].pc = "announce"
  /\ UNCHANGED useRows
  /\ Announce(SeeRow(openView, hook[u].row))
  /\ runState' = [runState EXCEPT !.steps = Upsert(@, useRows[hook[u].row])]
  /\ hook' = [hook EXCEPT ![u].pc = "write", ![u].snap = runState']
  /\ UNCHANGED <<toolOf, loop, stored>>

\* updateStreamingAssistantSnapshot: whatever the row holds by now.
WriteRow(u) ==
  /\ hook[u].pc = "write"
  /\ stored' = [stored EXCEPT !.state = hook[u].snap]
  /\ hook' = [hook EXCEPT ![u].pc = "idle", ![u].snap = NoState]
  /\ UNCHANGED <<toolOf, loop, runState, useRows, openView>>

-----------------------------------------------------------------------------
(* The loop over the model's messages.                                     *)

\* persistAssistantThinking and persistAssistantDelta.
Speak(kind) ==
  /\ loop.pc = "idle" /\ StillStreaming /\ loop.said < MaxSpoken
  /\ loop' = [loop EXCEPT !.pc = "announce", !.kind = kind, !.said = @ + 1]
  /\ UNCHANGED <<toolOf, hook, runState, stored, useRows, openView>>

AnnounceSpoken ==
  /\ loop.pc = "announce"
  /\ IF loop.kind = "thinking"
     THEN /\ Announce(SeeThought(openView, <<loop.said>>))
          /\ runState' = [steps |-> AppendThinking(runState.steps, <<loop.said>>),
                          thought |-> Append(runState.thought, loop.said)]
     ELSE /\ Announce(SeeText(openView))
          /\ runState' = [runState EXCEPT !.steps = CloseThinking(@)]
  /\ loop' = [loop EXCEPT !.pc = "write", !.snap = runState']
  /\ UNCHANGED <<toolOf, hook, stored, useRows>>

WriteSpoken ==
  /\ loop.pc = "write"
  /\ stored' = [stored EXCEPT !.state = loop.snap]
  /\ loop' = [loop EXCEPT !.pc = "idle", !.snap = NoState]
  /\ UNCHANGED <<toolOf, hook, runState, useRows, openView>>

\* finalizeStreamingAssistantRunState.
Finalized(state) == [state EXCEPT !.steps = CloseThinking(@)]

\* The query ends when no tool runs; the answer is completed, announced and
\* written once more with the id of the event.
CompleteAnswer ==
  /\ loop.pc = "idle" /\ StillStreaming
  /\ \A u \in Uses : hook[u].pc = "idle" /\ hook[u].phase # "streaming"
  /\ stored' = [status |-> "ended", state |-> Finalized(runState)]
  /\ loop' = [loop EXCEPT !.pc = "done"]
  /\ UNCHANGED <<toolOf, hook, runState, useRows, openView>>

AnnounceDone ==
  /\ loop.pc = "done"
  /\ Announce(SeeEnd(openView, [stored EXCEPT !.state = Finalized(runState)]))
  /\ loop' = [loop EXCEPT !.pc = "final"]
  /\ UNCHANGED <<toolOf, hook, runState, stored, useRows>>

FinalWrite ==
  /\ loop.pc = "final"
  /\ stored' = [stored EXCEPT !.state = Finalized(runState)]
  /\ loop' = [loop EXCEPT !.pc = "over"]
  /\ UNCHANGED <<toolOf, hook, runState, useRows, openView>>

\* POST stop, the end of the lease or a failure of the job, while hooks run on.
EndRun ==
  /\ StillStreaming
  /\ stored' = [status |-> "ended", state |-> Finalized(stored.state)]
  /\ UNCHANGED <<toolOf, hook, loop, runState, useRows, openView>>

TimelineNext ==
  \/ \E u \in Uses : \/ StartHook(u) \/ InsertRow(u) \/ AnnounceRow(u)
                     \/ WriteRow(u)
  \/ Speak("thinking") \/ Speak("text")
  \/ AnnounceSpoken \/ WriteSpoken
  \/ CompleteAnswer \/ AnnounceDone \/ FinalWrite
  \/ EndRun
  \/ SyncPage

TimelineSpec == TimelineInit /\ [][TimelineNext]_timelineVars

-----------------------------------------------------------------------------
(* Properties.                                                             *)

\* The process view is truthful.  A page that is loaded at any moment (between
\* two awaits of a hook, after an older run state overwrote a newer one, after a
\* stop that came in the middle of a hook) shows every tool use that has a row
\* once, as its latest row says; and so does the open page for the rows it has
\* received, as events or from the database.  And whichever writer came last, the
\* thinking steps that are stored hold the thinking text that is stored.
TimelineTruthful ==
  /\ Truthful(stored.state.steps, useRows)
  /\ Truthful(openView.steps, [i \in DOMAIN openView.rows |-> useRows[openView.rows[i]]])
  /\ ThinkingText(stored.state.steps) = stored.state.thought
=============================================================================
