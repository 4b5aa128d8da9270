------------------------- MODULE ConversationStream -------------------------
(***************************************************************************)
(* How one assistant answer reaches the page of a reader.                  *)
(*                                                                         *)
(* The respond job writes each piece of the answer twice: as an event of   *)
(* the run's Redis stream, then into the `messages` row.  A handler of     *)
(* GET /stream sends the row as a snapshot, follows the run's events       *)
(* behind a cursor, and reads the row again when no event comes for 5 s.   *)
(* The page folds what it receives into its own copy.  Connections break   *)
(* anywhere; EventSource reopens them with the last id it saw.             *)
(*                                                                         *)
(* ConversationRun cuts the writers at each await; here they are cut where *)
(* the handler or the page can tell the difference, and a stop or a retry  *)
(* comes between two persist operations of the job, not inside one.        *)
(***************************************************************************)
EXTENDS Naturals, Sequences, SequencesExt, Listings

CONSTANTS
  MaxRuns,     \* bound: rounds of the answer
  MaxChunks,   \* bound: pieces of text in a run
  MaxEvents,   \* bound: events after which no run starts another piece or tool
  MaxFaults    \* bound: Redis errors, lost connections and page loads

ASSUME StreamAssumption ==
  /\ MaxRuns \in Nat \ {0}
  /\ {MaxChunks, MaxEvents, MaxFaults} \subseteq Nat

VARIABLES
  message,    \* the assistant row, and whether its citations are stored
  toolRows,   \* the run of every tool row of the answer, in createdAt order
  events,     \* the Redis streams of all runs; an entry's id is its position
  job,        \* the respond job of the current run
  conn,       \* the handler of the page's stream request
  source,     \* the page's EventSource
  page,       \* what the page shows of the answer
  outcomes,   \* history: how each run ended
  faults      \* Redis errors, connections lost and pages loaded so far

streamVars == <<message, toolRows, events, job, conn, source, page, outcomes,
                faults>>

-----------------------------------------------------------------------------
(* Types.                                                                  *)

StreamRuns == 1 .. MaxRuns
Ended == {"completed", "failed"}

\* A piece of text is a run and a number; number 0 is the text of a run that
\* failed or was stopped before it had any.
Piece == StreamRuns \X (0 .. MaxChunks)

JobPc == {"run", "tool", "save", "cite", "done", "final", "fail_row",
          "fail_tool", "fail_event", "over"}
ConnPc == {"none", "row", "tools", "cites", "live"}

IsText(t) == t \in Seq(Piece)
IsMessage(m) ==
  /\ m.status \in Ended \cup {"streaming"}
  /\ m.run \in StreamRuns
  /\ IsText(m.text)
  /\ m.event \in 0 .. Len(events)
  /\ m.cited \in BOOLEAN

\* Every variable has its type; in particular, a cursor or a remembered id is
\* that of an event that exists, and only tool rows that exist are sent or shown.
StreamTypeOK ==
  /\ IsMessage(message)
  /\ toolRows \in Seq(StreamRuns)
  /\ job.pc \in JobPc /\ IsText(job.text) /\ job.event \in 0 .. Len(events)
  /\ conn.pc \in ConnPc /\ conn.cursor \in 0 .. Len(events)
  /\ conn.run \in 0 .. MaxRuns /\ IsText(conn.text)
  /\ conn.sent \subseteq 1 .. Len(toolRows)
  /\ IsMessage(conn.snap)
  /\ source.open \in BOOLEAN /\ source.last \in 0 .. Len(events)
  /\ page.status \in Ended \cup {"streaming"}
  /\ IsText(page.text)
  /\ ToSet(page.tools) \subseteq 1 .. Len(toolRows)
  /\ page.cited \in BOOLEAN
  /\ page.round \in StreamRuns
  /\ faults \in 0 .. MaxFaults

\* buildInitialStreamingAssistantRunState under a new run id.
Fresh(r) == [status |-> "streaming", run |-> r, text |-> <<>>, event |-> 0,
             cited |-> FALSE]
NewJob == [pc |-> "run", text |-> <<>>, event |-> 0]
JobOver == [NewJob EXCEPT !.pc = "over"]
NoConn == [pc |-> "none", cursor |-> 0, run |-> 0, text |-> <<>>, sent |-> {},
           snap |-> Fresh(1)]

\* What a page that is loaded now renders: the row, and the tool rows of its
\* run (groupAssistantProcessMessages).
Rendered ==
  [status |-> message.status, text |-> message.text, cited |-> message.cited,
   tools |-> SelectSeq([i \in 1 .. Len(toolRows) |-> i],
                       LAMBDA i : toolRows[i] = message.run),
   round |-> message.run]

StreamInit ==
  /\ message = Fresh(1)
  /\ toolRows = <<>> /\ events = <<>>
  /\ job = NewJob
  /\ conn = NoConn
  /\ source = [open |-> TRUE, last |-> 0]
  /\ page = Rendered
  /\ outcomes = <<>>
  /\ faults = 0

Fault == faults < MaxFaults /\ faults' = faults + 1

-----------------------------------------------------------------------------
(* The respond job.                                                        *)

\* assertAssistantMessageStillStreaming: else the job ends silently.
Streaming == job.pc = "run" /\ message.status = "streaming"
JobGoes(label) == job' = [job EXCEPT !.pc = label]

Stopped ==
  /\ job.pc = "run" /\ message.status # "streaming"
  /\ job' = JobOver
  /\ UNCHANGED <<message, toolRows, events, conn, source, page, outcomes, faults>>

\* appendConversationStreamEvent, after which the job is at `label` with text
\* t.  An error of Redis is swallowed: there is no id then, whether or not the
\* event was added.
Publish(e, label, t) ==
  \/ /\ events' = Append(events, e)
     /\ job' = [pc |-> label, text |-> t, event |-> Len(events')]
     /\ UNCHANGED faults
  \/ /\ Fault
     /\ events' \in {events, Append(events, e)}
     /\ job' = [pc |-> label, text |-> t, event |-> 0]

Event(kind, body) == [kind |-> kind, run |-> message.run, body |-> body]

\* publishToolMessage inserts the row, then announces it.
ToolRow ==
  /\ Streaming
  /\ Len(events) < MaxEvents
  /\ toolRows' = Append(toolRows, message.run)
  /\ JobGoes("tool")
  /\ UNCHANGED <<message, events, conn, source, page, outcomes, faults>>

\* Mutant: the event is announced under the id of the row to come.
ToolEventAhead ==
  /\ job.pc = "tool"
  /\ Publish(Event("tool", Len(toolRows) + 1), "save", job.text)
  /\ UNCHANGED <<message, toolRows, conn, source, page, outcomes>>

ToolEvent ==
  /\ job.pc = "tool"
  /\ Publish(Event("tool", Len(toolRows)), "save", job.text)
  /\ UNCHANGED <<message, toolRows, conn, source, page, outcomes>>

\* persistAssistantDelta announces the next piece of the text.
Delta ==
  /\ Streaming
  /\ Len(job.text) < MaxChunks /\ Len(events) < MaxEvents
  /\ LET piece == <<message.run, Len(job.text) + 1>>
     IN Publish(Event("delta", piece), "save", Append(job.text, piece))
  /\ UNCHANGED <<message, toolRows, conn, source, page, outcomes>>

\* persistAssistantRunState: the snapshot holds the text and, if the event got
\* an id, that id.
Save ==
  /\ job.pc = "save"
  /\ message' = [message EXCEPT !.text = job.text,
                                !.event = IF job.event = 0 THEN @ ELSE job.event]
  /\ job' = [job EXCEPT !.pc = "run", !.event = 0]
  /\ UNCHANGED <<toolRows, events, conn, source, page, outcomes, faults>>

\* How the current run ended, for the record.
Outcome(m) == [status |-> m.status, text |-> m.text]
Settles(m) == message' = m /\ outcomes' = Append(outcomes, Outcome(m))

\* The job's completing update; the citations are inserted after it, and
\* answer_done carries both.
Complete ==
  /\ Streaming
  /\ Settles([message EXCEPT !.status = "completed"])
  /\ JobGoes("cite")
  /\ UNCHANGED <<toolRows, events, conn, source, page, faults>>

Cite ==
  /\ job.pc = "cite"
  /\ message' = [message EXCEPT !.cited = TRUE]
  /\ JobGoes("done")
  /\ UNCHANGED <<toolRows, events, conn, source, page, outcomes, faults>>

AnswerDone ==
  /\ job.pc = "done"
  /\ Publish(Event("completed", message), "final", job.text)
  /\ UNCHANGED <<message, toolRows, conn, source, page, outcomes>>

\* failConversationResponseRun: the tool row, the row of the answer, then the
\* two events.
FailToolRow ==
  /\ Streaming
  /\ toolRows' = Append(toolRows, message.run)
  /\ JobGoes("fail_row")
  /\ UNCHANGED <<message, events, conn, source, page, outcomes, faults>>

FailRow ==
  /\ job.pc = "fail_row"
  /\ Settles([message EXCEPT !.status = "failed",
                             !.text = <<<<message.run, 0>>>>])
  /\ JobGoes("fail_tool")
  /\ UNCHANGED <<toolRows, events, conn, source, page, faults>>

FailToolEvent ==
  /\ job.pc = "fail_tool"
  /\ Publish(Event("tool", Len(toolRows)), "fail_event", job.text)
  /\ UNCHANGED <<message, toolRows, conn, source, page, outcomes>>

RunFailed ==
  /\ job.pc = "fail_event"
  /\ Publish(Event("failed", message), "final", job.text)
  /\ UNCHANGED <<message, toolRows, conn, source, page, outcomes>>

\* The id of the terminal event goes into the row, if there is one.
Final ==
  /\ job.pc = "final"
  /\ message' = [message EXCEPT !.event = IF job.event = 0 THEN @ ELSE job.event]
  /\ job' = JobOver
  /\ UNCHANGED <<toolRows, events, conn, source, page, outcomes, faults>>

RespondJob ==
  \/ Stopped \/ ToolRow \/ ToolEvent \/ Delta \/ Save
  \/ Complete \/ Cite \/ AnswerDone
  \/ FailToolRow \/ FailRow \/ FailToolEvent \/ RunFailed \/ Final

-----------------------------------------------------------------------------
(* The page.                                                               *)

\* What arrives: an event with its id, or, with id 0, something the handler
\* sends from the database: a tool row, a snapshot of the text, an outcome.
Arrival(kind, id, body) == [kind |-> kind, id |-> id, body |-> body]

\* Mutant: text that is shown already is kept.
TerminalKeepsText(p, m) ==
  [p EXCEPT !.status = m.status, !.text = IF @ = <<>> THEN m.text ELSE @,
            !.cited = m.cited]

\* applyAssistantTerminalEventToSessionSnapshot, and source.close().
Terminal(p, m) == [p EXCEPT !.status = m.status, !.text = m.text,
                            !.cited = m.cited]

\* The bodies of what arrived of a kind, in order.
Bodies(got, kind) ==
  LET some == SelectSeq(got, LAMBDA a : a.kind = kind)
  IN [k \in DOMAIN some |-> some[k].body]

\* A tool message that was seen is dropped.
ShowTools(tools, ids) == tools \o SelectSeq(ids, LAMBDA i : i \notin ToSet(tools))

\* The listeners of the EventSource: tools, then deltas or a text, which replaces
\* what is shown, and at the end perhaps the outcome.
Receive(got) ==
  LET end == Last(got)
      seen == [page EXCEPT !.tools = ShowTools(@, Bodies(got, "tool")),
                           !.text = @ \o Bodies(got, "delta")]
  IN IF end.kind \in Ended
     THEN /\ page' = [Terminal(seen, end.body) EXCEPT !.round = end.body.run]
          /\ source' = [open |-> FALSE, last |-> 0]
     ELSE /\ page' = IF end.kind = "text" THEN [seen EXCEPT !.text = end.body] ELSE seen
          /\ source' = [source EXCEPT !.last = IF end.id = 0 THEN @ ELSE end.id]

\* The handler writes the arrivals and goes on as c.  They reach the page in
\* order; if the connection breaks, some of them do not.
Deliver(arrivals, c) ==
  \E n \in 0 .. Len(arrivals) :
    /\ IF n = 0 THEN UNCHANGED <<page, source>> ELSE Receive(SubSeq(arrivals, 1, n))
    /\ IF n = Len(arrivals)
       THEN conn' = c /\ UNCHANGED faults
       ELSE conn' = NoConn /\ Fault

\* EventSource connects, or reconnects with Last-Event-ID.
Connect ==
  /\ source.open /\ conn.pc = "none"
  /\ conn' = [NoConn EXCEPT !.pc = "row", !.cursor = source.last]
  /\ UNCHANGED <<message, toolRows, events, job, source, page, outcomes, faults>>

Break ==
  /\ conn.pc # "none" /\ Fault
  /\ conn' = NoConn
  /\ UNCHANGED <<message, toolRows, events, job, source, page, outcomes>>

\* The page is loaded; its EventSource is new and has seen no id.
Reload ==
  /\ Fault
  /\ page' = Rendered
  /\ source' = [open |-> message.status = "streaming", last |-> 0]
  /\ conn' = NoConn
  /\ UNCHANGED <<message, toolRows, events, job, outcomes>>

\* POST stop, from any page: the text there is, or a notice, is the answer.
Stop ==
  /\ job.pc = "run" /\ message.status = "streaming"
  /\ Settles([message EXCEPT
                !.status = "completed",
                !.text = IF @ = <<>> THEN <<<<message.run, 0>>>> ELSE @])
  /\ UNCHANGED <<toolRows, events, job, conn, source, page, faults>>

\* POST retry.  The page that asked restarts its copy of the answer
\* (restartAssistantSessionSnapshotForRetry); another page is not told.
Retry(mine) ==
  /\ message.status # "streaming" /\ job.pc = "over"
  /\ message.run < MaxRuns
  /\ message' = Fresh(message.run + 1)
  /\ job' = NewJob
  /\ IF mine
     THEN /\ page.status # "streaming"
          /\ page' = [page EXCEPT !.status = "streaming", !.text = <<>>,
                                  !.tools = <<>>, !.cited = FALSE,
                                  !.round = message'.run]
          /\ source' = [open |-> TRUE, last |-> 0]
          /\ conn' = NoConn
     ELSE UNCHANGED <<page, source, conn>>
  /\ UNCHANGED <<toolRows, events, outcomes, faults>>

-----------------------------------------------------------------------------
(* The stream handler.                                                     *)

\* expireStreamingAssistantMessage fails an answer whose lease ended, and adds
\* a tool row; the lease itself is the business of ConversationRun.
Expire ==
  /\ conn.pc = "row" /\ Streaming
  /\ LET failed == [message EXCEPT !.status = "failed",
                                   !.text = <<<<message.run, 0>>>>]
     IN /\ Settles(failed)
        /\ conn' = [conn EXCEPT !.pc = "tools", !.run = message.run,
                                !.snap = failed]
  /\ toolRows' = Append(toolRows, message.run)
  /\ UNCHANGED <<events, job, source, page, faults>>

\* syncFromDatabase reads the row, and from it the run to follow.
SyncRow ==
  /\ conn.pc = "row"
  /\ conn' = [conn EXCEPT !.pc = "tools", !.run = message.run, !.snap = message]
  /\ UNCHANGED <<message, toolRows, events, job, source, page, outcomes, faults>>

\* The tool rows of the run it has not sent yet.
Unsent == {i \in DOMAIN toolRows : toolRows[i] = conn.run /\ i \notin conn.sent}

\* Mutant: only a text that has grown is sent.
NewTextIfLonger ==
  IF Len(conn.snap.text) > Len(conn.text)
  THEN <<Arrival("text", 0, conn.snap.text)>> ELSE <<>>

\* The text, if it is not what this handler sent last.
NewText ==
  IF conn.snap.text # conn.text
  THEN <<Arrival("text", 0, conn.snap.text)>> ELSE <<>>

\* The tool rows in order, then the text.  The cursor starts at the snapshot's event
\* unless the request brought one.
SyncTools ==
  /\ conn.pc = "tools"
  /\ \E rows \in {Ascending(Unsent)} :
     LET snap == conn.snap
         live == snap.status = "streaming"
         tools == [i \in DOMAIN rows |-> Arrival("tool", 0, rows[i])]
     IN Deliver(tools \o (IF live THEN NewText ELSE <<>>),
                [conn EXCEPT !.pc = IF live THEN "live" ELSE "cites",
                             !.snap = IF live THEN NoConn.snap ELSE @,
                             !.sent = @ \cup Unsent,
                             !.text = IF live THEN snap.text ELSE @,
                             !.cursor = IF @ = 0 THEN snap.event ELSE @])
  /\ UNCHANGED <<message, toolRows, events, job, outcomes>>

\* An answer that ended: its citations are read, the outcome sent, the stream
\* closed.
SyncCites ==
  /\ conn.pc = "cites"
  /\ Deliver(<<Arrival(conn.snap.status, 0,
                       [conn.snap EXCEPT !.cited = message.cited])>>, NoConn)
  /\ UNCHANGED <<message, toolRows, events, job, outcomes>>

\* XREAD of the run's stream after the cursor: the ids, up to the first event
\* that ends the run.
Behind(i) == events[i].run = conn.run /\ i > conn.cursor
Ends(i) == events[i].kind \in Ended
NewIds == {i \in DOMAIN events :
             Behind(i) /\ \A k \in 1 .. i - 1 : Behind(k) => ~Ends(k)}

\* Five seconds without an event: the row is read again.
Idle ==
  /\ conn.pc = "live" /\ NewIds = {}
  /\ conn' = [conn EXCEPT !.pc = "row"]
  /\ UNCHANGED <<message, toolRows, events, job, source, page, outcomes, faults>>

\* applyLiveEventState, and the event as it is.
Live ==
  /\ conn.pc = "live" /\ NewIds # {}
  /\ \E ids \in {Ascending(NewIds)} :
     LET arrivals == [k \in DOMAIN ids |->
                        Arrival(events[ids[k]].kind, ids[k], events[ids[k]].body)]
     IN Deliver(arrivals,
                IF Ends(Last(ids)) THEN NoConn
                ELSE [conn EXCEPT !.cursor = Last(ids),
                                  !.text = @ \o Bodies(arrivals, "delta"),
                                  !.sent = @ \cup ToSet(Bodies(arrivals, "tool"))])
  /\ UNCHANGED <<message, toolRows, events, job, outcomes>>

Handler == SyncRow \/ SyncTools \/ SyncCites \/ Idle \/ Live

StreamNext ==
  \/ RespondJob
  \/ Stop \/ Expire \/ Retry(TRUE) \/ Retry(FALSE)
  \/ Connect \/ Break \/ Reload
  \/ Handler

\* Jobs run to their end, EventSource reconnects, and a handler goes on: its
\* awaits are database calls and a read of Redis that ends after 5 s.
JobSteps ==
  \/ Stopped \/ ToolEvent \/ Save \/ Complete \/ Cite \/ AnswerDone
  \/ FailRow \/ FailToolEvent \/ RunFailed \/ Final

StreamFairness ==
  /\ WF_streamVars(JobSteps)
  /\ WF_streamVars(Connect)
  /\ WF_streamVars(Handler)

StreamSpec == StreamInit /\ [][StreamNext]_streamVars
FairStreamSpec == StreamSpec /\ StreamFairness

-----------------------------------------------------------------------------
(* Properties.                                                             *)

\* A sync with the row of an answer that is streamed.
Synced == conn.pc = "tools" /\ conn'.pc = "live"
OtherRound(t, r) == \E k \in DOMAIN t : t[k][1] # r

\* A snapshot heals.  Events repeat or skip pieces of the text (a cursor behind
\* or ahead of the snapshot that was sent), but the sync that follows leaves the
\* page with the text of the row, although it sends that text only if it is not
\* what the handler believes to be there.  Two syncs leave the page as it is: the
\* first of a handler when the row has no text yet, as nothing is what it believes
\* to be there; and one that follows such a first sync if the page still held text
\* of an earlier round, which another page had restarted (ShowsOneRound).
SnapshotHeals ==
  [][Synced => \/ page'.text = conn.snap.text
               \/ conn.snap.text = <<>> /\ conn.text = <<>>
               \/ conn.run # page.round /\ OtherRound(page'.text, conn.run)]_streamVars

\* The stream sends a snapshot first and live events then, and nothing of an old
\* run gets into the new round: once a sync found text in the row, all the text of
\* the page is of the run that is streamed.
ShowsOneRound ==
  [][Synced /\ conn.snap.text # <<>> => ~OtherRound(page'.text, conn.run)]_streamVars

NotEnded == Outcome(Fresh(1))

\* What AnswerView has of the answer and of the page.
Rounds == [r \in 1 .. message.run |->
             IF r <= Len(outcomes) THEN outcomes[r] ELSE NotEnded]
ShownOutcome ==
  [round |-> page.round,
   outcome |-> IF page.status = "streaming" THEN NotEnded ELSE Outcome(page)]

View == INSTANCE AnswerView WITH Pending <- NotEnded, rounds <- Rounds, shown <- ShownOutcome

\* The stream keeps the promise of AnswerView: a reader is shown outcomes whole,
\* in the order of rounds, and in the end, over broken connections, lost events
\* and regeneration from another page.
ImplementsAnswerView == View!ViewSpec
=============================================================================
