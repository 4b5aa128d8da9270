# AnchorDesk: TLA+ specifications

Models, model-checking configurations and machine-checked proofs for the parts
of AnchorDesk where several actors meet, kept beside the code they describe.
Paths below are relative to the repository. `PROJECT.json` is the index:
components, runs, the lines every definition stands for, hazards, findings and
theorems.

## The system

AnchorDesk is three processes around four stores.

| Process | Code | State it keeps |
| --- | --- | --- |
| web (Next.js UI and API routes) | `apps/web` | none of its own on the server; in the browser the state of each page |
| agent-runtime (BullMQ worker that generates answers, plus an HTTP endpoint to cancel) | `apps/agent-runtime` | the registry of active runs, heartbeat timers, provider queries, the gate of the fetches |
| worker (ingest of uploaded documents) | `apps/worker` | none of its own |

Postgres holds the rows; most handlers autocommit one statement after the
other. Redis holds the BullMQ queues, one stream of events per run, and the
login sessions. S3 holds blobs and artifacts, and Qdrant the vectors.
`services/parser` is a stateless HTTP service. `scripts` and `packages/db`
hold what runs before the processes start: upgrades and system settings.

The parts interact through rows and queues, hardly through calls. A message
that is posted makes rows and a respond job; the job writes the row and the
run's event stream; the stream route reads both and, when a lease is over,
writes the row itself. Its tools search what the ingest pipeline stored, in the
libraries the workspace may use. Uploads start ingest flows; deletions and
moves of documents write the rows and the index that the pipeline also writes.

### Components

| Component | State | Hard because | Correct when | Module |
| --- | --- | --- | --- | --- |
| Assistant run (web handlers, expiry, respond job, process lifecycle, run state and lease) | the `messages` row, citations, the job, the registry | everybody writes one row with read-then-write pairs; redelivery, crashes, leases against heartbeats | every streaming row ends, one outcome is announced and it is the stored one | `ConversationRun` |
| Conversation stream and its page | events, cursor, snapshot, the page's copy | a snapshot and a live stream are merged, connections break, the run changes under an open connection | the reader is shown outcomes whole and in order | `ConversationStream`, `AnswerView` |
| Process view of an answer | tool rows and run state | parallel hooks write one state whole | the view tells what the tool rows say | `ToolTimeline` |
| Tools, gate and citations of an answer | the gate, the registry, the evidence, the markers | calls overlap and end in any order | ids and sources match one to one, and markers keep their source | `AgentAnswer` |
| Attachments of a message | the composer, drafts, rows | uploads, polls, sending and claiming overlap | no file is lost in a draft nobody has | `Attachments` |
| Sharing of a conversation | one row per conversation, the popover | overlapping requests of several pages | revoked links stay dead, the popover tells the truth | `ConversationSharing` |
| Ingest pipeline, queues | document, version and job rows, chunks, vectors | four queues, redelivery, reparses, a failure listener | completed means searchable, and every job ends | `IngestPipeline` |
| Uploads and deletion of documents | the dialog, objects by digest, versions | reference counts read before the delete | the object of a version stays; no picked file is lost | `DocumentUploads` |
| Knowledge libraries and directories | directory and document rows, labels, index | paths stored in many places, revived rows, requests that break off | one tree, and search follows it | `KnowledgeBase` |
| Explorer page | listing, path and id of the directory, marks, requests | listings and replies come late, over a tree that others change | a page that has caught up shows one directory, whole | `LibraryPage` |
| Retrieval | scope rows, index, passages | two stores, scope read in two statements | only what is in scope, and all of it | `KnowledgeSearch` |
| Reports | report and section rows | two kinds of requests overlap and die | ready means ready; a text is that of its section | `Reports` |
| Registration | users, unique indexes | check, then insert | one administrator, names unique | `Registration` |
| Auth sessions | keys and a set in Redis | touch, revoke and expiry interleave | what ended stays ended | `AuthSessions` |
| Model profiles | profile rows | check, then transaction | a usable default | `ModelProfiles` |
| System settings | rows, environments | three ways to the same value | processes started alike agree | `SystemSettings` |
| Development launcher | pid records, groups of processes | commands overlap, fail and are interrupted; processes end | no process is forgotten | `DevLauncher` |
| Upgrade runner | ledger, lock, tables | no transaction, crashes, several runners | started means upgraded, operator's values kept | `Upgrades` |

Not modelled: the parser service, storage/tracing/logging, the runtime
overview, and rendering (see the last section).

### Modules

Every component has a module of its own. They do not share variables: where two
of them speak of one row, each has its own view of it, cut where that component
can tell the difference (`ConversationRun` cuts the writers at every await,
`ConversationStream` where a reader notices).

- `Listings`: numbering the members of a finite set without recursion, used by
  `AgentAnswer`, `ConversationStream` and `Upgrades` so that they can be reasoned
  about.
- `AnswerView`: the abstract specification that `ConversationStream` implements.
- `MCIngestPipeline`: one component. `MCRunEnds`: `ConversationRun` three times,
  with a reader, without one, and with faults.
- `MCConversation`, `MCPlatform`, `MCOperations`: for TLC, sums of independent
  components, `ConversationRun` among them with different constants
  (`INSTANCE ... WITH`). The first state chooses the one that takes steps
  (`focus`), the others stay as they begin, in one initial state. The state space is the sum
  of theirs, and one run asks one question of each. A property of a component
  holds in the sum exactly if it holds of the component alone. The types of the
  components of `MCPlatform` and `MCOperations` are theorems (of all but
  `ToolTimeline`), so these runs check only `TypeOK`, that of the run.
- `ConversationRunProofs`, `IngestPipelineProofs`, `ListingsProofs`,
  `AnswerProofs`, `WorkspaceProofs`, `KnowledgeProofs`, `KnowledgeBaseProofs`,
  `OperationsProofs`: theorems and proofs.

## The runs

`CHECK_DEADLOCK FALSE` everywhere: bounded systems rest when everything that
may happen has happened, and so do most of the real ones.

| Run | Instance | Shows |
| --- | --- | --- |
| `run_ends` | `MCRunEnds`, 1 slot, 1 request. With a reader: 2 runs, clock to 2; stop, expiry, retry, rejected statements, Redis commands that throw. With nobody there: 1 run, clock to 1; stop, crash, shutdown. With faults: 1 run, clock to 3; stop, expiry, delete, crash, stall, rejected statements | `StreamingEnds`, `EndsByItself`, `SettledOverFaults`; `ExpiryRespectsLease` of all three |
| `ingest_redelivery` | `MCIngestPipeline`: 2 versions, 2 runs, 1 request; throwing stages, crash, stall, failing enqueues | `TypeOK`, `CompletedIsSearchable` |
| `ingest_retry` | `FairSpec`, 2 versions, 2 runs, 2 requests; throwing stages, reparse, delete | `OneRunPerVersion`, `JobEnds`, `DocumentSettles` |
| `conversation` | `MCConversation`: an answer with 2 rounds, 2 pieces, 1 fault; 2 tool calls, 3 sources, a gate of 1; 2 files, 2 sends, 1 loss | `ConversationTypeOK`, `ShownTokensResolve`, `MarkersKeepSource`, `FilesAccounted`, `SnapshotHeals`, `ImplementsAnswerView`, `FetchCallsReturn`, `SendUnblocks` |
| `platform` | `MCPlatform`: registration, sessions, profiles, timeline, sharing, a prompt run, tree, explorer page, search, uploads, reports | 17 properties named below |
| `operations` | `MCOperations`: upgrades, settings, the development launcher; a run that is delivered twice (2 slots, symmetric, 1 run, 1 request; stop, stall, shutdown) | `StartedIsUpgraded`, `StartedAlikeAgree`, `ServicesAccounted`; `TypeOK`, `RegisteredIsInProgress`, `JobOutlivesStreaming` of the run |
| `run_stop_then_fail`, `run_old_run`, `run_queue_wait`, `ingest_double_retry`, `citation_ordinals`, `stream_other_retry` | small instances of the component's own module | a violation each: see Findings |

### Findings

Six places where the code departs from what the repository says of it, each
with the quotation in `PROJECT.json`:

- `run_stop_then_fail`: a stop between the failure path's read and its update is
  overwritten (completed becomes failed), `FinalizedElsewhereIsKept`.
- `run_old_run`: a write in flight of the old run puts its run id back on a
  retried row (`OldRunNeverTakesOver`). The new run's job then stops at its next
  assert, and only a lease expiry ends the row.
- `run_queue_wait`: the lease starts at POST, so a job that waits for a slot for
  45 s is failed with no worker lost (`ExpiredOnlyIfWorkerLost`), and is told that
  the agent runtime has stopped responding (`assistant-run-expiration.ts:9-10`).
- `ingest_double_retry`: two reparse requests both pass the guard on the status
  they read, and the second resets a job that is queued by then
  (`ReparseOnlySettledJobs`).
- `citation_ordinals`: `docs/anchor-desk-citation-debugging.md:157` says that the
  ordinals agree with the numbers of the markers. Passages are stored before web
  pages, and passages that are no longer readable are dropped, so an answer that
  cites a page first and a passage second shows each marker with the other one's
  source (`OrdinalsFollowMarkers`).
- `stream_other_retry`: another page restarts the answer while this page is cut
  off. The new handler believes the page to be empty, finds the row empty and
  sends nothing; what streams in then is appended to the text of the old round,
  and later syncs compare the row with the handler's belief, not with the page
  (`ShowsOneRound`). `docs/implementation-tracker.md:57` promises a snapshot
  first and line 61 that nothing of an old run gets into the new round.

Beyond these, many properties name an exception: a window of the code in which
they do not hold, found because TLC or a proof attempt failed without it. They
are in the section of each module, and in the notes of the hazards they belong to.
Where we found a text of the repository that promises the opposite, the window is
one of the findings above.

## ConversationRun

One assistant message. Its answer may be regenerated, so it has several runs.

| Variable | Code |
| --- | --- |
| `row` | the `messages` row: `status`, `run` and `lease` (`run_id`, `run_lease_expires_at` of `structuredJson`), `live` (phase, status text or active tool set), `text` (which run's output `contentMarkdown` holds, 0 for "" or a notice) |
| `cites` | runs whose `message_citations` are stored |
| `issued` | run ids created. They are UUIDs in the code and numbered here in order of creation |
| `jobs`, `stalls` | the respond job of each run (`none`, `waiting`, the slot that holds its lock, `done`) and how often BullMQ found it stalled |
| `term` | the terminal events in the Redis stream of each run |
| `main`, `agent`, `side` | for each worker slot: where the job's main flow is, its provider query and heartbeat timer, and the heartbeat or tool hook in flight |
| `proc`, `active`, `shut` | the process, `activeConversationRuns`, and the failure path that the shutdown runs for each run it listed |
| `req` | what each HTTP request or SSE connection has read and still has to do |
| `clock` | wall clock in ticks |

Every handler is cut at its awaits: one action per database statement, Redis
command or provider call, so whatever was read is used in a later step. A job
runs `load` (read and skip, or register), then for every persist operation
`assert` (read and compare) and `write` (update by id), `prepare` (arm the
timer), `setup`, `agent` (output until the query ends), `flush` and `done` (the
completing update), `cite`, `answer_done`, `final`. An error anywhere in the try
block goes to `fail_read`, `fail_write`, `fail_event`, `fail_final`, which are
the statements of `failConversationResponseRun`. A failed assert is
`AssistantRunStoppedError`: the job returns silently. `Leave` is the `finally`
block (unregister). `Return` is the end of the BullMQ processor, which finishes
the job only for the delivery that still holds its lock.

`Env` says which events of the environment may happen: `stop`, `retry`,
`expire`, `delete` (users and readers), `crash`, `stall` (a blocked event loop
loses its job lock), `shutdown`, `dberror` (a statement is rejected),
`rediserror` (a command throws, whether or not it took effect).

### Abstractions

- Text is the run that wrote it. `structuredJson` is its run id, lease and
  whether a live-only field is set. The lease of a terminal row is never read
  and is 0.
- At most one heartbeat or tool hook is in flight per slot, and a slot whose
  last one is still in flight takes no new job.
- Rows of tool messages, `conversations.updatedAt`, attachments, and
  non-terminal events of the stream are left out. Their statements matter only
  as possible errors, which `DbError` and `SideFails` cover. The web handlers'
  own statements are not rejected, except the one that retry makes after a
  successful enqueue (`Touch`), because its catch block undoes the run.
- A row written by a version of the code without run state (no lease) is not
  modelled.
- BullMQ is external: a waiting job is delivered to a free slot, a job whose
  lock is lost becomes stalled, is delivered once more, and is failed without
  running when it stalls again (`maxStalledCount` 1, the default).
- A cancel is best effort: it may be lost, and it is dropped when the run has
  not published its `cancel` yet.

### Properties

- `RegisteredIsInProgress`: the registry names only deliveries in progress, so
  that a cancel or a shutdown never acts on a run that has returned.
- `AnnouncedIsSettled` (checked as `SettledOverFaults`): a reader that got a terminal event and closed misses
  nothing: there is only one such event, the row no longer streams under that
  run, and an announced answer is stored, with its citations, and stays.
- `ExpiryRespectsLease`: an expiry decided earlier only succeeds on a row that is
  streaming with its lease over.
- `JobOutlivesStreaming`: a streaming row always has a job, or a request that
  will add it.
- `StreamingEnds` and `EndsByItself` (`run_ends`): with somebody reading, over
  retries and rejected statements, and with nobody reading and one run, through
  stops, crashes and shutdowns.
- `HealthyRunNotExpired` (in `platform`): under `PromptSpec` with lease 3, beat 1
  and a clock to 6, a runtime that keeps up is never expired after its first
  heartbeat.

What the instances leave out is as much a result as what they show.
`AnnouncedIsSettled` fails as soon as a shutdown runs its own failure path
beside a job that completes (both announce), or two deliveries of one job both
write; and it fails with `rediserror`, because a POST whose enqueue took effect
but threw fails the row by id, whatever the job did meanwhile. So the run keeps to the faults
under which it holds, and the hazards of shutdowns, of redelivery beside a live
delivery and of lost replies are not among those it is for.
`JobOutlivesStreaming` is checked with redelivery and shutdowns. That it holds with
`rediserror` as well is only proved (`QueueCorrect`). `JobOutlivesStreaming` fails with `dberror`: a rejected
statement in the failure path itself drops the job of a streaming row, which
only a reader then ends (that it does is `StreamingEnds`).

### Bounds

- One run is enough for everything that concerns a single answer. A second
  run adds the retry. Run ids are only compared for equality, and a third
  run meets what the second does.
- One slot covers crash, restart and redelivery after a stall with the first
  delivery dead; the second slot adds a redelivery beside a live delivery, and
  two runs at once. Slots are interchangeable, so symmetry is used (the run
  checks an invariant, not liveness).
- A lease of one tick makes every renewal and expiry race possible at the
  smallest clock. Time stops one lease short of `MaxClock` while anything can
  still write a lease, so every lease ends within the bound.
  `HealthyRunNotExpired` uses lease 3 and beat 1, the shape of 45 s and 10 s: a
  heartbeat that is due within a tick leaves slack for the statement itself.
- Requests are reused after they answer, so one is a whole sequence of
  requests and two are concurrent ones.

### Fairness

`RuntimeFairness` is weak fairness of the steps that the event loop or a
completed statement drives, and strong fairness of what depends on the
process being up or on the provider: delivery of a waiting job, the
stalled-job check, and the end of the query. The last is justified by
`agent-query-guard.ts` (timeouts before the first event and between events) and
the turn limit: the query ends however often it yields. Nothing makes users,
errors or the provider's output happen. `AttendedFairness` of `MCRunEnds` adds that a reader syncs
again and again (every 5 s in the code), because the code expires nothing
unless somebody reads. `PromptSpec` is not fairness but a timing assumption:
heartbeats start when due, and statements in flight take less than a tick. How
long a job waits for a slot stays open.

### Proofs

`ConversationRunProofs` proves, for every number of slots, requests, runs and
ticks, and every `Lease` and `Beat`, from `RunAssumption` alone:

- `TypeCorrect`: `Spec => []TypeOK`. `TypeOK` is inductive.
- `RegistryCorrect`: `Spec => []RegisteredIsInProgress`, inductive relative to
  `TypeOK`. A slot changes its own delivery only, and each way out of the try
  block clears the registry entry of its run. A second delivery of the same run may take
  over the entry, and the first one's exit then removes it: the invariant
  holds, but its converse (every delivery in progress is registered) does not.
- `ExpiryCorrect`: `Spec => ExpiryRespectsLease`, from the invariant
  `DecidedOnLease` (what a connection read was over when it read it, and time
  goes forward) and the lease comparison in the update.
- `QueueCorrect`: if `Env` contains neither `retry` nor `dberror`,
  `Spec => []JobOutlivesStreaming`. The property is not inductive. `QueueInv` adds
  `OneRun` (all actors work on run 1), `Fresh` (nothing has begun before the
  row exists) and `Settled` (past its terminal write, no actor faces a streaming
  row). With `dberror` the property is false: a rejected statement inside the
  failure path drops the job of a streaming row, which only a reader ends.

- `AnnouncedCorrect`: if `Env` contains none of `retry`, `shutdown` and
  `rediserror`, and `stall` only with a single slot, `Spec => []AnnouncedIsSettled`,
  through stops, expiries, deletions, crashes with redelivery and rejected
  statements. Each of the four exceptions makes it false: a regeneration may begin
  while the old run still announces, a shutdown announces beside the job, a
  rejected publish enters the failure path after the event has left, and a job
  that lost its lock announces from two slots. `AnnouncedInv` adds `OneRun`,
  `Fresh`, `Alone` (one delivery is at work at a time, and it is the one the job
  belongs to), `TermsOfRun` (only run 1 announces, and only once its row exists)
  and `Told` (at each place of a delivery, what it has announced so far and what
  the row then holds: without it nothing says that the row still is settled when
  the second half of a terminal write announces).
- `HealthyCorrect`: if `Env` contains neither `retry` nor `dberror` and
  `Beat < Lease`, `PromptSpec => HealthyRunNotExpired`, for any number of slots,
  deliveries and readers and through every crash. `HealthyInv` is `Timed` (a stamp
  in flight is of this instant, and no heartbeat is overdue) and `Renewed` (a
  delivery that has begun has a lease that is not over, its timer is armed while
  it waits for the provider, and the row carries the lease of its last heartbeat
  unless the statement that writes it is under way).

Model-checked only: the liveness properties.

## IngestPipeline

The versions of one document, from upload to a searchable index.

| Variable | Code |
| --- | --- |
| `doc`, `latest`, `mode` | the `documents` row, how many versions it has, and each version's `indexing_mode` |
| `job`, `version` | `document_jobs.status` and `document_versions.parse_status` of each version |
| `chunks` | `document_chunks` with their citation anchors, of each version. A chunk is named by the delivery of the chunk stage that inserted it (`Deliveries`: the run, and whether its job had stalled) and its batch: every delivery makes new ids (`apps/worker/src/index.ts:541-547`), so rows that an earlier one left would stand beside those of a later one |
| `points` | the points of each version in Qdrant, named by their chunk |
| `issued`, `flow` | runs (uploads and reparses), and for each one where its BullMQ flow is: the stage whose job exists, whether a worker holds its lock, how often it stalled |
| `work` | the worker of each queue: run, delivery, next statement, chunks inserted or still to be upserted |
| `handler`, `up`, `req` | the `FAILED` listener of each run, the worker process, the HTTP requests |
| `stale` | no code: a history variable, the versions whose job row was written for a run when a later one was in hand (`SetJob`). Only `OneRunPerVersion` reads it |

A stage begins with the two statements of `updateJob` (`UpdateJob`,
`UpdateVersion`); `embedDocument` and `indexDocument` look the version up first
(`Begin`). `ChunkDelete` and `ChunkInsert` replace the rows batch by batch, and
`IndexRead`, `IndexClear` and `IndexUpsert` replace the points, after which
`indexDocument` writes version, document, job and version again. A stage that
throws fails its BullMQ job at once (one attempt, the default), its parents
never run, and the listener writes job, version and document in three
statements. `Env` switches on `retry`, `delete`, `fail` (a stage throws at any
statement), `crash`, `stall` (a blocked event loop loses its job lock) and
`rediserror` (the enqueue throws, nobody catches).

### Abstractions

- The four deletes of `chunkDocument` are one step, and a chunk exists when
  its anchor does, as the join of `fetchChunksForIndex` sees it. Pages and
  blocks are left out.
- Parse artifacts, the embedding artifact and the promotion of temporary
  uploads are left out: they are keyed by content or by version and only decide
  whether a stage throws. An artifact without text gives no chunks.
- The rows of document and version of an upload are inserted in one step. The
  unique key on (document, version) turns concurrent uploads of the same number
  into an error before the document is touched again.
- Web processes do not die between statements. A web process that dies before
  the enqueue leaves what `EnqueueFails` leaves.
- The points of all versions are deleted in one step.
- A retry and a forced reparse are one action: what differs, reuse of the
  cached artifact and the set of statuses taken, is the union here.

### Properties

- `CompletedIsSearchable`: a completed version has the chunks of one delivery of its
  chunk stage, all of them and no others, and exactly these in Qdrant (none when
  parse-only). So a redelivered stage leaves no passage twice. Checked with throwing stages,
  crashes, stalls and failing enqueues.
- `OneRunPerVersion`: two runs of a version do not write at the same time, unless
  a run that another one had replaced wrote the job row (`stale`).
- `JobEnds`, `DocumentSettles`: under `FairSpec`, every job and the document end.

The passing runs have two runs only, one reparse of a version; a delete beside
crashes and stalls, and more reparses, are left to the theorems. The limits of
the properties are those of the code:

- Two runs do overlap once a replaced run has written the job row, and with three
  runs there are two ways to that. Two retries that read the same settled job
  both reset it (`ingest_double_retry`). And when the last statement of
  `completeJob` fails, the job reads completed, is reparsed, and then the
  listener of the first run fails it, which opens the way for another retry.
- With a crash or a lost lock and a reparse, an index job that had written
  "completed" but not returned is delivered again beside the reparse's own
  stages: `OneRunPerVersion` is for deliveries that are not repeated.
- `JobEnds` fails with `crash` (the listener's statements die with the process)
  and with `rediserror` (a queued row without a flow). In both cases the
  retry route refuses the job, because it is not failed.

### Bounds and fairness

Two batches make a partial replacement visible. Two versions share the four
workers, the document row and one request after another; versions only meet
there, so a third adds nothing new. `Requests` are reused after they answer. A
job stalls at most twice by construction (`maxStalledCount` 1).

`FairSpec` assumes that a request which has begun goes on, that each queue's
worker takes the jobs there are and executes its statements, and that the
`FAILED` listener continues. All are consequences of running event loops and
of statements and calls that return or throw. The number of runs is finite, so
a waiting job is not passed over forever. `JobEnds` is checked without `crash`
and `stall`, so fairness of `Restart` and `Stalled` is not needed.

### Proofs

From `IngestAssumption` alone, for every number of versions, runs and requests:

- `TypeCorrect`: `Spec => []TypeOK`. The last conjunct
  of `TypeOK`, that a busy worker's run has a flow, is what makes the version a
  stage works on well defined, and is inductive together with the types.
- `SearchableCorrect`: if `Env` does not contain `retry`,
  `Spec => []CompletedIsSearchable`, under every other fault at once. The
  property says nothing of a version that is not completed yet, so it is not
  inductive. `SearchInv` adds, in the order the argument needs them:
  `OwnRun` (run and version numbers agree, and a flow is created once, by the
  one request that holds its number); `Delivered` (a worker is on a run only
  while the flow is at its stage or dead, and no two workers are on one run,
  which is where the lost lock of a stalled job matters); `ChunksBuilt` and
  `ChunksWhole` (the rows while `chunkDocument` replaces them, which are those of
  the delivery at work, and whole afterwards, of whichever delivery came last); `PointsFollow` (what is in Qdrant plus what is still to be upserted
  is what the version should have); and `Completed` (a completed version is
  searchable, and the only statements a redelivered index stage can still be at
  leave it so). The last part holds while no delete has begun
  (`DeletingStable`). `Frame`, `ChunkStep` and `IndexStep` say once what a step
  of no writer, of the chunk worker and of the index worker preserves; every
  action is an instance of one of the three.

- `OneRunCorrect`: if `Env` contains neither `crash` nor `stall`,
  `Spec => []OneRunPerVersion`, for any number of uploads, retries and deletes at
  once. The property speaks of two flows that write, and a flow is too late a
  point to start from: a retry takes a settled job long before it has a flow.
  `OneInv` therefore calls a run current from the write of its job row to its last
  write of points. `LastRun` is the core: unless the version is stale, the job of
  a current run is not settled, so no retry takes it, and no later run of the
  version is in hand. It needs `Handed` (a pending request names an issued run
  that has no flow yet and an uploaded version, no two the same run, and a version
  that is not there has no job) and `Holds` (a busy worker holds the flow it is
  on, at its own stage, and the listener runs for dead flows only), which is what
  crashes and stalls would break. TLC checked `OneInv` with three runs of a version
  and two requests. An earlier form of the property, without `stale`, is false
  from three runs on; the attempt to prove it showed the two ways above.

With reparses `CompletedIsSearchable` is neither proved nor the property of a run.
Both liveness properties are model-checked only.

## ConversationStream and AnswerView

One answer on its way to one page. `message` is the row and whether its
citations are stored, `toolRows` the tool rows, `events` the Redis streams of
all runs with the position as the entry's id, `job` the respond job, `conn` the
handler of GET /stream (its place, cursor, what it believes to have sent),
`source` the EventSource with the last id it saw, `page` what the page shows,
`outcomes` a history of how each run ended. The job adds a piece of text as an
event and then writes the row; a handler reads the row, its tools and citations
(`conn.pc` row, tools, cites), sends what is new and follows events (live). A
connection, an event or the whole page can be lost (`MaxFaults`).

`AnswerView` is what this promises: rounds that end once, and a reader who is
shown the outcome of a round whole, never of one older than the round looked
at. The refinement mapping takes `outcomes` to `rounds` and `page` to `shown`
(`ShownOutcome`: text, status and citations together once the page's status is
terminal).

- `ImplementsAnswerView`: the safety part (`ViewSafety`) is proved for all
  constants, step by step (`StreamImplementsAnswerView`); that the reader is
  told in the end (`WF(Show)`) is model-checked under weak fairness of the job,
  of connecting and of the handler (`StreamFairness`). These are running event
  loops, the browser's reconnection and the 5 s fallback of the handler.
- `SnapshotHeals`: events repeat or skip pieces, but the sync that follows leaves
  the page with the text of the row, with two exceptions: the first sync of a
  handler that finds no text in the row sends none (`stream/route.ts:196`, `435`),
  and after such a sync a page that still held text of an earlier round keeps it,
  because the handler then counts from "" what the page appends to that text.
- `ShowsOneRound` says that the second does not happen, as the tracker does; it is
  violated (`stream_other_retry`). It takes another page that restarts the answer
  while this one is cut off; a page that restarts it itself begins empty. What the
  page shows in the end is the stored outcome all the same (`ImplementsAnswerView`).

Facts of the code that shaped it: a reconnect replays what the snapshot
already had; `answer_done` comes without citations, which a following sync
brings; a connection opened before another tab's retry follows the old run until
its next sync; a lost "tool started" is made up for by the row; a stopped run
leaves its open tool step; thinking shows twice for a moment when the whole
text is sent after a lost piece or while the row lags.

Bounds: two rounds are an old run and a new one; two pieces are one that was
shown and one that is lost or repeated; one fault breaks the connection at any
place. Model-checked only: `SnapshotHeals` and the types (texts are built with
`SelectSeq`, a recursive definition, of which nothing can be proved here).

The invariant of the proof is `StreamInv`: `WriterTypes` and `ReaderTypes`, the
part of the types that is needed; `RowsInv` (the history has the outcome of
every run that ended, and the job is past its checks only while the row is as
the job left it), `EventsInv` (an event that ends a run carries the outcome of
that run), and `ReaderInv` (a page that follows shows no outcome yet, the run it
follows is not older than its round, and what the handler has read to send in
the end is how that run ended).

## AgentAnswer

`calls` are the tool calls of one query, `gate` and `fetching` the
`AsyncConcurrencyGate` of the process with its waiters and the fetches that run,
`tokens` the citation registry, `evidence` the `citationMap` the hooks fill,
`text` the markers of the model, `answer` the materialised answer and its stored
citations, `access` the passages whose libraries are still readable. The
markers of a text are any sequence of ids, of sources shown or not.

- `ShownTokensResolve`: ids and sources match one to one over overlapping calls,
  and every id shown is recorded as evidence.
- `MarkersKeepSource`: a marker keeps its source through dropping and renumbering,
  and in what the page shows of an answer that cites web pages only, or passages
  only that are all still readable.
- `OrdinalsFollowMarkers` is the same of every answer, as
  `docs/anchor-desk-citation-debugging.md:157` has it, and is violated
  (`citation_ordinals`): the page takes a marker's number as the place in the stored
  list, which has passages before pages and leaves out what is not readable.
- `FetchCallsReturn`: no fetch waits at the gate forever, under `FairAnswerSpec`
  (weak fairness of the tools' own steps: fetches have a timeout).

Proved for every number of calls, sources and limits, and texts of every
length: `AnswerTypesCorrect`, `GateLimits` (no more fetches than the gate
allows, and one waits only while all slots are taken), `TokensCorrect` and
`MarkersCorrect`. The invariant: `TasksInv` and `SlotsInv` (a task is at most
once among the waiters and the fetches that run; the slots taken are the
fetches that run, at most `GateLimit`, and one waits only if they are all
taken), `RegistryInv` (the registry has no
source twice, each output is numbered by it, each number in an output of a
finished call is evidence), `CitedInv` (the marks of the answer and its
citations, against the text they were made from). The renumbering is defined
with `Listings`: the list of cited ids in order of first appearance.

Two calls and a gate of one make a fetch wait for another's slot; two markers
can be the same, in either order, or one unknown.

## Attachments

`composer` is the page's conversation and draft id, `items` what it shows,
`uploads` and `polling` its calls under way, `rows` the
`conversation_attachments`, `sends` the submitted messages and where their
handlers are, `late` the files picked while a message was being sent, `losses`
the requests that threw.

- `FilesAccounted`: the files of a message that was accepted belong to its
  conversation, and every other registered file is in the draft of the page.
  Files picked during a send are the exception: they can end up in a draft or a
  conversation no page has. So is a reply that was lost.
- `SendUnblocks`: files never block sending for good, unless a request threw
  (nothing in the composer catches it). Fairness: the page's calls and the
  handlers go on (`FairAttachmentsSpec`).

Proved for any files, sends and losses: `AttachmentTypes`, `FilesCorrect`. That a
file's row is in the page's draft says nothing while a message is on its way,
because the composer gets its conversation and a new draft when the reply
arrives, and an upload keeps the place it was given when it was picked. So
`AttachmentsInv` follows every file from place to place: `PlacesInv` (a call, a row
and a message are in a draft or in a conversation, never in both),
`EntriesInv` (an entry whose call or poll goes on says so, and only late files
are open during a send), `UploadsInv` (calls go to where the composer is, but
those of late files), `DraftsInv` (a row in a draft is in the composer's and shown
there, or late) and `SentInv` (without a loss one message is under way, its files
are in its draft until it claims them and in its conversation from then on).

A draft's `expiresAt` is read by no code: expired drafts stay.

## ToolTimeline

The hooks of parallel tool uses and the loop over the model's messages fold
into `runState` and write it whole; `stored` is what the row has, `useRows` the
tool rows, `openView` an open page. `TimelineTruthful`: a page loaded at any
moment, and an open page, show every tool use that has a row once, as its
latest row says; and thinking steps and thinking text agree. Two uses of one
tool are the hard case (the fold looks a step up by id, by use, then by tool
name), so there is one name. The page is connected all the time; a failed and a
completed step are one status; announcing a row and folding it are one step,
because nothing awaits between them. Model-checked only: the fold is recursive.

## ConversationSharing

`shares` has the row of each conversation, `popover` one page's popover with its
load, `submits` its submit and one of another page, of which only the requests
are modelled; `owner` and `touched` are histories.

- `RevokedStaysDead`: a link that stopped working never works again. Sharing once
  more makes another token, although the POST reads before it writes.
- `PopoverIsRight`: at rest the popover shows the link that opens the
  conversation of its page. Excepted are changes by another page since, and a
  page that came from another conversation with a submit pending or to a load
  that failed: the popover is not keyed by the conversation.

Proved for any conversations and tokens: `SharingTypes`, `LinksCorrect`,
`SharingCorrect`. The invariant `SharingInv` is the types, `LinksInv` (the token
of a row was made for its conversation, a row without one is revoked, and a
conversation that is gone has none) and `ShownInv` (what is shown, loading or
about to be answered, against the row).

## Reports

`report` and `sections` are the rows, `outlining` and `drafting` the requests
between their statements and the model's call; `crowded` records which requests
ran beside another. The outline's transaction is a delete and a commit.

- `ReadyIsComplete`: a report declared ready by a request that ran alone has all
  sections ready at every moment, whatever dies, because a request declares
  "generating" before it changes a section. Overlapping requests do leave ready
  reports that are not.
- `TextOfItsSection`: a text is stored only with the section it was written for.

Proved: `ReportTypes`, `ReportsCorrect`. `ReportsInv` is `AloneInv` (a request
that runs alone is the only one under way), `CountInv` (what a request counted
of the sections still holds if it is alone) and `ReadyInv`.

## KnowledgeBase

`dirs` are the rows of directories (marked, not removed), `docs` the documents
with their path, the labels of their citations and their paths in the index,
`kbTodo` the statements the request under way has left, `interrupted` what a
crash cut off. One request at a time; an upload is indexed at once; paths are
below the root `资料库` (the private library and managed ones, `kbScope`).

- `TreeIntact`: rows are one tree and documents are in it, wherever a request
  breaks off (a private deletion that breaks off leaves documents in marked
  directories; that is the exception).
- `MoveKeepsShape`: say that an entry is transferred if the row of its directory
  changes, by identity. A step that neither adds nor removes entries transfers
  them to one directory only, none from below another that is transferred, and
  renames no directory; so what is below a moved directory comes along as it is.
- `SearchFollows`: at rest, and if nothing was cut off, labels and index have the
  document's path. Nothing repairs what was cut off but the next move.

Proved (`KnowledgeBaseProofs`) for any names, contents, depth and number of rows,
documents and requests: `KnowledgeBaseTypes`, `TreeStaysIntact`,
`SearchFollowsPaths`, `MovesKeepShape`. No property is inductive by itself, since a
request is done one statement after the other. `KbInv` is

- `KbTyped`, with a root that has no parent and parents that are rows;
- `RowsInv`: one row for each path, marked or not, and the parent of a directory in
  use is in use, at its path without the last name;
- `DocsInv`: one document for each path, at its directory and name, in a directory
  in use unless a private deletion has it on its list or broke off;
- `StepInv` for each step a request has left: a directory is made after its parent,
  a document is put or updated where the step before made a directory, an update is
  followed by exactly its labels and its index, labels carry the path the document
  has by then, assets are deleted before the row, and what a deletion of a library
  marks is closed under what is below;
- `FollowsInv` for each document: its labels and its points have its path, or the
  step that brings them there is left, or it is being deleted, or a request was cut
  off.

The path lemmas (`UnderOrder`, `RebaseFront`, `RebaseAppend`, `RebaseSame`,
`RebaseAbove`) say of `isSameOrDescendantPath` and `replacePathPrefix` what `Move`
needs: being below is an order in which the paths above one path are in line, a
rebased path keeps its last name and its place below, and two directories that end
at one path were one. `Moved` states what a move does without `CHOOSE`: each row is
below exactly one directory that goes (`Tops` leaves no two below each other).
`MoveIs` shows that `Move` does that; `MovedRows`, `MovedDocs` and `MovedTodo` draw
the consequences for rows, documents and the steps left, and `MoveTransfers` for
`MoveKeepsShape`. The guards on names are needed: without the one on rows marked as
deleted (the unique index) `RowsInv` fails, without the ones on names `DocsInv` does.

A deletion is two handlers, `DeleteWorkspaceEntries` and `DeleteLibraryEntries`:
the private one marks the directories first and then deletes one document after
the other, the managed one deletes all assets and then all rows in a transaction.

TLC's instance: depth 2, 4 rows, 2 documents and 3 requests, which is a move of a
subtree onto a path that was deleted before.

## LibraryPage

The explorer page of a private library (`knowledge-base-explorer.tsx`), composed
with `KnowledgeBase`: its requests are the actions of that module, and other
pages take any other step of it. `listing` is what the server rendered last (the
whole library, and the directory at the path of the address), `address` that
path, `fetch` the rendering under way, `place` the directory that is shown, as
a path and as an id, `sought` the text of the search, `marked` the rows that are
marked, `held` what is dragged, `dialog` the dialog for moves, `calls` the
requests; `strayed` is a history. `Poll`, `Render` and `Receive` are the page's
timer, the server's rendering and the effect of a new listing; `OpenDirectory`,
`Search`, `Mark`, `MarkAll`, `Grab`, `Drop`, `OpenMove`, `PickTarget`,
`CloseMove`, `MoveSelection`, `DeleteSelection`, `DownloadSelection`, `DeleteTask`,
`NewDirectory` and `UploadHere` the user; `Serve`, `Succeed` and `Fail` a request.
Sorting and layout are left out.

- `ShowsOneDirectory`: a page that has caught up (its listing is what the server
  would render now) is at a directory in use, and shows exactly the
  subdirectories at its path that the search finds. This relates the id in
  the page's state to the path in the listing: subdirectories are found by the
  id of their parent, documents by path.

The exception is `strayed`: when a directory is opened from a listing in which it
still is, after another page moved or deleted it, the server falls back to the
root, and since that is what it said before, the effect leaves the page where it
is, at the path of a directory that is somewhere else or nowhere. The page stays
there until a directory is opened or the server answers something else.

Proved (`PageShowsOneDirectory`) for any names, depth, rows and requests, and any
number of clicks: on top of `KbInv` it needs `RootKept` (no request marks the root
of a private library, which the server falls back to: `DeleteWorkspaceEntries`
refuses the root, and its later steps mark no directories) and `PageInv` (a page
that waits for nothing and has not strayed is where its listing says).

TLC's instance: the root, a directory and one in it, a document in one of them (one
name for files), two clicks, and one request that changes the library, of this page or of another: a
directory can be opened that another page has just moved or deleted.

## KnowledgeSearch

`library`, `private` and `subscription` are the rows that make the scope,
`edit`, `subscribing` and `visit` the requests that change them, `material` each
document's rows, passages and points and the stage of its processing or
deletion, `search` a search between its statements. Scores are open: any best
`TopK` of the candidates may come back. One workspace and one managed library;
the check that a library is archived, which comes earlier, is left out.

- `ScopeRespected`: a passage of the managed library comes back only if the
  library was active and the subscription let it search there at some moment of
  the search.
- `SettledIsSearchable`: a search that no document's processing met neither fails
  for want of a passage nor leaves out one it has room for. (One point without
  a passage makes the whole search fail.)

Proved for any documents, filters and limits: `SearchTypes`, `ScopeCorrect`,
`SettledCorrect`. The invariant `KnowledgeSearchInv` is `SearchTypeOK`,
`ScopeInv` (what a search read of the rows was true at some moment of it),
`AnswerInv` (what it ranked and kept, against its scope) and `MaterialInv`
(rows, passages and points of a settled document agree). TLC's instance is
small (one document of each kind, one change) because of this.

## DocumentUploads

`dialogs` are the pages' dialogs and batches, `objects` the contents in storage,
`versions` the rows, `deletions` the requests between reading the references,
removing objects and removing rows; `doomed`, `unsettled` and `attempts` are
histories. A fetch that throws was processed before, or never. The worker's
deletion of an object whose digest does not match is left out.

- `ContentKept`: the object of every version stays, but for two windows: a
  version inserted while a deletion that counted before was about to remove the
  object; and two overlapping deletions of one document beside a third version
  with the same content. The second was found by a failed proof:
  `resolveStorageKeysToDelete` compares a count of references with a number of
  rows, not the rows themselves, so the later deletion counts the stranger's row
  in place of one that the earlier deletion has removed.
- `UploadsAccounted`: a file that was picked stays in the dialog until it is
  submitted, and is submitted twice only after a failure that came late. Files
  picked while a batch runs are lost.

Proved for any pages, files, contents and deletions: `UploadTypes`,
`ContentCorrect`, `UploadsCorrect`, from `UploadsInv` = types, `StorageInv` (the object of a version
is in storage and no deletion is about to remove it, but for the versions of
the two windows) and `PageInv` (what a running batch has still to do, against its
list, and how often a file was submitted, against the failures that came late).

## Registration, AuthSessions, ModelProfiles

- `Registration`: requests check, then insert, and two unique indexes decide.
  `FirstIsAdmin`. Proved (`RegistrationTypes`, `RegistrationCorrect`) with
  `UsersInv` and `SignupInv` (what a request has found out is still true when it
  acts on it). drizzle-orm 0.45.2 (`pnpm-lock.yaml:2272`) wraps driver errors,
  so whether `error.code` (`register-user.ts:77`) is seen is outside the model;
  a refusal that is not recognised ends in `SignupThrows`.
- `AuthSessions`: every Redis command of a sign-in, a request, a sign-out and a
  change of the password is a step, and any may throw. `EndedStaysEnded`.
  Proved (`SessionTypes`, `SessionsCorrect`) with `AuthInv`: `NewSessionsInv` (the
  session of a sign-in that has not made its key is nobody else's), `ListedInv`
  (a live session whose token a browser has is in the index, unless it
  is in `unlisted`) and `DeletedInv` (what a request has
  deleted is gone until it ends). The set has a TTL of its own
  (`session-registry.ts:49`, `64`): `timed` says that it has one, and `longer` which
  keys got theirs after it. All TTLs are as long, so the set expires
  (`IndexExpires`) after every key that is not in `longer`.

  The exception is `unlisted`, the sessions that left the set without being listed
  or ended; a change of the password misses them until they are touched again.
  One change may drop what was added after another had listed. And a session
  outlives the set if its key got its TTL (line 62) and the set did not (line 64),
  because a command threw in between or the request is still at it: the property
  does not hold without that either. `SessionsCorrect` is for any interleaving
  and errors at any command, within this exception.
- `ModelProfiles`: `DefaultIsUsable`, but for an edit overtaken by one that made
  its profile the default. Proved (`ProfileTypes`, `ProfilesCorrect`) with
  `ProfilesInv`: unless an edit was overtaken there is one default and it is
  usable, and what each edit in flight was granted still holds (`EditInv`).

## SystemSettings

`settings` are the rows, `explicit` the environment of the deployment, `forms`
the administrators' forms, `processes` how each process was started and with
what. `StartedAlikeAgree`: the launcher, the web server's bootstrap and the
services come to the same values, but for a row saved as blank. Keys are
independent of each other, so one is enough for TLC. Proved for any keys
(`SettingsTypes`, `SettingsCorrect`) with `SettingsInv` and `ProcessInv` (what a
process has loaded so far, against the rows while they are current). A stale
form that undoes another administrator's save is possible in the code and in the
model; no property speaks of it.

## Upgrades

`lock`, `migrated`, `record` and `data` are the database, `migrator` and
`runner` the processes. A runner executes the registered upgrades statement by
statement and may die anywhere. All six upgrades are blocking and safe in dev
startup. A child process of a dead runner may go on migrating.
`StartedIsUpgraded`: who may start finds every migration and every upgrade's
effects whole and once, with the operator's values kept. `Before` are the tables
an older release can have left; its processes no longer write.

`UpgradesCorrect` proves it for any number of runners, settings, workspaces and
troubles. `UpgradesInv` says of each upgrade that is recorded as completed what it
has made of the tables (`Effected`), of a runner at work how far its script has
come (`Reached`: this includes what the last statement left in a local variable),
of the tables what no statement destroys (`Kept`), and of each runner that what it
still has to do is recorded as not completed, so that nothing is left to anyone
once a service has started (`Standing`). The registry's order plays no part:
no upgrade needs the effects of another one.

## DevLauncher

`pnpm dev` and `pnpm dev:down`. `records` are the pid files, `groups` the groups
of processes that were spawned (who leads them, and the server they start),
`commands` the runs of a command with the service in hand, what they have started
and what they have left to stop; `lost` and `contended` are histories. An up goes
through its services in order: `Look` (a service that runs is left alone),
`CheckPort`, `Spawn`, `WriteRecord`, `Wait`, `Grace`; when one fails, `UpFails` makes
a list of the service in hand and, backwards, of what it started, which
`StopLook`, `StopEnds` and `StopKills` stop. A command can be interrupted
anywhere, and a process can end at any time.

- `ServicesAccounted`: a spawned process that leads its group is the recorded one
  and is reported as running, or its command is about to record it; and an up
  that has failed leaves none of those it spawned.

It has two exceptions, and it fails without either: a command that is interrupted
between the spawn and the record leaves a process that nothing will ever stop
(`lost`), and two commands that are busy with one service at once overwrite each
other's record (`contended`).

Proved for any number of services, commands, groups and interrupts
(`LauncherTypes`, `LauncherCorrect`). `LauncherInv` is the types, `Apart` (two
commands busy with one service are what `contended` records), `RecordOf` (the record
of the service a command is busy with is empty while it starts it, and names the
process it stops or nothing while it stops it) and, for every process that is not
excepted, `Known` (the record or the command that spawned it has it) and `Remembers`
(the service is among what that command has started, or has left to stop). The
last two need each other: a failed command finds its processes by the records.

A stop looks at the leader of a group only, in the code and in the model: a server
whose leader ended survives it. `ServicesAccounted` says nothing of such a server.
That a pid is used again by a stranger is not modelled. TLC's instance: 2
services (one without a port), 2 commands, 2 groups, 1 interrupt.

## The proofs

Eight modules hold theorems, one for components that are read together. Each
theorem is for every value of the constants that the assumption named with it
allows; there are no other assumptions.

| Module | Components | Assumptions |
| --- | --- | --- |
| `ConversationRunProofs` | the assistant run | `RunAssumption` |
| `IngestPipelineProofs` | the ingest pipeline | `IngestAssumption` |
| `ListingsProofs` | what the lists of `Listings` contain | none |
| `AnswerProofs` | the answer's tools and citations, the stream and its refinement | `AnswerAssumption`, `StreamAssumption` |
| `WorkspaceProofs` | sharing, reports, attachments | `SharingAssumption`, `ReportsAssumption`, `AttachmentsAssumption` |
| `KnowledgeProofs` | search, uploads and deletions | `KnowledgeSearchAssumption`, `DocumentUploadsAssumption` |
| `KnowledgeBaseProofs` | the tree of directories and documents, the explorer page | `KnowledgeBaseAssumption` |
| `OperationsProofs` | registration, sessions, model profiles, system settings, upgrades, the development launcher | `ProfilesAssumption`, `SettingsAssumption`, `UpgradesAssumption`, `LauncherAssumption` |

They are laid out alike: an inductive invariant as a conjunction of named
parts, that it holds at the start, one lemma for each action (or for a group
that changes the same things), one lemma that puts them together, and the
theorems. TLC checked each invariant on a small instance before it was proved,
and most parts of them were found because an attempt failed without them.

Model-checked only:

- Liveness, which is outside the prover's reach: `StreamingEnds`, `EndsByItself`,
  `JobEnds`, `DocumentSettles`, `FetchCallsReturn`, `SendUnblocks` and the fairness
  part of `ImplementsAnswerView`.
- `SnapshotHeals`, `StreamTypeOK` and `TimelineTruthful`: texts and timelines are
  built with filters and folds over sequences, whose definitions recurse; what a
  recursive definition computes for every input needs an induction over data that
  this prover cannot do.

## Hazards without a property

`PROJECT.json` lists every hazard with the properties that would catch it going
wrong. A note at a hazard says so when its property excepts it and does not
catch it. These have none, because the code lets them happen and the models that
have them show it as well (the first and the third are
only here; the last two are notes at other hazards in `PROJECT.json`):

- a cancel that arrives before the provider query exists is dropped
  (`active-conversation-runs.ts:44`), and the query runs to its end; the row is safe,
  because later writes fail their assert;
- an upload whose enqueue throws leaves a queued job without a flow
  (`documents/route.ts:215`), which no route takes up again;
- the index stage of an older version sets the document ready while its latest is
  still processed (`apps/worker/src/index.ts:770`);
- a rename rewrites the points of every version beside an index stage that does
  the same (`document-index.ts:121`);
- two commands start one service at once and overwrite each other's record
  (`dev-common.mjs:557`), or a command is interrupted between the spawn and the
  record (`dev-common.mjs:591`);
- a directory is opened that is not there any more, and the page stays at its path
  (`knowledge-base-explorer.tsx:650`).

## What is not modelled

- The parser service (stateless heuristics over one file), prompts, tracing,
  logging, the wrappers of storage, and the runtime overview, which only reads.
- Rendering: most of `components/`, and of the client the state that concerns
  neither a request nor an answer. This is also most of what the map does not
  cover: it names about 13,900 lines, 30 % of the implementation.
- The synchronous `POST /respond` endpoint, which keeps no state.
- Titles and `updatedAt` of conversations, and rows without run state that a
  release before it wrote.
- Validation of forms, hashing, encryption of provider keys.
- Of the launcher of development services, the installation of tools, the checks of
  the infrastructure and the logs.

