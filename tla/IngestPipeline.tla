--------------------------- MODULE IngestPipeline ---------------------------
(***************************************************************************)
(* Ingest of the versions of one document: apps/worker, the upload, retry  *)
(* and delete routes of apps/web, and the BullMQ flow that connects them.  *)
(*                                                                         *)
(* A run is one flow of four jobs, parse -> chunk -> embed -> index; each  *)
(* queue is served by one worker with concurrency 1. Every database        *)
(* statement, call of Qdrant and job completion is a step of its own, so   *)
(* the stages of several runs, the failure handlers and the HTTP requests  *)
(* interleave between them.                                                *)
(***************************************************************************)
EXTENDS Naturals, FiniteSets

CONSTANTS
  MaxVersions, \* uploads of the document
  MaxRuns,     \* flows: one per upload, one more per retry
  Requests,    \* HTTP requests in flight at the same time
  Env          \* which events of the environment may happen

EnvEvents == {"retry", "delete", "fail", "crash", "stall", "rediserror"}

ASSUME IngestAssumption ==
  /\ MaxVersions \in Nat /\ MaxRuns \in Nat
  /\ Env \subseteq EnvEvents

VARIABLES
  doc,      \* documents.status, "none" before and "deleted" after the row
  latest,   \* how many versions were uploaded
  mode,     \* indexing_mode of each version
  job,      \* document_jobs.status of each version
  version,  \* document_versions.parse_status of each version
  chunks,   \* document_chunks (with their citation anchors) of each version
  points,   \* points of each version in Qdrant
  issued,   \* runs created so far
  flow,     \* BullMQ: where the flow of each run is
  work,     \* the worker of each stage
  handler,  \* the FAILED listener of each run: its next statement
  up,       \* the worker process runs
  req,      \* what each HTTP request has left to do
  stale     \* history: versions whose job row a replaced run wrote

rows == <<doc, latest, mode, job, version, chunks>>
worker == <<work, handler, up>>
vars == <<rows, points, issued, flow, worker, req, stale>>

Versions == 1 .. MaxVersions
Runs == 1 .. MaxRuns
Stages == {"parse", "chunk", "embed", "index"}

\* A run's job is delivered once more after its lock was lost.  Rows are inserted,
\* and points upserted, in batches, and every insert makes new ids: a chunk row is
\* named by the delivery that wrote it and its batch.
Deliveries == Runs \X (0 .. 1)
Batches == {1, 2}
Chunk == Deliveries \X Batches

DocStatus == {"none", "processing", "ready", "failed", "deleted"}
JobStatus == {"none", "queued", "running", "completed", "failed"}
ParseStatus == {"none", "queued", "parsing_layout", "chunking", "embedding",
                "indexing", "ready", "failed"}
StageStatus == [parse |-> "parsing_layout", chunk |-> "chunking",
                embed |-> "embedding", index |-> "indexing"]

NoFlow == [version |-> 0, stage |-> "none", held |-> FALSE, stalls |-> 0]
NoWork == [run |-> 0, delivery |-> 0, pc |-> "idle", seen |-> {}]
NoRequest == [pc |-> "idle", version |-> 0, run |-> 0]

Flow == {NoFlow} \cup
  [version : Versions, stage : Stages \cup {"done", "dead"}, held : BOOLEAN,
   stalls : 0 .. 1]
WorkPc == {"begin", "job", "version", "body", "delete", "insert", "read", "clear",
           "upsert", "version_ready", "document_ready", "job_done",
           "version_done", "return"}
Work == {NoWork} \cup
  [run : Runs, delivery : 0 .. 1, pc : WorkPc, seen : SUBSET Chunk]
ReqPc == {"document", "job_row", "reset_job", "reset_version",
          "reset_document", "enqueue"}
Request == {NoRequest, [NoRequest EXCEPT !.pc = "delete_row"]} \cup
  [pc : ReqPc, version : Versions, run : Runs]

TypeOK ==
  /\ doc \in DocStatus /\ latest \in 0 .. MaxVersions
  /\ mode \in [Versions -> {"full", "parse_only"}]
  /\ job \in [Versions -> JobStatus] /\ version \in [Versions -> ParseStatus]
  /\ chunks \in [Versions -> SUBSET Chunk] /\ points \in [Versions -> SUBSET Chunk]
  /\ issued \in 0 .. MaxRuns /\ flow \in [Runs -> Flow]
  /\ work \in [Stages -> Work]
  /\ handler \in [Runs -> {"idle", "job", "version", "document"}]
  /\ up \in BOOLEAN /\ req \in [Requests -> Request] /\ stale \subseteq 0 .. MaxVersions
  /\ \A s \in Stages : work[s] # NoWork => flow[work[s].run] # NoFlow

Init ==
  /\ doc = "none" /\ latest = 0 /\ issued = 0
  /\ mode = [v \in Versions |-> "full"]
  /\ job = [v \in Versions |-> "none"] /\ version = [v \in Versions |-> "none"]
  /\ chunks = [v \in Versions |-> {}] /\ points = [v \in Versions |-> {}]
  /\ flow = [r \in Runs |-> NoFlow] /\ work = [s \in Stages |-> NoWork]
  /\ handler = [r \in Runs |-> "idle"] /\ up = TRUE
  /\ req = [q \in Requests |-> NoRequest] /\ stale = {}

\* Run r of version v has a flow, or the request that will create it is under way.
InHand(r, v) ==
  \/ flow[r].version = v
  \/ \E q \in Requests : req[q].pc \in ReqPc /\ req[q].run = r /\ req[q].version = v

-----------------------------------------------------------------------------
(* Statements that name a row which may be gone: they change nothing then. *)

\* Run r writes the job row of version v; stale notes it if there is a later run.
SetJob(r, v, status) ==
  /\ job' = IF doc = "deleted" THEN job ELSE [job EXCEPT ![v] = status]
  /\ stale' = IF \E x \in Runs : x > r /\ InHand(x, v) THEN stale \cup {v} ELSE stale
SetVersion(v, status) ==
  version' = IF doc = "deleted" THEN version ELSE [version EXCEPT ![v] = status]
SetDoc(status) == doc' = IF doc = "deleted" THEN doc ELSE status

-----------------------------------------------------------------------------
(* The web routes.                                                         *)

Respond(q) == req' = [req EXCEPT ![q] = NoRequest]

\* The documents routes upload a new version, maybe of a new document; the
\* attachments route always a new document, which is not to be embedded.
Upload(q) ==
  /\ req[q].pc = "idle" /\ doc # "deleted"
  /\ latest < MaxVersions /\ issued < MaxRuns
  /\ latest' = latest + 1 /\ issued' = issued + 1
  /\ doc' = IF doc = "none" THEN "processing" ELSE doc
  /\ \E m \in IF doc = "none" THEN {"full", "parse_only"} ELSE {"full"} :
       mode' = [mode EXCEPT ![latest + 1] = m]
  /\ version' = [version EXCEPT ![latest + 1] = "queued"]
  /\ req' = [req EXCEPT ![q] =
               [pc |-> "document", version |-> latest + 1, run |-> issued + 1]]
  /\ UNCHANGED <<job, chunks, points, flow, worker, stale>>

UploadDocument(q) ==
  /\ req[q].pc = "document"
  /\ SetDoc("processing")
  /\ req' = [req EXCEPT ![q].pc = "job_row"]
  /\ UNCHANGED <<latest, mode, job, version, chunks, points, issued, flow, worker, stale>>

\* The insert fails on its foreign key when the document is gone.
UploadJob(q) ==
  /\ req[q].pc = "job_row"
  /\ SetJob(req[q].run, req[q].version, "queued")
  /\ IF doc = "deleted" THEN Respond(q) ELSE req' = [req EXCEPT ![q].pc = "enqueue"]
  /\ UNCHANGED <<doc, latest, mode, version, chunks, points, issued, flow, worker>>

\* enqueueIngestFlow: only the leaf of the flow is ready to run.
Enqueue(q) ==
  /\ req[q].pc = "enqueue"
  /\ flow' = [flow EXCEPT ![req[q].run] =
                [version |-> req[q].version, stage |-> "parse",
                 held |-> FALSE, stalls |-> 0]]
  /\ Respond(q)
  /\ UNCHANGED <<rows, points, issued, worker, stale>>

\* It throws and nobody catches: the rows stay as they are.
EnqueueFails(q) ==
  /\ "rediserror" \in Env /\ req[q].pc = "enqueue"
  /\ Respond(q)
  /\ UNCHANGED <<rows, points, issued, flow, worker, stale>>

\* Mutant: any job may be retried.
RetryReadUnguarded(q) ==
  /\ "retry" \in Env /\ req[q].pc = "idle" /\ issued < MaxRuns
  /\ issued' = issued + 1
  /\ \E v \in Versions :
       /\ job[v] # "none"
       /\ req' = [req EXCEPT ![q] =
                    [pc |-> "reset_job", version |-> v, run |-> issued + 1]]
  /\ UNCHANGED <<rows, points, flow, worker, stale>>

\* A retry takes a failed job; with forceReparse a completed one too.
RetryRead(q) ==
  /\ "retry" \in Env /\ req[q].pc = "idle" /\ issued < MaxRuns
  /\ issued' = issued + 1
  /\ \E v \in Versions :
       /\ job[v] \in {"completed", "failed"}
       /\ req' = [req EXCEPT ![q] =
                    [pc |-> "reset_job", version |-> v, run |-> issued + 1]]
  /\ UNCHANGED <<rows, points, flow, worker, stale>>

\* The update names the job by id alone, whatever its status is by now.
ResetJob(q) ==
  /\ req[q].pc = "reset_job"
  /\ SetJob(req[q].run, req[q].version, "queued")
  /\ req' = [req EXCEPT ![q].pc = "reset_version"]
  /\ UNCHANGED <<doc, latest, mode, version, chunks, points, issued, flow, worker>>

ResetVersion(q) ==
  /\ req[q].pc = "reset_version"
  /\ SetVersion(req[q].version, "queued")
  /\ req' = [req EXCEPT ![q].pc = "reset_document"]
  /\ UNCHANGED <<doc, latest, mode, job, chunks, points, issued, flow, worker, stale>>

ResetDocument(q) ==
  /\ req[q].pc = "reset_document"
  /\ SetDoc("processing")
  /\ req' = [req EXCEPT ![q].pc = "enqueue"]
  /\ UNCHANGED <<latest, mode, job, version, chunks, points, issued, flow, worker, stale>>

\* Points go first (deleteDocumentSearchIndexAndAssets), then the row.
DeletePoints(q) ==
  /\ "delete" \in Env /\ req[q].pc = "idle" /\ doc \notin {"none", "deleted"}
  /\ points' = [v \in Versions |-> {}]
  /\ req' = [req EXCEPT ![q] = [NoRequest EXCEPT !.pc = "delete_row"]]
  /\ UNCHANGED <<rows, issued, flow, worker, stale>>

\* The row takes its versions, their jobs and their chunks with it.
DeleteRow(q) ==
  /\ req[q].pc = "delete_row"
  /\ doc' = "deleted"
  /\ job' = [v \in Versions |-> "none"] /\ version' = [v \in Versions |-> "none"]
  /\ chunks' = [v \in Versions |-> {}]
  /\ Respond(q)
  /\ UNCHANGED <<latest, mode, points, issued, flow, worker, stale>>

Web(q) ==
  \/ Upload(q) \/ UploadDocument(q) \/ UploadJob(q) \/ Enqueue(q) \/ EnqueueFails(q)
  \/ RetryRead(q) \/ ResetJob(q) \/ ResetVersion(q) \/ ResetDocument(q)
  \/ DeletePoints(q) \/ DeleteRow(q)

-----------------------------------------------------------------------------
(* Jobs: delivery, completion, failure. BullMQ is external.                *)

Mine(s) == flow[work[s].run].version
Goto(s, label) == work' = [work EXCEPT ![s].pc = label]

\* enqueueIngestFlow nests the jobs: parent after child, no embed when
\* parse-only.
NextStage(s, m) ==
  [parse |-> "chunk", chunk |-> IF m = "parse_only" THEN "index" ELSE "embed",
   embed |-> "index", index |-> "done"][s]

\* parseDocument and chunkDocument start with updateJob, the other two with
\* fetchVersion.
Take(s) ==
  /\ up /\ work[s].pc = "idle"
  /\ \E r \in Runs :
       /\ flow[r].stage = s /\ ~ flow[r].held
       /\ flow' = [flow EXCEPT ![r].held = TRUE]
       /\ work' = [work EXCEPT ![s] =
            [run |-> r, delivery |-> flow[r].stalls, seen |-> {},
             pc |-> IF s \in {"parse", "chunk"} THEN "job" ELSE "begin"]]
  /\ UNCHANGED <<rows, points, issued, handler, up, req, stale>>

\* The stage's function returned. A job whose lock was lost is not completed
\* by this delivery.
Finish(s) ==
  LET r == work[s].run
  IN /\ work' = [work EXCEPT ![s] = NoWork]
     /\ flow' = IF flow[r].held
                THEN [flow EXCEPT ![r].held = FALSE, ![r].stalls = 0,
                                  ![r].stage = NextStage(s, mode[Mine(s)])]
                ELSE flow
     /\ UNCHANGED handler

\* It threw: the job fails at its first attempt, its parents never run, and the
\* worker emits FAILED.
Fail(s) ==
  LET r == work[s].run
  IN /\ work' = [work EXCEPT ![s] = NoWork]
     /\ IF flow[r].held
        THEN /\ flow' = [flow EXCEPT ![r].stage = "dead", ![r].held = FALSE]
             /\ handler' = [handler EXCEPT ![r] = "job"]
        ELSE UNCHANGED <<flow, handler>>

\* The parser, storage, the embedding service, Qdrant or a statement fails.
StageFails(s) ==
  /\ "fail" \in Env /\ work[s].pc # "idle"
  /\ Fail(s)
  /\ UNCHANGED <<rows, points, issued, up, req, stale>>

-----------------------------------------------------------------------------
(* The stages: updateJob (two statements), then each one's own work.       *)

\* embed and index look the version up before anything else; index leaves a
\* parse-only version without points.
Begin(s) ==
  /\ work[s].pc = "begin"
  /\ IF doc = "deleted" THEN Fail(s)
     ELSE /\ Goto(s, IF mode[Mine(s)] = "parse_only" THEN "clear" ELSE "job")
          /\ UNCHANGED <<flow, handler>>
  /\ UNCHANGED <<rows, points, issued, up, req, stale>>

UpdateJob(s) ==
  /\ work[s].pc = "job"
  /\ SetJob(work[s].run, Mine(s), "running")
  /\ Goto(s, "version")
  /\ UNCHANGED <<doc, latest, mode, version, chunks, points, issued, flow,
                 handler, up, req>>

UpdateVersion(s) ==
  /\ work[s].pc = "version"
  /\ SetVersion(Mine(s), StageStatus[s])
  /\ Goto(s, IF s = "index" THEN "read" ELSE "body")
  /\ UNCHANGED <<doc, latest, mode, job, chunks, points, issued, flow,
                 handler, up, req, stale>>

\* Parsing stores an artifact, embedding one vector per chunk it sees; parse
\* and chunk throw when the version is gone.
Body(s) ==
  /\ work[s].pc = "body"
  /\ IF s # "embed" /\ doc = "deleted" THEN Fail(s)
     ELSE IF s = "chunk" THEN Goto(s, "delete") /\ UNCHANGED <<flow, handler>>
     ELSE Finish(s)
  /\ UNCHANGED <<rows, points, issued, up, req, stale>>

\* Mutant: the rows of an earlier delivery, or run, are kept.
ChunkDeleteNothing ==
  /\ work["chunk"].pc = "delete"
  /\ \E next \in {"insert", "return"} : Goto("chunk", next)
  /\ UNCHANGED <<rows, points, issued, flow, handler, up, req, stale>>

\* chunkDocument replaces the rows of the version; the artifact may be empty.
ChunkDelete ==
  /\ work["chunk"].pc = "delete"
  /\ chunks' = [chunks EXCEPT ![Mine("chunk")] = {}]
  /\ \E next \in {"insert", "return"} : Goto("chunk", next)
  /\ UNCHANGED <<doc, latest, mode, job, version, points, issued, flow, handler,
                 up, req, stale>>

\* Batch by batch; a foreign key fails when the version is gone.
ChunkInsert ==
  LET me == <<work["chunk"].run, work["chunk"].delivery>>
      left == {b \in Batches : <<me, b>> \notin work["chunk"].seen}
  IN /\ work["chunk"].pc = "insert"
     /\ \E b \in left :
          /\ \A x \in left : b <= x
          /\ IF doc = "deleted" THEN Fail("chunk") /\ UNCHANGED chunks
             ELSE /\ chunks' = [chunks EXCEPT ![Mine("chunk")] = @ \cup {<<me, b>>}]
                  /\ work' = [work EXCEPT
                       !["chunk"].seen = @ \cup {<<me, b>>},
                       !["chunk"].pc = IF left = {b} THEN "return" ELSE @]
                  /\ UNCHANGED <<flow, handler>>
     /\ UNCHANGED <<doc, latest, mode, job, version, points, issued, up, req, stale>>

IndexRead ==
  /\ work["index"].pc = "read"
  /\ work' = [work EXCEPT !["index"].seen = chunks[Mine("index")],
                          !["index"].pc = "clear"]
  /\ UNCHANGED <<rows, points, issued, flow, handler, up, req, stale>>

AfterUpsert ==
  [work EXCEPT !["index"].pc = "version_ready", !["index"].seen = {}]

IndexClear ==
  /\ work["index"].pc = "clear"
  /\ points' = [points EXCEPT ![Mine("index")] = {}]
  /\ work' = IF work["index"].seen = {} THEN AfterUpsert
             ELSE [work EXCEPT !["index"].pc = "upsert"]
  /\ UNCHANGED <<rows, issued, flow, handler, up, req, stale>>

\* Batch by batch as well. Points are keyed by chunk: a batch that is written
\* twice is there once.
IndexUpsert ==
  /\ work["index"].pc = "upsert"
  /\ \E c \in work["index"].seen :
       /\ points' = [points EXCEPT ![Mine("index")] = @ \cup {c}]
       /\ work' = IF work["index"].seen = {c} THEN AfterUpsert
                  ELSE [work EXCEPT !["index"].seen = @ \ {c}]
  /\ UNCHANGED <<rows, issued, flow, handler, up, req, stale>>

\* Mutant: updateJob is given a job status where it expects a parse status.
IndexVersionReadyCompleted ==
  /\ work["index"].pc = "version_ready"
  /\ SetVersion(Mine("index"), "completed")
  /\ Goto("index", "document_ready")
  /\ UNCHANGED <<doc, latest, mode, job, chunks, points, issued, flow, handler,
                 up, req, stale>>

IndexVersionReady ==
  /\ work["index"].pc = "version_ready"
  /\ SetVersion(Mine("index"), "ready")
  /\ Goto("index", "document_ready")
  /\ UNCHANGED <<doc, latest, mode, job, chunks, points, issued, flow, handler,
                 up, req, stale>>

IndexDocumentReady ==
  /\ work["index"].pc = "document_ready"
  /\ SetDoc("ready")
  /\ Goto("index", "job_done")
  /\ UNCHANGED <<latest, mode, job, version, chunks, points, issued, flow,
                 handler, up, req, stale>>

\* completeJob is updateJob once more.
IndexJobDone ==
  /\ work["index"].pc = "job_done"
  /\ SetJob(work["index"].run, Mine("index"), "completed")
  /\ Goto("index", "version_done")
  /\ UNCHANGED <<doc, latest, mode, version, chunks, points, issued, flow,
                 handler, up, req>>

IndexVersionDone ==
  /\ work["index"].pc = "version_done"
  /\ SetVersion(Mine("index"), "ready")
  /\ Goto("index", "return")
  /\ UNCHANGED <<doc, latest, mode, job, chunks, points, issued, flow, handler,
                 up, req, stale>>

Return(s) ==
  /\ work[s].pc = "return"
  /\ Finish(s)
  /\ UNCHANGED <<rows, points, issued, up, req, stale>>

ChunkRows == ChunkDelete \/ ChunkInsert

Index ==
  \/ IndexRead \/ IndexClear \/ IndexUpsert
  \/ IndexVersionReady \/ IndexDocumentReady \/ IndexJobDone \/ IndexVersionDone

\* What the worker of a stage does by itself.
Stage(s) ==
  \/ Take(s) \/ Begin(s) \/ UpdateJob(s) \/ UpdateVersion(s) \/ Body(s)
  \/ Return(s)
  \/ s = "chunk" /\ ChunkRows
  \/ s = "index" /\ Index

-----------------------------------------------------------------------------
(* The FAILED listener: three statements that name the version, not the run. *)

\* Mutant: the job row is forgotten.
HandlerJobForgotten(r) ==
  /\ handler[r] = "job"
  /\ handler' = [handler EXCEPT ![r] = "version"]
  /\ UNCHANGED <<rows, points, issued, flow, work, up, req, stale>>

HandlerJob(r) ==
  /\ handler[r] = "job"
  /\ SetJob(r, flow[r].version, "failed")
  /\ handler' = [handler EXCEPT ![r] = "version"]
  /\ UNCHANGED <<doc, latest, mode, version, chunks, points, issued, flow, work,
                 up, req>>

HandlerVersion(r) ==
  /\ handler[r] = "version"
  /\ SetVersion(flow[r].version, "failed")
  /\ handler' = [handler EXCEPT ![r] = "document"]
  /\ UNCHANGED <<doc, latest, mode, job, chunks, points, issued, flow, work,
                 up, req, stale>>

\* Mutant: the document is left to the next stage.
HandlerDocumentForgotten(r) ==
  /\ handler[r] = "document"
  /\ handler' = [handler EXCEPT ![r] = "idle"]
  /\ UNCHANGED <<rows, points, issued, flow, work, up, req, stale>>

HandlerDocument(r) ==
  /\ handler[r] = "document"
  /\ SetDoc("failed")
  /\ handler' = [handler EXCEPT ![r] = "idle"]
  /\ UNCHANGED <<latest, mode, job, version, chunks, points, issued, flow, work,
                 up, req, stale>>

Handler(r) == HandlerJob(r) \/ HandlerVersion(r) \/ HandlerDocument(r)

-----------------------------------------------------------------------------
(* The worker process. Its locks outlive it.                               *)

Crash ==
  /\ "crash" \in Env /\ up
  /\ up' = FALSE
  /\ work' = [s \in Stages |-> NoWork]
  /\ handler' = [r \in Runs |-> "idle"]
  /\ UNCHANGED <<rows, points, issued, flow, req, stale>>

Restart ==
  /\ ~ up
  /\ up' = TRUE
  /\ UNCHANGED <<rows, points, issued, flow, work, handler, req, stale>>

\* A lock expired: its worker died, or its event loop was blocked. The job runs
\* again once (maxStalledCount 1), then it fails.
Stalled(r) ==
  /\ up /\ flow[r].held
  /\ "stall" \in Env \/ work[flow[r].stage].run # r
  /\ IF flow[r].stalls = 0
     THEN /\ flow' = [flow EXCEPT ![r].held = FALSE, ![r].stalls = 1]
          /\ UNCHANGED handler
     ELSE /\ flow' = [flow EXCEPT ![r].held = FALSE, ![r].stage = "dead"]
          /\ handler' = [handler EXCEPT ![r] = "job"]
  /\ UNCHANGED <<rows, points, issued, work, up, req, stale>>

Next ==
  \/ \E q \in Requests : Web(q)
  \/ \E s \in Stages : Stage(s) \/ StageFails(s)
  \/ \E r \in Runs : Handler(r) \/ Stalled(r)
  \/ Crash \/ Restart

Spec == Init /\ [][Next]_vars

\* A request that has begun goes on, the workers serve their queues and the
\* listeners run. Nothing makes users upload, retry or delete.
Fairness ==
  /\ \A q \in Requests :
       WF_vars(\/ UploadDocument(q) \/ UploadJob(q) \/ Enqueue(q)
               \/ ResetJob(q) \/ ResetVersion(q) \/ ResetDocument(q)
               \/ DeleteRow(q))
  /\ \A s \in Stages : WF_vars(Stage(s))
  /\ \A r \in Runs : WF_vars(Handler(r))

FairSpec == Spec /\ Fairness

-----------------------------------------------------------------------------
(* Properties.                                                             *)

Settled == {"completed", "failed"}
Deleting == doc = "deleted" \/ \E q \in Requests : req[q].pc = "delete_row"

\* A version whose job is completed can be searched: its chunks are all those of
\* one delivery of one run, and Qdrant holds exactly these, or nothing when it is
\* parse-only.  So a stage that is delivered again, with ids of its own, and one
\* that failed half way leave neither passages twice nor points whose chunk is gone.
CompletedIsSearchable ==
  \A v \in Versions : job[v] = "completed" /\ ~ Deleting =>
    /\ chunks[v] = {} \/ \E d \in Deliveries : chunks[v] = {d} \X Batches
    /\ points[v] = IF mode[v] = "parse_only" THEN {} ELSE chunks[v]

\* The flow of a run still writes the chunks or the points of its version:
\* queued, delivered, or left running by a lost lock.
Writes(r) ==
  \/ flow[r].stage \in Stages /\ \A s \in Stages : work[s].run # r
  \/ \E s \in Stages :
       work[s].run = r /\ ~ (s = "index" /\ work[s].pc \in {"version_done", "return"})

\* The job row keeps the runs of a version apart: two flows, which would replace
\* each other's chunks and points while both report progress on one row, overlap
\* only if a run that another had replaced wrote the row. There are two ways: a
\* retry that read the same settled job as another (ReparseOnlySettledJobs), and
\* the listener of a run that fails after it has set the job completed.
OneRunPerVersion ==
  \A r1, r2 \in Runs :
    Writes(r1) /\ Writes(r2) /\ flow[r1].version = flow[r2].version
      /\ flow[r1].version \notin stale => r1 = r2

\* A retry only takes a job that is settled, not one that is queued or running
\* (canForceReparseDocumentJob).
ReparseOnlySettledJobs ==
  [][\A q \in Requests :
       req[q].pc = "reset_job" /\ req'[q].pc = "reset_version" /\ doc # "deleted"
         => job[req[q].version] \in Settled]_vars

\* Every job ends, unless its document is deleted: a stage that throws leaves
\* parents that never run, and only the FAILED listener tells.
JobEnds ==
  \A v \in Versions :
    job[v] \in {"queued", "running"} ~> job[v] \in Settled \cup {"none"}

\* So does the document's processing state.
DocumentSettles == doc = "processing" ~> doc # "processing"
=============================================================================
