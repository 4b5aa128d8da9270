------------------------ MODULE IngestPipelineProofs -------------------------
(***************************************************************************)
(* Theorems of IngestPipeline, for every number of versions, runs and      *)
(* requests and every set of faults.                                       *)
(***************************************************************************)
EXTENDS IngestPipeline, TLAPS

-----------------------------------------------------------------------------
(* What the helpers of the model keep.                                     *)

Busy == [run : Runs, delivery : 0 .. 1, pc : WorkPc, seen : SUBSET Chunk]
Live == [version : Versions, stage : Stages \cup {"done", "dead"},
         held : BOOLEAN, stalls : 0 .. 1]
HasFlow == \A s \in Stages : work[s] # NoWork => flow[work[s].run] # NoFlow

\* What a worker's step can change.
WorkTyped ==
  /\ flow \in [Runs -> Flow] /\ work \in [Stages -> Work]
  /\ handler \in [Runs -> {"idle", "job", "version", "document"}]
  /\ HasFlow

\* A worker that is not idle has a run, which has a flow of a version.
LEMMA BusyType ==
  ASSUME TypeOK, NEW s \in Stages, work[s].pc # "idle"
  PROVE  /\ work[s] \in Busy
         /\ flow[work[s].run] \in Live
         /\ Mine(s) \in Versions
<1>1. work[s] \in Busy
  BY DEF TypeOK, Work, NoWork, Busy
<1>2. work[s] # NoWork
  BY DEF NoWork
<1>3. flow[work[s].run] \in Live
  BY <1>1, <1>2 DEF TypeOK, Busy, Flow, Live
<1>4. QED
  BY <1>1, <1>3 DEF Mine, Live

LEMMA VersionIsBounded == Versions \subseteq 0 .. MaxVersions
BY IngestAssumption DEF IngestAssumption, Versions

LEMMA LiveIsNotNoFlow == \A f \in Live : f # NoFlow /\ f \in Flow
BY DEF Live, NoFlow, Flow, Stages

LEMMA BusyIsNotNoWork == \A n \in Busy : n # NoWork /\ n \in Work
BY DEF Busy, NoWork, Work, WorkPc

\* A worker changes its own record and keeps its run.
LEMMA KeepsRun ==
  ASSUME TypeOK, NEW s \in Stages, NEW n \in Busy, work[s].pc # "idle",
         n.run = work[s].run, work' = [work EXCEPT ![s] = n],
         UNCHANGED <<flow, handler>>
  PROVE  WorkTyped'
<1>1. work' \in [Stages -> Work]
  BY BusyIsNotNoWork DEF TypeOK
<1>2. flow[work[s].run] # NoFlow
  BY BusyType, LiveIsNotNoFlow
<1>3. HasFlow'
  BY <1>2 DEF HasFlow, TypeOK
<1>4. QED
  BY <1>1, <1>3 DEF WorkTyped, TypeOK

LEMMA GotoType ==
  ASSUME TypeOK, NEW s \in Stages, NEW label \in WorkPc, work[s].pc # "idle",
         Goto(s, label), UNCHANGED <<flow, handler>>
  PROVE  WorkTyped'
<1> DEFINE n == [work[s] EXCEPT !.pc = label]
<1>1. n \in Busy /\ n.run = work[s].run
  BY BusyType DEF Busy
<1>2. work' = [work EXCEPT ![s] = n]
  BY DEF Goto
<1>3. QED
  BY <1>1, <1>2, KeepsRun

\* Flows only ever change into other live flows.
LEMMA FlowStep ==
  ASSUME TypeOK, NEW s \in Stages, NEW r \in Runs, NEW f \in Live,
         flow' = [flow EXCEPT ![r] = f], work' = [work EXCEPT ![s] = NoWork]
  PROVE  /\ flow' \in [Runs -> Flow] /\ work' \in [Stages -> Work]
         /\ HasFlow'
<1>1. flow' \in [Runs -> Flow] /\ work' \in [Stages -> Work]
  BY LiveIsNotNoFlow DEF TypeOK, Work
<1>2. ASSUME NEW x \in Stages, work'[x] # NoWork
      PROVE  flow'[work'[x].run] # NoFlow
  <2>1. work'[x] = work[x] /\ work[x] # NoWork
    BY <1>2 DEF TypeOK
  <2>2. work[x] \in Busy /\ flow[work[x].run] # NoFlow
    BY <2>1 DEF TypeOK, Work, Busy
  <2>3. QED
    BY <2>1, <2>2, LiveIsNotNoFlow DEF TypeOK, Busy
<1>3. QED
  BY <1>1, <1>2 DEF HasFlow

LEMMA NextStageType ==
  ASSUME NEW s \in Stages, NEW m
  PROVE  NextStage(s, m) \in Stages \cup {"done"}
BY DEF NextStage, Stages

LEMMA FinishedFlow ==
  ASSUME NEW g \in Live, NEW x \in Stages \cup {"done"}
  PROVE  [g EXCEPT !.held = FALSE, !.stalls = 0, !.stage = x] \in Live
<1>1. [g EXCEPT !.held = FALSE] \in Live
  BY DEF Live
<1>2. ASSUME NEW h \in Live PROVE [h EXCEPT !.stalls = 0] \in Live
  BY <1>2 DEF Live
<1>3. ASSUME NEW h \in Live PROVE [h EXCEPT !.stage = x] \in Live
  BY <1>3 DEF Live
<1>4. QED
  BY <1>1, <1>2, <1>3

LEMMA FinishType ==
  ASSUME TypeOK, NEW s \in Stages, work[s].pc # "idle", Finish(s)
  PROVE  WorkTyped'
<1> DEFINE r == work[s].run
<1>1. r \in Runs /\ flow[r] \in Live
  BY BusyType DEF Busy
<1>2. CASE flow[r].held
  <2> DEFINE f == [flow[r] EXCEPT !.held = FALSE, !.stalls = 0,
                                  !.stage = NextStage(s, mode[Mine(s)])]
  <2>1. NextStage(s, mode[Mine(s)]) \in Stages \cup {"done"}
    BY NextStageType
  <2>2. f \in Live
    BY <1>1, <2>1, FinishedFlow
  <2>3. flow' = [flow EXCEPT ![r] = f]
    BY <1>2 DEF Finish
  <2>4. QED
    BY <1>1, <2>2, <2>3, FlowStep DEF Finish, WorkTyped, TypeOK
<1>3. CASE ~ flow[r].held
  <2>1. flow' = [flow EXCEPT ![r] = flow[r]]
    BY <1>3 DEF Finish, TypeOK
  <2>2. QED
    BY <1>1, <2>1, FlowStep DEF Finish, WorkTyped, TypeOK
<1>4. QED
  BY <1>2, <1>3

LEMMA FailType ==
  ASSUME TypeOK, NEW s \in Stages, work[s].pc # "idle", Fail(s)
  PROVE  WorkTyped'
<1> DEFINE r == work[s].run
<1>1. r \in Runs /\ flow[r] \in Live
  BY BusyType DEF Busy
<1>2. CASE flow[r].held
  <2> DEFINE f == [flow[r] EXCEPT !.stage = "dead", !.held = FALSE]
  <2>1. f \in Live
    BY <1>1 DEF Live
  <2>2. flow' = [flow EXCEPT ![r] = f] /\ handler' = [handler EXCEPT ![r] = "job"]
    BY <1>2 DEF Fail
  <2>3. QED
    BY <1>1, <2>1, <2>2, FlowStep DEF Fail, WorkTyped, TypeOK
<1>3. CASE ~ flow[r].held
  <2>1. flow' = [flow EXCEPT ![r] = flow[r]]
    BY <1>3 DEF Fail, TypeOK
  <2>2. QED
    BY <1>1, <1>3, <2>1, FlowStep DEF Fail, WorkTyped, TypeOK
<1>4. QED
  BY <1>2, <1>3

-----------------------------------------------------------------------------
(* Types.                                                                  *)

LEMMA TypeInit == Init => TypeOK
BY IngestAssumption
   DEF IngestAssumption, Init, TypeOK, DocStatus, JobStatus, ParseStatus, Flow,
       Work, Request

LEMMA StatusType ==
  ASSUME TypeOK, NEW v
  PROVE  /\ \A x \in ParseStatus :
              SetVersion(v, x) => version' \in [Versions -> ParseStatus]
         /\ \A x \in DocStatus : SetDoc(x) => doc' \in DocStatus
BY DEF SetVersion, SetDoc, TypeOK

LEMMA JobType ==
  ASSUME TypeOK, NEW r, NEW v \in 0 .. MaxVersions, NEW x \in JobStatus,
         SetJob(r, v, x)
  PROVE  job' \in [Versions -> JobStatus] /\ stale' \subseteq 0 .. MaxVersions
BY DEF SetJob, TypeOK

LEMMA RespondType ==
  ASSUME TypeOK, NEW q \in Requests, Respond(q)
  PROVE  req' \in [Requests -> Request]
BY DEF Respond, TypeOK, Request

LEMMA RequestType ==
  ASSUME TypeOK, NEW q \in Requests, req[q].pc \in ReqPc
  PROVE  /\ req[q] \in [pc : ReqPc, version : Versions, run : Runs]
         /\ \A c \in ReqPc : [req[q] EXCEPT !.pc = c] \in Request
BY DEF TypeOK, Request, NoRequest, ReqPc

LEMMA TypeWeb ==
  ASSUME TypeOK, NEW q \in Requests, Web(q)
  PROVE  TypeOK'
<1> USE DEF TypeOK, rows, worker
<1>1. CASE Upload(q)
  <2>1. latest + 1 \in Versions /\ issued + 1 \in Runs
    BY <1>1, IngestAssumption DEF Upload, IngestAssumption, Versions, Runs
  <2>2. latest' \in 0 .. MaxVersions /\ issued' \in 0 .. MaxRuns
    BY <1>1, <2>1, IngestAssumption DEF Upload, IngestAssumption, Versions, Runs
  <2>3. [pc |-> "document", version |-> latest + 1, run |-> issued + 1] \in Request
    BY <2>1 DEF Request, ReqPc
  <2>4. doc' \in DocStatus /\ mode' \in [Versions -> {"full", "parse_only"}]
    BY <1>1 DEF Upload, DocStatus
  <2>5. version' \in [Versions -> ParseStatus]
    BY <1>1 DEF Upload, ParseStatus
  <2>6. QED
    BY <1>1, <2>2, <2>3, <2>4, <2>5 DEF Upload
<1>2. CASE UploadDocument(q)
  BY <1>2, StatusType, RequestType DEF UploadDocument, ReqPc, DocStatus
<1>3. CASE UploadJob(q)
  <2>1. job' \in [Versions -> JobStatus] /\ stale' \subseteq 0 .. MaxVersions
    BY <1>3, JobType, RequestType, VersionIsBounded DEF UploadJob, ReqPc, JobStatus
  <2>2. req' \in [Requests -> Request]
    BY <1>3, RespondType, RequestType DEF UploadJob, ReqPc
  <2>3. QED
    BY <1>3, <2>1, <2>2 DEF UploadJob
<1>4. CASE Enqueue(q)
  <2> DEFINE f == [version |-> req[q].version, stage |-> "parse",
                   held |-> FALSE, stalls |-> 0]
  <2>1. f \in Live
    <3>1. req[q].version \in Versions
      BY <1>4, RequestType DEF Enqueue, ReqPc
    <3>2. QED
      BY <3>1 DEF Live, Stages
  <2>2. f \in Flow /\ f # NoFlow
    BY <2>1, LiveIsNotNoFlow
  <2>3. flow' = [flow EXCEPT ![req[q].run] = f]
    BY <1>4 DEF Enqueue
  <2>4. flow' \in [Runs -> Flow] /\ req' \in [Requests -> Request] /\ work' = work
    BY <1>4, <2>2, <2>3, RespondType DEF Enqueue
  <2>5. ASSUME NEW s \in Stages, work[s] # NoWork
        PROVE  flow'[work[s].run] # NoFlow
    <3>1. flow[work[s].run] # NoFlow /\ work[s].run \in Runs
      BY <2>5 DEF Work
    <3>2. QED
      BY <2>2, <2>3, <3>1
  <2>6. QED
    BY <1>4, <2>4, <2>5 DEF Enqueue
<1>5. CASE EnqueueFails(q)
  BY <1>5, RespondType DEF EnqueueFails
<1>6. CASE RetryRead(q)
  <2>1. issued + 1 \in Runs /\ issued' \in 0 .. MaxRuns
    BY <1>6, IngestAssumption DEF RetryRead, IngestAssumption, Runs
  <2>2. ASSUME NEW v \in Versions
        PROVE  [pc |-> "reset_job", version |-> v, run |-> issued + 1] \in Request
    BY <2>1 DEF Request, ReqPc
  <2>3. QED
    BY <1>6, <2>1, <2>2 DEF RetryRead
<1>7. CASE ResetJob(q)
  <2>1. job' \in [Versions -> JobStatus] /\ stale' \subseteq 0 .. MaxVersions
    BY <1>7, JobType, RequestType, VersionIsBounded DEF ResetJob, ReqPc, JobStatus
  <2>2. QED
    BY <1>7, <2>1, RequestType DEF ResetJob, ReqPc
<1>8. CASE ResetVersion(q)
  BY <1>8, StatusType, RequestType DEF ResetVersion, ReqPc, ParseStatus
<1>9. CASE ResetDocument(q)
  BY <1>9, StatusType, RequestType DEF ResetDocument, ReqPc, DocStatus
<1>10. CASE DeletePoints(q)
  BY <1>10 DEF DeletePoints, Request
<1>11. CASE DeleteRow(q)
  BY <1>11, RespondType DEF DeleteRow, DocStatus, JobStatus, ParseStatus
<1>12. QED
  BY <1>1, <1>2, <1>3, <1>4, <1>5, <1>6, <1>7, <1>8, <1>9, <1>10, <1>11 DEF Web

\* The rest of the state is the rows and points, typed by each action.
LEMMA TypeFromWork ==
  ASSUME TypeOK, WorkTyped', UNCHANGED <<latest, mode, issued, up, req>>,
         doc' \in DocStatus, job' \in [Versions -> JobStatus],
         version' \in [Versions -> ParseStatus],
         chunks' \in [Versions -> SUBSET Chunk], points' \in [Versions -> SUBSET Chunk],
         stale' \subseteq 0 .. MaxVersions
  PROVE  TypeOK'
BY DEF TypeOK, WorkTyped, HasFlow

LEMMA TypeStage ==
  ASSUME TypeOK, NEW s \in Stages, Take(s) \/ Begin(s) \/ UpdateJob(s)
           \/ UpdateVersion(s) \/ Body(s) \/ Return(s) \/ StageFails(s)
  PROVE  TypeOK'
<1> USE DEF rows
<1>1. CASE Take(s)
  <2>1. PICK r \in Runs : /\ flow[r].stage = s
          /\ flow' = [flow EXCEPT ![r].held = TRUE]
          /\ work' = [work EXCEPT ![s] = [run |-> r, delivery |-> flow[r].stalls, seen |-> {},
               pc |-> IF s \in {"parse", "chunk"} THEN "job" ELSE "begin"]]
    BY <1>1 DEF Take
  <2>2. flow[r] \in Live
    BY <2>1 DEF TypeOK, Flow, NoFlow, Stages, Live
  <2>3. [flow[r] EXCEPT !.held = TRUE] \in Live
    BY <2>2 DEF Live
  <2>4. flow' = [flow EXCEPT ![r] = [flow[r] EXCEPT !.held = TRUE]]
    BY <2>1
  <2>5. flow' \in [Runs -> Flow]
    BY <2>3, <2>4, LiveIsNotNoFlow DEF TypeOK
  <2>6. [run |-> r, delivery |-> flow[r].stalls, seen |-> {},
         pc |-> IF s \in {"parse", "chunk"} THEN "job" ELSE "begin"] \in Busy
    BY <2>2 DEF Live, Busy, WorkPc
  <2>7. work' \in [Stages -> Work]
    BY <2>1, <2>6, BusyIsNotNoWork DEF TypeOK
  <2>8. ASSUME NEW x \in Stages, work'[x] # NoWork
        PROVE  flow'[work'[x].run] # NoFlow
    <3>1. CASE x = s
      BY <3>1, <2>1, <2>3, <2>4, LiveIsNotNoFlow DEF TypeOK
    <3>2. CASE x # s
      <4>1. work'[x] = work[x] /\ work[x] # NoWork
        BY <3>2, <2>1, <2>8 DEF TypeOK
      <4>2. work[x] \in Busy /\ flow[work[x].run] # NoFlow
        BY <4>1 DEF TypeOK, Work, Busy
      <4>3. QED
        BY <4>1, <4>2, <2>3, <2>4, LiveIsNotNoFlow DEF TypeOK, Busy
    <3>3. QED
      BY <3>1, <3>2
  <2>9. WorkTyped'
    BY <1>1, <2>5, <2>7, <2>8 DEF WorkTyped, HasFlow, Take, TypeOK
  <2>10. QED
    BY <1>1, <2>9, TypeFromWork DEF Take, TypeOK
<1>2. CASE Begin(s)
  <2>1. CASE doc = "deleted"
    BY <1>2, <2>1, FailType, TypeFromWork DEF Begin, TypeOK
  <2>2. CASE doc # "deleted"
    BY <1>2, <2>2, GotoType, TypeFromWork DEF Begin, TypeOK, WorkPc
  <2>3. QED
    BY <2>1, <2>2
<1>3. CASE UpdateJob(s)
  <2>1. WorkTyped'
    BY <1>3, GotoType DEF UpdateJob, WorkPc
  <2>2. QED
    <3>1. job' \in [Versions -> JobStatus] /\ stale' \subseteq 0 .. MaxVersions
      BY <1>3, BusyType, JobType, VersionIsBounded DEF UpdateJob, JobStatus
    <3>2. QED
      BY <1>3, <2>1, <3>1, TypeFromWork DEF UpdateJob, TypeOK
<1>4. CASE UpdateVersion(s)
  <2>1. WorkTyped'
    BY <1>4, GotoType DEF UpdateVersion, WorkPc
  <2>2. StageStatus[s] \in ParseStatus
    BY DEF StageStatus, Stages, ParseStatus
  <2>3. version' \in [Versions -> ParseStatus]
    BY <1>4, <2>2, StatusType DEF UpdateVersion
  <2>4. QED
    BY <1>4, <2>1, <2>3, TypeFromWork DEF UpdateVersion, TypeOK
<1>5. CASE Body(s)
  <2>1. work[s].pc # "idle"
    BY <1>5 DEF Body
  <2>2. CASE Finish(s)
    BY <1>5, <2>1, <2>2, FinishType, TypeFromWork DEF Body, TypeOK
  <2>3. CASE Fail(s)
    BY <1>5, <2>1, <2>3, FailType, TypeFromWork DEF Body, TypeOK
  <2>4. CASE Goto(s, "delete") /\ UNCHANGED <<flow, handler>>
    <3>1. WorkTyped'
      BY <2>1, <2>4, GotoType DEF WorkPc
    <3>2. QED
      BY <1>5, <3>1, TypeFromWork DEF Body, TypeOK
  <2>5. QED
    BY <1>5, <2>2, <2>3, <2>4 DEF Body
<1>6. CASE Return(s)
  BY <1>6, FinishType, TypeFromWork DEF Return, TypeOK
<1>7. CASE StageFails(s)
  BY <1>7, FailType, TypeFromWork DEF StageFails, TypeOK
<1>8. QED
  BY <1>1, <1>2, <1>3, <1>4, <1>5, <1>6, <1>7

LEMMA TypeChunkRows ==
  ASSUME TypeOK, ChunkRows
  PROVE  TypeOK'
<1> USE DEF rows
<1>1. "chunk" \in Stages /\ work["chunk"].pc # "idle"
  BY DEF ChunkRows, ChunkDelete, ChunkInsert, Stages
<1>2. CASE ChunkDelete
  <2>1. PICK next \in {"insert", "return"} : Goto("chunk", next)
    BY <1>2 DEF ChunkDelete
  <2>2. WorkTyped'
    BY <1>1, <1>2, <2>1, GotoType DEF ChunkDelete, WorkPc
  <2>3. QED
    BY <1>2, <2>2, TypeFromWork DEF ChunkDelete, TypeOK
<1>3. CASE ChunkInsert
  <2> DEFINE me == <<work["chunk"].run, work["chunk"].delivery>>
             left == {b \in Batches : <<me, b>> \notin work["chunk"].seen}
  <2>1. PICK b \in left :
          IF doc = "deleted" THEN Fail("chunk") /\ UNCHANGED chunks
          ELSE /\ chunks' = [chunks EXCEPT ![Mine("chunk")] = @ \cup {<<me, b>>}]
               /\ work' = [work EXCEPT
                    !["chunk"].seen = @ \cup {<<me, b>>},
                    !["chunk"].pc = IF left = {b} THEN "return" ELSE @]
               /\ UNCHANGED <<flow, handler>>
    BY <1>3 DEF ChunkInsert
  <2>2. CASE doc = "deleted"
    BY <1>1, <1>3, <2>1, <2>2, FailType, TypeFromWork DEF ChunkInsert, TypeOK
  <2>3. CASE doc # "deleted"
    <3> DEFINE next == IF left = {b} THEN "return" ELSE work["chunk"].pc
               n == [work["chunk"] EXCEPT !.seen = @ \cup {<<me, b>>}, !.pc = next]
    <3>1. work["chunk"] \in Busy
      BY <1>1, BusyType
    <3>2. <<me, b>> \in Chunk
      BY <3>1 DEF Busy, Chunk, Deliveries
    <3>3. next \in WorkPc
      BY <3>1 DEF Busy, WorkPc
    <3>4. n \in Busy /\ n.run = work["chunk"].run
      BY <3>1, <3>2, <3>3 DEF Busy
    <3>5. work' = [work EXCEPT !["chunk"] = n]
      BY <1>1, <2>1, <2>3 DEF TypeOK
    <3>6. WorkTyped'
      BY <1>1, <2>1, <2>3, <3>4, <3>5, KeepsRun
    <3>7. chunks' \in [Versions -> SUBSET Chunk]
      BY <2>1, <2>3, <3>2 DEF TypeOK
    <3>8. QED
      BY <1>3, <3>6, <3>7, TypeFromWork DEF ChunkInsert, TypeOK
  <2>4. QED
    BY <2>2, <2>3
<1>4. QED
  BY <1>2, <1>3 DEF ChunkRows

LEMMA TypeIndex ==
  ASSUME TypeOK, Index
  PROVE  TypeOK'
<1> USE DEF rows
<1>1. "index" \in Stages
  BY DEF Stages
<1>2. CASE IndexRead
  <2>1. work["index"] \in Busy /\ Mine("index") \in Versions
    BY <1>1, <1>2, BusyType DEF IndexRead
  <2> DEFINE n == [work["index"] EXCEPT !.seen = chunks[Mine("index")], !.pc = "clear"]
  <2>2. n \in Busy /\ n.run = work["index"].run
    BY <2>1 DEF Busy, TypeOK, WorkPc
  <2>3. work' = [work EXCEPT !["index"] = n]
    BY <1>2 DEF IndexRead
  <2>4. WorkTyped'
    BY <1>1, <1>2, <2>2, <2>3, KeepsRun DEF IndexRead
  <2>5. QED
    BY <1>2, <2>4, TypeFromWork DEF IndexRead, TypeOK
<1>3. CASE IndexClear
  <2>1. work["index"] \in Busy /\ Mine("index") \in Versions
    BY <1>1, <1>3, BusyType DEF IndexClear
  <2>2. PICK n \in Busy : /\ n.run = work["index"].run
                           /\ work' = [work EXCEPT !["index"] = n]
    <3>1. CASE work["index"].seen = {}
      <4> DEFINE n == [work["index"] EXCEPT !.pc = "version_ready", !.seen = {}]
      <4>1. n \in Busy /\ n.run = work["index"].run
        BY <2>1 DEF Busy, WorkPc
      <4>2. work' = [work EXCEPT !["index"] = n]
        BY <1>3, <3>1 DEF IndexClear, AfterUpsert
      <4>3. QED
        BY <4>1, <4>2
    <3>2. CASE work["index"].seen # {}
      <4> DEFINE n == [work["index"] EXCEPT !.pc = "upsert"]
      <4>1. n \in Busy /\ n.run = work["index"].run
        BY <2>1 DEF Busy, WorkPc
      <4>2. work' = [work EXCEPT !["index"] = n]
        BY <1>3, <3>2 DEF IndexClear
      <4>3. QED
        BY <4>1, <4>2
    <3>3. QED
      BY <3>1, <3>2
  <2>3. WorkTyped'
    BY <1>1, <1>3, <2>2, KeepsRun DEF IndexClear
  <2>4. points' \in [Versions -> SUBSET Chunk]
    BY <1>3 DEF IndexClear, TypeOK
  <2>5. QED
    BY <1>3, <2>3, <2>4, TypeFromWork DEF IndexClear, TypeOK
<1>4. CASE IndexUpsert
  <2>1. work["index"] \in Busy /\ Mine("index") \in Versions
    BY <1>1, <1>4, BusyType DEF IndexUpsert
  <2>2. PICK c \in work["index"].seen :
          /\ points' = [points EXCEPT ![Mine("index")] = @ \cup {c}]
          /\ work' = IF work["index"].seen = {c} THEN AfterUpsert
                     ELSE [work EXCEPT !["index"].seen = @ \ {c}]
    BY <1>4 DEF IndexUpsert
  <2>3. c \in Chunk
    BY <2>1 DEF Busy
  <2>4. PICK n \in Busy : /\ n.run = work["index"].run
                           /\ work' = [work EXCEPT !["index"] = n]
    <3>1. CASE work["index"].seen = {c}
      <4> DEFINE n == [work["index"] EXCEPT !.pc = "version_ready", !.seen = {}]
      <4>1. n \in Busy /\ n.run = work["index"].run
        BY <2>1 DEF Busy, WorkPc
      <4>2. work' = [work EXCEPT !["index"] = n]
        BY <2>2, <3>1 DEF AfterUpsert
      <4>3. QED
        BY <4>1, <4>2
    <3>2. CASE work["index"].seen # {c}
      <4> DEFINE n == [work["index"] EXCEPT !.seen = work["index"].seen \ {c}]
      <4>1. n \in Busy /\ n.run = work["index"].run
        BY <2>1 DEF Busy
      <4>2. work' = [work EXCEPT !["index"] = n]
        BY <2>2, <3>2
      <4>3. QED
        BY <4>1, <4>2
    <3>3. QED
      BY <3>1, <3>2
  <2>5. WorkTyped'
    BY <1>1, <1>4, <2>4, KeepsRun DEF IndexUpsert
  <2>6. points' \in [Versions -> SUBSET Chunk]
    BY <2>2, <2>3 DEF TypeOK
  <2>7. QED
    BY <1>4, <2>5, <2>6, TypeFromWork DEF IndexUpsert, TypeOK
<1>5. CASE IndexVersionReady
  <2>1. WorkTyped'
    BY <1>1, <1>5, GotoType DEF IndexVersionReady, WorkPc
  <2>2. QED
    BY <1>5, <2>1, StatusType, TypeFromWork DEF IndexVersionReady, TypeOK, ParseStatus
<1>6. CASE IndexDocumentReady
  <2>1. WorkTyped'
    BY <1>1, <1>6, GotoType DEF IndexDocumentReady, WorkPc
  <2>2. QED
    BY <1>6, <2>1, StatusType, TypeFromWork DEF IndexDocumentReady, TypeOK, DocStatus
<1>7. CASE IndexJobDone
  <2>1. WorkTyped'
    BY <1>1, <1>7, GotoType DEF IndexJobDone, WorkPc
  <2>2. QED
    <3>1. job' \in [Versions -> JobStatus] /\ stale' \subseteq 0 .. MaxVersions
      BY <1>1, <1>7, BusyType, JobType, VersionIsBounded DEF IndexJobDone, JobStatus
    <3>2. QED
      BY <1>7, <2>1, <3>1, TypeFromWork DEF IndexJobDone, TypeOK
<1>8. CASE IndexVersionDone
  <2>1. WorkTyped'
    BY <1>1, <1>8, GotoType DEF IndexVersionDone, WorkPc
  <2>2. QED
    BY <1>8, <2>1, StatusType, TypeFromWork DEF IndexVersionDone, TypeOK, ParseStatus
<1>9. QED
  BY <1>2, <1>3, <1>4, <1>5, <1>6, <1>7, <1>8 DEF Index

LEMMA StalledFlow ==
  ASSUME TypeOK, NEW r \in Runs, Stalled(r)
  PROVE  /\ flow[r] \in Live
         /\ \E f \in Live : /\ flow' = [flow EXCEPT ![r] = f]
                           /\ f.version = flow[r].version
                           /\ f.stage \in {flow[r].stage, "dead"} /\ ~ f.held
<1>1. flow[r] \in Live
  BY DEF Stalled, TypeOK, Flow, NoFlow, Live
<1> DEFINE g == [flow[r] EXCEPT !.held = FALSE]
           f1 == [g EXCEPT !.stalls = 1]
           f2 == [g EXCEPT !.stage = "dead"]
<1>2. /\ g \in Live /\ ~ g.held
      /\ g.version = flow[r].version /\ g.stage = flow[r].stage
  BY <1>1 DEF Live
<1>3. f1 \in Live /\ f1.version = g.version /\ f1.stage = g.stage /\ f1.held = g.held
  <2>1. ASSUME NEW h \in Live
        PROVE  LET h1 == [h EXCEPT !.stalls = 1]
               IN /\ h1 \in Live /\ h1.held = h.held
                  /\ h1.version = h.version /\ h1.stage = h.stage
    BY <2>1 DEF Live
  <2>2. QED
    BY <1>2, <2>1
<1>4. f2 \in Live /\ f2.version = g.version /\ f2.stage = "dead" /\ f2.held = g.held
  BY <1>2 DEF Live
<1>5. flow' = [flow EXCEPT ![r] = f1] \/ flow' = [flow EXCEPT ![r] = f2]
  BY DEF Stalled
<1>6. QED
  BY <1>1, <1>2, <1>3, <1>4, <1>5

LEMMA TypeEvents ==
  ASSUME TypeOK, Crash \/ Restart \/ \E r \in Runs : Handler(r) \/ Stalled(r)
  PROVE  TypeOK'
<1> USE DEF rows
<1>1. CASE Crash
  BY <1>1, IngestAssumption DEF Crash, TypeOK, Work
<1>2. CASE Restart
  BY <1>2 DEF Restart, TypeOK
<1>3. ASSUME NEW r \in Runs, Handler(r) PROVE TypeOK'
  <2>1. CASE HandlerJob(r)
    <3>1. flow[r].version \in 0 .. MaxVersions
      BY IngestAssumption DEF IngestAssumption, TypeOK, Flow, NoFlow, Versions
    <3>2. job' \in [Versions -> JobStatus] /\ stale' \subseteq 0 .. MaxVersions
      BY <2>1, <3>1, JobType DEF HandlerJob, JobStatus
    <3>3. QED
      BY <2>1, <3>2 DEF HandlerJob, TypeOK
  <2>2. CASE HandlerVersion(r)
    BY <2>2, StatusType DEF HandlerVersion, TypeOK, ParseStatus
  <2>3. CASE HandlerDocument(r)
    BY <2>3, StatusType DEF HandlerDocument, TypeOK, DocStatus
  <2>4. QED
    BY <1>3, <2>1, <2>2, <2>3 DEF Handler
<1>4. ASSUME NEW r \in Runs, Stalled(r) PROVE TypeOK'
  <2>1. flow[r] \in Live
    BY <1>4, StalledFlow
  <2>2. PICK f \in Live : flow' = [flow EXCEPT ![r] = f]
    BY <1>4, StalledFlow
  <2>3. flow' \in [Runs -> Flow]
    BY <2>2, LiveIsNotNoFlow DEF TypeOK
  <2>4. HasFlow'
    BY <1>4, <2>2, LiveIsNotNoFlow DEF HasFlow, TypeOK, Stalled, Work
  <2>5. WorkTyped'
    BY <1>4, <2>3, <2>4 DEF WorkTyped, Stalled, TypeOK
  <2>6. QED
    BY <1>4, <2>5, TypeFromWork DEF Stalled, TypeOK
<1>5. QED
  BY <1>1, <1>2, <1>3, <1>4

LEMMA TypeNext == TypeOK /\ [Next]_vars => TypeOK'
<1> SUFFICES ASSUME TypeOK, [Next]_vars PROVE TypeOK'
  OBVIOUS
<1>1. ASSUME NEW s \in Stages, Stage(s) \/ StageFails(s) PROVE TypeOK'
  BY <1>1, TypeStage, TypeChunkRows, TypeIndex DEF Stage
<1>2. CASE UNCHANGED vars
  BY <1>2 DEF vars, rows, worker, TypeOK
<1>3. QED
  BY <1>1, <1>2, TypeWeb, TypeEvents DEF Next

\* Every variable keeps its type, and a worker that is busy has a run whose
\* flow exists: no stage runs for a version that was never uploaded.
THEOREM TypeCorrect == Spec => []TypeOK
BY TypeInit, TypeNext, PTL DEF Spec

-----------------------------------------------------------------------------
(* CompletedIsSearchable where nothing is reparsed: then run r is the run  *)
(* of version r, and every fact below is about one version and the workers *)
(* on it.                                                                  *)

WholeRows(r) == {{}} \cup {{<<r, d>>} \X Batches : d \in 0 .. 1}
Whole(r) == chunks[r] \in WholeRows(r)
Expected(r) == IF mode[r] = "parse_only" THEN {} ELSE chunks[r]
On(s, r) == work[s].run = r /\ work[s] # NoWork
Pending(q) == req[q].pc \in ReqPc

\* Uploads only: a request names the version and the run it created, and the
\* flow of a run is created once.
OwnRun ==
  /\ issued = latest
  /\ \A q \in Requests : Pending(q) =>
       /\ req[q].pc \in {"document", "job_row", "enqueue"}
       /\ req[q].version = req[q].run /\ req[q].run <= issued
       /\ flow[req[q].run] = NoFlow
  /\ \A q1, q2 \in Requests :
       Pending(q1) /\ Pending(q2) /\ req[q1].run = req[q2].run => q1 = q2
  /\ \A r \in Runs : flow[r] # NoFlow => flow[r].version = r /\ r <= issued

\* A worker is on a run whose flow is at its stage, or dead; no two workers
\* are on the same run.
DeliveredOnce ==
  \A s \in Stages : work[s] # NoWork =>
    /\ flow[work[s].run].stage \in {s, "dead"}
    /\ \A x \in Stages : On(x, work[s].run) => x = s

Delivered ==
  /\ DeliveredOnce
  /\ \A r \in Runs : flow[r].stage = "dead" => ~ flow[r].held

\* The chunks of a version once the chunk stage is over, and during it.
ChunksWhole ==
  /\ \A r \in Runs : flow[r].stage \in {"embed", "index", "done"} => Whole(r)
  /\ \A s \in {"embed", "index"} : work[s] # NoWork => Whole(work[s].run)

ChunksBuilt ==
  LET w == work["chunk"]
  IN /\ w.pc \in {"begin", "job", "version", "body", "delete"} => w.seen = {}
     /\ w.pc = "insert" =>
          chunks[w.run] = w.seen /\ w.seen \subseteq {<<w.run, w.delivery>>} \X Batches
     /\ w.pc = "return" => Whole(w.run)

Written == {"version_ready", "document_ready", "job_done", "version_done", "return"}

\* The points of a version while the index stage replaces them, and after.
PointsFollow ==
  LET w == work["index"]
  IN /\ w.pc \in {"begin", "job", "version", "read"} => w.seen = {}
     /\ w.pc \in {"job", "version", "read"} => mode[w.run] = "full"
     /\ w.pc = "clear" => w.seen = Expected(w.run)
     /\ w.pc = "upsert" => points[w.run] \cup w.seen = Expected(w.run)
     /\ w.pc \in Written => points[w.run] = Expected(w.run)

\* What a completed job implies, for the version and for the workers on it.
Completed ==
  \A v \in Versions : job[v] = "completed" =>
    /\ v \in Runs /\ flow[v].stage \in {"index", "done", "dead"}
    /\ Whole(v) /\ points[v] = Expected(v)
    /\ ~ On("chunk", v)
    /\ On("index", v) =>
         \/ work["index"].pc \in {"begin", "job"} \cup Written
         \/ work["index"].pc = "clear" /\ mode[v] = "parse_only"

Data == ChunksWhole /\ ChunksBuilt /\ PointsFollow /\ Completed

SearchInv ==
  /\ TypeOK /\ OwnRun /\ Delivered
  /\ ~ Deleting => Data

-----------------------------------------------------------------------------
(* OwnRun and Delivered.                                                   *)

\* The two ways a worker on a run goes on: it keeps its run and no flow moves,
\* or it lets go of the run.
Keeps(s) ==
  /\ work[s].pc # "idle"
  /\ \E n \in Busy : n.run = work[s].run /\ work' = [work EXCEPT ![s] = n]
  /\ UNCHANGED flow

LEMMA GotoKeeps ==
  ASSUME TypeOK, NEW s \in Stages, NEW label \in WorkPc, work[s].pc # "idle",
         Goto(s, label), UNCHANGED flow
  PROVE  Keeps(s)
<1> DEFINE n == [work[s] EXCEPT !.pc = label]
<1>1. n \in Busy /\ n.run = work[s].run
  BY BusyType DEF Busy
<1>2. QED
  BY <1>1 DEF Goto, Keeps

LEMMA OwnRunKept ==
  ASSUME TypeOK, OwnRun, UNCHANGED <<issued, latest, req>>,
         \A r \in Runs : /\ flow'[r].version = flow[r].version
                         /\ flow'[r] = NoFlow <=> flow[r] = NoFlow
  PROVE  OwnRun'
<1>1. ASSUME NEW q \in Requests, Pending(q) PROVE req[q].run \in Runs
  BY <1>1, RequestType DEF Pending
<1>2. QED
  BY <1>1 DEF OwnRun, Pending

LEMMA OwnRunWeb ==
  ASSUME TypeOK, OwnRun, "retry" \notin Env, NEW q \in Requests, Web(q)
  PROVE  OwnRun'
<1> USE DEF rows, worker
<1>1. \A p \in Requests : Pending(p) => req[p].run \in Runs /\ req[p].version \in Versions
  BY RequestType DEF Pending
<1>2. CASE Upload(q)
  <2>1. req' = [req EXCEPT ![q] =
          [pc |-> "document", version |-> latest + 1, run |-> issued + 1]]
        /\ issued' = issued + 1 /\ latest' = latest + 1 /\ flow' = flow
    BY <1>2 DEF Upload
  <2>2. issued \in Nat /\ issued + 1 \in Runs /\ issued = latest
    BY <1>2, IngestAssumption DEF Upload, IngestAssumption, Runs, TypeOK, OwnRun
  <2>3. \A r \in Runs : flow[r] # NoFlow => flow[r].version = r /\ r <= issued
    BY DEF OwnRun
  <2>4. flow[issued + 1] = NoFlow
    BY <2>2, <2>3
  <2>5. ASSUME NEW p \in Requests, Pending(p)'
        PROVE  p = q \/ (Pending(p) /\ req'[p] = req[p])
    BY <2>1, <2>5 DEF Pending, TypeOK
  <2>6. req'[q] = [pc |-> "document", version |-> latest + 1, run |-> issued + 1]
    BY <2>1 DEF TypeOK
  <2>7. \A p \in Requests : Pending(p) => req[p].run <= issued
    BY DEF OwnRun
  <2>8. \A r \in Runs : r \in Nat
    BY DEF Runs
  <2>9. ASSUME NEW p \in Requests, Pending(p)'
        PROVE  /\ req'[p].pc \in {"document", "job_row", "enqueue"}
               /\ req'[p].version = req'[p].run /\ req'[p].run <= issued'
               /\ flow'[req'[p].run] = NoFlow
    <3>1. CASE p = q
      BY <2>1, <2>2, <2>4, <2>6, <3>1
    <3>2. CASE p # q
      <4>1. Pending(p) /\ req'[p] = req[p]
        BY <2>5, <2>9, <3>2
      <4>2. req[p].run <= issued + 1
        BY <1>1, <2>2, <2>7, <2>8, <4>1
      <4>3. QED
        BY <2>1, <4>1, <4>2 DEF OwnRun
    <3>3. QED
      BY <3>1, <3>2
  <2>10. ASSUME NEW p1 \in Requests, NEW p2 \in Requests, Pending(p1)', Pending(p2)',
                req'[p1].run = req'[p2].run
         PROVE  p1 = p2
    <3>1. \A p \in Requests : Pending(p) => req[p].run # issued + 1
      BY <1>1, <2>2, <2>7, <2>8
    <3>2. QED
      BY <2>5, <2>6, <2>10, <3>1 DEF OwnRun
  <2>11. \A r \in Runs : flow'[r] # NoFlow => flow'[r].version = r /\ r <= issued'
    BY <2>1, <2>2, <2>3, <2>8
  <2>12. QED
    BY <2>1, <2>2, <2>9, <2>10, <2>11 DEF OwnRun
<1>3. CASE UploadDocument(q) \/ UploadJob(q) \/ EnqueueFails(q) \/ DeletePoints(q)
           \/ DeleteRow(q)
  <2>1. UNCHANGED <<issued, latest, flow>>
    BY <1>3 DEF UploadDocument, UploadJob, EnqueueFails, DeletePoints, DeleteRow
  <2>2. ASSUME NEW p \in Requests, Pending(p)'
        PROVE  /\ Pending(p) /\ req'[p].version = req[p].version
               /\ req'[p].run = req[p].run
               /\ req'[p].pc \in {"document", "job_row", "enqueue"}
    <3>1. req'[p] \in {req[p], [req[p] EXCEPT !.pc = "job_row"],
                       [req[p] EXCEPT !.pc = "enqueue"]}
      BY <1>3, <2>2 DEF UploadDocument, UploadJob, EnqueueFails, DeletePoints,
         DeleteRow, Respond, Pending, ReqPc, NoRequest, TypeOK
    <3>2. Pending(p)
      BY <1>3, <2>2 DEF UploadDocument, UploadJob, EnqueueFails, DeletePoints,
         DeleteRow, Respond, Pending, ReqPc, NoRequest, TypeOK
    <3>3. req[p] \in [pc : ReqPc, version : Versions, run : Runs]
      BY <3>2, RequestType DEF Pending
    <3>4. QED
      BY <3>1, <3>2, <3>3 DEF OwnRun
  <2>3. QED
    BY <2>1, <2>2 DEF OwnRun
<1>4. CASE Enqueue(q)
  <2> DEFINE f == [version |-> req[q].version, stage |-> "parse",
                   held |-> FALSE, stalls |-> 0]
  <2>1. UNCHANGED <<issued, latest>> /\ flow' = [flow EXCEPT ![req[q].run] = f]
        /\ req' = [req EXCEPT ![q] = NoRequest] /\ Pending(q)
    BY <1>4 DEF Enqueue, Respond, Pending, ReqPc
  <2>2. ASSUME NEW p \in Requests, Pending(p)'
        PROVE  p # q /\ Pending(p) /\ req'[p] = req[p]
    BY <2>1, <2>2 DEF Pending, ReqPc, NoRequest, TypeOK
  <2>3. \A p \in Requests : Pending(p)' => flow'[req'[p].run] = NoFlow
    BY <1>1, <2>1, <2>2 DEF OwnRun, TypeOK
  <2>4. req[q].run \in Runs /\ req[q].version = req[q].run /\ req[q].run <= issued
    BY <1>1, <2>1 DEF OwnRun
  <2>5. \A r \in Runs : flow'[r] # NoFlow => flow'[r].version = r /\ r <= issued
    BY <2>1, <2>4 DEF OwnRun, TypeOK
  <2>6. QED
    BY <2>1, <2>2, <2>3, <2>5 DEF OwnRun
<1>5. ~ RetryRead(q)
  BY DEF RetryRead
<1>6. ~ (ResetJob(q) \/ ResetVersion(q) \/ ResetDocument(q))
  BY DEF ResetJob, ResetVersion, ResetDocument, OwnRun, Pending, ReqPc
<1>7. QED
  BY <1>2, <1>3, <1>4, <1>5, <1>6 DEF Web

\* Every step of a stage after its delivery is one of these.
LEMMA StageMoves ==
  ASSUME TypeOK, NEW s \in Stages, Stage(s) \/ StageFails(s), ~ Take(s)
  PROVE  work[s].pc # "idle" /\ (Keeps(s) \/ Finish(s) \/ Fail(s))
<1> USE DEF WorkPc
<1>1. CASE Begin(s) \/ UpdateJob(s) \/ UpdateVersion(s)
  <2>1. work[s].pc # "idle"
    BY <1>1 DEF Begin, UpdateJob, UpdateVersion
  <2>2. Fail(s) \/ \E label \in WorkPc : Goto(s, label) /\ UNCHANGED flow
    BY <1>1 DEF Begin, UpdateJob, UpdateVersion
  <2>3. QED
    BY <2>1, <2>2, GotoKeeps
<1>2. CASE Body(s)
  <2>1. work[s].pc # "idle"
    BY <1>2 DEF Body
  <2>2. Fail(s) \/ Finish(s) \/ (Goto(s, "delete") /\ UNCHANGED flow)
    BY <1>2 DEF Body
  <2>3. QED
    BY <2>1, <2>2, GotoKeeps
<1>3. CASE Return(s) \/ StageFails(s)
  BY <1>3 DEF Return, StageFails
<1>4. CASE s = "chunk" /\ ChunkDelete
  <2>1. PICK next \in {"insert", "return"} : Goto("chunk", next)
    BY <1>4 DEF ChunkDelete
  <2>2. QED
    BY <1>4, <2>1, GotoKeeps DEF ChunkDelete
<1>5. CASE s = "chunk" /\ ChunkInsert
  <2> DEFINE me == <<work["chunk"].run, work["chunk"].delivery>>
             left == {b \in Batches : <<me, b>> \notin work["chunk"].seen}
  <2>1. work["chunk"].pc = "insert" /\ work["chunk"] \in Busy
    BY <1>5, BusyType DEF ChunkInsert
  <2>2. CASE Fail("chunk")
    BY <1>5, <2>1, <2>2
  <2>3. CASE UNCHANGED flow /\ \E b \in left : work' = [work EXCEPT
               !["chunk"].seen = @ \cup {<<me, b>>},
               !["chunk"].pc = IF left = {b} THEN "return" ELSE @]
    <3>1. PICK b \in left : work' = [work EXCEPT
               !["chunk"].seen = @ \cup {<<me, b>>},
               !["chunk"].pc = IF left = {b} THEN "return" ELSE @]
      BY <2>3
    <3> DEFINE next == IF left = {b} THEN "return" ELSE work["chunk"].pc
               n == [work["chunk"] EXCEPT !.seen = @ \cup {<<me, b>>}, !.pc = next]
    <3>2. <<me, b>> \in Chunk /\ next \in WorkPc
      BY <2>1 DEF Busy, Chunk, Deliveries
    <3>3. n \in Busy /\ n.run = work["chunk"].run
      BY <2>1, <3>2 DEF Busy
    <3>4. work' = [work EXCEPT !["chunk"] = n]
      BY <1>5, <3>1 DEF TypeOK
    <3>5. QED
      BY <1>5, <2>1, <2>3, <3>3, <3>4 DEF Keeps
  <2>4. QED
    BY <1>5, <2>2, <2>3 DEF ChunkInsert
<1>6. CASE s = "index" /\ (IndexRead \/ IndexClear \/ IndexUpsert)
  <2>1. work["index"].pc # "idle" /\ UNCHANGED flow
    BY <1>6 DEF IndexRead, IndexClear, IndexUpsert
  <2>2. work["index"] \in Busy /\ Mine("index") \in Versions
    BY <1>6, <2>1, BusyType
  <2>3. PICK next \in WorkPc, seen \in SUBSET Chunk :
          work' = [work EXCEPT !["index"].seen = seen, !["index"].pc = next]
    <3>1. CASE IndexRead
      <4>1. chunks[Mine("index")] \in SUBSET Chunk
        BY <2>2 DEF TypeOK
      <4>2. QED
        BY <3>1, <4>1 DEF IndexRead
    <3>2. CASE work' = AfterUpsert
      <4>1. work' = [work EXCEPT !["index"].seen = {}, !["index"].pc = "version_ready"]
        BY <3>2 DEF AfterUpsert
      <4>2. QED
        BY <4>1
    <3>3. CASE IndexClear /\ work' = [work EXCEPT !["index"].pc = "upsert"]
      <4>1. work' = [work EXCEPT !["index"].seen = work["index"].seen,
                                 !["index"].pc = "upsert"]
        BY <2>2, <3>3 DEF Busy
      <4>2. QED
        BY <2>2, <4>1 DEF Busy
    <3>4. CASE IndexUpsert /\ \E c : work' = [work EXCEPT !["index"].seen = @ \ {c}]
      <4>1. PICK c : work' = [work EXCEPT !["index"].seen = @ \ {c}]
        BY <3>4
      <4>2. work' = [work EXCEPT !["index"].seen = work["index"].seen \ {c},
                                 !["index"].pc = work["index"].pc]
        BY <2>2, <4>1 DEF Busy
      <4>3. QED
        BY <2>2, <4>2 DEF Busy
    <3>5. QED
      BY <1>6, <3>1, <3>2, <3>3, <3>4 DEF IndexClear, IndexUpsert
  <2> DEFINE n == [work["index"] EXCEPT !.seen = seen, !.pc = next]
  <2>4. n \in Busy /\ n.run = work["index"].run
    BY <2>2, <2>3 DEF Busy
  <2>5. work' = [work EXCEPT !["index"] = n]
    BY <2>3
  <2>6. QED
    BY <1>6, <2>1, <2>4, <2>5 DEF Keeps
<1>7. CASE s = "index" /\ (IndexVersionReady \/ IndexDocumentReady \/ IndexJobDone
                            \/ IndexVersionDone)
  <2>1. work[s].pc # "idle"
    BY <1>7 DEF IndexVersionReady, IndexDocumentReady, IndexJobDone, IndexVersionDone
  <2>2. \E label \in WorkPc : Goto(s, label) /\ UNCHANGED flow
    BY <1>7 DEF IndexVersionReady, IndexDocumentReady, IndexJobDone, IndexVersionDone
  <2>3. QED
    BY <2>1, <2>2, GotoKeeps
<1>8. QED
  BY <1>1, <1>2, <1>3, <1>4, <1>5, <1>6, <1>7 DEF Stage, ChunkRows, Index

\* A worker lets go of its run: the flow stays, dies, or goes to the next stage.
Leaves(s) ==
  /\ work[s].pc # "idle" /\ work' = [work EXCEPT ![s] = NoWork]
  /\ \E f \in Live :
       /\ flow' = [flow EXCEPT ![work[s].run] = f]
       /\ f.version = flow[work[s].run].version /\ ~ f.held
       /\ \/ f.stage \in {flow[work[s].run].stage, "dead"}
          \/ flow[work[s].run].held /\ f.stage = NextStage(s, mode[Mine(s)])

LEMMA FinishLeaves ==
  ASSUME TypeOK, NEW s \in Stages, work[s].pc # "idle", Finish(s)
  PROVE  Leaves(s)
<1> DEFINE r == work[s].run
           g == [flow[r] EXCEPT !.held = FALSE, !.stalls = 0]
           f == [flow[r] EXCEPT !.held = FALSE, !.stalls = 0,
                                !.stage = NextStage(s, mode[Mine(s)])]
<1>1. r \in Runs /\ flow[r] \in Live
  BY BusyType DEF Busy
<1>2. CASE flow[r].held
  <2>1. f \in Live
    BY <1>1, NextStageType, FinishedFlow
  <2>2. flow' = [flow EXCEPT ![r] = f]
    BY <1>2 DEF Finish
  <2>3. f.version = flow[r].version /\ ~ f.held
    BY <1>1 DEF Live
  <2>4. f.stage = NextStage(s, mode[Mine(s)])
    BY <1>1 DEF Live
  <2>5. QED
    BY <1>2, <2>1, <2>2, <2>3, <2>4 DEF Finish, Leaves
<1>3. CASE ~ flow[r].held
  <2>1. flow' = [flow EXCEPT ![r] = flow[r]]
    BY <1>3 DEF Finish, TypeOK
  <2>2. QED
    BY <1>1, <1>3, <2>1 DEF Finish, Leaves
<1>4. QED
  BY <1>2, <1>3

LEMMA FailLeaves ==
  ASSUME TypeOK, NEW s \in Stages, work[s].pc # "idle", Fail(s)
  PROVE  /\ Leaves(s)
         /\ flow'[work[s].run].stage \in {flow[work[s].run].stage, "dead"}
<1> DEFINE r == work[s].run
           f == [flow[r] EXCEPT !.stage = "dead", !.held = FALSE]
<1>1. r \in Runs /\ flow[r] \in Live
  BY BusyType DEF Busy
<1>2. CASE flow[r].held
  <2>1. f \in Live /\ f.version = flow[r].version /\ f.stage = "dead" /\ ~ f.held
    BY <1>1 DEF Live
  <2>2. flow' = [flow EXCEPT ![r] = f]
    BY <1>2 DEF Fail
  <2>3. QED
    BY <1>1, <2>1, <2>2 DEF Fail, Leaves, TypeOK
<1>3. CASE ~ flow[r].held
  <2>1. flow' = [flow EXCEPT ![r] = flow[r]]
    BY <1>3 DEF Fail, TypeOK
  <2>2. QED
    BY <1>1, <1>3, <2>1 DEF Fail, Leaves, TypeOK
<1>4. QED
  BY <1>2, <1>3

\* Keeping or letting go of a run breaks neither invariant.
LEMMA KeepsStructure ==
  ASSUME TypeOK, OwnRun, Delivered, NEW s \in Stages, Keeps(s),
         UNCHANGED <<issued, latest, req>>
  PROVE  OwnRun' /\ Delivered'
<1>1. PICK n \in Busy : n.run = work[s].run /\ work' = [work EXCEPT ![s] = n]
  BY DEF Keeps
<1>2. OwnRun'
  BY OwnRunKept DEF Keeps
<1>3. work[s] # NoWork /\ n # NoWork
  BY BusyIsNotNoWork DEF Keeps, NoWork
<1>4. ASSUME NEW x \in Stages
      PROVE  work'[x].run = work[x].run /\ (work'[x] # NoWork <=> work[x] # NoWork)
  BY <1>1, <1>3 DEF TypeOK
<1>5. \A x \in Stages : \A r : On(x, r)' <=> On(x, r)
  BY <1>4 DEF On
<1>6. QED
  BY <1>2, <1>4, <1>5 DEF Delivered, DeliveredOnce, Keeps

LEMMA LeavesStructure ==
  ASSUME TypeOK, OwnRun, Delivered, NEW s \in Stages, Leaves(s),
         UNCHANGED <<issued, latest, req>>
  PROVE  OwnRun' /\ Delivered'
<1> DEFINE r == work[s].run
<1>1. PICK f \in Live : /\ flow' = [flow EXCEPT ![r] = f]
                        /\ f.version = flow[r].version /\ ~ f.held
  BY DEF Leaves
<1>2. r \in Runs /\ flow[r] # NoFlow /\ f # NoFlow /\ work[s] # NoWork
  BY BusyType, LiveIsNotNoFlow DEF Leaves, Busy, NoWork
<1>3. OwnRun'
  BY <1>1, <1>2, OwnRunKept DEF TypeOK
<1>4. ASSUME NEW x \in Stages, work'[x] # NoWork
      PROVE  work'[x] = work[x] /\ x # s
  BY <1>4 DEF Leaves, TypeOK
<1>5. ASSUME NEW x \in Stages, work'[x] # NoWork
      PROVE  work[x].run # r /\ work[x].run \in Runs
  BY <1>2, <1>4, <1>5 DEF Delivered, DeliveredOnce, On, TypeOK, Work
<1>6. ASSUME NEW x \in Stages, work'[x] # NoWork
      PROVE  flow'[work'[x].run] = flow[work[x].run]
  BY <1>1, <1>4, <1>5, <1>6 DEF TypeOK
<1>7. \A x \in Runs : flow'[x].stage = "dead" => ~ flow'[x].held
  BY <1>1, <1>2 DEF Delivered, TypeOK
<1>8. QED
  BY <1>3, <1>4, <1>6, <1>7 DEF Delivered, DeliveredOnce, On

LEMMA TakeStructure ==
  ASSUME TypeOK, OwnRun, Delivered, NEW s \in Stages, Take(s)
  PROVE  OwnRun' /\ Delivered'
<1> USE DEF rows
<1>1. PICK r \in Runs : /\ flow[r].stage = s
        /\ flow' = [flow EXCEPT ![r].held = TRUE]
        /\ work' = [work EXCEPT ![s] = [run |-> r, delivery |-> flow[r].stalls, seen |-> {},
             pc |-> IF s \in {"parse", "chunk"} THEN "job" ELSE "begin"]]
  BY DEF Take
<1> DEFINE f == [flow[r] EXCEPT !.held = TRUE]
<1>2. flow[r] \in Live
  BY <1>1 DEF TypeOK, Flow, NoFlow, Stages, Live
<1>3. f \in Live /\ f.version = flow[r].version /\ f.stage = s
  BY <1>1, <1>2 DEF Live
<1>4. flow' = [flow EXCEPT ![r] = f]
  BY <1>1
<1>5. OwnRun'
  BY <1>2, <1>3, <1>4, OwnRunKept, LiveIsNotNoFlow DEF Take, TypeOK
<1>6. ASSUME NEW x \in Stages, x # s, work[x] # NoWork
      PROVE  work[x].run # r /\ work[x].run \in Runs
  BY <1>1, <1>6 DEF Delivered, DeliveredOnce, TypeOK, Work, Stages
<1>7. work'[s].run = r /\ \A x \in Stages : x # s => work'[x] = work[x]
  BY <1>1 DEF TypeOK
<1>8. flow'[r].stage = s
  BY <1>3, <1>4 DEF TypeOK
<1>9. ASSUME NEW x \in Stages, x # s, work[x] # NoWork
      PROVE  flow'[work[x].run] = flow[work[x].run]
  BY <1>4, <1>6, <1>9 DEF TypeOK
<1>10. \A x \in Runs : flow'[x].stage = "dead" => ~ flow'[x].held
  BY <1>3, <1>4 DEF Delivered, TypeOK, Stages
<1>11. QED
  BY <1>5, <1>6, <1>7, <1>8, <1>9, <1>10 DEF Delivered, DeliveredOnce, On

LEMMA StructureNext ==
  ASSUME TypeOK, OwnRun, Delivered, "retry" \notin Env, [Next]_vars
  PROVE  OwnRun' /\ Delivered'
<1> USE DEF rows, worker
<1>1. ASSUME NEW q \in Requests, Web(q) PROVE Delivered'
  <2>1. UNCHANGED work
    BY <1>1 DEF Web, Upload, UploadDocument, UploadJob, Enqueue, EnqueueFails,
       RetryRead, ResetJob, ResetVersion, ResetDocument, DeletePoints, DeleteRow
  <2>2. \A r \in Runs : flow[r] # NoFlow => flow'[r] = flow[r]
    <3>1. CASE Enqueue(q)
      <4>1. flow[req[q].run] = NoFlow
        BY <3>1 DEF OwnRun, Pending, Enqueue, ReqPc
      <4>2. QED
        BY <3>1, <4>1 DEF Enqueue, TypeOK
    <3>2. CASE ~ Enqueue(q)
      BY <1>1, <3>2 DEF Web, Upload, UploadDocument, UploadJob, EnqueueFails,
         RetryRead, ResetJob, ResetVersion, ResetDocument, DeletePoints, DeleteRow
    <3>3. QED
      BY <3>1, <3>2
  <2>3. \A x \in Stages : work[x] # NoWork => flow'[work[x].run] = flow[work[x].run]
    BY <2>2 DEF TypeOK, Work
  <2>4. \A r \in Runs : flow'[r].stage = "dead" => ~ flow'[r].held
    BY <1>1 DEF Web, Upload, UploadDocument, UploadJob, Enqueue, EnqueueFails,
       RetryRead, ResetJob, ResetVersion, ResetDocument, DeletePoints, DeleteRow,
       Delivered, TypeOK
  <2>5. QED
    BY <2>1, <2>3, <2>4 DEF Delivered, DeliveredOnce, On
<1>2. ASSUME NEW s \in Stages, Stage(s) \/ StageFails(s), ~ Take(s)
      PROVE  OwnRun' /\ Delivered'
  <2>1. UNCHANGED <<issued, latest, req>>
    BY <1>2 DEF Stage, Begin, UpdateJob, UpdateVersion, Body, Return, StageFails,
       ChunkRows, ChunkDelete, ChunkInsert, Index, IndexRead, IndexClear,
       IndexUpsert, IndexVersionReady, IndexDocumentReady, IndexJobDone,
       IndexVersionDone
  <2>2. work[s].pc # "idle" /\ (Keeps(s) \/ Finish(s) \/ Fail(s))
    BY <1>2, StageMoves
  <2>3. Keeps(s) \/ Leaves(s)
    BY <2>2, FinishLeaves, FailLeaves
  <2>4. QED
    BY <2>1, <2>3, KeepsStructure, LeavesStructure
<1>3. ASSUME NEW r \in Runs, Handler(r) PROVE OwnRun' /\ Delivered'
  <2>1. UNCHANGED <<issued, latest, req, flow, work>>
    BY <1>3 DEF Handler, HandlerJob, HandlerVersion, HandlerDocument
  <2>2. QED
    BY <2>1, OwnRunKept DEF Delivered, DeliveredOnce, On
<1>4. ASSUME NEW r \in Runs, Stalled(r) PROVE OwnRun' /\ Delivered'
  <2>1. flow[r] \in Live
    BY <1>4, StalledFlow
  <2>2. PICK f \in Live : /\ flow' = [flow EXCEPT ![r] = f]
                          /\ f.version = flow[r].version
                          /\ f.stage \in {flow[r].stage, "dead"} /\ ~ f.held
    BY <1>4, StalledFlow
  <2>3. OwnRun'
    BY <1>4, <2>1, <2>2, OwnRunKept, LiveIsNotNoFlow DEF Stalled, TypeOK
  <2>4. \A x \in Runs : /\ flow'[x].stage \in {flow[x].stage, "dead"}
                        /\ flow'[x].stage = "dead" => ~ flow'[x].held
    BY <2>2 DEF TypeOK, Delivered
  <2>5. \A x \in Stages : work[x] # NoWork => work[x].run \in Runs
    BY DEF TypeOK, Work
  <2>6. QED
    BY <1>4, <2>3, <2>4, <2>5 DEF Delivered, DeliveredOnce, On, Stalled
<1>5. CASE Crash
  <2>1. UNCHANGED <<issued, latest, req, flow>> /\ \A x \in Stages : work'[x] = NoWork
    BY <1>5 DEF Crash
  <2>2. QED
    BY <2>1, OwnRunKept DEF Delivered, DeliveredOnce
<1>6. CASE Restart \/ UNCHANGED vars
  <2>1. UNCHANGED <<issued, latest, req, flow, work>>
    BY <1>6 DEF Restart, vars
  <2>2. QED
    BY <2>1, OwnRunKept DEF Delivered, DeliveredOnce, On
<1>7. ASSUME NEW s \in Stages, Take(s) PROVE OwnRun' /\ Delivered'
  BY <1>7, TakeStructure
<1>8. QED
  BY <1>1, <1>2, <1>3, <1>4, <1>5, <1>6, <1>7, OwnRunWeb DEF Next, Stage

-----------------------------------------------------------------------------
(* The rows and the points.                                                *)

\* The flow of run r is about version r, and so is a worker on it.
LEMMA OwnVersion ==
  ASSUME TypeOK, OwnRun, NEW r \in Runs, flow[r] # NoFlow
  PROVE  r \in Versions /\ flow[r].version = r
<1>1. flow[r] \in [version : Versions, stage : Stages \cup {"done", "dead"},
                   held : BOOLEAN, stalls : 0 .. 1]
  BY DEF TypeOK, Flow
<1>2. QED
  BY <1>1 DEF OwnRun

LEMMA MineIsRun ==
  ASSUME TypeOK, OwnRun, NEW s \in Stages, work[s] # NoWork
  PROVE  /\ work[s].run \in Runs /\ work[s].run \in Versions
         /\ Mine(s) = work[s].run /\ work[s].pc # "idle"
         /\ flow[work[s].run] # NoFlow
<1>1. work[s] \in Busy
  BY DEF TypeOK, Work, Busy
<1>2. work[s].run \in Runs /\ work[s].pc # "idle" /\ flow[work[s].run] # NoFlow
  BY <1>1 DEF TypeOK, Busy, WorkPc
<1>3. QED
  BY <1>2, OwnVersion DEF Mine

LEMMA NotIdle ==
  ASSUME NEW s, work[s].pc # "idle"
  PROVE  work[s] # NoWork
BY DEF NoWork

\* A deleted document is not there again.
LEMMA DeletingStable ==
  ASSUME TypeOK, Deleting, [Next]_vars
  PROVE  Deleting'
<1> USE DEF rows, worker
<1>1. ASSUME doc = "deleted" PROVE doc' = "deleted"
  BY <1>1 DEF Next, Web, Upload, UploadDocument, UploadJob, Enqueue, EnqueueFails,
     RetryRead, ResetJob, ResetVersion, ResetDocument, DeletePoints, DeleteRow,
     Stage, Take, Begin, UpdateJob, UpdateVersion, Body, Return, StageFails,
     ChunkRows, ChunkDelete, ChunkInsert, Index, IndexRead, IndexClear,
     IndexUpsert, IndexVersionReady, IndexDocumentReady, IndexJobDone,
     IndexVersionDone, Handler, HandlerJob, HandlerVersion, HandlerDocument,
     Stalled, Crash, Restart, SetDoc, vars
<1>2. ASSUME NEW q \in Requests, req[q].pc = "delete_row"
      PROVE  doc' = "deleted" \/ req'[q] = req[q]
  <2>1. ASSUME NEW p \in Requests, Web(p)
        PROVE  doc' = "deleted" \/ req'[q] = req[q]
    <3>1. CASE p = q
      BY <1>2, <2>1, <3>1 DEF Web, Upload, UploadDocument, UploadJob, Enqueue,
         EnqueueFails, RetryRead, ResetJob, ResetVersion, ResetDocument,
         DeletePoints, DeleteRow
    <3>2. CASE p # q
      BY <2>1, <3>2 DEF Web, Upload, UploadDocument, UploadJob, Enqueue,
         EnqueueFails, RetryRead, ResetJob, ResetVersion, ResetDocument,
         DeletePoints, DeleteRow, Respond, TypeOK
    <3>3. QED
      BY <3>1, <3>2
  <2>2. ASSUME ~ \E p \in Requests : Web(p) PROVE UNCHANGED req
    BY <2>2 DEF Next, Stage, Take, Begin, UpdateJob, UpdateVersion, Body, Return,
       StageFails, ChunkRows, ChunkDelete, ChunkInsert, Index, IndexRead,
       IndexClear, IndexUpsert, IndexVersionReady, IndexDocumentReady,
       IndexJobDone, IndexVersionDone, Handler, HandlerJob, HandlerVersion,
       HandlerDocument, Stalled, Crash, Restart, vars
  <2>3. QED
    BY <2>1, <2>2
<1>3. QED
  BY <1>1, <1>2 DEF Deleting

\* A step that writes neither chunks nor points, completes no job, and whose
\* workers stay or leave.
LEMMA Frame ==
  ASSUME TypeOK, OwnRun, Delivered, Data, UNCHANGED <<chunks, points>>,
         \A r \in Runs : flow[r] # NoFlow => mode'[r] = mode[r],
         \A v \in Versions : job'[v] = "completed" => job[v] = "completed",
         \A r \in Runs :
           /\ flow'[r].stage \in {"embed", "index", "done"} =>
                flow[r].stage \in {"embed", "index", "done"} \/ Whole(r)
           /\ flow[r].stage \in {"index", "done", "dead"} =>
                flow'[r].stage \in {"index", "done", "dead"},
         \A s \in {"chunk", "index"} : work'[s] \in {work[s], NoWork},
         work'["embed"] # NoWork => Whole(work'["embed"].run)
  PROVE  Data'
<1>1. {"chunk", "embed", "index"} \subseteq Stages
  BY DEF Stages
<1>2. \A r : Whole(r)' <=> Whole(r)
  BY DEF Whole
<1>3. \A r \in Runs : flow[r] # NoFlow => (Expected(r)' = Expected(r))
  BY DEF Expected
<1>4. ChunksWhole'
  <2>1. work'["index"] # NoWork => Whole(work'["index"].run)
    BY DEF Data, ChunksWhole
  <2>2. QED
    BY <1>2, <2>1 DEF Data, ChunksWhole
<1>5. ChunksBuilt'
  BY <1>2 DEF Data, ChunksBuilt, NoWork
<1>6. PointsFollow'
  <2>1. CASE work'["index"] = NoWork
    BY <2>1 DEF PointsFollow, NoWork, Written
  <2>2. CASE work'["index"] # NoWork
    <3>1. work'["index"] = work["index"] /\ work["index"] # NoWork
      BY <2>2
    <3>2. work["index"].run \in Runs /\ flow[work["index"].run] # NoFlow
      BY <1>1, <3>1, MineIsRun
    <3>3. mode'[work["index"].run] = mode[work["index"].run]
      BY <3>2
    <3>4. QED
      BY <3>1, <3>3 DEF Data, PointsFollow, Expected
  <2>3. QED
    BY <2>1, <2>2
<1>7. ASSUME NEW v \in Versions, job'[v] = "completed"
      PROVE  /\ v \in Runs /\ flow'[v].stage \in {"index", "done", "dead"}
             /\ Whole(v)' /\ points'[v] = Expected(v)'
             /\ ~ On("chunk", v)'
             /\ On("index", v)' =>
                  \/ work'["index"].pc \in {"begin", "job"} \cup Written
                  \/ work'["index"].pc = "clear" /\ mode'[v] = "parse_only"
  <2>1. /\ v \in Runs /\ flow[v].stage \in {"index", "done", "dead"}
        /\ Whole(v) /\ points[v] = Expected(v)
        /\ ~ On("chunk", v)
        /\ On("index", v) =>
             \/ work["index"].pc \in {"begin", "job"} \cup Written
             \/ work["index"].pc = "clear" /\ mode[v] = "parse_only"
    BY <1>7 DEF Data, Completed
  <2>2. flow[v] # NoFlow
    BY <2>1 DEF NoFlow
  <2>3. mode'[v] = mode[v] /\ Expected(v)' = Expected(v)
    BY <1>3, <2>1, <2>2
  <2>4. ~ On("chunk", v)'
    BY <2>1 DEF On
  <2>5. On("index", v)' => On("index", v) /\ work'["index"] = work["index"]
    BY DEF On
  <2>6. QED
    BY <1>2, <2>1, <2>3, <2>4, <2>5
<1>8. Completed'
  BY <1>7 DEF Completed, Written
<1>9. QED
  BY <1>4, <1>5, <1>6, <1>8 DEF Data

\* The chunk worker writes the chunks of its own version, whose job is not
\* completed.
LEMMA ChunkStep ==
  ASSUME TypeOK, OwnRun, Delivered, Data, work["chunk"] # NoWork,
         NEW n, work' = [work EXCEPT !["chunk"] = n], n.run = work["chunk"].run,
         UNCHANGED <<flow, points, mode>>,
         \A v \in Versions : v # work["chunk"].run => chunks'[v] = chunks[v],
         \A v \in Versions : job'[v] = "completed" => job[v] = "completed",
         ChunksBuilt'
  PROVE  Data'
<1> DEFINE r == work["chunk"].run
<1>1. "chunk" \in Stages /\ "embed" \in Stages /\ "index" \in Stages
  BY DEF Stages
<1>2. r \in Runs /\ flow[r].stage \in {"chunk", "dead"}
  BY <1>1, MineIsRun DEF Delivered, DeliveredOnce
<1>3. \A x \in Stages : x # "chunk" => work'[x] = work[x]
  BY DEF TypeOK
<1>4. work'["chunk"].run = r
  BY <1>1 DEF TypeOK
<1>5. \A s \in {"embed", "index"} : work[s] # NoWork => work[s].run # r
  BY <1>1 DEF Delivered, DeliveredOnce, On
<1>6. ASSUME NEW v \in Versions, v # r
      PROVE  (Whole(v)' <=> Whole(v)) /\ Expected(v)' = Expected(v)
  BY <1>6 DEF Whole, Expected
<1>7. ASSUME NEW s \in {"embed", "index"}, work[s] # NoWork
      PROVE  /\ work[s].run \in Versions /\ work[s].run # r
  BY <1>1, <1>5, <1>7, MineIsRun
<1>8. ChunksWhole'
  <2>1. ASSUME NEW x \in Runs, flow[x].stage \in {"embed", "index", "done"}
        PROVE  Whole(x)'
    <3>1. flow[x] # NoFlow /\ x # r
      BY <1>2, <2>1 DEF NoFlow
    <3>2. x \in Versions
      BY <3>1, OwnVersion
    <3>3. QED
      BY <1>6, <2>1, <3>1, <3>2 DEF Data, ChunksWhole
  <2>2. ASSUME NEW s \in {"embed", "index"}, work'[s] # NoWork
        PROVE  chunks'[work'[s].run] \in WholeRows(work'[s].run)
    <3>1. work'[s] = work[s] /\ s \in Stages
      BY <1>1, <1>3
    <3>2. chunks[work[s].run] \in WholeRows(work[s].run)
      BY <2>2, <3>1 DEF Data, ChunksWhole, Whole
    <3>3. QED
      BY <1>7, <2>2, <3>1, <3>2
  <2>3. QED
    BY <2>1, <2>2 DEF ChunksWhole, Whole
<1>9. PointsFollow'
  <2>1. work'["index"] = work["index"]
    BY <1>1, <1>3
  <2>2. CASE work["index"] = NoWork
    BY <2>1, <2>2 DEF PointsFollow, NoWork, Written
  <2>3. CASE work["index"] # NoWork
    BY <1>6, <1>7, <2>1, <2>3 DEF Data, PointsFollow
  <2>4. QED
    BY <2>2, <2>3
<1>10. ASSUME NEW v \in Versions, job[v] = "completed" PROVE v # r
  BY <1>10 DEF Data, Completed, On
<1>11. \A v : On("index", v)' <=> On("index", v)
  BY <1>1, <1>3 DEF On
<1>12. \A v : On("chunk", v)' => v = r
  BY <1>4 DEF On
<1>13. Completed'
  BY <1>1, <1>3, <1>6, <1>10, <1>11, <1>12 DEF Data, Completed
<1>14. QED
  BY <1>8, <1>9, <1>13 DEF Data

\* The index worker writes the points of its own version.
LEMMA IndexStep ==
  ASSUME TypeOK, OwnRun, Delivered, Data, work["index"] # NoWork,
         NEW n, work' = [work EXCEPT !["index"] = n], n.run = work["index"].run,
         n # NoWork,
         UNCHANGED <<flow, chunks, mode>>,
         \A v \in Versions : v # work["index"].run =>
           /\ points'[v] = points[v]
           /\ job'[v] = "completed" => job[v] = "completed",
         PointsFollow',
         job'[n.run] = "completed" =>
           /\ points'[n.run] = Expected(n.run)
           /\ \/ n.pc \in {"begin", "job"} \cup Written
              \/ n.pc = "clear" /\ mode[n.run] = "parse_only"
  PROVE  Data'
<1> DEFINE r == work["index"].run
<1>1. "chunk" \in Stages /\ "embed" \in Stages /\ "index" \in Stages
  BY DEF Stages
<1>2. r \in Runs /\ r \in Versions /\ flow[r].stage \in {"index", "dead"}
  BY <1>1, MineIsRun DEF Delivered, DeliveredOnce
<1>3. \A x \in Stages : x # "index" => work'[x] = work[x]
  BY DEF TypeOK
<1>4. work'["index"] = n
  BY <1>1 DEF TypeOK
<1>5. \A v : (Whole(v)' <=> Whole(v)) /\ Expected(v)' = Expected(v)
  BY DEF Whole, Expected
<1>6. Whole(r)
  BY DEF Data, ChunksWhole
<1>7. ChunksWhole'
  <2>1. \A x \in Runs : flow'[x].stage \in {"embed", "index", "done"} => Whole(x)'
    BY <1>5 DEF Data, ChunksWhole
  <2>2. work'["embed"] = work["embed"] /\ work'["index"].run = work["index"].run
    BY <1>1, <1>3, <1>4
  <2>3. QED
    BY <1>6, <2>1, <2>2 DEF Data, ChunksWhole, Whole
<1>8. ChunksBuilt'
  BY <1>1, <1>3, <1>5 DEF Data, ChunksBuilt
<1>9. ~ On("chunk", r)
  BY <1>1 DEF Delivered, DeliveredOnce, On
<1>10. \A v : (On("chunk", v)' <=> On("chunk", v)) /\ (On("index", v)' => v = r)
  BY <1>1, <1>3, <1>4 DEF On
<1>11. Completed'
  <2>1. ASSUME NEW v \in Versions, job'[v] = "completed"
        PROVE  /\ v \in Runs /\ flow'[v].stage \in {"index", "done", "dead"}
               /\ Whole(v)' /\ points'[v] = Expected(v)'
               /\ ~ On("chunk", v)'
               /\ On("index", v)' =>
                    \/ work'["index"].pc \in {"begin", "job"} \cup Written
                    \/ work'["index"].pc = "clear" /\ mode'[v] = "parse_only"
    <3>1. CASE v = r
      BY <1>2, <1>4, <1>5, <1>6, <1>9, <1>10, <2>1, <3>1
    <3>2. CASE v # r
      BY <1>5, <1>10, <2>1, <3>2 DEF Data, Completed
    <3>3. QED
      BY <3>1, <3>2
  <2>2. QED
    BY <2>1 DEF Completed, Written
<1>12. QED
  BY <1>7, <1>8, <1>11 DEF Data
\* What a finished stage leaves behind, and what a failed one does.
LEMMA LeavesData ==
  ASSUME TypeOK, OwnRun, Delivered, Data, NEW s \in Stages, Leaves(s),
         UNCHANGED <<rows, points>>,
         \/ flow'[work[s].run].stage \in {flow[work[s].run].stage, "dead"}
         \/ s = "parse"
         \/ Whole(work[s].run)
  PROVE  Data'
<1> USE DEF rows
<1> DEFINE r == work[s].run
<1>1. PICK f \in Live :
        /\ flow' = [flow EXCEPT ![r] = f]
        /\ \/ f.stage \in {flow[r].stage, "dead"}
           \/ flow[r].held /\ f.stage = NextStage(s, mode[Mine(s)])
  BY DEF Leaves
<1>2. work[s] # NoWork /\ r \in Runs /\ flow[r].stage \in {s, "dead"}
  <2>1. work[s] # NoWork
    BY NotIdle DEF Leaves
  <2>2. QED
    BY <2>1, MineIsRun DEF Delivered, DeliveredOnce
<1>3. flow'[r] = f /\ \A x \in Runs : x # r => flow'[x] = flow[x]
  BY <1>1, <1>2 DEF TypeOK
<1>4. flow[r].held => flow[r].stage = s
  BY <1>2 DEF Delivered
<1>5. f.stage \in {"embed", "index", "done"} =>
        flow[r].stage \in {"embed", "index", "done"} \/ Whole(r)
  <2>1. CASE f.stage \in {flow[r].stage, "dead"} \/ Whole(r)
    BY <2>1
  <2>2. CASE f.stage \notin {flow[r].stage, "dead"} /\ s = "parse"
    BY <1>1, <2>2 DEF NextStage
  <2>3. QED
    BY <1>3, <2>1, <2>2
<1>6. flow[r].stage \in {"index", "done", "dead"} =>
        f.stage \in {"index", "done", "dead"}
  <2>1. CASE f.stage \in {flow[r].stage, "dead"}
    BY <2>1
  <2>2. CASE flow[r].held /\ f.stage = NextStage(s, mode[Mine(s)])
    BY <1>4, <2>2 DEF NextStage, Stages
  <2>3. QED
    BY <1>1, <2>1, <2>2
<1>7. \A x \in Stages : work'[x] \in {work[x], NoWork}
  BY DEF Leaves, TypeOK
<1>8. \A x \in {"chunk", "index"} : work'[x] \in {work[x], NoWork}
  BY <1>7 DEF Stages
<1>9. work'["embed"] # NoWork => Whole(work'["embed"].run)
  <2>1. work'["embed"] \in {work["embed"], NoWork}
    BY <1>7 DEF Stages
  <2>2. QED
    BY <2>1 DEF Data, ChunksWhole
<1>10. ASSUME NEW x \in Runs
       PROVE  /\ flow'[x].stage \in {"embed", "index", "done"} =>
                   flow[x].stage \in {"embed", "index", "done"} \/ Whole(x)
              /\ flow[x].stage \in {"index", "done", "dead"} =>
                   flow'[x].stage \in {"index", "done", "dead"}
  BY <1>3, <1>5, <1>6
<1>11. QED
  BY <1>8, <1>9, <1>10, Frame

LEMMA FailData ==
  ASSUME TypeOK, OwnRun, Delivered, Data, NEW s \in Stages, work[s].pc # "idle",
         Fail(s), UNCHANGED <<rows, points>>
  PROVE  Data'
BY FailLeaves, LeavesData

LEMMA FinishData ==
  ASSUME TypeOK, OwnRun, Delivered, Data, NEW s \in Stages, work[s].pc # "idle",
         Finish(s), s = "chunk" => work[s].pc = "return", UNCHANGED <<rows, points>>
  PROVE  Data'
<1>1. CASE s = "parse"
  BY <1>1, FinishLeaves, LeavesData
<1>2. CASE s = "chunk"
  BY <1>2, FinishLeaves, LeavesData DEF Data, ChunksBuilt
<1>3. CASE s \in {"embed", "index"}
  <2>1. Whole(work[s].run)
    BY <1>3, NotIdle DEF Data, ChunksWhole
  <2>2. QED
    BY <1>3, <2>1, FinishLeaves, LeavesData
<1>4. QED
  BY <1>1, <1>2, <1>3 DEF Stages

\* A worker of parse or embed goes on: nothing anyone relies on changes.
LEMMA OtherData ==
  ASSUME TypeOK, OwnRun, Delivered, Data, NEW s \in {"parse", "embed"}, Keeps(s),
         UNCHANGED <<mode, chunks, points>>,
         \A v \in Versions : job'[v] = "completed" => job[v] = "completed"
  PROVE  Data'
<1>1. PICK n \in Busy : n.run = work[s].run /\ work' = [work EXCEPT ![s] = n]
  BY DEF Keeps
<1>2. s \in Stages /\ {"chunk", "embed", "index"} \subseteq Stages
  BY DEF Stages
<1>3. \A x \in {"chunk", "index"} : work'[x] \in {work[x], NoWork}
  BY <1>1, <1>2 DEF TypeOK
<1>4. work'["embed"] # NoWork => Whole(work'["embed"].run)
  <2>1. CASE s = "embed"
    BY <1>1, <1>2, <2>1, NotIdle DEF Keeps, Data, ChunksWhole, TypeOK
  <2>2. CASE s # "embed"
    BY <1>1, <1>2, <2>2 DEF Data, ChunksWhole, TypeOK
  <2>3. QED
    BY <2>1, <2>2
<1>5. QED
  BY <1>3, <1>4, Frame DEF Keeps

LEMMA TakeData ==
  ASSUME TypeOK, OwnRun, Delivered, Data, NEW s \in Stages, Take(s)
  PROVE  Data'
<1> USE DEF rows
<1>1. PICK r \in Runs : /\ flow[r].stage = s
        /\ flow' = [flow EXCEPT ![r].held = TRUE]
        /\ work' = [work EXCEPT ![s] = [run |-> r, delivery |-> flow[r].stalls, seen |-> {},
             pc |-> IF s \in {"parse", "chunk"} THEN "job" ELSE "begin"]]
  BY DEF Take
<1>2. work[s] = NoWork /\ UNCHANGED <<mode, job, chunks, points>>
  BY DEF Take, TypeOK, Work, WorkPc
<1>3. \A x \in Runs : flow'[x].stage = flow[x].stage
  BY <1>1 DEF TypeOK
<1>4. \A x \in Stages : x # s => work'[x] = work[x]
  BY <1>1 DEF TypeOK
<1>5. work'[s] = [run |-> r, delivery |-> flow[r].stalls, seen |-> {},
                  pc |-> IF s \in {"parse", "chunk"} THEN "job" ELSE "begin"]
  BY <1>1 DEF TypeOK
<1>6. \A x : (Whole(x)' <=> Whole(x)) /\ Expected(x)' = Expected(x)
  BY <1>2 DEF Whole, Expected
<1>7. {"chunk", "embed", "index"} \subseteq Stages
  BY DEF Stages
<1>8. s \in {"embed", "index"} => Whole(r)
  BY <1>1 DEF Data, ChunksWhole
<1>9. CASE s \in {"parse", "embed"}
  <2>1. \A x \in {"chunk", "index"} : work'[x] \in {work[x], NoWork}
    BY <1>4, <1>7, <1>9
  <2>2. work'["embed"] # NoWork => Whole(work'["embed"].run)
    <3>1. CASE s = "embed"
      BY <1>5, <1>8, <3>1
    <3>2. CASE s # "embed"
      BY <1>4, <1>7, <3>2 DEF Data, ChunksWhole
    <3>3. QED
      BY <3>1, <3>2
  <2>3. QED
    BY <1>2, <1>3, <2>1, <2>2, Frame
<1>10. ASSUME s \in {"chunk", "index"} PROVE Data'
  <2>1. ChunksWhole'
    <3>1. \A x \in Runs : flow'[x].stage \in {"embed", "index", "done"} => Whole(x)'
      BY <1>3, <1>6 DEF Data, ChunksWhole
    <3>2. \A x \in {"embed", "index"} : work'[x] # NoWork =>
            chunks'[work'[x].run] \in WholeRows(work'[x].run)
      BY <1>2, <1>4, <1>5, <1>7, <1>8, <1>10 DEF Data, ChunksWhole, Whole
    <3>3. QED
      BY <3>1, <3>2 DEF ChunksWhole, Whole
  <2>2. ChunksBuilt'
    <3>1. CASE s = "chunk"
      BY <1>5, <3>1 DEF ChunksBuilt
    <3>2. CASE s # "chunk"
      BY <1>2, <1>4, <1>7, <3>2 DEF Data, ChunksBuilt, Whole
    <3>3. QED
      BY <3>1, <3>2
  <2>3. PointsFollow'
    <3>1. CASE s = "index"
      BY <1>5, <3>1 DEF PointsFollow, Written
    <3>2. CASE s # "index"
      BY <1>2, <1>4, <1>7, <3>2 DEF Data, PointsFollow, Expected
    <3>3. QED
      BY <3>1, <3>2
  <2>4. ASSUME NEW v \in Versions, job'[v] = "completed"
        PROVE  /\ v \in Runs /\ flow'[v].stage \in {"index", "done", "dead"}
               /\ Whole(v)' /\ points'[v] = Expected(v)'
               /\ ~ On("chunk", v)'
               /\ On("index", v)' =>
                    \/ work'["index"].pc \in {"begin", "job"} \cup Written
                    \/ work'["index"].pc = "clear" /\ mode'[v] = "parse_only"
    <3>1. /\ v \in Runs /\ flow[v].stage \in {"index", "done", "dead"}
          /\ Whole(v) /\ points[v] = Expected(v)
          /\ ~ On("chunk", v)
          /\ On("index", v) =>
               \/ work["index"].pc \in {"begin", "job"} \cup Written
               \/ work["index"].pc = "clear" /\ mode[v] = "parse_only"
      BY <1>2, <2>4 DEF Data, Completed
    <3>2. ~ On("chunk", v)'
      <4>1. CASE s = "chunk"
        <5>1. r # v
          BY <1>1, <3>1, <4>1
        <5>2. QED
          BY <1>5, <4>1, <5>1 DEF On
      <4>2. CASE s # "chunk"
        BY <1>4, <1>7, <3>1, <4>2 DEF On
      <4>3. QED
        BY <4>1, <4>2
    <3>3. On("index", v)' =>
            \/ work'["index"].pc \in {"begin", "job"} \cup Written
            \/ work'["index"].pc = "clear" /\ mode'[v] = "parse_only"
      <4>1. CASE s = "index"
        BY <1>5, <4>1
      <4>2. CASE s # "index"
        BY <1>2, <1>4, <1>7, <3>1, <4>2 DEF On
      <4>3. QED
        BY <4>1, <4>2
    <3>4. QED
      BY <1>2, <1>3, <1>6, <3>1, <3>2, <3>3
  <2>5. QED
    BY <2>1, <2>2, <2>3, <2>4 DEF Data, Completed, Written
<1>11. QED
  BY <1>9, <1>10 DEF Stages

\* The statements every stage begins with, on the chunk worker.
LEMMA ChunkData ==
  ASSUME TypeOK, OwnRun, Delivered, Data, ~ Deleting,
         \/ Begin("chunk") \/ UpdateJob("chunk") \/ UpdateVersion("chunk")
         \/ Body("chunk") \/ Return("chunk") \/ ChunkRows
  PROVE  Data'
<1> USE DEF rows
<1> DEFINE w == work["chunk"]
           r == w.run
<1>1. "chunk" \in Stages /\ w.pc # "idle" /\ w # NoWork
  BY NotIdle DEF Stages, Begin, UpdateJob, UpdateVersion, Body, Return, ChunkRows,
     ChunkDelete, ChunkInsert
<1>2. r \in Runs /\ r \in Versions /\ Mine("chunk") = r /\ w \in Busy
  BY <1>1, MineIsRun, BusyType
<1>3. doc # "deleted"
  BY DEF Deleting
<1>5. CASE Begin("chunk")
  <2>1. w.pc = "begin"
    BY <1>5 DEF Begin
  <2> DEFINE label == IF mode[r] = "parse_only" THEN "clear" ELSE "job"
             n == [w EXCEPT !.pc = label]
  <2>2. work' = [work EXCEPT !["chunk"] = n] /\ UNCHANGED <<rows, points, flow>>
    BY <1>2, <1>3, <1>5 DEF Begin, Goto
  <2>3. n.run = r /\ n.delivery = w.delivery /\ n.pc = label /\ n.seen = w.seen
    BY <1>2 DEF Busy
  <2>4. work'["chunk"] = n
    BY <1>1, <2>2 DEF TypeOK
  <2>5. ChunksBuilt'
    BY <2>1, <2>3, <2>4 DEF Data, ChunksBuilt
  <2>6. QED
    BY <1>1, <2>2, <2>3, <2>5, ChunkStep
<1>6. CASE UpdateJob("chunk") \/ UpdateVersion("chunk")
  <2> DEFINE label == IF w.pc = "job" THEN "version" ELSE "body"
             n == [w EXCEPT !.pc = label]
  <2>1. w.pc \in {"job", "version"} /\ work' = [work EXCEPT !["chunk"] = n]
        /\ UNCHANGED <<chunks, points, flow, mode>>
    BY <1>6 DEF UpdateJob, UpdateVersion, Goto
  <2>2. \A v \in Versions : job'[v] = "completed" => job[v] = "completed"
    BY <1>6 DEF UpdateJob, UpdateVersion, SetJob, TypeOK
  <2>3. n.run = r /\ n.delivery = w.delivery /\ n.pc = label /\ n.seen = w.seen
    BY <1>2 DEF Busy
  <2>4. work'["chunk"] = n
    BY <1>1, <2>1 DEF TypeOK
  <2>5. ChunksBuilt'
    BY <2>1, <2>3, <2>4 DEF Data, ChunksBuilt
  <2>6. QED
    BY <1>1, <2>1, <2>2, <2>3, <2>5, ChunkStep
<1>7. CASE Body("chunk")
  <2> DEFINE n == [w EXCEPT !.pc = "delete"]
  <2>1. w.pc = "body" /\ work' = [work EXCEPT !["chunk"] = n]
        /\ UNCHANGED <<rows, points, flow>>
    BY <1>3, <1>7 DEF Body, Goto
  <2>2. n.run = r /\ n.delivery = w.delivery /\ n.pc = "delete" /\ n.seen = w.seen
    BY <1>2 DEF Busy
  <2>3. work'["chunk"] = n
    BY <1>1, <2>1 DEF TypeOK
  <2>4. ChunksBuilt'
    BY <2>1, <2>2, <2>3 DEF Data, ChunksBuilt
  <2>5. QED
    BY <1>1, <2>1, <2>2, <2>4, ChunkStep
<1>8. CASE Return("chunk")
  BY <1>1, <1>8, FinishData DEF Return
<1>9. CASE ChunkDelete
  <2>1. PICK next \in {"insert", "return"} : Goto("chunk", next)
    BY <1>9 DEF ChunkDelete
  <2> DEFINE n == [w EXCEPT !.pc = next]
  <2>2. w.pc = "delete" /\ work' = [work EXCEPT !["chunk"] = n]
        /\ chunks' = [chunks EXCEPT ![r] = {}] /\ UNCHANGED <<job, mode, points, flow>>
    BY <1>2, <1>9, <2>1 DEF ChunkDelete, Goto
  <2>3. n.run = r /\ n.delivery = w.delivery /\ n.pc = next /\ n.seen = w.seen
    BY <1>2 DEF Busy
  <2>4. work'["chunk"] = n /\ chunks'[r] = {}
        /\ \A v \in Versions : v # r => chunks'[v] = chunks[v]
    BY <1>1, <1>2, <2>2 DEF TypeOK
  <2>5. w.seen = {}
    BY <2>2 DEF Data, ChunksBuilt
  <2>6. ChunksBuilt'
    BY <2>3, <2>4, <2>5 DEF ChunksBuilt, Whole, WholeRows
  <2>7. QED
    BY <1>1, <2>2, <2>3, <2>4, <2>6, ChunkStep
<1>10. CASE ChunkInsert
  <2> DEFINE me == <<r, w.delivery>>
             left == {b \in Batches : <<me, b>> \notin w.seen}
  <2>1. PICK b \in left :
          /\ chunks' = [chunks EXCEPT ![r] = @ \cup {<<me, b>>}]
          /\ work' = [work EXCEPT
                  !["chunk"].seen = @ \cup {<<me, b>>},
                  !["chunk"].pc = IF left = {b} THEN "return" ELSE @]
    BY <1>2, <1>3, <1>10 DEF ChunkInsert
  <2> DEFINE next == IF left = {b} THEN "return" ELSE w.pc
             n == [w EXCEPT !.seen = @ \cup {<<me, b>>}, !.pc = next]
  <2>2. w.pc = "insert" /\ UNCHANGED <<job, mode, points, flow>>
    BY <1>3, <1>10 DEF ChunkInsert
  <2>3. work' = [work EXCEPT !["chunk"] = n]
    BY <1>1, <2>1 DEF TypeOK
  <2>4. n.run = r /\ n.delivery = w.delivery /\ n.pc = next /\ n.seen = w.seen \cup {<<me, b>>}
    BY <1>2 DEF Busy
  <2>5. work'["chunk"] = n /\ chunks'[r] = chunks[r] \cup {<<me, b>>}
        /\ \A v \in Versions : v # r => chunks'[v] = chunks[v]
    BY <1>1, <1>2, <2>1, <2>3 DEF TypeOK
  <2>6. chunks[r] = w.seen /\ w.seen \subseteq {me} \X Batches
    BY <2>2 DEF Data, ChunksBuilt
  <2>7. <<me, b>> \in {me} \X Batches
    OBVIOUS
  <2>8. left = {b} => w.seen \cup {<<me, b>>} = {me} \X Batches
    <3>1. ASSUME left = {b} PROVE \A x \in {me} \X Batches : x \in w.seen \cup {<<me, b>>}
      <4>1. ASSUME NEW c \in Batches PROVE <<me, c>> \in w.seen \cup {<<me, b>>}
        BY <3>1, <4>1
      <4>2. QED
        BY <4>1
    <3>2. QED
      BY <2>6, <2>7, <3>1
  <2>9. ChunksBuilt'
    <3>1. {me} \X Batches \in WholeRows(r)
      BY <1>2 DEF WholeRows, Busy
    <3>2. n.delivery = w.delivery
      BY <1>2 DEF Busy
    <3>3. left = {b} => Whole(r)'
      BY <2>5, <2>6, <2>8, <3>1 DEF Whole, WholeRows
    <3>4. w.seen \cup {<<me, b>>} \subseteq {me} \X Batches
      BY <2>6, <2>7
    <3>5. QED
      BY <2>2, <2>4, <2>5, <2>6, <3>2, <3>3, <3>4 DEF ChunksBuilt
  <2>10. QED
    BY <1>1, <2>2, <2>3, <2>4, <2>5, <2>9, ChunkStep
<1>11. QED
  BY <1>5, <1>6, <1>7, <1>8, <1>9, <1>10 DEF ChunkRows

\* A statement of the index worker that writes no points.
LEMMA IndexGoes ==
  ASSUME TypeOK, OwnRun, Delivered, Data, work["index"] # NoWork,
         NEW label \in WorkPc, Goto("index", label),
         UNCHANGED <<flow, chunks, mode, points>>,
         \A v \in Versions : v # work["index"].run =>
           (job'[v] = "completed" => job[v] = "completed"),
         PointsFollow',
         job'[work["index"].run] = "completed" =>
           /\ points[work["index"].run] = Expected(work["index"].run)
           /\ \/ label \in {"begin", "job"} \cup Written
              \/ label = "clear" /\ mode[work["index"].run] = "parse_only"
  PROVE  Data'
<1> DEFINE n == [work["index"] EXCEPT !.pc = label]
<1>1. "index" \in Stages
  BY DEF Stages
<1>2. work["index"] \in Busy
  BY <1>1, MineIsRun, BusyType
<1>3. work' = [work EXCEPT !["index"] = n] /\ n.run = work["index"].run
      /\ n.pc = label /\ n \in Busy
  BY <1>2 DEF Goto, Busy
<1>4. QED
  BY <1>3, BusyIsNotNoWork, IndexStep

\* The index worker, statement by statement, before the points are written.
LEMMA IndexBegins ==
  ASSUME TypeOK, OwnRun, Delivered, Data, ~ Deleting,
         Begin("index") \/ UpdateJob("index") \/ UpdateVersion("index") \/ IndexRead
  PROVE  Data'
<1> USE DEF rows
<1> DEFINE w == work["index"]
           r == w.run
<1>1. "index" \in Stages /\ w.pc # "idle" /\ w # NoWork
  BY NotIdle DEF Stages, Begin, UpdateJob, UpdateVersion, IndexRead
<1>2. r \in Runs /\ r \in Versions /\ Mine("index") = r /\ w \in Busy
  BY <1>1, MineIsRun, BusyType
<1>3. doc # "deleted" /\ mode[r] \in {"full", "parse_only"}
  BY <1>2 DEF Deleting, TypeOK
<1>4. job[r] = "completed" =>
        /\ points[r] = Expected(r)
        /\ \/ w.pc \in {"begin", "job"} \cup Written
           \/ w.pc = "clear" /\ mode[r] = "parse_only"
  BY <1>1, <1>2 DEF Data, Completed, On
<1>5. CASE Begin("index")
  <2> DEFINE label == IF mode[r] = "parse_only" THEN "clear" ELSE "job"
  <2>1. w.pc = "begin" /\ Goto("index", label) /\ UNCHANGED <<rows, points, flow>>
    BY <1>2, <1>3, <1>5 DEF Begin
  <2>2. work'["index"].pc = label /\ work'["index"].run = r
        /\ work'["index"].seen = w.seen
    BY <1>1, <1>2, <2>1 DEF Goto, TypeOK, Busy
  <2>3. w.seen = {}
    BY <2>1 DEF Data, PointsFollow
  <2>4. mode[r] = "parse_only" => Expected(r) = {}
    BY DEF Expected
  <2>5. PointsFollow'
    BY <1>3, <2>1, <2>2, <2>3 DEF PointsFollow, Expected, Written
  <2>6. label \in WorkPc
    BY DEF WorkPc
  <2>7. QED
    BY <1>1, <1>4, <2>1, <2>5, <2>6, IndexGoes
<1>6. CASE UpdateJob("index")
  <2>1. w.pc = "job" /\ Goto("index", "version")
        /\ UNCHANGED <<chunks, mode, points, flow>>
        /\ job' = [job EXCEPT ![r] = "running"]
    BY <1>2, <1>3, <1>6 DEF UpdateJob, SetJob
  <2>2. work'["index"].pc = "version" /\ work'["index"].run = r
        /\ work'["index"].seen = w.seen
    BY <1>1, <1>2, <2>1 DEF Goto, TypeOK, Busy
  <2>3. job'[r] = "running" /\ \A v \in Versions : v # r => job'[v] = job[v]
    BY <1>2, <2>1 DEF TypeOK
  <2>4. PointsFollow'
    BY <2>1, <2>2 DEF Data, PointsFollow, Expected, Written
  <2>5. QED
    BY <1>1, <2>1, <2>3, <2>4, IndexGoes DEF WorkPc
<1>7. CASE UpdateVersion("index")
  <2>1. w.pc = "version" /\ Goto("index", "read")
        /\ UNCHANGED <<chunks, mode, points, flow, job>>
    BY <1>7 DEF UpdateVersion
  <2>2. work'["index"].pc = "read" /\ work'["index"].run = r
        /\ work'["index"].seen = w.seen
    BY <1>1, <1>2, <2>1 DEF Goto, TypeOK, Busy
  <2>3. PointsFollow'
    BY <2>1, <2>2 DEF Data, PointsFollow, Expected, Written
  <2>4. job[r] # "completed"
    BY <1>4, <2>1 DEF Written
  <2>5. QED
    BY <1>1, <2>1, <2>3, <2>4, IndexGoes DEF WorkPc
<1>8. CASE IndexRead
  <2> DEFINE n == [w EXCEPT !.seen = chunks[r], !.pc = "clear"]
  <2>1. w.pc = "read" /\ work' = [work EXCEPT !["index"] = n]
        /\ UNCHANGED <<chunks, mode, points, flow, job>>
    BY <1>2, <1>8 DEF IndexRead
  <2>2. n.run = r /\ n.pc = "clear" /\ n.seen = chunks[r]
    BY <1>2 DEF Busy
  <2>3. work'["index"] = n
    BY <1>1, <2>1 DEF TypeOK
  <2>4. mode[r] = "full"
    BY <2>1 DEF Data, PointsFollow
  <2>5. PointsFollow'
    BY <2>1, <2>2, <2>3, <2>4 DEF PointsFollow, Expected, Written
  <2>6. job[r] # "completed"
    BY <1>4, <2>1 DEF Written
  <2>7. n # NoWork
    BY <2>2 DEF NoWork
  <2>8. QED
    BY <1>1, <2>1, <2>2, <2>5, <2>6, <2>7, IndexStep
<1>9. QED
  BY <1>5, <1>6, <1>7, <1>8

\* The points are replaced.
LEMMA IndexWrites ==
  ASSUME TypeOK, OwnRun, Delivered, Data, ~ Deleting, IndexClear \/ IndexUpsert
  PROVE  Data'
<1> USE DEF rows
<1> DEFINE w == work["index"]
           r == w.run
<1>1. "index" \in Stages /\ w.pc # "idle" /\ w # NoWork
  BY NotIdle DEF Stages, IndexClear, IndexUpsert
<1>2. r \in Runs /\ r \in Versions /\ Mine("index") = r /\ w \in Busy
  BY <1>1, MineIsRun, BusyType
<1>3. job[r] = "completed" => w.pc = "clear" /\ mode[r] = "parse_only"
  BY <1>1, <1>2 DEF Data, Completed, On, IndexClear, IndexUpsert, Written
<1>4. UNCHANGED <<rows, flow>>
  BY DEF IndexClear, IndexUpsert
<1> DEFINE done == [w EXCEPT !.pc = "version_ready", !.seen = {}]
<1>5. done.run = r /\ done.pc = "version_ready" /\ done.seen = {}
  BY <1>2 DEF Busy
<1>6. work' = AfterUpsert => work' = [work EXCEPT !["index"] = done]
  BY <1>1 DEF AfterUpsert, TypeOK
<1>7. ASSUME points'[r] = Expected(r), \A v \in Versions : v # r => points'[v] = points[v],
             work' = AfterUpsert
      PROVE  Data'
  <2>1. work'["index"] = done
    BY <1>1, <1>6, <1>7 DEF TypeOK
  <2>2. PointsFollow'
    BY <1>4, <1>5, <1>7, <2>1 DEF PointsFollow, Expected, Written
  <2>3. done # NoWork
    BY <1>5 DEF NoWork
  <2>4. points'[done.run] = Expected(done.run)
    BY <1>5, <1>7
  <2>5. QED
    BY <1>1, <1>4, <1>5, <1>6, <1>7, <2>2, <2>3, <2>4, IndexStep DEF Written
<1>8. CASE IndexClear
  <2>1. w.pc = "clear" /\ points' = [points EXCEPT ![r] = {}]
    BY <1>2, <1>8 DEF IndexClear
  <2>2. points'[r] = {} /\ \A v \in Versions : v # r => points'[v] = points[v]
    BY <1>2, <2>1 DEF TypeOK
  <2>3. w.seen = Expected(r)
    BY <2>1 DEF Data, PointsFollow
  <2>4. CASE w.seen = {}
    BY <1>7, <1>8, <2>2, <2>3, <2>4 DEF IndexClear
  <2>5. CASE w.seen # {}
    <3> DEFINE n == [w EXCEPT !.pc = "upsert"]
    <3>1. work' = [work EXCEPT !["index"] = n]
      BY <1>8, <2>5 DEF IndexClear
    <3>2. n.run = r /\ n.pc = "upsert" /\ n.seen = w.seen /\ n # NoWork
      BY <1>2 DEF Busy, NoWork
    <3>3. work'["index"] = n
      BY <1>1, <3>1 DEF TypeOK
    <3>4. PointsFollow'
      BY <1>4, <2>2, <2>3, <3>2, <3>3 DEF PointsFollow, Expected, Written
    <3>5. job[r] # "completed"
      BY <1>3, <2>3, <2>5 DEF Expected
    <3>6. QED
      BY <1>1, <1>4, <2>2, <3>1, <3>2, <3>4, <3>5, IndexStep
  <2>6. QED
    BY <2>4, <2>5
<1>9. CASE IndexUpsert
  <2>1. PICK c \in w.seen :
          /\ points' = [points EXCEPT ![r] = @ \cup {c}]
          /\ work' = IF w.seen = {c} THEN AfterUpsert
                     ELSE [work EXCEPT !["index"].seen = @ \ {c}]
    BY <1>2, <1>9 DEF IndexUpsert
  <2>2. points'[r] = points[r] \cup {c}
        /\ \A v \in Versions : v # r => points'[v] = points[v]
    BY <1>2, <2>1 DEF TypeOK
  <2>3. w.pc = "upsert" /\ points[r] \cup w.seen = Expected(r)
    BY <1>9 DEF IndexUpsert, Data, PointsFollow
  <2>4. CASE w.seen = {c}
    BY <1>7, <2>1, <2>2, <2>3, <2>4
  <2>5. CASE w.seen # {c}
    <3> DEFINE n == [w EXCEPT !.seen = @ \ {c}]
    <3>1. work' = [work EXCEPT !["index"] = n]
      BY <2>1, <2>5
    <3>2. n.run = r /\ n.pc = "upsert" /\ n.seen = w.seen \ {c} /\ n # NoWork
      BY <1>2, <2>3 DEF Busy, NoWork
    <3>3. work'["index"] = n
      BY <1>1, <3>1 DEF TypeOK
    <3>4. points'[r] \cup n.seen = Expected(r)
      BY <2>2, <2>3, <3>2
    <3>5. PointsFollow'
      BY <1>4, <3>2, <3>3, <3>4 DEF PointsFollow, Expected, Written
    <3>6. job[r] # "completed"
      BY <1>3, <2>3
    <3>7. QED
      BY <1>1, <1>4, <2>2, <3>1, <3>2, <3>5, <3>6, IndexStep
  <2>6. QED
    BY <2>4, <2>5
<1>10. QED
  BY <1>8, <1>9

\* The points are written: what is left is the status of the rows.
LEMMA IndexEnds ==
  ASSUME TypeOK, OwnRun, Delivered, Data, ~ Deleting,
         \/ IndexVersionReady \/ IndexDocumentReady \/ IndexJobDone
         \/ IndexVersionDone \/ Return("index")
  PROVE  Data'
<1> USE DEF rows
<1> DEFINE w == work["index"]
           r == w.run
<1>1. "index" \in Stages /\ w.pc \in Written /\ w # NoWork
  BY NotIdle DEF Stages, Written, IndexVersionReady, IndexDocumentReady,
     IndexJobDone, IndexVersionDone, Return
<1>2. r \in Runs /\ r \in Versions /\ Mine("index") = r /\ w \in Busy
  BY <1>1, MineIsRun, BusyType
<1>3. points[r] = Expected(r)
  BY <1>1 DEF Data, PointsFollow
<1>4. CASE Return("index")
  BY <1>1, <1>4, FinishData DEF Return
<1>5. CASE IndexVersionReady \/ IndexDocumentReady \/ IndexJobDone \/ IndexVersionDone
  <2>1. PICK label \in Written : Goto("index", label)
    BY <1>5 DEF IndexVersionReady, IndexDocumentReady, IndexJobDone,
       IndexVersionDone, Written
  <2>2. UNCHANGED <<chunks, mode, points, flow>>
        /\ \A v \in Versions : v # r => job'[v] = job[v]
    BY <1>2, <1>5 DEF IndexVersionReady, IndexDocumentReady, IndexJobDone,
       IndexVersionDone, SetJob, TypeOK
  <2>3. work'["index"].pc = label /\ work'["index"].run = r
    BY <1>1, <1>2, <2>1 DEF Goto, TypeOK, Busy
  <2>4. PointsFollow'
    BY <1>3, <2>1, <2>2, <2>3 DEF PointsFollow, Expected, Written
  <2>5. label \in WorkPc
    BY <2>1 DEF Written, WorkPc
  <2>6. QED
    BY <1>1, <1>3, <2>1, <2>2, <2>4, <2>5, IndexGoes
<1>6. QED
  BY <1>4, <1>5

\* The stages that write nothing a search sees.
LEMMA OtherStagesData ==
  ASSUME TypeOK, OwnRun, Delivered, Data, ~ Deleting, NEW s \in {"parse", "embed"},
         Begin(s) \/ UpdateJob(s) \/ UpdateVersion(s) \/ Body(s) \/ Return(s)
  PROVE  Data'
<1> USE DEF rows
<1>1. s \in Stages /\ work[s].pc # "idle" /\ doc # "deleted"
  BY DEF Stages, Begin, UpdateJob, UpdateVersion, Body, Return, Deleting
<1>2. Mine(s) \in Versions
  BY <1>1, BusyType
<1>3. CASE Begin(s) \/ UpdateJob(s) \/ UpdateVersion(s)
  <2>1. PICK label \in WorkPc : Goto(s, label)
    BY <1>1, <1>3 DEF Begin, UpdateJob, UpdateVersion, WorkPc
  <2>2. UNCHANGED <<mode, chunks, points, flow>>
    BY <1>1, <1>3 DEF Begin, UpdateJob, UpdateVersion
  <2>3. \A v \in Versions : job'[v] = "completed" => job[v] = "completed"
    BY <1>2, <1>3 DEF Begin, UpdateJob, UpdateVersion, SetJob, TypeOK
  <2>4. QED
    BY <1>1, <2>1, <2>2, <2>3, GotoKeeps, OtherData
<1>4. CASE Body(s)
  <2>1. Fail(s) \/ Finish(s)
    BY <1>4 DEF Body
  <2>2. UNCHANGED <<rows, points>>
    BY <1>4 DEF Body
  <2>3. QED
    BY <1>1, <2>1, <2>2, FailData, FinishData
<1>5. CASE Return(s)
  BY <1>1, <1>5, FinishData DEF Return
<1>6. QED
  BY <1>3, <1>4, <1>5

LEMMA StageData ==
  ASSUME TypeOK, OwnRun, Delivered, Data, ~ Deleting, NEW s \in Stages,
         Stage(s) \/ StageFails(s)
  PROVE  Data'
<1>1. CASE StageFails(s)
  BY <1>1, FailData DEF StageFails
<1>2. CASE Take(s)
  BY <1>2, TakeData
<1>3. CASE s \in {"parse", "embed"}
  BY <1>1, <1>2, <1>3, OtherStagesData DEF Stage
<1>4. CASE s = "chunk"
  BY <1>1, <1>2, <1>4, ChunkData DEF Stage
<1>5. CASE s = "index"
  <2>1. CASE Body("index")
    BY <1>5, <2>1, FailData, FinishData DEF Body, rows
  <2>2. QED
    BY <1>1, <1>2, <1>5, <2>1, IndexBegins, IndexWrites, IndexEnds DEF Stage, Index
<1>6. QED
  BY <1>3, <1>4, <1>5 DEF Stages

\* The requests: an upload brings a version without rows, and a delete starts
\* with the points.
LEMMA WebData ==
  ASSUME TypeOK, OwnRun, Delivered, Data, "retry" \notin Env,
         NEW q \in Requests, Web(q), ~ Deleting'
  PROVE  Data'
<1> USE DEF rows, worker
<1>1. ~ (DeletePoints(q) \/ DeleteRow(q))
  BY DEF DeletePoints, DeleteRow, Deleting, NoRequest, TypeOK
<1>2. ~ (RetryRead(q) \/ ResetJob(q) \/ ResetVersion(q) \/ ResetDocument(q))
  BY DEF RetryRead, ResetJob, ResetVersion, ResetDocument, OwnRun, Pending, ReqPc
<1>3. UNCHANGED <<chunks, points, work>>
  BY <1>1, <1>2 DEF Web, Upload, UploadDocument, UploadJob, Enqueue, EnqueueFails
<1>4. \A v \in Versions : job'[v] = "completed" => job[v] = "completed"
  BY <1>1, <1>2 DEF Web, Upload, UploadDocument, UploadJob, Enqueue, EnqueueFails,
     SetJob, TypeOK
<1>5. ASSUME NEW r \in Runs, flow[r] # NoFlow PROVE mode'[r] = mode[r]
  <2>1. CASE Upload(q)
    <3>1. r <= latest /\ r \in Versions
      BY <1>5, OwnVersion DEF OwnRun
    <3>2. r # latest + 1
      BY <3>1 DEF TypeOK, Versions
    <3>3. QED
      BY <2>1, <3>1, <3>2 DEF Upload, TypeOK
  <2>2. CASE ~ Upload(q)
    BY <1>1, <1>2, <2>2 DEF Web, UploadDocument, UploadJob, Enqueue, EnqueueFails
  <2>3. QED
    BY <2>1, <2>2
<1>6. ASSUME NEW r \in Runs
      PROVE  flow'[r] = flow[r] \/ (flow[r] = NoFlow /\ flow'[r].stage = "parse")
  <2>1. CASE Enqueue(q)
    <3>1. req[q].run \in Runs /\ flow[req[q].run] = NoFlow
      BY <2>1, RequestType DEF Enqueue, OwnRun, Pending, ReqPc
    <3>2. QED
      BY <2>1, <3>1 DEF Enqueue, TypeOK
  <2>2. CASE ~ Enqueue(q)
    BY <1>1, <1>2, <2>2 DEF Web, Upload, UploadDocument, UploadJob, EnqueueFails
  <2>3. QED
    BY <2>1, <2>2
<1>7. ASSUME NEW r \in Runs
      PROVE  /\ flow'[r].stage \in {"embed", "index", "done"} =>
                  flow[r].stage \in {"embed", "index", "done"} \/ Whole(r)
             /\ flow[r].stage \in {"index", "done", "dead"} =>
                  flow'[r].stage \in {"index", "done", "dead"}
  BY <1>6 DEF NoFlow
<1>8. work["embed"] # NoWork => Whole(work["embed"].run)
  BY DEF Data, ChunksWhole
<1>9. QED
  BY <1>3, <1>4, <1>5, <1>7, <1>8, Frame

\* The listener, lost locks and the worker process.
LEMMA EventData ==
  ASSUME TypeOK, OwnRun, Delivered, Data,
         \/ \E r \in Runs : Handler(r) \/ Stalled(r)
         \/ Crash \/ Restart \/ UNCHANGED vars
  PROVE  Data'
<1> USE DEF rows, worker
<1>1. UNCHANGED <<chunks, points, mode>>
  BY DEF Handler, HandlerJob, HandlerVersion, HandlerDocument, Stalled, Crash,
     Restart, vars
<1>2. \A v \in Versions : job'[v] = "completed" => job[v] = "completed"
  BY DEF Handler, HandlerJob, HandlerVersion, HandlerDocument, Stalled, Crash,
     Restart, SetJob, TypeOK, vars
<1>3. ASSUME NEW x \in Runs PROVE flow'[x].stage \in {flow[x].stage, "dead"}
  <2>1. ASSUME NEW r \in Runs, Stalled(r) PROVE flow'[x].stage \in {flow[x].stage, "dead"}
    BY <2>1, StalledFlow DEF TypeOK
  <2>2. CASE UNCHANGED flow
    BY <2>2
  <2>3. QED
    BY <2>1, <2>2 DEF Handler, HandlerJob, HandlerVersion, HandlerDocument, Crash,
       Restart, vars
<1>4. ASSUME NEW s \in Stages PROVE work'[s] \in {work[s], NoWork}
  BY DEF Handler, HandlerJob, HandlerVersion, HandlerDocument, Stalled, Crash,
     Restart, vars
<1>5. \A s \in {"chunk", "index"} : work'[s] \in {work[s], NoWork}
  BY <1>4 DEF Stages
<1>6. work'["embed"] # NoWork => Whole(work'["embed"].run)
  BY <1>4 DEF Data, ChunksWhole, Stages
<1>7. QED
  BY <1>1, <1>2, <1>3, <1>5, <1>6, Frame

LEMMA SearchInit == Init => SearchInv
<1> SUFFICES ASSUME Init PROVE SearchInv
  OBVIOUS
<1>1. TypeOK
  BY TypeInit
<1>2. \A q \in Requests : ~ Pending(q)
  BY DEF Init, Pending, ReqPc, NoRequest
<1>3. \A r \in Runs : flow[r] = NoFlow
  BY DEF Init
<1>4. \A s \in Stages : work[s] = NoWork
  BY DEF Init
<1>5. OwnRun
  BY <1>2, <1>3 DEF Init, OwnRun
<1>6. Delivered
  BY <1>3, <1>4 DEF Delivered, DeliveredOnce, NoFlow
<1>7. ChunksWhole
  BY <1>3, <1>4 DEF ChunksWhole, Stages, NoFlow
<1>8. ChunksBuilt /\ PointsFollow
  BY <1>4 DEF ChunksBuilt, PointsFollow, Written, Stages, NoWork
<1>9. Completed
  BY DEF Init, Completed
<1>10. QED
  BY <1>1, <1>5, <1>6, <1>7, <1>8, <1>9 DEF SearchInv, Data

LEMMA SearchNext ==
  ASSUME "retry" \notin Env, SearchInv, [Next]_vars
  PROVE  SearchInv'
<1>1. TypeOK /\ OwnRun /\ Delivered
  BY DEF SearchInv
<1>2. TypeOK'
  BY <1>1, TypeNext
<1>3. OwnRun' /\ Delivered'
  BY <1>1, StructureNext
<1>4. ASSUME ~ Deleting' PROVE Data'
  <2>1. ~ Deleting /\ Data
    BY <1>1, <1>4, DeletingStable DEF SearchInv
  <2>2. QED
    BY <1>1, <1>4, <2>1, WebData, StageData, EventData DEF Next
<1>5. QED
  BY <1>2, <1>3, <1>4 DEF SearchInv

LEMMA SearchInvImplies == SearchInv => CompletedIsSearchable
<1>1. ASSUME NEW v \in Runs, Whole(v)
      PROVE  chunks[v] = {} \/ \E d \in Deliveries : chunks[v] = {d} \X Batches
  BY <1>1 DEF Whole, WholeRows, Deliveries
<1>2. QED
  BY <1>1 DEF SearchInv, Data, Completed, CompletedIsSearchable, Expected

\* Without a reparse, whatever fails, crashes or is delivered again: a completed
\* version is searchable, its chunks are all those of one delivery of one run, none
\* of another stands beside them, and Qdrant holds exactly these.
THEOREM SearchableCorrect ==
  ASSUME "retry" \notin Env
  PROVE  Spec => []CompletedIsSearchable
<1>1. SearchInv /\ [Next]_vars => SearchInv'
  BY SearchNext
<1>2. QED
  BY <1>1, SearchInit, SearchInvImplies, PTL DEF Spec

-----------------------------------------------------------------------------
(* OneRunPerVersion, whatever is uploaded, retried and deleted, as long as *)
(* no delivery is repeated: of the runs of a version, those that still     *)
(* write or are past their reset are followed by no other.                 *)

\* Run r is past its last write of chunks and points.
Past(r) == work["index"].run = r /\ work["index"].pc \in {"version_done", "return"}

\* Run r of version v may still write, or is about to: its request has written
\* the job row.
Current(r, v) ==
  \/ flow[r].version = v /\ flow[r].stage \in Stages /\ ~ Past(r)
  \/ \E q \in Requests : Pending(q) /\ req[q].pc # "reset_job"
                         /\ req[q].run = r /\ req[q].version = v

\* Requests and flows name what was issued and uploaded; a run has one request,
\* then its flow. Versions that are not there have no job.
Handed ==
  /\ \A q \in Requests : Pending(q) =>
       /\ req[q].run <= issued /\ req[q].version <= latest
       /\ flow[req[q].run] = NoFlow
  /\ \A q1, q2 \in Requests :
       Pending(q1) /\ Pending(q2) /\ req[q1].run = req[q2].run => q1 = q2
  /\ \A r \in Runs : flow[r] # NoFlow => r <= issued /\ flow[r].version <= latest
  /\ \A v \in Versions : v > latest \/ doc = "deleted" => job[v] = "none"

\* A worker on a run holds its flow, at its own stage, and only it does.
Holds ==
  /\ \A s \in Stages : work[s] # NoWork =>
       flow[work[s].run].stage = s /\ flow[work[s].run].held
  /\ \A r \in Runs : flow[r].held =>
       flow[r].stage \in Stages /\ work[flow[r].stage].run = r
  /\ \A r \in Runs : handler[r] = "job" => flow[r].stage = "dead"
  /\ up

\* While a run is current its job is not settled and it is the last one.
LastRun ==
  \A v \in Versions \ stale : \A r \in Runs : Current(r, v) =>
    /\ job[v] \notin Settled
    /\ \A x \in Runs : InHand(x, v) => x <= r

OneInv == TypeOK /\ Handed /\ Holds /\ LastRun

LEMMA PendingType ==
  ASSUME TypeOK, NEW q \in Requests, Pending(q)
  PROVE  req[q].run \in Runs /\ req[q].version \in Versions
BY RequestType DEF Pending

LEMMA NaturalRuns ==
  /\ Runs \subseteq Nat /\ 0 \notin Runs
  /\ Versions \subseteq Nat /\ 0 \notin Versions
BY DEF Runs, Versions

LEMMA OnRun ==
  ASSUME TypeOK, NEW s \in Stages
  PROVE  /\ work[s] # NoWork => work[s].run \in Runs /\ work[s].pc # "idle"
         /\ work[s] = NoWork => work[s].run \notin Runs /\ work[s].pc = "idle"
<1>1. work[s] # NoWork => work[s] \in Busy
  BY DEF TypeOK, Work, Busy
<1>2. QED
  BY <1>1, NaturalRuns DEF Busy, WorkPc, NoWork

LEMMA StageIsLive ==
  ASSUME TypeOK, NEW r \in Runs, flow[r].stage # "none"
  PROVE  flow[r] \in Live /\ flow[r] # NoFlow /\ flow[r].version \in Versions
<1>1. flow[r] # NoFlow
  BY DEF NoFlow
<1>2. QED
  BY <1>1 DEF TypeOK, Flow, Live

LEMMA CurrentInHand ==
  ASSUME NEW r, NEW v, Current(r, v)
  PROVE  InHand(r, v)
BY DEF Current, InHand, Pending

\* Writes, as the stage of the flow tells it.
LEMMA WritesCurrent ==
  ASSUME TypeOK, Holds, NEW r \in Runs, Writes(r)
  PROVE  Current(r, flow[r].version) /\ flow[r].version \in Versions
<1>1. flow[r].stage \in Stages /\ ~ Past(r)
  <2>1. CASE \A s \in Stages : work[s].run # r
    BY <2>1 DEF Writes, Past, Stages
  <2>2. CASE ~ \A s \in Stages : work[s].run # r
    <3>1. PICK s \in Stages : /\ work[s].run = r
            /\ ~ (s = "index" /\ work[s].pc \in {"version_done", "return"})
      BY <2>2 DEF Writes
    <3>2. work[s] # NoWork /\ flow[r].stage = s
      BY <3>1, OnRun DEF Holds
    <3>3. work["index"].run = r => flow[r].stage = "index"
      BY OnRun DEF Holds, Stages
    <3>4. QED
      BY <3>1, <3>2, <3>3 DEF Past
  <2>3. QED
    BY <2>1, <2>2
<1>2. flow[r].version \in Versions
  BY <1>1, StageIsLive DEF Stages
<1>3. QED
  BY <1>1, <1>2 DEF Current

LEMMA OneInvImplies == OneInv => OneRunPerVersion
<1> SUFFICES ASSUME OneInv, NEW r1 \in Runs, NEW r2 \in Runs, Writes(r1), Writes(r2),
                    flow[r1].version = flow[r2].version, flow[r1].version \notin stale
             PROVE  r1 = r2
  BY DEF OneRunPerVersion
<1> DEFINE v == flow[r1].version
<1>1. Current(r1, v) /\ Current(r2, v) /\ v \in Versions \ stale
  BY WritesCurrent DEF OneInv
<1>2. InHand(r1, v) /\ InHand(r2, v)
  BY <1>1, CurrentInHand
<1>3. r1 <= r2 /\ r2 <= r1
  BY <1>1, <1>2 DEF OneInv, LastRun
<1>4. QED
  BY <1>3, NaturalRuns

LEMMA OneInit == Init => OneInv
<1> SUFFICES ASSUME Init PROVE OneInv
  OBVIOUS
<1>1. TypeOK
  BY TypeInit
<1>2. /\ \A q \in Requests : ~ Pending(q)
      /\ \A r \in Runs : flow[r] = NoFlow
      /\ \A s \in Stages : work[s] = NoWork
  BY DEF Init, Pending, ReqPc, NoRequest
<1>3. Handed
  BY <1>2 DEF Init, Handed
<1>4. Holds
  BY <1>2 DEF Init, Holds, NoFlow
<1>5. LastRun
  BY <1>2 DEF LastRun, Current, NoFlow, Stages
<1>6. QED
  BY <1>1, <1>3, <1>4, <1>5 DEF OneInv

\* What a step of a stage leaves alone, whichever it is.
LEMMA StageLeavesAlone ==
  ASSUME NEW s \in Stages, Stage(s) \/ StageFails(s)
  PROVE  UNCHANGED <<latest, mode, issued, up, req>>
BY DEF rows, Stage, Take, Begin, UpdateJob, UpdateVersion, Body, Return, StageFails,
   ChunkRows, ChunkDelete, ChunkInsert, Index, IndexRead, IndexClear, IndexUpsert,
   IndexVersionReady, IndexDocumentReady, IndexJobDone, IndexVersionDone

LEMMA StageListener ==
  ASSUME NEW s \in Stages, Stage(s) \/ StageFails(s)
  PROVE  UNCHANGED handler \/ Fail(s)
BY DEF Stage, Take, Begin, UpdateJob, UpdateVersion, Body, Return, StageFails, Finish,
   ChunkRows, ChunkDelete, ChunkInsert, Index, IndexRead, IndexClear, IndexUpsert,
   IndexVersionReady, IndexDocumentReady, IndexJobDone, IndexVersionDone

LEMMA StageJob ==
  ASSUME NEW s \in Stages, Stage(s) \/ StageFails(s)
  PROVE  \/ UNCHANGED <<job, stale>>
         \/ UpdateJob(s) /\ SetJob(work[s].run, Mine(s), "running")
         \/ s = "index" /\ IndexJobDone
BY DEF rows, Stage, Take, Begin, UpdateJob, UpdateVersion, Body, Return, StageFails,
   ChunkRows, ChunkDelete, ChunkInsert, Index, IndexRead, IndexClear, IndexUpsert,
   IndexVersionReady, IndexDocumentReady, IndexVersionDone

\* A worker that is on its run lets go of a flow it holds.
LEMMA LetsGo ==
  ASSUME TypeOK, Holds, NEW s \in Stages, work[s].pc # "idle", Finish(s) \/ Fail(s)
  PROVE  LET r == work[s].run
         IN /\ r \in Runs /\ flow[r].stage = s /\ flow[r].held
            /\ work' = [work EXCEPT ![s] = NoWork]
            /\ \E f \in Live :
                 /\ flow' = [flow EXCEPT ![r] = f]
                 /\ f.version = flow[r].version /\ ~ f.held
                 /\ Finish(s) => f.stage = NextStage(s, mode[Mine(s)])
                 /\ Fail(s) => f.stage = "dead"
<1> DEFINE r == work[s].run
           f == [flow[r] EXCEPT !.held = FALSE, !.stalls = 0,
                                !.stage = NextStage(s, mode[Mine(s)])]
           g == [flow[r] EXCEPT !.stage = "dead", !.held = FALSE]
<1>1. r \in Runs /\ flow[r] \in Live /\ flow[r].stage = s /\ flow[r].held
  BY BusyType, OnRun DEF Holds, Busy
<1>2. f \in Live /\ f.version = flow[r].version /\ ~ f.held
      /\ f.stage = NextStage(s, mode[Mine(s)])
  <2>1. f \in Live
    BY <1>1, NextStageType, FinishedFlow
  <2>2. QED
    BY <1>1, <2>1 DEF Live
<1>3. g \in Live /\ g.version = flow[r].version /\ ~ g.held /\ g.stage = "dead"
  BY <1>1 DEF Live
<1>4. Finish(s) => flow' = [flow EXCEPT ![r] = f]
  BY <1>1 DEF Finish
<1>5. Fail(s) => flow' = [flow EXCEPT ![r] = g]
  BY <1>1 DEF Fail
<1>6. work' = [work EXCEPT ![s] = NoWork]
  BY DEF Finish, Fail
<1>7. ~ (Finish(s) /\ Fail(s))
  <2>1. Finish(s) /\ Fail(s) => flow'[r] = f /\ flow'[r] = g
    BY <1>1, <1>4, <1>5 DEF TypeOK
  <2>2. f.stage # "dead"
    BY <1>2, NextStageType DEF Stages
  <2>3. QED
    BY <1>3, <2>1, <2>2
<1>8. QED
  BY <1>1, <1>2, <1>3, <1>4, <1>5, <1>6, <1>7

LEMMA HoldsKept ==
  ASSUME TypeOK, Holds, NEW s \in Stages, Keeps(s), UNCHANGED <<handler, up>>
  PROVE  Holds'
<1>1. PICK n \in Busy : n.run = work[s].run /\ work' = [work EXCEPT ![s] = n]
  BY DEF Keeps
<1>2. work[s] # NoWork /\ n # NoWork
  BY BusyIsNotNoWork DEF Keeps, NoWork
<1>3. ASSUME NEW x \in Stages
      PROVE  work'[x].run = work[x].run /\ (work'[x] # NoWork <=> work[x] # NoWork)
  BY <1>1, <1>2 DEF TypeOK
<1>4. UNCHANGED flow
  BY DEF Keeps
<1>5. QED
  BY <1>3, <1>4 DEF Holds

LEMMA HoldsLeft ==
  ASSUME TypeOK, Holds, NEW s \in Stages, work[s].pc # "idle",
         (Finish(s) /\ UNCHANGED handler) \/ Fail(s), UNCHANGED up
  PROVE  Holds'
<1> DEFINE r == work[s].run
<1>1. /\ r \in Runs /\ flow[r].stage = s /\ flow[r].held
      /\ work' = [work EXCEPT ![s] = NoWork]
  BY LetsGo
<1>2. PICK f \in Live : /\ flow' = [flow EXCEPT ![r] = f] /\ ~ f.held
                        /\ Fail(s) => f.stage = "dead"
  BY LetsGo
<1>3. ASSUME NEW x \in Stages, work'[x] # NoWork
      PROVE  flow'[work'[x].run].stage = x /\ flow'[work'[x].run].held
  <2>1. x # s /\ work'[x] = work[x] /\ work[x] # NoWork
    BY <1>1, <1>3 DEF TypeOK
  <2>2. work[x].run # r /\ work[x].run \in Runs
    BY <1>1, <2>1, OnRun DEF Holds
  <2>3. flow'[work[x].run] = flow[work[x].run]
    BY <1>2, <2>2 DEF TypeOK
  <2>4. QED
    BY <2>1, <2>3 DEF Holds
<1>4. ASSUME NEW x \in Runs, flow'[x].held
      PROVE  flow'[x].stage \in Stages /\ work'[flow'[x].stage].run = x
  <2>1. x # r /\ flow'[x] = flow[x]
    BY <1>1, <1>2, <1>4 DEF TypeOK
  <2>2. flow[x].stage \in Stages /\ work[flow[x].stage].run = x
    BY <1>4, <2>1 DEF Holds
  <2>3. flow[x].stage # s
    BY <2>1, <2>2
  <2>4. QED
    BY <1>1, <2>1, <2>2, <2>3 DEF TypeOK
<1>5. ASSUME NEW x \in Runs, handler'[x] = "job" PROVE flow'[x].stage = "dead"
  <2>1. CASE x = r
    <3>1. handler[r] # "job"
      BY <1>1 DEF Holds, Stages
    <3>2. Fail(s)
      BY <1>5, <2>1, <3>1
    <3>3. QED
      BY <1>1, <1>2, <2>1, <3>2 DEF TypeOK
  <2>2. CASE x # r
    <3>1. handler[x] = "job"
      BY <1>5, <2>2 DEF Fail, TypeOK
    <3>2. flow'[x] = flow[x]
      BY <1>2, <2>2 DEF TypeOK
    <3>3. QED
      BY <3>1, <3>2 DEF Holds
  <2>3. QED
    BY <2>1, <2>2
<1>6. QED
  BY <1>3, <1>4, <1>5 DEF Holds

LEMMA HoldsTaken ==
  ASSUME TypeOK, Holds, NEW s \in Stages, Take(s)
  PROVE  Holds'
<1>1. PICK r \in Runs : /\ flow[r].stage = s /\ ~ flow[r].held
        /\ flow' = [flow EXCEPT ![r].held = TRUE]
        /\ work' = [work EXCEPT ![s] = [run |-> r, delivery |-> flow[r].stalls, seen |-> {},
             pc |-> IF s \in {"parse", "chunk"} THEN "job" ELSE "begin"]]
  BY DEF Take
<1> DEFINE f == [flow[r] EXCEPT !.held = TRUE]
<1>2. flow[r] \in Live
  BY <1>1, StageIsLive DEF Stages
<1>3. f.stage = s /\ f.held /\ flow' = [flow EXCEPT ![r] = f]
  BY <1>1, <1>2 DEF Live
<1>4. flow'[r].stage = s /\ flow'[r].held /\ work'[s].run = r
  BY <1>1, <1>3 DEF TypeOK
<1>5. work[s] = NoWork
  BY OnRun DEF Take
<1>6. ASSUME NEW x \in Stages, x # s, work'[x] # NoWork
      PROVE  flow'[work'[x].run].stage = x /\ flow'[work'[x].run].held
  <2>1. work'[x] = work[x] /\ work[x] # NoWork
    BY <1>1, <1>6 DEF TypeOK
  <2>2. work[x].run # r /\ work[x].run \in Runs
    BY <1>1, <1>6, <2>1, OnRun DEF Holds
  <2>3. QED
    BY <1>3, <2>1, <2>2 DEF Holds, TypeOK
<1>7. ASSUME NEW x \in Runs, x # r, flow'[x].held
      PROVE  flow'[x].stage \in Stages /\ work'[flow'[x].stage].run = x
  <2>1. flow'[x] = flow[x]
    BY <1>3, <1>7 DEF TypeOK
  <2>2. flow[x].stage \in Stages /\ work[flow[x].stage].run = x
    BY <1>7, <2>1 DEF Holds
  <2>3. flow[x].stage # s
    BY <1>5, <2>2, OnRun
  <2>4. QED
    BY <1>1, <2>1, <2>2, <2>3 DEF TypeOK
<1>8. ASSUME NEW x \in Runs, handler'[x] = "job" PROVE flow'[x].stage = "dead"
  <2>1. flow[x].stage = "dead"
    BY <1>8 DEF Take, Holds
  <2>2. QED
    BY <1>1, <1>3, <2>1 DEF TypeOK, Stages
<1>9. up'
  BY DEF Take
<1>10. QED
  BY <1>4, <1>6, <1>7, <1>8, <1>9 DEF Holds

\* A request creates flows, and changes none.
LEMMA WebFlows ==
  ASSUME TypeOK, Handed, NEW q \in Requests, Web(q)
  PROVE  /\ UNCHANGED <<work, handler, up>>
         /\ \A r \in Runs : flow[r] # NoFlow => flow'[r] = flow[r]
         /\ \A r \in Runs : ~ flow[r].held => ~ flow'[r].held
<1>1. UNCHANGED <<work, handler, up>>
  BY DEF worker, Web, Upload, UploadDocument, UploadJob, Enqueue, EnqueueFails,
     RetryRead, ResetJob, ResetVersion, ResetDocument, DeletePoints, DeleteRow
<1>2. CASE Enqueue(q)
  <2>1. flow[req[q].run] = NoFlow
    BY <1>2 DEF Handed, Pending, Enqueue, ReqPc
  <2>2. QED
    BY <1>1, <1>2, <2>1 DEF Enqueue, TypeOK
<1>3. CASE ~ Enqueue(q)
  <2>1. UNCHANGED flow
    BY <1>3 DEF Web, Upload, UploadDocument, UploadJob, EnqueueFails,
       RetryRead, ResetJob, ResetVersion, ResetDocument, DeletePoints, DeleteRow
  <2>2. QED
    BY <1>1, <2>1
<1>4. QED
  BY <1>2, <1>3

\* Without a redelivery, a worker that died or a lost lock.
LEMMA HoldsNext ==
  ASSUME "crash" \notin Env, "stall" \notin Env, TypeOK, Handed, Holds, [Next]_vars
  PROVE  Holds'
<1>1. ASSUME NEW q \in Requests, Web(q) PROVE Holds'
  <2>1. UNCHANGED <<work, handler, up>>
    BY <1>1, WebFlows
  <2>2. \A r \in Runs : flow[r] # NoFlow => flow'[r] = flow[r]
    BY <1>1, WebFlows
  <2>3. \A r \in Runs : ~ flow[r].held => ~ flow'[r].held
    BY <1>1, WebFlows
  <2>4. ASSUME NEW s \in Stages, work[s] # NoWork
        PROVE  flow'[work[s].run] = flow[work[s].run]
    BY <2>2, <2>4, OnRun DEF TypeOK
  <2>5. ASSUME NEW r \in Runs, flow'[r].held
        PROVE  flow'[r] = flow[r] /\ flow[r].held
    BY <2>2, <2>3, <2>5 DEF NoFlow
  <2>6. ASSUME NEW r \in Runs, handler[r] = "job" PROVE flow'[r].stage = "dead"
    BY <2>2, <2>6, StageIsLive DEF Holds
  <2>7. QED
    BY <2>1, <2>4, <2>5, <2>6 DEF Holds
<1>2. ASSUME NEW s \in Stages, Stage(s) \/ StageFails(s) PROVE Holds'
  <2>1. CASE Take(s)
    BY <2>1, HoldsTaken
  <2>2. CASE ~ Take(s)
    <3>1. work[s].pc # "idle" /\ (Keeps(s) \/ Finish(s) \/ Fail(s))
      BY <1>2, <2>2, StageMoves
    <3>2. UNCHANGED up /\ (UNCHANGED handler \/ Fail(s))
      BY <1>2, StageLeavesAlone, StageListener
    <3>3. QED
      BY <3>1, <3>2, HoldsKept, HoldsLeft
  <2>3. QED
    BY <2>1, <2>2
<1>3. ASSUME NEW r \in Runs, Handler(r) PROVE Holds'
  <2>1. UNCHANGED <<flow, work, up>>
    BY <1>3 DEF Handler, HandlerJob, HandlerVersion, HandlerDocument
  <2>2. \A x \in Runs : handler'[x] = "job" => handler[x] = "job"
    BY <1>3 DEF Handler, HandlerJob, HandlerVersion, HandlerDocument, TypeOK
  <2>3. QED
    BY <2>1, <2>2 DEF Holds
<1>4. ASSUME NEW r \in Runs PROVE ~ Stalled(r)
  BY DEF Stalled, Holds
<1>5. ~ Crash /\ ~ Restart
  BY DEF Crash, Restart, Holds
<1>6. CASE UNCHANGED vars
  BY <1>6 DEF vars, worker, Holds
<1>7. QED
  BY <1>1, <1>2, <1>3, <1>4, <1>5, <1>6 DEF Next

\* A step of a stage moves no run into the stages, and into no other version.
LEMMA StageFlows ==
  ASSUME TypeOK, Holds, NEW s \in Stages, Stage(s) \/ StageFails(s), NEW x \in Runs
  PROVE  /\ flow'[x].version = flow[x].version
         /\ flow'[x] = NoFlow <=> flow[x] = NoFlow
         /\ flow'[x].stage \in Stages => flow[x].stage \in Stages
<1>1. CASE Take(s)
  <2>1. PICK r \in Runs : flow[r].stage = s /\ flow' = [flow EXCEPT ![r].held = TRUE]
    BY <1>1 DEF Take
  <2> DEFINE f == [flow[r] EXCEPT !.held = TRUE]
  <2>2. flow[r] \in Live
    BY <2>1, StageIsLive DEF Stages
  <2>3. f \in Live /\ f.version = flow[r].version /\ f.stage = s
    BY <2>1, <2>2 DEF Live
  <2>4. flow' = [flow EXCEPT ![r] = f]
    BY <2>1
  <2>5. QED
    BY <2>1, <2>2, <2>3, <2>4, LiveIsNotNoFlow DEF TypeOK
<1>2. CASE ~ Take(s) /\ Keeps(s)
  BY <1>2 DEF Keeps
<1>3. CASE ~ Take(s) /\ ~ Keeps(s)
  <2> DEFINE r == work[s].run
  <2>1. work[s].pc # "idle" /\ (Finish(s) \/ Fail(s))
    BY <1>3, StageMoves
  <2>2. r \in Runs /\ flow[r].stage = s
    BY <2>1, LetsGo
  <2>3. PICK f \in Live : flow' = [flow EXCEPT ![r] = f] /\ f.version = flow[r].version
    BY <2>1, LetsGo
  <2>4. flow[r] # NoFlow /\ f # NoFlow
    BY <2>2, StageIsLive, LiveIsNotNoFlow DEF Stages
  <2>5. QED
    BY <2>2, <2>3, <2>4 DEF TypeOK
<1>4. QED
  BY <1>1, <1>2, <1>3

\* A run that is past its last write does not come back.
LEMMA PastStays ==
  ASSUME TypeOK, Holds, NEW s \in Stages, Stage(s) \/ StageFails(s), NEW x \in Runs,
         Past(x)
  PROVE  Past(x)' \/ flow'[x].stage \notin Stages
<1>1. work["index"].run = x /\ work["index"].pc \in {"version_done", "return"}
  BY DEF Past
<1>2. CASE s # "index"
  <2>1. work'["index"] = work["index"]
    <3>1. CASE Take(s)
      BY <1>2, <3>1 DEF Take, TypeOK, Stages
    <3>2. CASE ~ Take(s)
      <4>1. Keeps(s) \/ Leaves(s)
        BY <3>2, StageMoves, FinishLeaves, FailLeaves
      <4>2. QED
        BY <1>2, <4>1 DEF Keeps, Leaves, TypeOK, Stages
    <3>3. QED
      BY <3>1, <3>2
  <2>2. QED
    BY <1>1, <2>1 DEF Past
<1>3. CASE s = "index"
  <2>1. IndexVersionDone \/ Finish(s) \/ Fail(s)
    BY <1>1, <1>3 DEF Stage, Take, Begin, UpdateJob, UpdateVersion, Body, Return,
       StageFails, Index, IndexRead, IndexClear, IndexUpsert, IndexVersionReady,
       IndexDocumentReady, IndexJobDone
  <2>2. CASE IndexVersionDone
    <3>1. work' = [work EXCEPT !["index"] = [work["index"] EXCEPT !.pc = "return"]]
      BY <2>2 DEF IndexVersionDone, Goto
    <3>2. work["index"] \in Busy
      BY <1>1, <1>3, BusyType
    <3>3. work'["index"].run = x /\ work'["index"].pc = "return"
      BY <1>1, <1>3, <3>1, <3>2 DEF TypeOK, Busy
    <3>4. QED
      BY <3>3 DEF Past
  <2>3. CASE Finish(s) \/ Fail(s)
    <3>1. work[s].pc # "idle" /\ work[s].run = x
      BY <1>1, <1>3
    <3>2. PICK f \in Live : /\ flow' = [flow EXCEPT ![x] = f]
                            /\ Finish(s) => f.stage = NextStage(s, mode[Mine(s)])
                            /\ Fail(s) => f.stage = "dead"
      BY <2>3, <3>1, LetsGo
    <3>3. f.stage \in {"done", "dead"}
      BY <1>3, <2>3, <3>2 DEF NextStage
    <3>4. flow'[x] = f
      BY <3>2 DEF TypeOK
    <3>5. QED
      BY <3>3, <3>4 DEF Stages
  <2>4. QED
    BY <2>1, <2>2, <2>3
<1>4. QED
  BY <1>2, <1>3

\* No version is uploaded, issued or requested by a step that is not a request.
LEMMA HandedKept ==
  ASSUME TypeOK, Handed, UNCHANGED <<issued, latest, req>>,
         doc' = "deleted" => doc = "deleted",
         \A r \in Runs : /\ flow'[r].version = flow[r].version
                         /\ flow'[r] = NoFlow <=> flow[r] = NoFlow,
         \A v \in Versions : v > latest \/ doc = "deleted" => job'[v] = job[v]
  PROVE  Handed'
BY PendingType DEF Handed, Pending

\* A job row is written for a version that is there.
LEMMA SetJobHanded ==
  ASSUME TypeOK, NEW r, NEW v \in Versions, v <= latest, NEW x, SetJob(r, v, x)
  PROVE  /\ \A u \in Versions : u > latest \/ doc = "deleted" => job'[u] = job[u]
         /\ \A u \in Versions : u # v => job'[u] = job[u]
         /\ stale \subseteq stale'
<1>1. latest \in Nat
  BY IngestAssumption DEF IngestAssumption, TypeOK
<1>2. QED
  BY <1>1, NaturalRuns DEF SetJob, TypeOK

LEMMA HandedStage ==
  ASSUME TypeOK, Handed, Holds, NEW s \in Stages, Stage(s) \/ StageFails(s)
  PROVE  Handed'
<1>1. UNCHANGED <<issued, latest, req>>
  BY StageLeavesAlone
<1>2. doc' = "deleted" => doc = "deleted"
  BY DEF rows, Stage, Take, Begin, UpdateJob, UpdateVersion, Body, Return, StageFails,
     ChunkRows, ChunkDelete, ChunkInsert, Index, IndexRead, IndexClear, IndexUpsert,
     IndexVersionReady, IndexDocumentReady, IndexJobDone, IndexVersionDone, SetDoc
<1>3. \A v \in Versions : v > latest \/ doc = "deleted" => job'[v] = job[v]
  <2>1. CASE UNCHANGED job
    BY <2>1
  <2>2. CASE work[s].pc # "idle" /\ \E x : SetJob(work[s].run, Mine(s), x)
    <3>1. Mine(s) \in Versions /\ flow[work[s].run] # NoFlow /\ work[s].run \in Runs
      BY <2>2, BusyType, LiveIsNotNoFlow DEF Busy
    <3>2. Mine(s) <= latest
      BY <3>1 DEF Handed, Mine
    <3>3. QED
      BY <2>2, <3>1, <3>2, SetJobHanded
  <2>3. QED
    BY <2>1, <2>2, StageJob DEF UpdateJob, IndexJobDone
<1>4. QED
  BY <1>1, <1>2, <1>3, StageFlows, HandedKept

LEMMA HandedListener ==
  ASSUME TypeOK, Handed, Holds, NEW r \in Runs, Handler(r)
  PROVE  Handed'
<1>1. UNCHANGED <<issued, latest, req, flow>> /\ (doc' = "deleted" => doc = "deleted")
  BY DEF Handler, HandlerJob, HandlerVersion, HandlerDocument, SetDoc
<1>2. \A v \in Versions : v > latest \/ doc = "deleted" => job'[v] = job[v]
  <2>1. CASE HandlerJob(r)
    <3>1. flow[r].version \in Versions /\ flow[r] # NoFlow
      BY <2>1, StageIsLive DEF HandlerJob, Holds
    <3>2. flow[r].version <= latest
      BY <3>1 DEF Handed
    <3>3. QED
      BY <2>1, <3>1, <3>2, SetJobHanded DEF HandlerJob
  <2>2. CASE ~ HandlerJob(r)
    BY <2>2 DEF Handler, HandlerVersion, HandlerDocument
  <2>3. QED
    BY <2>1, <2>2
<1>3. QED
  BY <1>1, <1>2, HandedKept

\* A request that only goes on, or ends, keeps what it names.
LEMMA HandedGoesOn ==
  ASSUME TypeOK, Handed, UNCHANGED <<issued, latest>>,
         doc' = "deleted" => doc = "deleted" \/ \A v \in Versions : job'[v] = "none",
         \A p \in Requests : Pending(p)' =>
           /\ Pending(p) /\ req'[p].run = req[p].run /\ req'[p].version = req[p].version
           /\ flow'[req[p].run] = flow[req[p].run],
         \A r \in Runs : flow'[r] # NoFlow => r <= issued /\ flow'[r].version <= latest,
         \A v \in Versions :
           v > latest \/ doc = "deleted" => job'[v] \in {job[v], "none"}
  PROVE  Handed'
BY DEF Handed

\* How the requests change that are not q, and what becomes of q.
LEMMA OtherRequests ==
  ASSUME TypeOK, NEW q \in Requests, Web(q), NEW p \in Requests, p # q
  PROVE  req'[p] = req[p]
BY DEF Web, Upload, UploadDocument, UploadJob, Enqueue, EnqueueFails, RetryRead,
   ResetJob, ResetVersion, ResetDocument, DeletePoints, DeleteRow, Respond, TypeOK

Begins(q) == Upload(q) \/ RetryRead(q)

LEMMA RequestGoesOn ==
  ASSUME TypeOK, NEW q \in Requests, Web(q), ~ Begins(q), Pending(q)'
  PROVE  /\ Pending(q) /\ req'[q].run = req[q].run /\ req'[q].version = req[q].version
         /\ req'[q].pc = "reset_job" => req[q].pc = "reset_job"
         /\ req[q].pc = "reset_job" => ResetJob(q)
         /\ ~ Enqueue(q)
<1>1. Respond(q) => req'[q] = NoRequest
  BY DEF Respond, TypeOK
<1>2. ~ Respond(q)
  BY <1>1 DEF Pending, ReqPc, NoRequest
<1>3. ~ DeletePoints(q)
  BY DEF DeletePoints, Pending, ReqPc, NoRequest, TypeOK
<1>4. /\ Pending(q)
      /\ \E c \in ReqPc \ {"reset_job"} : req' = [req EXCEPT ![q].pc = c]
      /\ req[q].pc = "reset_job" => ResetJob(q)
      /\ ~ Enqueue(q)
  BY <1>2, <1>3 DEF Begins, Web, UploadDocument, UploadJob, Enqueue, EnqueueFails,
     ResetJob, ResetVersion, ResetDocument, DeleteRow, Pending, ReqPc
<1>5. req[q] \in [pc : ReqPc, version : Versions, run : Runs]
  BY <1>4, RequestType DEF Pending
<1>6. QED
  BY <1>4, <1>5 DEF TypeOK

LEMMA EnqueuedFlow ==
  ASSUME TypeOK, NEW q \in Requests, Enqueue(q), NEW r \in Runs
  PROVE  /\ r = req[q].run => flow'[r].version = req[q].version
         /\ r # req[q].run => flow'[r] = flow[r]
<1> DEFINE f == [version |-> req[q].version, stage |-> "parse",
                 held |-> FALSE, stalls |-> 0]
<1>1. flow' = [flow EXCEPT ![req[q].run] = f] /\ f.version = req[q].version
  BY DEF Enqueue
<1> HIDE DEF f
<1>2. QED
  BY <1>1 DEF TypeOK

LEMMA HandedWeb ==
  ASSUME TypeOK, Handed, NEW q \in Requests, Web(q)
  PROVE  Handed'
<1> USE DEF rows
<1>1. latest \in Nat /\ issued \in Nat
  BY IngestAssumption DEF IngestAssumption, TypeOK
<1>2. CASE Begins(q)
  <2>1. PICK v \in Versions : \E c \in ReqPc :
          req' = [req EXCEPT ![q] = [pc |-> c, version |-> v, run |-> issued + 1]]
          /\ v <= latest' /\ (Upload(q) => v = latest + 1)
    <3>1. CASE Upload(q)
      <4>1. latest + 1 \in Versions /\ latest + 1 <= latest'
        BY <1>1, <3>1, IngestAssumption DEF Upload, IngestAssumption, Versions
      <4>2. QED
        BY <3>1, <4>1 DEF Upload, ReqPc
    <3>2. CASE ~ Upload(q)
      <4>1. PICK v \in Versions : /\ job[v] \in {"completed", "failed"}
              /\ req' = [req EXCEPT ![q] =
                   [pc |-> "reset_job", version |-> v, run |-> issued + 1]]
        BY <1>2, <3>2 DEF Begins, RetryRead
      <4>2. v <= latest /\ latest' = latest
        BY <1>1, <1>2, <3>2, <4>1, NaturalRuns DEF Begins, RetryRead, Handed
      <4>3. QED
        BY <3>2, <4>1, <4>2 DEF ReqPc
    <3>3. QED
      BY <3>1, <3>2
  <2>2. issued' = issued + 1 /\ issued + 1 \in Runs /\ flow' = flow /\ job' = job
        /\ latest <= latest' /\ latest' \in Nat
    BY <1>1, <1>2, IngestAssumption DEF Begins, Upload, RetryRead, IngestAssumption, Runs
  <2>3. req'[q].run = issued + 1 /\ req'[q].version = v
    BY <2>1 DEF TypeOK
  <2>4. flow[issued + 1] = NoFlow
    BY <1>1, <2>2 DEF Handed
  <2>5. \A p \in Requests : Pending(p) =>
          req[p].run \in Nat /\ req[p].version \in Nat
          /\ req[p].run <= issued /\ req[p].version <= latest /\ flow[req[p].run] = NoFlow
    BY PendingType, NaturalRuns DEF Handed
  <2>6. ASSUME NEW p \in Requests, p # q
        PROVE  req'[p] = req[p] /\ (Pending(p)' <=> Pending(p))
    BY <2>6, OtherRequests DEF Pending
  <2>7. ASSUME NEW p \in Requests, Pending(p)'
        PROVE  /\ req'[p].run <= issued' /\ req'[p].version <= latest'
               /\ flow'[req'[p].run] = NoFlow
    <3>1. CASE p = q
      BY <1>1, <2>1, <2>2, <2>3, <2>4, <3>1
    <3>2. CASE p # q
      <4>1. req'[p] = req[p] /\ Pending(p)
        BY <2>6, <2>7, <3>2
      <4>2. /\ req[p].run \in Nat /\ req[p].version \in Nat
            /\ req[p].run <= issued /\ req[p].version <= latest
            /\ flow[req[p].run] = NoFlow
        BY <2>5, <4>1
      <4>3. QED
        BY <1>1, <2>2, <4>1, <4>2
    <3>3. QED
      BY <3>1, <3>2
  <2>8. ASSUME NEW p1 \in Requests, NEW p2 \in Requests, Pending(p1)', Pending(p2)',
               req'[p1].run = req'[p2].run
        PROVE  p1 = p2
    <3>1. \A p \in Requests : p # q /\ Pending(p)' => req'[p].run # issued + 1
      BY <1>1, <2>5, <2>6
    <3>2. QED
      BY <2>3, <2>6, <2>8, <3>1 DEF Handed
  <2>9. ASSUME NEW r \in Runs, flow'[r] # NoFlow
        PROVE  r <= issued' /\ flow'[r].version <= latest'
    <3>1. r <= issued /\ flow[r].version <= latest /\ r \in Nat
      BY <2>2, <2>9, NaturalRuns DEF Handed
    <3>2. flow[r].version \in Nat
      BY <2>2, <2>9, NaturalRuns DEF TypeOK, Flow
    <3>3. QED
      BY <1>1, <2>2, <3>1, <3>2
  <2>10. ASSUME NEW u \in Versions, u > latest' \/ doc' = "deleted"
         PROVE  job'[u] = "none"
    <3>1. u > latest \/ doc = "deleted"
      BY <1>1, <1>2, <2>2, <2>10, NaturalRuns DEF Begins, Upload, RetryRead
    <3>2. QED
      BY <2>2, <3>1 DEF Handed
  <2>11. QED
    BY <2>7, <2>8, <2>9, <2>10 DEF Handed
<1>3. CASE ~ Begins(q)
  <2>1. UNCHANGED <<issued, latest>>
    BY <1>3 DEF Begins, Web, UploadDocument, UploadJob, Enqueue, EnqueueFails,
       ResetJob, ResetVersion, ResetDocument, DeletePoints, DeleteRow
  <2>2. ASSUME NEW p \in Requests, Pending(p)'
        PROVE  /\ Pending(p) /\ req'[p].run = req[p].run
               /\ req'[p].version = req[p].version /\ flow'[req[p].run] = flow[req[p].run]
    <3>1. /\ Pending(p) /\ req'[p].run = req[p].run /\ req'[p].version = req[p].version
          /\ ~ (p = q /\ Enqueue(q))
      BY <1>3, <2>2, OtherRequests, RequestGoesOn DEF Pending
    <3>2. CASE Enqueue(q)
      <4>1. p # q /\ Pending(q)
        BY <3>1, <3>2 DEF Enqueue, Pending, ReqPc
      <4>2. req[p].run # req[q].run
        BY <3>1, <4>1 DEF Handed
      <4>3. QED
        BY <3>1, <3>2, <4>2, PendingType DEF Enqueue, TypeOK
    <3>3. CASE ~ Enqueue(q)
      BY <1>3, <3>1, <3>3 DEF Begins, Web, UploadDocument, UploadJob, EnqueueFails,
         ResetJob, ResetVersion, ResetDocument, DeletePoints, DeleteRow
    <3>4. QED
      BY <3>2, <3>3
  <2>3. ASSUME NEW r \in Runs, flow'[r] # NoFlow
        PROVE  r <= issued /\ flow'[r].version <= latest
    <3>1. CASE Enqueue(q)
      <4>1. Pending(q)
        BY <3>1 DEF Enqueue, Pending, ReqPc
      <4>2. /\ r = req[q].run => flow'[r].version = req[q].version
            /\ r # req[q].run => flow'[r] = flow[r]
        BY <3>1, EnqueuedFlow
      <4>3. QED
        BY <2>3, <4>1, <4>2 DEF Handed
    <3>2. CASE ~ Enqueue(q)
      BY <1>3, <2>3, <3>2 DEF Begins, Web, UploadDocument, UploadJob, EnqueueFails,
         ResetJob, ResetVersion, ResetDocument, DeletePoints, DeleteRow, Handed
    <3>3. QED
      BY <3>1, <3>2
  <2>4. ASSUME NEW v \in Versions, v > latest \/ doc = "deleted"
        PROVE  job'[v] \in {job[v], "none"}
    <3>1. CASE Pending(q) /\ \E x : SetJob(req[q].run, req[q].version, x)
      <4>1. req[q].version \in Versions /\ req[q].version <= latest
        BY <3>1, PendingType DEF Handed
      <4>2. QED
        BY <2>4, <3>1, <4>1, SetJobHanded
    <3>2. CASE DeleteRow(q) \/ UNCHANGED job
      BY <3>2 DEF DeleteRow
    <3>3. QED
      BY <1>3, <3>1, <3>2 DEF Begins, Web, UploadDocument, UploadJob, Enqueue,
         EnqueueFails, ResetJob, ResetVersion, ResetDocument, DeletePoints, Pending, ReqPc
  <2>5. doc' = "deleted" => doc = "deleted" \/ \A v \in Versions : job'[v] = "none"
    BY <1>3 DEF Begins, Web, UploadDocument, UploadJob, Enqueue, EnqueueFails,
       ResetJob, ResetVersion, ResetDocument, DeletePoints, DeleteRow, SetDoc
  <2>6. QED
    BY <2>1, <2>2, <2>3, <2>4, <2>5, HandedGoesOn
<1>4. QED
  BY <1>2, <1>3

LEMMA HandedNext ==
  ASSUME "crash" \notin Env, "stall" \notin Env, TypeOK, Handed, Holds, [Next]_vars
  PROVE  Handed'
<1>1. ASSUME NEW r \in Runs PROVE ~ Stalled(r)
  BY DEF Stalled, Holds
<1>2. ~ Crash /\ ~ Restart
  BY DEF Crash, Restart, Holds
<1>3. CASE UNCHANGED vars
  BY <1>3 DEF vars, rows, Handed, Pending
<1>4. QED
  BY <1>1, <1>2, <1>3, HandedWeb, HandedStage, HandedListener DEF Next

\* A step that puts no run in hand and makes none current, and settles no job
\* that a current run is about.
LEMMA LastRunKept ==
  ASSUME LastRun, stale \subseteq stale',
         \A r \in Runs : \A v \in Versions : InHand(r, v)' => InHand(r, v),
         \A r \in Runs : \A v \in Versions \ stale' :
           Current(r, v)' => Current(r, v) /\ (job'[v] \notin Settled \/ job'[v] = job[v])
  PROVE  LastRun'
BY DEF LastRun

LEMMA InHandKept ==
  ASSUME UNCHANGED req, NEW r \in Runs, flow'[r].version = flow[r].version, NEW v
  PROVE  InHand(r, v)' <=> InHand(r, v)
BY DEF InHand

\* A run that is current is not a replaced one.
LEMMA WrittenByLast ==
  ASSUME TypeOK, LastRun, NEW r0 \in Runs, NEW v \in Versions, NEW x,
         SetJob(r0, v, x), InHand(r0, v), v \notin stale',
         NEW r \in Runs, Current(r, v)
  PROVE  r = r0 /\ v \notin stale
<1>1. ~ \E y \in Runs : y > r0 /\ InHand(y, v)
  BY DEF SetJob
<1>2. v \notin stale
  BY <1>1 DEF SetJob
<1>3. r0 <= r /\ InHand(r, v)
  BY <1>2, CurrentInHand DEF LastRun
<1>4. QED
  BY <1>1, <1>2, <1>3, NaturalRuns

\* A run with a flow has no request.
LEMMA FlowCurrent ==
  ASSUME TypeOK, Handed, NEW r \in Runs, flow[r] # NoFlow, NEW v, Current(r, v)
  PROVE  flow[r].version = v /\ flow[r].stage \in Stages /\ ~ Past(r)
BY DEF Current, Handed

LEMMA LastRunStage ==
  ASSUME TypeOK, Handed, Holds, LastRun, NEW s \in Stages, Stage(s) \/ StageFails(s)
  PROVE  LastRun'
<1>1. UNCHANGED req
  BY StageLeavesAlone
<1>2. ASSUME NEW r \in Runs, NEW v \in Versions
      PROVE  InHand(r, v)' => InHand(r, v)
  BY <1>1, StageFlows, InHandKept
<1>3. ASSUME NEW r \in Runs, NEW v, Current(r, v)' PROVE Current(r, v)
  <2>1. CASE flow'[r].version = v /\ flow'[r].stage \in Stages /\ ~ Past(r)'
    <3>1. flow[r].version = v /\ flow[r].stage \in Stages
      BY <2>1, StageFlows
    <3>2. ~ Past(r)
      BY <2>1, PastStays
    <3>3. QED
      BY <3>1, <3>2 DEF Current
  <2>2. CASE ~ (flow'[r].version = v /\ flow'[r].stage \in Stages /\ ~ Past(r)')
    BY <1>1, <1>3, <2>2 DEF Current, Pending
  <2>3. QED
    BY <2>1, <2>2
<1>4. CASE UNCHANGED <<job, stale>>
  BY <1>2, <1>3, <1>4, LastRunKept
<1>5. CASE UpdateJob(s) /\ SetJob(work[s].run, Mine(s), "running")
  <2>1. Mine(s) \in Versions
    BY <1>5, BusyType DEF UpdateJob
  <2>2. \A v \in Versions : job'[v] \notin Settled \/ job'[v] = job[v]
    BY <1>5 DEF SetJob, Settled, TypeOK
  <2>3. stale \subseteq stale'
    BY <1>5 DEF SetJob
  <2>4. QED
    BY <1>2, <1>3, <2>2, <2>3, LastRunKept
<1>6. CASE s = "index" /\ IndexJobDone
  <2> DEFINE r0 == work["index"].run
             u == flow[r0].version
  <2>1. /\ r0 \in Runs /\ u \in Versions /\ SetJob(r0, u, "completed")
        /\ flow[r0] # NoFlow /\ flow' = flow
    BY <1>6, BusyType, LiveIsNotNoFlow DEF IndexJobDone, Mine, Busy
  <2>2. work' = [work EXCEPT !["index"] = [work["index"] EXCEPT !.pc = "version_done"]]
    BY <1>6 DEF IndexJobDone, Goto
  <2>3. work["index"] \in Busy
    BY <1>6, BusyType DEF IndexJobDone
  <2>4. work'["index"].run = r0 /\ work'["index"].pc = "version_done"
    BY <1>6, <2>2, <2>3 DEF TypeOK, Busy
  <2>5. ASSUME NEW r \in Runs, NEW v \in Versions \ stale', Current(r, v)'
        PROVE  job'[v] = job[v]
    <3>1. CASE v = u
      <4>1. Current(r, u) /\ InHand(r0, u) /\ u \notin stale'
        BY <1>3, <2>5, <3>1 DEF InHand
      <4>2. r = r0
        BY <2>1, <4>1, WrittenByLast
      <4>3. ~ \E q \in Requests : Pending(q) /\ req[q].run = r
        BY <2>1, <4>2 DEF Handed
      <4>4. ~ Past(r)'
        BY <1>1, <2>5, <4>3 DEF Current, Pending
      <4>5. QED
        BY <2>4, <4>2, <4>4 DEF Past
    <3>2. CASE v # u
      BY <2>1, <3>2 DEF SetJob, TypeOK
    <3>3. QED
      BY <3>1, <3>2
  <2>6. stale \subseteq stale'
    BY <2>1 DEF SetJob
  <2>7. QED
    BY <1>2, <1>3, <2>5, <2>6, LastRunKept
<1>7. QED
  BY <1>4, <1>5, <1>6, StageJob

LEMMA LastRunListener ==
  ASSUME TypeOK, Handed, Holds, LastRun, NEW r0 \in Runs, Handler(r0)
  PROVE  LastRun'
<1>1. UNCHANGED <<req, flow, work>>
  BY DEF Handler, HandlerJob, HandlerVersion, HandlerDocument
<1>2. /\ \A r \in Runs : \A v \in Versions : InHand(r, v)' => InHand(r, v)
      /\ \A r \in Runs : \A v \in Versions : Current(r, v)' => Current(r, v)
  BY <1>1 DEF InHand, Current, Pending, Past
<1>3. CASE HandlerJob(r0)
  <2> DEFINE u == flow[r0].version
  <2>1. flow[r0].stage = "dead" /\ SetJob(r0, u, "failed")
    BY <1>3 DEF HandlerJob, Holds
  <2>2. u \in Versions /\ flow[r0] # NoFlow
    BY <2>1, StageIsLive
  <2>3. ASSUME NEW r \in Runs, NEW v \in Versions \ stale', Current(r, v)
        PROVE  job'[v] = job[v]
    <3>1. CASE v = u
      <4>1. InHand(r0, u)
        BY DEF InHand
      <4>2. r = r0
        BY <2>1, <2>2, <2>3, <3>1, <4>1, WrittenByLast
      <4>3. flow[r0].stage \in Stages
        BY <2>2, <2>3, <4>2, FlowCurrent
      <4>4. QED
        BY <2>1, <4>3 DEF Stages
    <3>2. CASE v # u
      BY <2>1, <3>2 DEF SetJob, TypeOK
    <3>3. QED
      BY <3>1, <3>2
  <2>4. stale \subseteq stale'
    BY <2>1 DEF SetJob
  <2>5. QED
    BY <1>2, <2>3, <2>4, LastRunKept
<1>4. CASE ~ HandlerJob(r0)
  <2>1. UNCHANGED <<job, stale>>
    BY <1>4 DEF Handler, HandlerVersion, HandlerDocument
  <2>2. QED
    BY <1>2, <2>1, LastRunKept
<1>5. QED
  BY <1>3, <1>4

LEMMA LastRunWeb ==
  ASSUME TypeOK, Handed, Holds, LastRun, NEW q \in Requests, Web(q)
  PROVE  LastRun'
<1> USE DEF rows
<1>1. \A p \in Requests : p # q =>
        /\ req'[p] = req[p]
        /\ Pending(p)' <=> Pending(p)
  BY OtherRequests DEF Pending
<1>2. UNCHANGED work
  BY WebFlows
<1>3. \A r \in Runs : Past(r)' <=> Past(r)
  BY <1>2 DEF Past
<1>4. latest \in Nat /\ issued \in Nat
  BY IngestAssumption DEF IngestAssumption, TypeOK
<1>5. CASE Begins(q)
  <2>1. UNCHANGED <<flow, job, stale>>
    BY <1>5 DEF Begins, Upload, RetryRead
  <2>2. PICK v0 : req' = [req EXCEPT ![q] =
          [pc |-> IF Upload(q) THEN "document" ELSE "reset_job",
           version |-> v0, run |-> issued + 1]]
          /\ (Upload(q) => v0 = latest + 1)
          /\ (~ Upload(q) => v0 \in Versions /\ job[v0] \in Settled)
    <3>1. CASE Upload(q)
      BY <3>1 DEF Upload
    <3>2. CASE ~ Upload(q)
      BY <1>5, <3>2 DEF Begins, RetryRead, Settled
    <3>3. QED
      BY <3>1, <3>2
  <2>3. /\ req'[q].run = issued + 1 /\ req'[q].version = v0
        /\ req'[q].pc = IF Upload(q) THEN "document" ELSE "reset_job"
    BY <2>2 DEF TypeOK
  <2>4. ASSUME NEW r \in Runs, NEW v \in Versions, v # v0
        PROVE  /\ InHand(r, v)' => InHand(r, v)
               /\ Current(r, v)' => Current(r, v)
    BY <1>1, <1>3, <2>1, <2>3, <2>4 DEF InHand, Current, Pending
  <2>5. CASE Upload(q)
    <3>1. ASSUME NEW r \in Runs, v0 \in Versions PROVE ~ InHand(r, v0)
      <4>1. v0 > latest
        BY <1>4, <2>2, <2>5
      <4>2. ~ flow[r].version = v0
        BY <1>4, <3>1, <4>1, NaturalRuns DEF Handed, NoFlow
      <4>3. \A p \in Requests : Pending(p) => req[p].version # v0
        BY <1>4, <3>1, <4>1, NaturalRuns DEF Handed
      <4>4. QED
        BY <4>2, <4>3 DEF InHand, Pending
    <3>2. ASSUME NEW r \in Runs, v0 \in Versions, InHand(r, v0)' PROVE r = issued + 1
      BY <1>1, <2>1, <2>3, <3>1, <3>2 DEF InHand, Pending
    <3>3. ASSUME NEW v \in Versions \ stale', NEW r \in Runs, Current(r, v)'
          PROVE  job'[v] \notin Settled /\ \A x \in Runs : InHand(x, v)' => x <= r
      <4>1. CASE v = v0
        <5>1. job[v0] = "none"
          BY <1>4, <2>2, <2>5, <4>1 DEF Handed
        <5>2. InHand(r, v0)'
          BY <3>3, <4>1 DEF Current, InHand, Pending
        <5>3. r = issued + 1 /\ \A x \in Runs : InHand(x, v0)' => x = r
          BY <3>2, <4>1, <5>2
        <5>4. r <= r
          BY NaturalRuns
        <5>5. QED
          BY <2>1, <4>1, <5>1, <5>3, <5>4 DEF Settled
      <4>2. CASE v # v0
        BY <2>1, <2>4, <3>3, <4>2 DEF LastRun
      <4>3. QED
        BY <4>1, <4>2
    <3>4. QED
      BY <3>3 DEF LastRun
  <2>6. CASE ~ Upload(q)
    <3>1. ASSUME NEW r \in Runs, Current(r, v0)' PROVE Current(r, v0)
      BY <1>1, <1>3, <2>1, <2>3, <2>6, <3>1 DEF Current, Pending
    <3>2. ASSUME NEW v \in Versions \ stale', NEW r \in Runs, Current(r, v)'
          PROVE  job'[v] \notin Settled /\ \A x \in Runs : InHand(x, v)' => x <= r
      <4>1. CASE v = v0
        BY <2>1, <2>2, <2>6, <3>1, <3>2, <4>1 DEF LastRun
      <4>2. CASE v # v0
        BY <2>1, <2>4, <3>2, <4>2 DEF LastRun
      <4>3. QED
        BY <4>1, <4>2
    <3>3. QED
      BY <3>2 DEF LastRun
  <2>7. QED
    BY <2>5, <2>6
<1>6. CASE Enqueue(q)
  <2>1. Pending(q) /\ req[q].pc = "enqueue" /\ ~ Pending(q)' /\ UNCHANGED <<job, stale>>
    BY <1>6 DEF Enqueue, Respond, Pending, ReqPc, NoRequest, TypeOK
  <2>2. ASSUME NEW r \in Runs
        PROVE  /\ r = req[q].run => flow'[r].version = req[q].version
               /\ r # req[q].run => flow'[r] = flow[r]
    BY <1>6, EnqueuedFlow
  <2>3. ASSUME NEW r \in Runs, NEW v, InHand(r, v)' PROVE InHand(r, v)
    <3>1. CASE flow'[r].version = v
      BY <2>1, <2>2, <3>1 DEF InHand, Pending
    <3>2. CASE flow'[r].version # v
      BY <1>1, <2>1, <2>3, <3>2 DEF InHand, Pending
    <3>3. QED
      BY <3>1, <3>2
  <2>4. ASSUME NEW r \in Runs, NEW v, Current(r, v)' PROVE Current(r, v)
    <3>1. CASE r = req[q].run /\ v = req[q].version
      BY <2>1, <3>1 DEF Current
    <3>2. CASE ~ (r = req[q].run /\ v = req[q].version)
      BY <1>1, <1>3, <2>1, <2>2, <2>4, <3>2 DEF Current, Pending
    <3>3. QED
      BY <3>1, <3>2
  <2>5. QED
    BY <2>1, <2>3, <2>4, LastRunKept
<1>7. CASE ~ Begins(q) /\ ~ Enqueue(q)
  <2>1. UNCHANGED flow
    BY <1>7 DEF Begins, Web, UploadDocument, UploadJob, EnqueueFails,
       ResetJob, ResetVersion, ResetDocument, DeletePoints, DeleteRow
  <2>2. Pending(q)' => /\ Pending(q) /\ req'[q].run = req[q].run
                       /\ req'[q].version = req[q].version
                       /\ req[q].pc = "reset_job" => ResetJob(q)
                       /\ req'[q].pc = "reset_job" => req[q].pc = "reset_job"
    BY <1>7, RequestGoesOn
  <2>3. ASSUME NEW r \in Runs, NEW v, InHand(r, v)' PROVE InHand(r, v)
    BY <1>1, <2>1, <2>2, <2>3 DEF InHand, Pending
  <2>4. ASSUME NEW r \in Runs, NEW v, Current(r, v)',
               ~ (ResetJob(q) /\ r = req[q].run /\ v = req[q].version)
        PROVE  Current(r, v)
    BY <1>1, <1>3, <2>1, <2>2, <2>4 DEF Current
  <2>5. CASE ResetJob(q)
    <3> DEFINE r0 == req[q].run
               u == req[q].version
    <3>1. SetJob(r0, u, "queued") /\ Pending(q) /\ r0 \in Runs /\ u \in Versions
      BY <2>5, PendingType DEF ResetJob, Pending, ReqPc
    <3>2. InHand(r0, u)
      BY <3>1 DEF InHand, Pending
    <3>3. ASSUME NEW v \in Versions PROVE job'[v] = job[v] \/ job'[v] \notin Settled
      BY <3>1 DEF SetJob, Settled, TypeOK
    <3>4. stale \subseteq stale'
      BY <3>1 DEF SetJob
    <3>5. job'[u] \notin Settled
      BY <3>1 DEF SetJob, Settled, Handed, TypeOK
    <3>6. ASSUME NEW v \in Versions \ stale', NEW r \in Runs, Current(r, v)'
          PROVE  job'[v] \notin Settled /\ \A x \in Runs : InHand(x, v)' => x <= r
      <4>1. CASE r = r0 /\ v = u
        <5>1. \A x \in Runs : InHand(x, u) => ~ (x > r0)
          BY <3>1, <3>6, <4>1 DEF SetJob
        <5>2. ASSUME NEW x \in Runs, InHand(x, v)' PROVE x <= r0
          BY <2>3, <3>1, <4>1, <5>1, <5>2, NaturalRuns
        <5>3. QED
          BY <3>5, <4>1, <5>2
      <4>2. CASE ~ (r = r0 /\ v = u)
        <5>1. Current(r, v)
          BY <2>4, <3>6, <4>2
        <5>2. QED
          BY <2>3, <3>3, <3>4, <3>6, <5>1 DEF LastRun
      <4>3. QED
        BY <4>1, <4>2
    <3>7. QED
      BY <3>6 DEF LastRun
  <2>6. CASE ~ ResetJob(q)
    <3>1. /\ stale \subseteq stale'
          /\ \A v \in Versions : job'[v] \notin Settled \/ job'[v] = job[v]
      BY <1>7, <2>6 DEF Begins, Web, UploadDocument, UploadJob, EnqueueFails,
         ResetVersion, ResetDocument, DeletePoints, DeleteRow, SetJob, Settled, TypeOK
    <3>2. QED
      BY <2>3, <2>4, <2>6, <3>1, LastRunKept
  <2>7. QED
    BY <2>5, <2>6
<1>8. QED
  BY <1>5, <1>6, <1>7

LEMMA OneNext ==
  ASSUME "crash" \notin Env, "stall" \notin Env, OneInv, [Next]_vars
  PROVE  OneInv'
<1>1. TypeOK /\ Handed /\ Holds /\ LastRun
  BY DEF OneInv
<1>2. TypeOK'
  BY <1>1, TypeNext
<1>3. Handed' /\ Holds'
  BY <1>1, HandedNext, HoldsNext
<1>4. ASSUME NEW r \in Runs PROVE ~ Stalled(r)
  BY <1>1 DEF Stalled, Holds
<1>5. ~ Crash /\ ~ Restart
  BY <1>1 DEF Crash, Restart, Holds
<1>6. ASSUME UNCHANGED vars PROVE LastRun'
  <2>1. UNCHANGED <<job, flow, work, req, stale>>
    BY <1>6 DEF vars, rows, worker
  <2>2. ASSUME NEW r \in Runs, NEW v PROVE InHand(r, v)' => InHand(r, v)
    BY <2>1 DEF InHand
  <2>3. ASSUME NEW r \in Runs, NEW v PROVE Current(r, v)' => Current(r, v)
    BY <2>1 DEF Current, Pending, Past
  <2>4. QED
    BY <1>1, <2>1, <2>2, <2>3, LastRunKept
<1>7. LastRun'
  <2>1. ASSUME NEW q \in Requests, Web(q) PROVE LastRun'
    BY <1>1, <2>1, LastRunWeb
  <2>2. ASSUME NEW s \in Stages, Stage(s) \/ StageFails(s) PROVE LastRun'
    BY <1>1, <2>2, LastRunStage
  <2>3. ASSUME NEW r \in Runs, Handler(r) PROVE LastRun'
    BY <1>1, <2>3, LastRunListener
  <2>4. QED
    BY <1>4, <1>5, <1>6, <2>1, <2>2, <2>3 DEF Next
<1>8. QED
  BY <1>2, <1>3, <1>7 DEF OneInv

\* Whatever is uploaded, retried, deleted and fails, no two runs of a version
\* write at the same time unless a replaced run wrote its job row. Where a
\* delivery may be repeated this is false: a redelivered index stage writes again
\* after it has set the job completed and a retry has taken it.
THEOREM OneRunCorrect ==
  ASSUME "crash" \notin Env, "stall" \notin Env
  PROVE  Spec => []OneRunPerVersion
<1>1. OneInv /\ [Next]_vars => OneInv'
  BY OneNext
<1>2. QED
  BY <1>1, OneInit, OneInvImplies, PTL DEF Spec
=============================================================================
