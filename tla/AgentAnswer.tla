---------------------------- MODULE AgentAnswer ----------------------------
(***************************************************************************)
(* How an answer gets its citations.  The provider's query calls tools, a  *)
(* few at a time; every fetch of a URL passes a gate that the whole        *)
(* process shares.  Each source a tool returns is numbered by the citation *)
(* registry of the query, a hook records it as evidence, and the model     *)
(* writes the numbers into its text as markers.  When the query ends the   *)
(* markers are checked and renumbered, and the cited sources are stored as *)
(* the citations that the page shows for each marker.                      *)
(***************************************************************************)
EXTENDS Naturals, FiniteSets, Sequences, SequencesExt, Listings

CONSTANTS
  Anchors,     \* passages of documents
  Urls,        \* web pages
  Allowed,     \* the pages whose host may be fetched
  Calls,       \* the tool calls of the query
  MaxBatch,    \* MAX_FETCH_SOURCE_BATCH_URLS
  GateLimit,   \* resolveFetchSourceMaxConcurrency
  MaxMarks     \* bound: markers in the text

ASSUME AnswerAssumption ==
  /\ Anchors \cap Urls = {} /\ IsFiniteSet(Anchors) /\ IsFiniteSet(Urls)
  /\ Allowed \subseteq Urls
  /\ {GateLimit, MaxBatch} \subseteq Nat \ {0} /\ MaxMarks \in Nat

Sources == Anchors \cup Urls

VARIABLES
  calls,      \* the tool calls
  gate,       \* AsyncConcurrencyGate: activeCount and waiters
  fetching,   \* the fetches that run, as <<call, index>>
  tokens,     \* the registry: the source of each citation id
  evidence,   \* citationMap: the citation id of each source recorded
  text,       \* the ids of the markers in what the model wrote
  answer,     \* the answer and its citations
  access      \* passages in libraries the workspace may read

answerVars == <<calls, gate, fetching, tokens, evidence, text, answer, access>>

-----------------------------------------------------------------------------
(* Types.                                                                  *)

\* What a tool returns: sources with their citation ids.
Output == Seq(Sources \X Nat)

CallType ==
  [stage : {"idle", "fetch", "search", "out", "done"}, urls : Seq(Urls),
   next : Nat, res : Seq({"none", "ok", "failed"}), output : Output]

Task == Calls \X Nat

AnswerType ==
  [state : {"query", "ended", "completed", "stored", "failed"},
   raw : Seq(Nat), marks : Seq(Nat),
   citations : Seq(Sources), stored : Seq(Sources)]

\* Every variable has its type, and a fetch that runs has no result yet.
AnswerTypeOK ==
  /\ calls \in [Calls -> CallType]
  /\ gate \in [active : Nat, waiters : Seq(Task)]
  /\ fetching \in SUBSET Task
  /\ \A t \in fetching : calls[t[1]].res[t[2]] = "none"
  /\ tokens \in Seq(Sources)
  /\ DOMAIN evidence \subseteq Sources /\ evidence \in [DOMAIN evidence -> Nat]
  /\ text \in Seq(Nat)
  /\ answer \in AnswerType
  /\ access \subseteq Anchors

NoCall == [stage |-> "idle", urls |-> <<>>, next |-> 0, res |-> <<>>,
           output |-> <<>>]
NoAnswer == [state |-> "query", raw |-> <<>>, marks |-> <<>>,
             citations |-> <<>>, stored |-> <<>>]

AnswerInit ==
  /\ calls = [c \in Calls |-> NoCall]
  /\ gate = [active |-> 0, waiters |-> <<>>]
  /\ fetching = {}
  /\ tokens = <<>> /\ evidence = <<>>
  /\ text = <<>>
  /\ answer = NoAnswer
  /\ access = Anchors

Querying == answer.state = "query"

-----------------------------------------------------------------------------
(* The tools.                                                              *)

\* fetch_source and fetch_sources: duplicates are dropped (uniqueStrings).
CallFetch(c) ==
  /\ Querying /\ calls[c].stage = "idle"
  /\ \E us \in UNION {[1 .. n -> Urls] : n \in 1 .. MaxBatch} :
       /\ IsInjective(us)
       /\ calls' = [calls EXCEPT ![c] = [NoCall EXCEPT
                      !.stage = "fetch", !.urls = us,
                      !.res = [i \in DOMAIN us |-> "none"]]]
  /\ UNCHANGED <<gate, fetching, tokens, evidence, text, answer, access>>

\* search_workspace_knowledge and the tools that read anchors.
CallSearch(c) ==
  /\ Querying /\ calls[c].stage = "idle"
  /\ calls' = [calls EXCEPT ![c].stage = "search"]
  /\ UNCHANGED <<gate, fetching, tokens, evidence, text, answer, access>>

Finished(c) == {i \in DOMAIN calls[c].res : calls[c].res[i] # "none"}
FetchWorkers(c) == IF GateLimit < Len(calls[c].urls) THEN GateLimit
              ELSE Len(calls[c].urls)

\* AsyncConcurrencyGate.acquire: a slot at once, or the end of the queue.
Acquire(t) ==
  IF gate.active < GateLimit
  THEN /\ gate' = [gate EXCEPT !.active = @ + 1]
       /\ fetching' = fetching \cup {t}
  ELSE /\ gate' = [gate EXCEPT !.waiters = Append(@, t)]
       /\ UNCHANGED fetching

\* Mutant: a slot that is freed does not wake a waiter.
ReleaseForgets(t) ==
  /\ gate' = [gate EXCEPT !.active = IF @ = 0 THEN 0 ELSE @ - 1]
  /\ fetching' = fetching \ {t}

\* release: the slot goes to the first waiter, else it is free again.
Release(t) ==
  IF gate.waiters # <<>>
  THEN /\ gate' = [gate EXCEPT !.waiters = Tail(@)]
       /\ fetching' = (fetching \ {t}) \cup {Head(gate.waiters)}
  ELSE /\ gate' = [gate EXCEPT !.active = IF @ = 0 THEN 0 ELSE @ - 1]
       /\ fetching' = fetching \ {t}

\* A worker of mapWithConcurrencyLimit takes the next URL.  One whose host is
\* not allowed fails without entering the gate.
TakeUrl(c) ==
  /\ calls[c].stage = "fetch"
  /\ calls[c].next < Len(calls[c].urls)
  /\ calls[c].next < Cardinality(Finished(c)) + FetchWorkers(c)
  /\ LET i == calls[c].next + 1
     IN IF calls[c].urls[i] \in Allowed
        THEN /\ calls' = [calls EXCEPT ![c].next = i]
             /\ Acquire(<<c, i>>)
        ELSE /\ calls' = [calls EXCEPT ![c].next = i, ![c].res[i] = "failed"]
             /\ UNCHANGED <<gate, fetching>>
  /\ UNCHANGED <<tokens, evidence, text, answer, access>>

\* fetchMarkdownSource returns or throws; either way the slot is released.
FetchEnds(c, i) ==
  /\ <<c, i>> \in fetching
  /\ \E r \in {"ok", "failed"} : calls' = [calls EXCEPT ![c].res[i] = r]
  /\ Release(<<c, i>>)
  /\ UNCHANGED <<tokens, evidence, text, answer, access>>

IdOf(registry, s) == CHOOSE n \in DOMAIN registry : registry[n] = s

\* Mutant: each call counts its own sources.
NumberedPerCall(registry, found) == [k \in DOMAIN found |-> <<found[k], k>>]

Numbered(registry, found) ==
  [k \in DOMAIN found |-> <<found[k], IdOf(registry, found[k])>>]

\* ensureEntry: a source keeps the id it has, and a new one gets the next.
Entries(found) == tokens \o InOrder(found, ToSet(found) \ ToSet(tokens))

\* attachCitationMetadataToToolOutput: ids for every source, in the order of
\* the output, in one go.
Returns(c, found) ==
  /\ tokens' = Entries(found)
  /\ calls' = [calls EXCEPT ![c].stage = "out",
                            ![c].output = Numbered(Entries(found), found)]

\* The pages that were fetched, in the order asked.
Fetched(c) ==
  LET asked == calls[c].urls
  IN InOrder(asked, {asked[i] : i \in {j \in DOMAIN asked : calls[c].res[j] = "ok"}})

\* Every URL has its result.
FetchReturns(c) ==
  /\ calls[c].stage = "fetch"
  /\ Finished(c) = DOMAIN calls[c].urls
  /\ Returns(c, Fetched(c))
  /\ UNCHANGED <<gate, fetching, evidence, text, answer, access>>

\* The best passages among those the workspace may read, or a failure.
SearchReturns(c) ==
  /\ calls[c].stage = "search"
  /\ \E found \in {<<>>} \cup
                  UNION {[1 .. n -> access] : n \in 1 .. Cardinality(access)} :
       IsInjective(found) /\ Returns(c, found)
  /\ UNCHANGED <<gate, fetching, evidence, text, answer, access>>

\* PostToolUse: collectGroundedEvidence.  After it the model has the output.
ToolHook(c) ==
  /\ Querying /\ calls[c].stage = "out"
  /\ LET ids == {calls[c].output[k] : k \in DOMAIN calls[c].output}
         new == {e[1] : e \in ids}
     IN evidence' = [s \in DOMAIN evidence \cup new |->
                       IF s \in new THEN (CHOOSE e \in ids : e[1] = s)[2]
                       ELSE evidence[s]]
  /\ calls' = [calls EXCEPT ![c].stage = "done"]
  /\ UNCHANGED <<gate, fetching, tokens, text, answer, access>>

-----------------------------------------------------------------------------
(* The query and what becomes of its text.                                 *)

\* The markers the model has been shown.
ShownTo(c) == IF calls[c].stage = "done" THEN ToSet(calls[c].output) ELSE {}
Shown == UNION {ShownTo(c) : c \in Calls}

\* The model writes a marker: one it was shown, or one it made up or remembers
\* from an earlier query of the session.
WriteMark ==
  /\ Querying /\ Len(text) < MaxMarks
  /\ \E id \in 1 .. Len(tokens) + 1 : text' = Append(text, id)
  /\ UNCHANGED <<calls, gate, fetching, tokens, evidence, answer, access>>

\* The result is the text of the last turn, or all that was streamed if that
\* is empty.
QueryEnds ==
  /\ Querying
  /\ \A c \in Calls : calls[c].stage \in {"idle", "done"}
  /\ \E turn \in 1 .. Len(text) + 1 :
       answer' = [answer EXCEPT
         !.state = "ended",
         !.raw = IF turn > Len(text) THEN text
                 ELSE SubSeq(text, turn, Len(text))]
  /\ UNCHANGED <<calls, gate, fetching, tokens, evidence, text, access>>

\* A timeout of guardAgentQueryStream, a cancel or an error.  Fetches under way
\* keep their slots until they end.
QueryFails ==
  /\ Querying
  /\ answer' = [answer EXCEPT !.state = "failed"]
  /\ UNCHANGED <<calls, gate, fetching, tokens, evidence, text, access>>

\* The source recorded under an id.
Known(id) == {s \in DOMAIN evidence : evidence[s] = id}
SourceOf(id) == CHOOSE s \in Known(id) : TRUE

\* The ids in the order they first appear, which gives the display index.
Cited(raw) == InOrder(raw, ToSet(raw))

\* Mutant: the citations in the order in which they were registered.
CitationsByToken(order) ==
  LET ids == SetToSortSeq(ToSet(order), LAMBDA m, n : m < n)
  IN [k \in DOMAIN ids |-> SourceOf(ids[k])]

Citations(order) == [k \in DOMAIN order |-> SourceOf(order[k])]

\* materializeAssistantAnswer, and the job's completing update if it returns.
Materialize ==
  /\ answer.state = "ended"
  /\ LET raw == answer.raw
         order == Cited(raw)
     IN answer' =
          IF (raw = <<>> /\ DOMAIN evidence # {})
             \/ \E i \in DOMAIN raw : Known(raw[i]) = {}
          THEN [answer EXCEPT !.state = "failed"]
          ELSE [answer EXCEPT
                  !.state = "completed",
                  !.marks = [i \in DOMAIN raw |-> IdOf(order, raw[i])],
                  !.citations = Citations(order)]
  /\ UNCHANGED <<calls, gate, fetching, tokens, evidence, text, access>>

\* The passages that may still be read, then the web pages.
Ordinals(cs) ==
  InOrder(cs, ToSet(cs) \cap access) \o InOrder(cs, ToSet(cs) \cap Urls)

\* persistMessageCitations: the ordinal is the place in this list.
StoreCitations ==
  /\ answer.state = "completed"
  /\ answer' = [answer EXCEPT !.state = "stored",
                             !.stored = Ordinals(answer.citations)]
  /\ UNCHANGED <<calls, gate, fetching, tokens, evidence, text, access>>

\* A library is archived, or the workspace unsubscribes from it.
LoseAccess ==
  /\ \E a \in access : access' = access \ {a}
  /\ UNCHANGED <<calls, gate, fetching, tokens, evidence, text, answer>>

\* What the page links marker i to (markdown-content.tsx): the citation at that
\* place of the list, in the order of ordinals, or none.
PageShows(i) ==
  LET n == answer.marks[i]
  IN IF n <= Len(answer.stored) THEN {answer.stored[n]} ELSE {}

AnswerNext ==
  \/ \E c \in Calls :
       \/ CallFetch(c) \/ CallSearch(c) \/ TakeUrl(c)
       \/ \E i \in 1 .. MaxBatch : FetchEnds(c, i)
       \/ FetchReturns(c) \/ SearchReturns(c) \/ ToolHook(c)
  \/ WriteMark \/ QueryEnds \/ QueryFails
  \/ Materialize \/ StoreCitations \/ LoseAccess

AnswerSpec == AnswerInit /\ [][AnswerNext]_answerVars

\* What is under way goes on, in some order: workers of a fetch, and fetches,
\* which end because the HTTP client gives up on a server that is silent.
ToolSteps ==
  \E c \in Calls :
    \/ TakeUrl(c) \/ FetchReturns(c)
    \/ \E i \in 1 .. MaxBatch : FetchEnds(c, i)

FairAnswerSpec == AnswerSpec /\ WF_answerVars(ToolSteps)

-----------------------------------------------------------------------------
(* Properties.                                                             *)

\* Fetch calls all return, although their fetches may wait for slots that other
\* calls hold, those of a query that failed included.
Fetching == \E c \in Calls : calls[c].stage = "fetch"
FetchCallsReturn == Fetching ~> ~Fetching

\* Concurrent tool calls of a query never give one id to two sources or two ids
\* to one source, and every id the model was shown is recorded as evidence: an
\* answer that only uses markers it was given is never refused.
ShownTokensResolve ==
  /\ \A e, f \in Shown : e[1] = f[1] <=> e[2] = f[2]
  /\ \A e \in Shown : e[1] \in DOMAIN evidence /\ Known(e[2]) = {e[1]}

\* Every marker keeps the source whose token the model wrote: in the citations,
\* whatever is dropped and renumbered; and in what the page shows, if the answer
\* cites web pages only, or passages only that are all still readable (it does not
\* for any other answer: OrdinalsFollowMarkers).  An answer that had evidence is
\* only accepted with a citation.
MarkersKeepSource ==
  answer.state \in {"completed", "stored"} =>
    /\ \A i \in DOMAIN answer.raw :
         answer.citations[answer.marks[i]] = tokens[answer.raw[i]]
    /\ answer.citations = <<>> => DOMAIN evidence = {}
    /\ (/\ answer.state = "stored"
        /\ \/ ToSet(answer.citations) \subseteq Urls
           \/ ToSet(answer.citations) \subseteq Anchors
              /\ Len(answer.stored) = Len(answer.citations))
       => \A i \in DOMAIN answer.raw : PageShows(i) = {tokens[answer.raw[i]]}

\* The ordinals that are stored agree with the numbers of the markers: whatever an
\* answer cites, the page shows for none of its markers another source than the one
\* whose token the model wrote.
OrdinalsFollowMarkers ==
  answer.state = "stored" =>
    \A i \in DOMAIN answer.raw : PageShows(i) \subseteq {tokens[answer.raw[i]]}
=============================================================================
