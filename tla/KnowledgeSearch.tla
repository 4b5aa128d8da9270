-------------------------- MODULE KnowledgeSearch ---------------------------
(***************************************************************************)
(* The search of an assistant in the libraries of its workspace.           *)
(*                                                                         *)
(* A search computes its scope from the rows of libraries and of the       *)
(* workspace's subscriptions, ranks passages in the vector index, records  *)
(* what it ranked and reads the passages from the database.  Meanwhile an  *)
(* administrator edits or deletes the managed library, the user changes    *)
(* the subscription, and documents are processed and deleted: the index    *)
(* and the database are two stores that follow each other with a delay.    *)
(***************************************************************************)
EXTENDS Naturals, FiniteSets

CONSTANTS
  PrivateDocs,  \* documents of the workspace's private library
  LibraryDocs,  \* documents of the managed library
  Tagged,       \* the documents that a filter of the search lets pass
  TopK,         \* passages of an answer
  Candidates,   \* passages the index returns before the filters
  MaxChanges    \* bound: changes of documents, of the library, of the subscription

ASSUME KnowledgeSearchAssumption ==
  /\ IsFiniteSet(PrivateDocs) /\ IsFiniteSet(LibraryDocs)
  /\ PrivateDocs \cap LibraryDocs = {}
  /\ TopK \in Nat \ {0} /\ Candidates \in Nat /\ Candidates >= TopK
  /\ MaxChanges \in Nat

VARIABLES
  library,       \* the managed library's row: its status
  private,       \* is there a row of the private library?
  subscription,  \* the workspace's subscription of the managed library
  edit,          \* an administrator's PATCH or DELETE of the library
  subscribing,   \* the user's PATCH of the subscription
  visit,         \* a page that makes the private library
  material,      \* each document: rows, passages, points, what is done to it
  search,        \* the search
  changes        \* changes begun so far

accessVars == <<library, private, subscription, edit, subscribing, visit>>
searchVars == <<accessVars, material, search, changes>>

AllDocs == PrivateDocs \cup LibraryDocs
Generations == 0 .. MaxChanges
Passages == AllDocs \X Generations
LibraryStatus == {"draft", "active", "archived"}
\* No row; active and searched; mounted only (paused, or not searched); revoked.
Subscriptions == {"none", "searched", "mounted", "revoked"}
SearchPc == {"idle", "ensure", "create", "scope", "rank", "record", "read",
             "answered", "failed"}

Edit == [pc : {"idle", "write", "delete"}, read : LibraryStatus]
Subscribing == [pc : {"idle", "write"}, want : Subscriptions]
Material ==
  [row : BOOLEAN, passages : SUBSET Generations, points : SUBSET Generations,
   fetched : SUBSET Generations,
   stage : {"idle", "remove", "insert", "clear", "upsert"},
   deletion : {"idle", "clear", "row"}, alone : BOOLEAN, settled : BOOLEAN]
Query ==
  [pc : SearchPc, filtered : BOOLEAN, unread : SUBSET {"libraries", "subscriptions"},
   active : BOOLEAN, subscription : Subscriptions, ranked : SUBSET Passages,
   results : SUBSET Passages, wasActive : BOOLEAN, wasOn : BOOLEAN,
   moved : BOOLEAN, refused : BOOLEAN]

\* Every variable has its type.
SearchTypeOK ==
  /\ library \in LibraryStatus \cup {"gone"} /\ private \in BOOLEAN
  /\ subscription \in Subscriptions /\ visit \in {"idle", "create"}
  /\ edit \in Edit /\ subscribing \in Subscribing
  /\ material \in [AllDocs -> Material]
  /\ search \in Query
  /\ changes \in 0 .. MaxChanges

NoSearch ==
  [pc |-> "idle", filtered |-> FALSE, unread |-> {}, active |-> FALSE,
   subscription |-> "none", ranked |-> {}, results |-> {},
   wasActive |-> FALSE, wasOn |-> FALSE, moved |-> FALSE, refused |-> FALSE]

Settled(row) ==
  [row |-> row, passages |-> IF row THEN {0} ELSE {},
   points |-> IF row THEN {0} ELSE {}, fetched |-> {},
   stage |-> "idle", deletion |-> "idle", alone |-> TRUE, settled |-> TRUE]

SearchInit ==
  /\ library \in {"draft", "active"} /\ private \in BOOLEAN
  /\ subscription \in {"none", "searched"}
  /\ edit = [pc |-> "idle", read |-> "draft"]
  /\ subscribing = [pc |-> "idle", want |-> "none"]
  /\ visit = "idle"
  /\ \E there \in SUBSET AllDocs :
       /\ ~private => there \cap PrivateDocs = {}
       /\ material = [d \in AllDocs |-> Settled(d \in there)]
  /\ search = NoSearch
  /\ changes = 0

-----------------------------------------------------------------------------
(* Libraries and the subscription.                                         *)

\* A search is under way.
Searching == search.pc \notin {"idle", "answered", "failed"}
Changes == changes < MaxChanges /\ changes' = changes + 1

\* The routes of an administrator read the row, and a DELETE counts what hangs on
\* it.
BeginLibraryEdit ==
  /\ edit.pc = "idle" /\ library # "gone" /\ Changes
  /\ \/ edit' = [pc |-> "write", read |-> library]
     \/ /\ \A d \in LibraryDocs : ~material[d].row
        /\ subscription = "none"
        /\ edit' = [pc |-> "delete", read |-> library]
  /\ UNCHANGED <<library, private, subscription, subscribing, visit, material,
                 search>>

\* PATCH: the status that was asked for, or the one that was read.
WriteLibraryEdit ==
  /\ edit.pc = "write" /\ library # "gone"
  /\ \E status \in LibraryStatus \cup {edit.read} :
       /\ library' = status
       /\ search' = [search EXCEPT
            !.wasActive = @ \/ (Searching /\ status = "active")]
  /\ edit' = [edit EXCEPT !.pc = "idle"]
  /\ UNCHANGED <<private, subscription, subscribing, visit, material, changes>>

\* DELETE: what hangs on the row goes with it, counted or not; the points stay.
DeleteLibrary ==
  /\ edit.pc = "delete"
  /\ library' = "gone" /\ subscription' = "none"
  /\ material' = [d \in AllDocs |->
                    IF d \in LibraryDocs
                    THEN [material[d] EXCEPT !.row = FALSE, !.passages = {},
                                             !.settled = @ /\ ~material[d].row]
                    ELSE material[d]]
  /\ search' = [search EXCEPT
       !.moved = @ \/ \E d \in LibraryDocs : material[d].row]
  /\ edit' = [edit EXCEPT !.pc = "idle"]
  /\ UNCHANGED <<private, subscribing, visit, changes>>

\* PATCH library-subscriptions: only an active library can be subscribed.
BeginSubscribe ==
  /\ subscribing.pc = "idle" /\ library # "gone" /\ Changes
  /\ \E want \in Subscriptions \ {"none"} :
       /\ want = "revoked" \/ library = "active"
       /\ subscribing' = [pc |-> "write", want |-> want]
  /\ UNCHANGED <<library, private, subscription, edit, visit, material, search>>

\* The upsert, unless the library is gone.
WriteSubscription ==
  /\ subscribing.pc = "write"
  /\ subscription' = IF library = "gone" THEN subscription ELSE subscribing.want
  /\ search' = [search EXCEPT
       !.wasOn = @ \/ (Searching /\ subscription' = "searched")]
  /\ subscribing' = [pc |-> "idle", want |-> "none"]
  /\ UNCHANGED <<library, private, edit, visit, material, changes>>

\* ensureWorkspacePrivateLibrary, from a page: select, then insert; the index on
\* the workspace refuses a second row.
Visit ==
  /\ \/ visit = "idle" /\ ~private /\ visit' = "create" /\ UNCHANGED private
     \/ visit = "create" /\ visit' = "idle" /\ private' = TRUE
  /\ UNCHANGED <<library, subscription, edit, subscribing, material, search,
                 changes>>

-----------------------------------------------------------------------------
(* Documents.                                                              *)

Set(d, m) == material' = [material EXCEPT ![d] = m]
Unsettled == search' = [search EXCEPT !.moved = @ \/ search.pc # "idle"]
InPlace(d) == IF d \in PrivateDocs THEN private ELSE library # "gone"

\* An upload, or a retry or reparse of a document that is there, starts the flow.
\* (What a document left in the index stays with its old id: no upload gets it.)
StartFlow(d) ==
  LET m == material[d]
  IN /\ m.stage = "idle" /\ InPlace(d) /\ (m.row \/ m.points = {}) /\ Changes
     /\ Set(d, [m EXCEPT !.row = TRUE, !.stage = "remove", !.settled = FALSE,
                         !.alone = m.deletion = "idle"])
     /\ Unsettled
     /\ UNCHANGED accessVars

\* The chunk stage: passages go, and come back under new ids.
RemovePassages(d) ==
  LET m == material[d]
  IN /\ m.stage = "remove" /\ m.row
     /\ Set(d, [m EXCEPT !.passages = {}, !.stage = "insert"])
     /\ UNCHANGED <<accessVars, search, changes>>

InsertPassages(d) ==
  LET m == material[d]
  IN /\ m.stage = "insert" /\ m.row
     /\ Set(d, [m EXCEPT !.passages = {changes}, !.stage = "clear"])
     /\ UNCHANGED <<accessVars, search, changes>>

\* Mutant: the points of the earlier run are left to be overwritten.
KeepPoints(d) ==
  LET m == material[d]
  IN /\ m.stage = "clear" /\ m.row
     /\ Set(d, [m EXCEPT !.fetched = m.passages, !.stage = "upsert"])
     /\ UNCHANGED <<accessVars, search, changes>>

\* The index stage fetches the passages and clears the points of the version ...
ClearPoints(d) ==
  LET m == material[d]
  IN /\ m.stage = "clear" /\ m.row
     /\ Set(d, [m EXCEPT !.fetched = m.passages, !.points = {}, !.stage = "upsert"])
     /\ UNCHANGED <<accessVars, search, changes>>

\* ... then writes them, whether or not the document is still there.
UpsertPoints(d) ==
  LET m == material[d]
  IN /\ m.stage = "upsert"
     /\ Set(d, [m EXCEPT !.points = @ \cup m.fetched, !.fetched = {},
                         !.stage = "idle",
                         !.settled = m.row /\ m.alone /\ m.deletion = "idle"])
     /\ UNCHANGED <<accessVars, search, changes>>

\* A stage fails for good, or finds no document.
FlowFails(d) ==
  /\ material[d].stage # "idle"
  /\ Set(d, [material[d] EXCEPT !.stage = "idle", !.fetched = {}])
  /\ UNCHANGED <<accessVars, search, changes>>

\* DELETE of a document: points first, then the row with its passages.
StartDeletion(d) ==
  LET m == material[d]
  IN /\ m.row /\ m.deletion = "idle" /\ Changes
     /\ Set(d, [m EXCEPT !.deletion = "clear", !.settled = FALSE,
                         !.alone = m.stage = "idle"])
     /\ Unsettled
     /\ UNCHANGED accessVars

ClearForDeletion(d) ==
  LET m == material[d]
  IN /\ m.deletion = "clear"
     /\ Set(d, [m EXCEPT !.points = {}, !.deletion = "row"])
     /\ UNCHANGED <<accessVars, search, changes>>

DeleteRow(d) ==
  LET m == material[d]
  IN /\ m.deletion = "row"
     /\ Set(d, [m EXCEPT !.row = FALSE, !.passages = {}, !.deletion = "idle",
                         !.settled = m.alone /\ m.stage = "idle"])
     /\ UNCHANGED <<accessVars, search, changes>>

DeletionDies(d) ==
  /\ material[d].deletion # "idle"
  /\ Set(d, [material[d] EXCEPT !.deletion = "idle"])
  /\ UNCHANGED <<accessVars, search, changes>>

-----------------------------------------------------------------------------
(* The search: searchWorkspaceKnowledgeHandler.                            *)

Goes(pc) == search' = [search EXCEPT !.pc = pc]
Searches == UNCHANGED <<library, subscription, edit, subscribing, visit,
                        material, changes>>

\* histories: what was so at some moment of the search.
StartSearch ==
  /\ ~Searching
  /\ search' = [NoSearch EXCEPT
       !.pc = "ensure",
       !.wasActive = library = "active", !.wasOn = subscription = "searched",
       !.moved = \E d \in AllDocs : ~material[d].settled]
  /\ UNCHANGED private /\ Searches

\* ensureWorkspacePrivateLibrary, then the two reads of the scope, side by side.
EnsurePrivate ==
  /\ \/ /\ search.pc = "ensure" /\ ~private
        /\ Goes("create") /\ UNCHANGED private
     \/ /\ \/ search.pc = "ensure" /\ private
           \/ search.pc = "create" /\ ~private
        /\ private' = TRUE
        /\ search' = [search EXCEPT !.pc = "scope",
                                    !.unread = {"libraries", "subscriptions"}]
     \/ /\ search.pc = "create" /\ private
        /\ search' = [search EXCEPT !.pc = "failed", !.refused = TRUE]
        /\ UNCHANGED private
  /\ Searches

\* Mutant: a library counts as active in whatever state it is.
ReadScopeOfAnyStatus ==
  /\ search.pc = "scope"
  /\ \/ /\ "libraries" \in search.unread
        /\ search' = [search EXCEPT !.unread = @ \ {"libraries"},
                                    !.active = library # "gone"]
     \/ /\ "subscriptions" \in search.unread
        /\ search' = [search EXCEPT !.unread = @ \ {"subscriptions"},
                                    !.subscription = subscription]
     \/ search.unread = {} /\ Goes("rank")
  /\ UNCHANGED private /\ Searches

ReadScope ==
  /\ search.pc = "scope"
  /\ \/ /\ "libraries" \in search.unread
        /\ search' = [search EXCEPT !.unread = @ \ {"libraries"},
                                    !.active = library = "active"]
     \/ /\ "subscriptions" \in search.unread
        /\ search' = [search EXCEPT !.unread = @ \ {"subscriptions"},
                                    !.subscription = subscription]
     \/ search.unread = {} /\ Goes("rank")
  /\ UNCHANGED private /\ Searches

\* computeWorkspaceLibraryScope.
Searchable(d) ==
  d \in PrivateDocs \/ (search.active /\ search.subscription = "searched")
Accessible(d) ==
  d \in PrivateDocs
  \/ (search.active /\ search.subscription \in {"searched", "mounted"})

InScope == {p \in Passages : p[2] \in material[p[1]].points /\ Searchable(p[1])}
Tag(p) == p[1] \in Tagged
Some(set, n) ==
  {some \in SUBSET set : Cardinality(some) =
                           IF Cardinality(set) < n THEN Cardinality(set) ELSE n}

\* searchWorkspaceKnowledge: the index returns its best candidates in the scope;
\* the filters of the search, scores and the reranker choose among these.
Rank ==
  /\ search.pc = "rank"
  /\ \E filtered \in BOOLEAN, found \in Some(InScope, Candidates) :
       \E best \in Some({p \in found : filtered => Tag(p)}, TopK) :
         search' = [search EXCEPT !.pc = "record", !.filtered = filtered,
                                  !.ranked = best]
  /\ UNCHANGED private /\ Searches

\* The index, or the provider of embeddings, cannot be reached.
RankFails ==
  /\ search.pc = "rank"
  /\ search' = [search EXCEPT !.pc = "failed", !.refused = TRUE]
  /\ UNCHANGED private /\ Searches

Stored(p) == p[2] \in material[p[1]].passages

\* retrieval_results refers to anchors and chunks: one that is gone, and the
\* insert throws.
RecordRanked ==
  /\ search.pc = "record"
  /\ \/ search.ranked = {} /\ Goes("answered")
     \/ /\ search.ranked # {} /\ \A p \in search.ranked : Stored(p)
        /\ Goes("read")
     \/ /\ \E p \in search.ranked : ~Stored(p)
        /\ search' = [search EXCEPT !.pc = "failed", !.ranked = {}]
  /\ UNCHANGED private /\ Searches

ReadPassages ==
  /\ search.pc = "read"
  /\ search' = [search EXCEPT !.pc = "answered", !.ranked = {},
       !.results = {p \in search.ranked : Stored(p) /\ Accessible(p[1])}]
  /\ UNCHANGED private /\ Searches

-----------------------------------------------------------------------------
AccessNext ==
  \/ BeginLibraryEdit \/ WriteLibraryEdit \/ DeleteLibrary
  \/ BeginSubscribe \/ WriteSubscription \/ Visit

MaterialNext ==
  \E d \in AllDocs :
    \/ StartFlow(d) \/ RemovePassages(d) \/ InsertPassages(d) \/ ClearPoints(d)
    \/ UpsertPoints(d) \/ FlowFails(d)
    \/ StartDeletion(d) \/ ClearForDeletion(d) \/ DeleteRow(d) \/ DeletionDies(d)

SearchNext ==
  \/ AccessNext \/ MaterialNext
  \/ StartSearch \/ EnsurePrivate \/ ReadScope
  \/ Rank \/ RankFails \/ RecordRanked \/ ReadPassages

SearchSpec == SearchInit /\ [][SearchNext]_searchVars

-----------------------------------------------------------------------------
(* Properties.                                                             *)

\* A search gives no passage of the managed library unless, at some moment of the
\* search, the library was active, and at some moment the workspace's subscription
\* let it search there; although edits, deletions and reparses run beside it, and
\* an edit may write back a status it read earlier.
ScopeRespected ==
  (search.results \cap (LibraryDocs \X Generations) # {})
    => search.wasActive /\ search.wasOn

\* What a search may give.
Eligible == {p \in Passages : Stored(p) /\ Searchable(p[1])
                              /\ (search.filtered => Tag(p))}

\* Unless a document was processed or deleted while it ran, or an earlier run of
\* that broke off or met another: a search does not fail for want of a passage it
\* ranked, and it gives as many passages as it may of those in its scope.  (One
\* passage that was replaced and is still in the index fails the whole search.)
SettledIsSearchable ==
  ~search.moved =>
    /\ search.pc = "failed" => search.refused
    /\ search.pc = "answered" =>
         /\ search.results \subseteq Eligible
         /\ (~search.filtered \/ Cardinality(InScope) <= Candidates)
              => search.results \in Some(Eligible, TopK)
=============================================================================
