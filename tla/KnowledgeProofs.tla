--------------------------- MODULE KnowledgeProofs ---------------------------
(***************************************************************************)
(* What is proved of the search of a workspace (KnowledgeSearch) and of    *)
(* uploads against deletions (DocumentUploads), for any number of          *)
(* documents, pages, files, versions and deletions.                        *)
(***************************************************************************)
EXTENDS KnowledgeSearch, DocumentUploads, FiniteSetTheorems, SequenceTheorems, TLAPS

-----------------------------------------------------------------------------
(* The search.                                                             *)

\* What the search read of its scope was so while it ran; and it ranks nothing
\* outside that scope.
ScopeInv ==
  /\ search.active => search.wasActive
  /\ search.subscription = "searched" => search.wasOn
  /\ (Searching /\ library = "active") => search.wasActive
  /\ (Searching /\ subscription = "searched") => search.wasOn
  /\ \A p \in search.ranked \cup search.results : Searchable(p[1])

\* Where the two stores agree about a document: where it counts as settled, and
\* where the last statement of a flow or deletion will settle it.
MaterialInv(m) ==
  /\ m.settled => m.stage = "idle" /\ m.deletion = "idle" /\ m.points = m.passages
                  /\ (~ m.row => m.passages = {})
  /\ (m.stage = "upsert" /\ m.alone /\ m.deletion = "idle" /\ m.row)
       => m.points = {} /\ m.fetched = m.passages
  /\ (m.deletion # "idle" /\ m.alone) => m.stage = "idle"
  /\ (m.deletion = "row" /\ m.alone) => m.points = {}

\* As many passages as the search may give of those that are eligible.
GoodRanking(some) ==
  /\ some \subseteq Eligible
  /\ (~ search.filtered \/ Cardinality(InScope) <= Candidates)
       => some \in Some(Eligible, TopK)

AnswerInv ==
  /\ (~ search.moved /\ search.pc # "idle") => \A d \in AllDocs : material[d].settled
  /\ search.pc # "answered" => search.results = {}
  /\ search.pc \notin {"record", "read"} => search.ranked = {}
  /\ (~ search.moved /\ search.pc \in {"record", "read"}) => GoodRanking(search.ranked)
  /\ (~ search.moved /\ search.pc = "answered") => GoodRanking(search.results)
  /\ (~ search.moved /\ search.pc = "failed") => search.refused

\* The inductive invariant.
KnowledgeSearchInv ==
  /\ SearchTypeOK /\ ScopeInv /\ AnswerInv
  /\ \A d \in AllDocs : MaterialInv(material[d])

LEMMA NoSearchFacts ==
  /\ NoSearch \in Query /\ NoSearch.pc = "idle" /\ ~ NoSearch.active
  /\ NoSearch.subscription = "none" /\ NoSearch.ranked = {} /\ NoSearch.results = {}
BY DEF NoSearch, Query, SearchPc, Subscriptions

LEMMA SearchInitially == SearchInit => KnowledgeSearchInv
<1> SUFFICES ASSUME SearchInit PROVE KnowledgeSearchInv
  OBVIOUS
<1>1. ASSUME NEW row \in BOOLEAN
      PROVE  Settled(row) \in Material /\ MaterialInv(Settled(row))
  <2>1. PICK g : g = IF row THEN {0} ELSE {}
    OBVIOUS
  <2>2. 0 \in Generations
    BY KnowledgeSearchAssumption DEF Generations
  <2>3. g \in SUBSET Generations
    BY <2>1, <2>2
  <2>4. Settled(row) = [row |-> row, passages |-> g, points |-> g, fetched |-> {},
                        stage |-> "idle", deletion |-> "idle", alone |-> TRUE,
                        settled |-> TRUE]
    BY <2>1 DEF Settled
  <2>5. QED
    BY <2>1, <2>3, <2>4 DEF Material, MaterialInv
<1>2. PICK there \in SUBSET AllDocs : material = [d \in AllDocs |-> Settled(d \in there)]
  BY DEF SearchInit
<1>3. ASSUME NEW d \in AllDocs
      PROVE  material[d] \in Material /\ MaterialInv(material[d])
  <2>1. CASE d \in there
    <3>1. material[d] = Settled(TRUE)
      BY <1>2, <2>1
    <3>2. QED
      BY <1>1, <3>1
  <2>2. CASE d \notin there
    <3>1. (d \in there) = FALSE
      BY <2>2
    <3>2. material[d] = Settled(d \in there)
      BY <1>2
    <3>3. material[d] = Settled(FALSE)
      BY <3>1, <3>2, Zenon
    <3>4. QED
      BY <1>1, <3>3
  <2>3. QED
    BY <2>1, <2>2
<1>4. material \in [AllDocs -> Material]
  BY <1>2, <1>3
<1>5. SearchTypeOK
  BY <1>4, NoSearchFacts, KnowledgeSearchAssumption
  DEF SearchInit, SearchTypeOK, LibraryStatus, Subscriptions, Edit, Subscribing
<1>6. ScopeInv /\ AnswerInv
  BY NoSearchFacts DEF SearchInit, ScopeInv, AnswerInv, Searching
<1>7. QED
  BY <1>3, <1>5, <1>6 DEF KnowledgeSearchInv

\* What is eligible depends on the two stores and on what the search read.
LEMMA EligibleFrame ==
  ASSUME SearchTypeOK, SearchTypeOK',
         \A d \in AllDocs : /\ material'[d].points = material[d].points
                            /\ material'[d].passages = material[d].passages,
         search'.active = search.active, search'.subscription = search.subscription,
         search'.filtered = search.filtered
  PROVE  InScope' = InScope /\ Eligible' = Eligible
<1>1. \A p \in Passages : p[1] \in AllDocs
  BY DEF Passages
<1>2. InScope' = InScope
  BY <1>1 DEF InScope, Searchable
<1>3. Eligible' = Eligible
  BY <1>1 DEF Eligible, Stored, Searchable, Tag
<1>4. QED
  BY <1>2, <1>3

\* A step that changes nothing of the search but the histories.
LEMMA SearchStays ==
  ASSUME KnowledgeSearchInv, SearchTypeOK',
         \A d \in AllDocs : MaterialInv(material'[d]),
         search'.pc = search.pc, search'.active = search.active,
         search'.subscription = search.subscription, search'.filtered = search.filtered,
         search'.ranked = search.ranked, search'.results = search.results,
         search'.refused = search.refused,
         search.wasActive => search'.wasActive, search.wasOn => search'.wasOn,
         search.moved => search'.moved,
         (Searching /\ library' = "active") => library = "active" \/ search'.wasActive,
         (Searching /\ subscription' = "searched") =>
           subscription = "searched" \/ search'.wasOn,
         (~ search'.moved /\ search.pc # "idle") =>
           \A d \in AllDocs : /\ material'[d].points = material[d].points
                              /\ material'[d].passages = material[d].passages
                              /\ material[d].settled => material'[d].settled
  PROVE  KnowledgeSearchInv'
<1>1. SearchTypeOK
  BY DEF KnowledgeSearchInv
<1>2. ScopeInv'
  BY DEF KnowledgeSearchInv, ScopeInv, Searching, Searchable
<1>3. AnswerInv'
  <2>1. ASSUME ~ search'.moved, search'.pc # "idle"
        PROVE  /\ \A d \in AllDocs : material'[d].settled
               /\ InScope' = InScope /\ Eligible' = Eligible
    <3>1. ~ search.moved /\ search.pc # "idle"
      BY <2>1
    <3>2. \A d \in AllDocs : material[d].settled
      BY <3>1 DEF KnowledgeSearchInv, AnswerInv
    <3>3. \A d \in AllDocs : /\ material'[d].points = material[d].points
                             /\ material'[d].passages = material[d].passages
                             /\ material[d].settled => material'[d].settled
      BY <2>1, <3>1
    <3>4. \A d \in AllDocs : material'[d].settled
      BY <3>2, <3>3
    <3>5. \A d \in AllDocs : /\ material'[d].points = material[d].points
                             /\ material'[d].passages = material[d].passages
      BY <3>3
    <3>6. InScope' = InScope /\ Eligible' = Eligible
      BY <1>1, <3>5, EligibleFrame
    <3>7. QED
      BY <3>4, <3>6
  <2>2. /\ search'.pc # "answered" => search'.results = {}
        /\ search'.pc \notin {"record", "read"} => search'.ranked = {}
    BY DEF KnowledgeSearchInv, AnswerInv
  <2>3. ASSUME ~ search'.moved, search'.pc \in {"record", "read"}
        PROVE  GoodRanking(search.ranked)'
    <3>1. GoodRanking(search.ranked)
      BY <2>3 DEF KnowledgeSearchInv, AnswerInv
    <3>2. QED
      BY <2>1, <2>3, <3>1 DEF GoodRanking
  <2>4. ASSUME ~ search'.moved, search'.pc = "answered"
        PROVE  GoodRanking(search.results)'
    <3>1. GoodRanking(search.results)
      BY <2>4 DEF KnowledgeSearchInv, AnswerInv
    <3>2. QED
      BY <2>1, <2>4, <3>1 DEF GoodRanking
  <2>5. (~ search'.moved /\ search'.pc = "failed") => search'.refused
    BY DEF KnowledgeSearchInv, AnswerInv
  <2>6. QED
    BY <2>1, <2>2, <2>3, <2>4, <2>5 DEF AnswerInv
<1>4. QED
  BY <1>2, <1>3 DEF KnowledgeSearchInv

-----------------------------------------------------------------------------
(* Libraries, the subscription, and the page.                              *)

LEMMA AccessStep ==
  ASSUME KnowledgeSearchInv, AccessNext
  PROVE  KnowledgeSearchInv'
<1> USE DEF KnowledgeSearchInv
<1>1. /\ SearchTypeOK /\ search \in Query /\ edit \in Edit /\ subscribing \in Subscribing
      /\ material \in [AllDocs -> Material]
  BY DEF SearchTypeOK
<1>2. \A d \in AllDocs : MaterialInv(material[d])
  OBVIOUS
<1>3. ASSUME Changes PROVE changes' \in 0 .. MaxChanges
  BY <1>1, <1>3, KnowledgeSearchAssumption DEF Changes, SearchTypeOK
<1>4. CASE BeginLibraryEdit
  <2>1. SearchTypeOK'
    BY <1>1, <1>3, <1>4 DEF BeginLibraryEdit, SearchTypeOK, Edit
  <2>2. QED
    BY <1>1, <1>2, <1>4, <2>1, SearchStays DEF BeginLibraryEdit
<1>5. CASE WriteLibraryEdit
  <2>1. PICK status \in LibraryStatus :
          /\ library' = status
          /\ search' = [search EXCEPT
               !.wasActive = search.wasActive \/ (Searching /\ status = "active")]
    BY <1>1, <1>5 DEF WriteLibraryEdit, Edit
  <2>2. search' \in Query
    BY <1>1, <2>1 DEF Query
  <2>3. edit' \in Edit
    BY <1>1, <1>5 DEF WriteLibraryEdit, Edit
  <2>4. SearchTypeOK'
    BY <1>1, <1>5, <2>1, <2>2, <2>3 DEF WriteLibraryEdit, SearchTypeOK
  <2>5. /\ search'.pc = search.pc /\ search'.active = search.active
        /\ search'.subscription = search.subscription
        /\ search'.filtered = search.filtered /\ search'.ranked = search.ranked
        /\ search'.results = search.results /\ search'.refused = search.refused
        /\ search'.wasOn = search.wasOn /\ search'.moved = search.moved
        /\ search.wasActive => search'.wasActive
        /\ (Searching /\ library' = "active") => search'.wasActive
    BY <1>1, <2>1 DEF Query
  <2>6. material' = material /\ subscription' = subscription
    BY <1>5 DEF WriteLibraryEdit
  <2>7. QED
    BY <1>2, <2>4, <2>5, <2>6, SearchStays
<1>6. CASE DeleteLibrary
  <2>1. search' = [search EXCEPT
          !.moved = search.moved \/ \E d \in LibraryDocs : material[d].row]
    BY <1>6 DEF DeleteLibrary
  <2>2. search' \in Query
    BY <1>1, <2>1 DEF Query
  <2>3. /\ search'.pc = search.pc /\ search'.active = search.active
        /\ search'.subscription = search.subscription
        /\ search'.filtered = search.filtered /\ search'.ranked = search.ranked
        /\ search'.results = search.results /\ search'.refused = search.refused
        /\ search'.wasOn = search.wasOn /\ search'.wasActive = search.wasActive
        /\ search.moved => search'.moved
        /\ (\E d \in LibraryDocs : material[d].row) => search'.moved
    BY <1>1, <2>1 DEF Query
  <2>4. ASSUME NEW d \in AllDocs
        PROVE  /\ material'[d] \in Material /\ MaterialInv(material'[d])
               /\ material'[d].points = material[d].points
               /\ (material[d].settled /\ ~ (d \in LibraryDocs /\ material[d].row)) =>
                    material'[d].passages = material[d].passages /\ material'[d].settled
    <3>1. CASE d \in LibraryDocs
      <4>1. material'[d] = [material[d] EXCEPT !.row = FALSE, !.passages = {},
                             !.settled = material[d].settled /\ ~ material[d].row]
        BY <1>6, <3>1 DEF DeleteLibrary
      <4>2. material[d] \in Material /\ MaterialInv(material[d])
        BY <1>1, <1>2
      <4>3. QED
        BY <3>1, <4>1, <4>2 DEF Material, MaterialInv
    <3>2. CASE d \notin LibraryDocs
      <4>1. material'[d] = material[d]
        BY <1>6, <3>2 DEF DeleteLibrary
      <4>2. QED
        BY <1>1, <1>2, <3>2, <4>1
    <3>3. QED
      BY <3>1, <3>2
  <2>5. material' \in [AllDocs -> Material]
    BY <1>6, <2>4 DEF DeleteLibrary
  <2>6. SearchTypeOK'
    BY <1>1, <1>6, <2>2, <2>5 DEF DeleteLibrary, SearchTypeOK, Edit, Subscriptions
  <2>7. ASSUME ~ search'.moved, search.pc # "idle", NEW d \in AllDocs
        PROVE  /\ material'[d].points = material[d].points
               /\ material'[d].passages = material[d].passages
               /\ material[d].settled => material'[d].settled
    <3>1. material[d].settled
      BY <2>3, <2>7 DEF AnswerInv
    <3>2. QED
      BY <2>3, <2>4, <2>7, <3>1
  <2>8. library' = "gone" /\ subscription' = "none"
    BY <1>6 DEF DeleteLibrary
  <2>9. QED
    BY <2>3, <2>4, <2>6, <2>7, <2>8, SearchStays
<1>7. CASE BeginSubscribe
  <2>1. SearchTypeOK'
    BY <1>1, <1>3, <1>7 DEF BeginSubscribe, SearchTypeOK, Subscribing
  <2>2. QED
    BY <1>1, <1>2, <1>7, <2>1, SearchStays DEF BeginSubscribe
<1>8. CASE WriteSubscription
  <2>1. search' = [search EXCEPT
          !.wasOn = search.wasOn \/ (Searching /\ subscription' = "searched")]
    BY <1>8 DEF WriteSubscription
  <2>2. search' \in Query
    BY <1>1, <2>1 DEF Query
  <2>3. /\ search'.pc = search.pc /\ search'.active = search.active
        /\ search'.subscription = search.subscription
        /\ search'.filtered = search.filtered /\ search'.ranked = search.ranked
        /\ search'.results = search.results /\ search'.refused = search.refused
        /\ search'.wasActive = search.wasActive /\ search'.moved = search.moved
        /\ search.wasOn => search'.wasOn
        /\ (Searching /\ subscription' = "searched") => search'.wasOn
    BY <1>1, <2>1 DEF Query
  <2>4. subscription' \in Subscriptions /\ subscribing' \in Subscribing
    BY <1>1, <1>8 DEF WriteSubscription, SearchTypeOK, Subscribing, Subscriptions
  <2>5. SearchTypeOK'
    BY <1>1, <1>8, <2>2, <2>4 DEF WriteSubscription, SearchTypeOK
  <2>6. material' = material /\ library' = library
    BY <1>8 DEF WriteSubscription
  <2>7. QED
    BY <1>2, <2>3, <2>5, <2>6, SearchStays
<1>9. CASE Visit
  <2>1. SearchTypeOK'
    BY <1>1, <1>9 DEF Visit, SearchTypeOK
  <2>2. search' = search /\ material' = material /\ library' = library
        /\ subscription' = subscription
    BY <1>9 DEF Visit
  <2>3. QED
    BY <1>2, <2>1, <2>2, SearchStays
<1>10. QED
  BY <1>4, <1>5, <1>6, <1>7, <1>8, <1>9 DEF AccessNext

-----------------------------------------------------------------------------
(* Documents.                                                              *)

\* A step of one document.  Either it begins something and the search counts as
\* disturbed, or it goes on with what unsettled the document before.
LEMMA MaterialStep ==
  ASSUME KnowledgeSearchInv, NEW d \in AllDocs, NEW m \in Material,
         MaterialInv(m), Set(d, m), UNCHANGED accessVars,
         \/ Unsettled /\ Changes
         \/ ~ material[d].settled /\ UNCHANGED <<search, changes>>
  PROVE  KnowledgeSearchInv'
<1> USE DEF KnowledgeSearchInv
<1>1. /\ SearchTypeOK /\ search \in Query /\ material \in [AllDocs -> Material]
      /\ changes \in 0 .. MaxChanges
  BY DEF SearchTypeOK
<1>2. /\ library' = library /\ private' = private /\ subscription' = subscription
      /\ edit' = edit /\ subscribing' = subscribing /\ visit' = visit
  BY DEF accessVars
<1>3. material' \in [AllDocs -> Material]
  BY <1>1 DEF Set
<1>4. \A e \in AllDocs : MaterialInv(material'[e])
  BY <1>1 DEF Set
<1>5. CASE Unsettled /\ Changes
  <2>1. search' = [search EXCEPT !.moved = search.moved \/ search.pc # "idle"]
    BY <1>5 DEF Unsettled
  <2>2. search' \in Query
    BY <1>1, <2>1 DEF Query
  <2>3. /\ search'.pc = search.pc /\ search'.active = search.active
        /\ search'.subscription = search.subscription
        /\ search'.filtered = search.filtered /\ search'.ranked = search.ranked
        /\ search'.results = search.results /\ search'.refused = search.refused
        /\ search'.wasOn = search.wasOn /\ search'.wasActive = search.wasActive
        /\ search.moved => search'.moved
        /\ search.pc # "idle" => search'.moved
    BY <1>1, <2>1 DEF Query
  <2>4. changes' \in 0 .. MaxChanges
    BY <1>1, <1>5, KnowledgeSearchAssumption DEF Changes
  <2>5. SearchTypeOK'
    BY <1>1, <1>2, <1>3, <2>2, <2>4 DEF SearchTypeOK
  <2>6. QED
    BY <1>2, <1>4, <2>3, <2>5, SearchStays
<1>6. CASE ~ material[d].settled /\ UNCHANGED <<search, changes>>
  <2>1. search' = search /\ changes' = changes
    BY <1>6
  <2>2. SearchTypeOK'
    BY <1>1, <1>2, <1>3, <2>1 DEF SearchTypeOK
  <2>3. ~ (~ search'.moved /\ search.pc # "idle")
    BY <1>6, <2>1 DEF AnswerInv
  <2>4. QED
    BY <1>2, <1>4, <2>1, <2>2, <2>3, SearchStays
<1>7. QED
  BY <1>5, <1>6

LEMMA DocumentStep ==
  ASSUME KnowledgeSearchInv, MaterialNext
  PROVE  KnowledgeSearchInv'
<1>1. /\ SearchTypeOK /\ material \in [AllDocs -> Material]
      /\ changes \in Generations
  BY DEF KnowledgeSearchInv, SearchTypeOK, Generations
<1>2. PICK d \in AllDocs :
        \/ StartFlow(d) \/ RemovePassages(d) \/ InsertPassages(d) \/ ClearPoints(d)
        \/ UpsertPoints(d) \/ FlowFails(d)
        \/ StartDeletion(d) \/ ClearForDeletion(d) \/ DeleteRow(d) \/ DeletionDies(d)
  BY DEF MaterialNext
<1>3. PICK m : m = material[d]
  OBVIOUS
<1>4. m \in Material /\ MaterialInv(m)
  BY <1>1, <1>3 DEF KnowledgeSearchInv
<1>5. /\ m.row \in BOOLEAN /\ m.alone \in BOOLEAN /\ m.settled \in BOOLEAN
      /\ m.passages \subseteq Generations /\ m.points \subseteq Generations
      /\ m.fetched \subseteq Generations
  BY <1>4 DEF Material
<1>6. (m.stage # "idle" \/ m.deletion # "idle") => ~ m.settled
  BY <1>4 DEF MaterialInv
<1>7. CASE StartFlow(d)
  <2>1. PICK n : n = [m EXCEPT !.row = TRUE, !.stage = "remove", !.settled = FALSE,
                               !.alone = m.deletion = "idle"]
    OBVIOUS
  <2>2. n \in Material
    BY <1>4, <2>1 DEF Material
  <2>3. MaterialInv(n)
    BY <1>4, <1>7, <1>3, <2>1 DEF Material, MaterialInv, StartFlow
  <2>4. QED
    BY <1>3, <1>7, <2>1, <2>2, <2>3, MaterialStep DEF StartFlow
<1>8. CASE RemovePassages(d)
  <2>1. PICK n : n = [m EXCEPT !.passages = {}, !.stage = "insert"]
    OBVIOUS
  <2>2. n \in Material /\ MaterialInv(n)
    BY <1>3, <1>4, <1>6, <1>8, <2>1 DEF Material, MaterialInv, RemovePassages
  <2>3. QED
    BY <1>3, <1>6, <1>8, <2>1, <2>2, MaterialStep DEF RemovePassages
<1>9. CASE InsertPassages(d)
  <2>1. PICK n : n = [m EXCEPT !.passages = {changes}, !.stage = "clear"]
    OBVIOUS
  <2>2. n \in Material /\ MaterialInv(n)
    BY <1>1, <1>3, <1>4, <1>6, <1>9, <2>1 DEF Material, MaterialInv, InsertPassages
  <2>3. QED
    BY <1>3, <1>6, <1>9, <2>1, <2>2, MaterialStep DEF InsertPassages
<1>10. CASE ClearPoints(d)
  <2>1. PICK n : n = [m EXCEPT !.fetched = m.passages, !.points = {}, !.stage = "upsert"]
    OBVIOUS
  <2>2. n \in Material /\ MaterialInv(n)
    BY <1>3, <1>4, <1>5, <1>6, <1>10, <2>1 DEF Material, MaterialInv, ClearPoints
  <2>3. QED
    BY <1>3, <1>6, <1>10, <2>1, <2>2, MaterialStep DEF ClearPoints
<1>11. CASE UpsertPoints(d)
  <2>1. PICK n : n = [m EXCEPT !.points = m.points \cup m.fetched, !.fetched = {},
                               !.stage = "idle",
                               !.settled = m.row /\ m.alone /\ m.deletion = "idle"]
    OBVIOUS
  <2>2. n \in Material
    BY <1>4, <1>5, <2>1 DEF Material
  <2>3. MaterialInv(n)
    BY <1>3, <1>4, <1>5, <1>11, <2>1 DEF Material, MaterialInv, UpsertPoints
  <2>4. QED
    BY <1>3, <1>6, <1>11, <2>1, <2>2, <2>3, MaterialStep DEF UpsertPoints
<1>12. CASE FlowFails(d)
  <2>1. PICK n : n = [m EXCEPT !.stage = "idle", !.fetched = {}]
    OBVIOUS
  <2>2. n \in Material /\ MaterialInv(n)
    BY <1>3, <1>4, <1>5, <1>6, <1>12, <2>1 DEF Material, MaterialInv, FlowFails
  <2>3. QED
    BY <1>3, <1>6, <1>12, <2>1, <2>2, MaterialStep DEF FlowFails
<1>13. CASE StartDeletion(d)
  <2>1. PICK n : n = [m EXCEPT !.deletion = "clear", !.settled = FALSE,
                               !.alone = m.stage = "idle"]
    OBVIOUS
  <2>2. n \in Material
    BY <1>4, <2>1 DEF Material
  <2>3. MaterialInv(n)
    BY <1>3, <1>4, <1>5, <1>13, <2>1 DEF Material, MaterialInv, StartDeletion
  <2>4. QED
    BY <1>3, <1>13, <2>1, <2>2, <2>3, MaterialStep DEF StartDeletion
<1>14. CASE ClearForDeletion(d)
  <2>1. PICK n : n = [m EXCEPT !.points = {}, !.deletion = "row"]
    OBVIOUS
  <2>2. n \in Material /\ MaterialInv(n)
    BY <1>3, <1>4, <1>5, <1>6, <1>14, <2>1 DEF Material, MaterialInv, ClearForDeletion
  <2>3. QED
    BY <1>3, <1>6, <1>14, <2>1, <2>2, MaterialStep DEF ClearForDeletion
<1>15. CASE DeleteRow(d)
  <2>1. PICK n : n = [m EXCEPT !.row = FALSE, !.passages = {}, !.deletion = "idle",
                               !.settled = m.alone /\ m.stage = "idle"]
    OBVIOUS
  <2>2. n \in Material
    BY <1>4, <1>5, <2>1 DEF Material
  <2>3. MaterialInv(n)
    BY <1>3, <1>4, <1>5, <1>15, <2>1 DEF Material, MaterialInv, DeleteRow
  <2>4. QED
    BY <1>3, <1>6, <1>15, <2>1, <2>2, <2>3, MaterialStep DEF DeleteRow
<1>16. CASE DeletionDies(d)
  <2>1. PICK n : n = [m EXCEPT !.deletion = "idle"]
    OBVIOUS
  <2>2. n \in Material /\ MaterialInv(n)
    BY <1>3, <1>4, <1>5, <1>6, <1>16, <2>1 DEF Material, MaterialInv, DeletionDies
  <2>3. QED
    BY <1>3, <1>6, <1>16, <2>1, <2>2, MaterialStep DEF DeletionDies
<1>17. QED
  BY <1>2, <1>7, <1>8, <1>9, <1>10, <1>11, <1>12, <1>13, <1>14, <1>15, <1>16

-----------------------------------------------------------------------------
(* The search.                                                             *)

\* What a step of the search leaves alone, and what it must then show.
LEMMA SearchGoesOn ==
  ASSUME KnowledgeSearchInv, Searches, private' \in BOOLEAN, search' \in Query,
         ScopeInv', AnswerInv'
  PROVE  KnowledgeSearchInv'
<1>1. SearchTypeOK'
  BY DEF KnowledgeSearchInv, SearchTypeOK, Searches
<1>2. \A d \in AllDocs : MaterialInv(material'[d])
  BY DEF KnowledgeSearchInv, Searches
<1>3. QED
  BY <1>1, <1>2 DEF KnowledgeSearchInv

LEMMA ScopeIsFinite == IsFiniteSet(Passages) /\ IsFiniteSet(InScope)
<1>1. IsFiniteSet(AllDocs)
  BY KnowledgeSearchAssumption, FS_Union DEF AllDocs
<1>2. IsFiniteSet(Generations)
  BY KnowledgeSearchAssumption, FS_Interval DEF Generations
<1>3. IsFiniteSet(Passages)
  BY <1>1, <1>2, FS_Product DEF Passages
<1>4. InScope \in SUBSET Passages
  BY DEF InScope
<1>5. QED
  BY <1>3, <1>4, FS_Subset

\* Where the two stores agree about every document, the best of the candidates are
\* the best of what is eligible.
LEMMA BestOfCandidates ==
  ASSUME KnowledgeSearchInv, \A d \in AllDocs : material[d].settled,
         NEW filtered \in BOOLEAN, NEW found \in Some(InScope, Candidates),
         NEW passing, passing = {p \in found : filtered => Tag(p)},
         NEW best \in Some(passing, TopK),
         NEW eligible,
         eligible = {p \in Passages : /\ Stored(p) /\ Searchable(p[1])
                                      /\ (filtered => Tag(p))}
  PROVE  /\ best \subseteq eligible
         /\ (~ filtered \/ Cardinality(InScope) <= Candidates)
              => best \in Some(eligible, TopK)
<1>1. ASSUME NEW p \in Passages
      PROVE  Stored(p) <=> p[2] \in material[p[1]].points
  <2>1. p[1] \in AllDocs
    BY DEF Passages
  <2>2. material[p[1]].points = material[p[1]].passages
    BY <2>1 DEF KnowledgeSearchInv, MaterialInv
  <2>3. QED
    BY <2>2 DEF Stored
<1>2. eligible = {p \in InScope : filtered => Tag(p)}
  BY <1>1 DEF InScope
<1>3. found \in SUBSET InScope /\ best \in SUBSET passing
  BY DEF Some
<1>4. best \subseteq eligible
  BY <1>2, <1>3
<1>5. IsFiniteSet(InScope) /\ IsFiniteSet(found)
  BY <1>3, ScopeIsFinite, FS_Subset
<1>6. Cardinality(InScope) \in Nat /\ Cardinality(found) \in Nat
  BY <1>5, FS_CardinalityType
<1>7. Cardinality(found) = IF Cardinality(InScope) < Candidates
                           THEN Cardinality(InScope) ELSE Candidates
  BY DEF Some
<1>8. Cardinality(best) = IF Cardinality(passing) < TopK THEN Cardinality(passing) ELSE TopK
  BY DEF Some
<1>9. CASE ~ filtered
  <2>1. passing = found /\ eligible = InScope
    BY <1>2, <1>9
  <2>2. Cardinality(best) = IF Cardinality(InScope) < TopK
                            THEN Cardinality(InScope) ELSE TopK
    <3>1. TopK \in Nat /\ Candidates \in Nat /\ TopK <= Candidates
      BY KnowledgeSearchAssumption
    <3>2. Cardinality(passing) = Cardinality(found)
      BY <2>1
    <3>3. QED
      BY <1>6, <1>7, <1>8, <3>1, <3>2
  <2>3. QED
    BY <1>4, <2>1, <2>2 DEF Some
<1>10. CASE Cardinality(InScope) <= Candidates
  <2>1. Cardinality(InScope) = Cardinality(found)
    BY <1>6, <1>7, <1>10, KnowledgeSearchAssumption
  <2>2. InScope = found
    BY <1>3, <1>5, <2>1, FS_Subset
  <2>3. passing = eligible
    BY <1>2, <2>2
  <2>4. QED
    BY <1>4, <2>3
<1>11. QED
  BY <1>4, <1>9, <1>10

LEMMA SearchStep ==
  ASSUME KnowledgeSearchInv,
         \/ StartSearch \/ EnsurePrivate \/ ReadScope
         \/ Rank \/ RankFails \/ RecordRanked \/ ReadPassages
  PROVE  KnowledgeSearchInv'
<1>1. /\ SearchTypeOK /\ search \in Query /\ private \in BOOLEAN
  BY DEF KnowledgeSearchInv, SearchTypeOK
<1>2. ScopeInv /\ AnswerInv
  BY DEF KnowledgeSearchInv
<1>3. ASSUME Searches
      PROVE  /\ library' = library /\ subscription' = subscription
             /\ material' = material
  BY <1>3 DEF Searches
<1>4. CASE StartSearch
  <2>0. PICK moved \in BOOLEAN : moved = \E d \in AllDocs : ~ material[d].settled
    OBVIOUS
  <2>1. PICK q : q = [NoSearch EXCEPT
          !.pc = "ensure",
          !.wasActive = library = "active", !.wasOn = subscription = "searched",
          !.moved = moved]
    OBVIOUS
  <2>2. search' = q /\ Searches /\ private' = private
    BY <1>4, <2>0, <2>1 DEF StartSearch
  <2>3. /\ q \in Query /\ q.pc = "ensure" /\ ~ q.active /\ q.subscription = "none"
        /\ q.ranked = {} /\ q.results = {} /\ q.moved = moved
        /\ q.wasActive = (library = "active") /\ q.wasOn = (subscription = "searched")
    BY <2>1, NoSearchFacts DEF Query, SearchPc
  <2>4. ScopeInv'
    BY <1>3, <2>2, <2>3 DEF ScopeInv, Searching
  <2>5. AnswerInv'
    BY <1>3, <2>0, <2>2, <2>3 DEF AnswerInv
  <2>6. QED
    BY <1>1, <2>2, <2>3, <2>4, <2>5, SearchGoesOn
<1>5. CASE EnsurePrivate
  <2>1. Searches /\ private' \in BOOLEAN
    BY <1>1, <1>5 DEF EnsurePrivate
  <2>2. PICK pc \in SearchPc, unread \in SUBSET {"libraries", "subscriptions"},
             refused \in BOOLEAN :
          /\ search' = [search EXCEPT !.pc = pc, !.unread = unread, !.refused = refused]
          /\ pc \in {"create", "scope", "failed"} /\ (pc = "failed" => refused)
    <3>1. CASE Goes("create")
      <4>1. search' = [search EXCEPT !.pc = "create", !.unread = search.unread,
                                     !.refused = search.refused]
        BY <1>1, <3>1 DEF Query, Goes
      <4>2. /\ search.unread \in SUBSET {"libraries", "subscriptions"}
            /\ search.refused \in BOOLEAN /\ "create" \in SearchPc
        BY <1>1 DEF Query, SearchPc
      <4>3. QED
        BY <4>1, <4>2
    <3>2. CASE search' = [search EXCEPT !.pc = "scope",
                                        !.unread = {"libraries", "subscriptions"}]
      <4>1. search' = [search EXCEPT !.pc = "scope",
                         !.unread = {"libraries", "subscriptions"},
                         !.refused = search.refused]
        BY <1>1, <3>2 DEF Query
      <4>2. search.refused \in BOOLEAN /\ "scope" \in SearchPc
        BY <1>1 DEF Query, SearchPc
      <4>3. QED
        BY <4>1, <4>2
    <3>3. CASE search' = [search EXCEPT !.pc = "failed", !.refused = TRUE]
      <4>1. search' = [search EXCEPT !.pc = "failed", !.unread = search.unread,
                                     !.refused = TRUE]
        BY <1>1, <3>3 DEF Query
      <4>2. search.unread \in SUBSET {"libraries", "subscriptions"} /\ "failed" \in SearchPc
        BY <1>1 DEF Query, SearchPc
      <4>3. QED
        BY <4>1, <4>2
    <3>4. QED
      BY <1>5, <3>1, <3>2, <3>3 DEF EnsurePrivate
  <2>3. /\ search' \in Query /\ search'.pc = pc /\ search'.active = search.active
        /\ search'.subscription = search.subscription /\ search'.refused = refused
        /\ search'.ranked = search.ranked /\ search'.results = search.results
        /\ search'.wasOn = search.wasOn /\ search'.wasActive = search.wasActive
        /\ search'.moved = search.moved
    BY <1>1, <2>2 DEF Query
  <2>4. search.pc \in {"ensure", "create"}
    BY <1>5 DEF EnsurePrivate
  <2>5. ScopeInv'
    BY <1>2, <1>3, <2>1, <2>3, <2>4 DEF ScopeInv, Searching, Searchable
  <2>6. AnswerInv'
    BY <1>2, <1>3, <2>1, <2>2, <2>3, <2>4 DEF AnswerInv
  <2>7. QED
    BY <2>1, <2>3, <2>5, <2>6, SearchGoesOn
<1>6. CASE ReadScope
  <2>1. Searches /\ private' = private /\ search.pc = "scope"
    BY <1>6 DEF ReadScope
  <2>2. search.ranked = {} /\ search.results = {}
    BY <1>2, <2>1 DEF AnswerInv
  <2>3. PICK pc \in {"scope", "rank"}, unread \in SUBSET {"libraries", "subscriptions"},
             active \in BOOLEAN, sub \in Subscriptions :
          /\ search' = [search EXCEPT !.pc = pc, !.unread = unread, !.active = active,
                                      !.subscription = sub]
          /\ active => search.active \/ library = "active"
          /\ sub = "searched" => search.subscription = "searched" \/ subscription = "searched"
    <3>1. CASE /\ "libraries" \in search.unread
               /\ search' = [search EXCEPT !.unread = @ \ {"libraries"},
                                           !.active = library = "active"]
      <4>1. search' = [search EXCEPT !.pc = "scope",
                         !.unread = search.unread \ {"libraries"},
                         !.active = library = "active",
                         !.subscription = search.subscription]
        BY <1>1, <2>1, <3>1 DEF Query
      <4>2. /\ search.unread \ {"libraries"} \in SUBSET {"libraries", "subscriptions"}
            /\ (library = "active") \in BOOLEAN /\ search.subscription \in Subscriptions
        BY <1>1 DEF Query
      <4>3. QED
        BY <4>1, <4>2
    <3>2. CASE /\ "subscriptions" \in search.unread
               /\ search' = [search EXCEPT !.unread = @ \ {"subscriptions"},
                                           !.subscription = subscription]
      <4>1. search' = [search EXCEPT !.pc = "scope",
                         !.unread = search.unread \ {"subscriptions"},
                         !.active = search.active,
                         !.subscription = subscription]
        BY <1>1, <2>1, <3>2 DEF Query
      <4>2. /\ search.unread \ {"subscriptions"} \in SUBSET {"libraries", "subscriptions"}
            /\ search.active \in BOOLEAN /\ subscription \in Subscriptions
        BY <1>1 DEF Query, SearchTypeOK
      <4>3. QED
        BY <4>1, <4>2
    <3>3. CASE search.unread = {} /\ Goes("rank")
      <4>1. search' = [search EXCEPT !.pc = "rank", !.unread = search.unread,
                         !.active = search.active,
                         !.subscription = search.subscription]
        BY <1>1, <3>3 DEF Query, Goes
      <4>2. /\ search.unread \in SUBSET {"libraries", "subscriptions"}
            /\ search.active \in BOOLEAN /\ search.subscription \in Subscriptions
        BY <1>1 DEF Query
      <4>3. QED
        BY <4>1, <4>2
    <3>4. QED
      BY <1>6, <3>1, <3>2, <3>3 DEF ReadScope
  <2>4. /\ search' \in Query /\ search'.pc = pc /\ search'.active = active
        /\ search'.subscription = sub /\ search'.refused = search.refused
        /\ search'.ranked = search.ranked /\ search'.results = search.results
        /\ search'.wasOn = search.wasOn /\ search'.wasActive = search.wasActive
        /\ search'.moved = search.moved
    BY <1>1, <2>3 DEF Query, SearchPc
  <2>5. ScopeInv'
    BY <1>2, <1>3, <2>1, <2>2, <2>3, <2>4 DEF ScopeInv, Searching
  <2>6. AnswerInv'
    BY <1>2, <1>3, <2>1, <2>2, <2>3, <2>4 DEF AnswerInv
  <2>7. QED
    BY <1>1, <2>1, <2>4, <2>5, <2>6, SearchGoesOn
<1>7. CASE Rank
  <2>1. Searches /\ private' = private /\ search.pc = "rank"
    BY <1>7 DEF Rank
  <2>0. PICK filtered \in BOOLEAN, found \in Some(InScope, Candidates) :
          \E best \in Some({p \in found : filtered => Tag(p)}, TopK) :
            search' = [search EXCEPT !.pc = "record", !.filtered = filtered,
                                     !.ranked = best]
    BY <1>7 DEF Rank
  <2>2. PICK best \in Some({p \in found : filtered => Tag(p)}, TopK) :
          search' = [search EXCEPT !.pc = "record", !.filtered = filtered,
                                   !.ranked = best]
    BY <2>0
  <2>3. best \subseteq InScope
    BY DEF Some
  <2>4. best \subseteq Passages /\ \A p \in best : Searchable(p[1])
    BY <2>3 DEF InScope
  <2>5. /\ search' \in Query /\ search'.pc = "record" /\ search'.active = search.active
        /\ search'.subscription = search.subscription /\ search'.refused = search.refused
        /\ search'.ranked = best /\ search'.results = search.results
        /\ search'.wasOn = search.wasOn /\ search'.wasActive = search.wasActive
        /\ search'.moved = search.moved /\ search'.filtered = filtered
    BY <1>1, <2>2, <2>4 DEF Query, SearchPc
  <2>6. ScopeInv'
    BY <1>2, <1>3, <2>1, <2>4, <2>5 DEF ScopeInv, Searching, Searchable
  <2>7. search.results = {}
    BY <1>2, <2>1 DEF AnswerInv
  <2>8. ASSUME ~ search.moved PROVE GoodRanking(search.ranked)'
    <3>1. \A d \in AllDocs : material[d].settled
      BY <1>2, <2>1, <2>8 DEF AnswerInv
    <3>2. PICK eligible : eligible = {p \in Passages : /\ Stored(p) /\ Searchable(p[1])
                                                      /\ (filtered => Tag(p))}
      OBVIOUS
    <3>3. /\ best \subseteq eligible
          /\ (~ filtered \/ Cardinality(InScope) <= Candidates)
               => best \in Some(eligible, TopK)
      BY <3>1, <3>2, BestOfCandidates
    <3>4. Eligible' = eligible
      BY <1>3, <2>1, <2>5, <3>2 DEF Eligible, Stored, Searchable, Tag
    <3>5. InScope' = InScope
      BY <1>3, <2>1, <2>5 DEF InScope, Searchable
    <3>6. QED
      BY <2>5, <3>3, <3>4, <3>5 DEF GoodRanking
  <2>9. AnswerInv'
    BY <1>2, <1>3, <2>1, <2>5, <2>7, <2>8 DEF AnswerInv
  <2>10. QED
    BY <1>1, <2>1, <2>5, <2>6, <2>9, SearchGoesOn
<1>8. CASE RankFails
  <2>1. /\ Searches /\ private' = private /\ search.pc = "rank"
        /\ search' = [search EXCEPT !.pc = "failed", !.refused = TRUE]
    BY <1>8 DEF RankFails
  <2>2. /\ search' \in Query /\ search'.pc = "failed" /\ search'.active = search.active
        /\ search'.subscription = search.subscription /\ search'.refused
        /\ search'.ranked = search.ranked /\ search'.results = search.results
        /\ search'.wasOn = search.wasOn /\ search'.wasActive = search.wasActive
        /\ search'.moved = search.moved
    BY <1>1, <2>1 DEF Query, SearchPc
  <2>3. ScopeInv'
    BY <1>2, <1>3, <2>1, <2>2 DEF ScopeInv, Searching, Searchable
  <2>4. AnswerInv'
    BY <1>2, <1>3, <2>1, <2>2 DEF AnswerInv
  <2>5. QED
    BY <1>1, <2>1, <2>2, <2>3, <2>4, SearchGoesOn
<1>9. CASE RecordRanked \/ ReadPassages
  <2>1. Searches /\ private' = private /\ search.pc \in {"record", "read"}
    BY <1>9 DEF RecordRanked, ReadPassages
  <2>2. search.results = {}
    BY <1>2, <2>1 DEF AnswerInv
  <2>3. PICK pc \in {"answered", "read", "failed"}, ranked \in SUBSET search.ranked,
             results \in SUBSET search.ranked :
          /\ search' = [search EXCEPT !.pc = pc, !.ranked = ranked, !.results = results]
          /\ pc = "answered" => ranked = {}
          /\ pc = "answered" =>
               results = {p \in search.ranked : Stored(p) /\ Accessible(p[1])}
          /\ pc = "read" => ranked = search.ranked /\ results = {}
          /\ pc = "failed" => /\ ranked = {} /\ results = {}
                             /\ \E p \in search.ranked : ~ Stored(p)
    <3>1. CASE RecordRanked
      <4>1. CASE search.ranked = {} /\ Goes("answered")
        <5>1. search' = [search EXCEPT !.pc = "answered", !.ranked = {}, !.results = {}]
          BY <1>1, <2>2, <4>1 DEF Query, Goes
        <5>2. QED
          BY <4>1, <5>1
      <4>2. CASE Goes("read")
        <5>1. search' = [search EXCEPT !.pc = "read", !.ranked = search.ranked,
                                       !.results = {}]
          BY <1>1, <2>2, <4>2 DEF Query, Goes
        <5>2. WITNESS "read" \in {"answered", "read", "failed"},
                      search.ranked \in SUBSET search.ranked,
                      {} \in SUBSET search.ranked
        <5>3. QED
          BY <5>1
      <4>3. CASE /\ \E p \in search.ranked : ~ Stored(p)
                 /\ search' = [search EXCEPT !.pc = "failed", !.ranked = {}]
        <5>1. search' = [search EXCEPT !.pc = "failed", !.ranked = {}, !.results = {}]
          BY <1>1, <2>2, <4>3 DEF Query
        <5>2. QED
          BY <4>3, <5>1
      <4>4. QED
        BY <3>1, <4>1, <4>2, <4>3 DEF RecordRanked
    <3>2. CASE ReadPassages
      BY <3>2 DEF ReadPassages
    <3>3. QED
      BY <1>9, <3>1, <3>2
  <2>4. search.ranked \subseteq Passages
    BY <1>1 DEF Query
  <2>5. /\ search' \in Query /\ search'.pc = pc /\ search'.active = search.active
        /\ search'.subscription = search.subscription /\ search'.refused = search.refused
        /\ search'.ranked = ranked /\ search'.results = results
        /\ search'.wasOn = search.wasOn /\ search'.wasActive = search.wasActive
        /\ search'.moved = search.moved /\ search'.filtered = search.filtered
    BY <1>1, <2>3, <2>4 DEF Query, SearchPc
  <2>6. ScopeInv'
    BY <1>2, <1>3, <2>1, <2>3, <2>5 DEF ScopeInv, Searching, Searchable
  <2>7. ASSUME ~ search.moved
        PROVE  /\ pc # "failed"
               /\ pc = "read" => GoodRanking(search.ranked)'
               /\ pc = "answered" => GoodRanking(search.results)'
    <3>1. GoodRanking(search.ranked)
      BY <1>2, <2>1, <2>7 DEF AnswerInv
    <3>2. \A p \in search.ranked : Stored(p) /\ Accessible(p[1])
      BY <3>1 DEF GoodRanking, Eligible, Searchable, Accessible
    <3>3. search'.ranked = search.ranked \/ pc # "read"
      BY <2>3, <2>5
    <3>4. pc = "answered" => search'.results = search.ranked
      BY <2>3, <2>5, <3>2
    <3>5. Eligible' = Eligible
      BY <1>3, <2>1, <2>5 DEF Eligible, Stored, Searchable, Tag
    <3>6. InScope' = InScope
      BY <1>3, <2>1, <2>5 DEF InScope, Searchable
    <3>7. pc # "failed"
      BY <2>3, <3>2
    <3>8. QED
      BY <2>5, <3>1, <3>3, <3>4, <3>5, <3>6, <3>7 DEF GoodRanking
  <2>8. AnswerInv'
    BY <1>2, <1>3, <2>1, <2>3, <2>5, <2>7 DEF AnswerInv
  <2>9. QED
    BY <1>1, <2>1, <2>5, <2>6, <2>8, SearchGoesOn
<1>10. QED
  BY <1>4, <1>5, <1>6, <1>7, <1>8, <1>9

-----------------------------------------------------------------------------
LEMMA SearchInvariant == SearchSpec => []KnowledgeSearchInv
<1>1. ASSUME KnowledgeSearchInv, [SearchNext]_searchVars PROVE KnowledgeSearchInv'
  <2>1. CASE UNCHANGED searchVars
    BY <1>1, <2>1
    DEF searchVars, accessVars, KnowledgeSearchInv, SearchTypeOK, ScopeInv, AnswerInv,
        MaterialInv, GoodRanking, Searching, Searchable, Eligible, InScope, Stored, Tag
  <2>2. QED
    BY <1>1, <2>1, AccessStep, DocumentStep, SearchStep DEF SearchNext
<1>2. QED
  BY <1>1, SearchInitially, PTL DEF SearchSpec

\* The rows of libraries and the subscription, the two stores' record of each
\* document, and the search keep their types whatever runs beside what.
THEOREM SearchTypes == SearchSpec => []SearchTypeOK
<1>1. KnowledgeSearchInv => SearchTypeOK
  BY DEF KnowledgeSearchInv
<1>2. QED
  BY <1>1, SearchInvariant, PTL

\* ScopeRespected for every number of documents, changes, candidates and results:
\* no passage of the managed library without an active library, and without a
\* subscription that searches it, at some moment of the search.
THEOREM ScopeCorrect == SearchSpec => []ScopeRespected
<1>1. KnowledgeSearchInv => ScopeRespected
  <2>1. SUFFICES ASSUME KnowledgeSearchInv, NEW p \in search.results,
                        p \in LibraryDocs \X Generations
                 PROVE  search.wasActive /\ search.wasOn
    BY DEF ScopeRespected
  <2>2. Searchable(p[1]) /\ p[1] \notin PrivateDocs
    BY <2>1, KnowledgeSearchAssumption DEF KnowledgeSearchInv, ScopeInv
  <2>3. search \in Query /\ ScopeInv
    BY <2>1 DEF KnowledgeSearchInv, SearchTypeOK
  <2>4. search.active /\ search.subscription = "searched"
    BY <2>2 DEF Searchable
  <2>5. QED
    BY <2>3, <2>4 DEF ScopeInv, Query
<1>2. QED
  BY <1>1, SearchInvariant, PTL

\* SettledIsSearchable: a search beside which no document is processed or deleted
\* answers, and with as many passages as it may give of those that are eligible.
THEOREM SettledCorrect == SearchSpec => []SettledIsSearchable
<1>1. KnowledgeSearchInv => SettledIsSearchable
  BY DEF KnowledgeSearchInv, AnswerInv, GoodRanking, SettledIsSearchable
<1>2. QED
  BY <1>1, SearchInvariant, PTL

-----------------------------------------------------------------------------
(* Uploads and deletions.                                                  *)

\* The list a page works on: that of its batch, or the one it shows.
Entries(p) == IF Uploading(p) THEN dialogs[p].list ELSE dialogs[p].shown
Owed(p, f) == <<p, f>> \in unsettled

\* What a page holds: what is in progress is the head of its batch, what is pending
\* is in it, and what was not submitted was inserted at most as often as a request
\* failed too late.
PageInv(p) ==
  /\ IsInjective(dialogs[p].batch)
  /\ \A f \in ToSet(dialogs[p].batch) : dialogs[p].list[f].step # "succeeded"
  /\ \A f \in DOMAIN Entries(p) :
       /\ Entries(p)[f].step = "busy" => Uploading(p) /\ f = ItemFile(p)
       /\ (Entries(p)[f].step = "pending" /\ Uploading(p)) => f \in ToSet(dialogs[p].batch)
       /\ (Entries(p)[f].step = "pending" /\ ~ Uploading(p)) =>
            \A g \in DOMAIN Entries(p) : Entries(p)[g].step = "pending"
       /\ Entries(p)[f].step # "succeeded" => attempts[p][f] <= failures.late
  /\ \A f \in UploadFiles :
       /\ Owed(p, f) => f \in DOMAIN Entries(p) /\ Entries(p)[f].step # "succeeded"
       /\ attempts[p][f] <= 1 + failures.late

\* The object of a version is in storage, and no deletion is about to remove it.
Excused(v) == versions[v].raced \/ v \in doomed
StorageInv ==
  \A v \in LiveVersions :
    /\ versions[v].content \in objects \/ Excused(v)
    /\ \A d \in Deletions :
         (deletions[d].pc = "objects" /\ versions[v].content \in deletions[d].keys)
           => Excused(v)

\* The inductive invariant.
UploadsInv == UploadsTypeOK /\ StorageInv /\ \A p \in Pages : PageInv(p)

-----------------------------------------------------------------------------
(* Sequences without repetitions.                                          *)

LEMMA TailOfInjective ==
  ASSUME NEW S, NEW s \in Seq(S), s # <<>>, IsInjective(s)
  PROVE  /\ IsInjective(Tail(s)) /\ Tail(s) \in Seq(S)
         /\ ToSet(Tail(s)) = ToSet(s) \ {Head(s)} /\ Head(s) \in ToSet(s)
<1>1. /\ Tail(s) \in Seq(S) /\ Len(Tail(s)) = Len(s) - 1 /\ Len(s) \in Nat \ {0}
      /\ \A i \in 1 .. Len(Tail(s)) : Tail(s)[i] = s[i + 1]
  BY HeadTailProperties, EmptySeq
<1>2. DOMAIN s = 1 .. Len(s) /\ DOMAIN Tail(s) = 1 .. Len(s) - 1 /\ Head(s) = s[1]
  BY <1>1, LenProperties
<1>3. \A i, j \in 1 .. Len(s) : s[i] = s[j] => i = j
  BY <1>2 DEF IsInjective
<1>4. IsInjective(Tail(s))
  BY <1>1, <1>2, <1>3 DEF IsInjective
<1>5. ToSet(Tail(s)) \subseteq ToSet(s) \ {Head(s)}
  BY <1>1, <1>2, <1>3 DEF ToSet
<1>6. ASSUME NEW x \in ToSet(s), x # Head(s) PROVE x \in ToSet(Tail(s))
  <2>1. PICK i \in 1 .. Len(s) : x = s[i]
    BY <1>2 DEF ToSet
  <2>2. i - 1 \in 1 .. Len(s) - 1 /\ Tail(s)[i - 1] = x
    BY <1>1, <1>2, <1>6, <2>1
  <2>3. QED
    BY <1>2, <2>2 DEF ToSet
<1>7. QED
  BY <1>1, <1>2, <1>4, <1>5, <1>6 DEF ToSet

LEMMA SequenceOfSet ==
  ASSUME NEW S, IsFiniteSet(S)
  PROVE  /\ SetToSeq(S) \in Seq(S) /\ IsInjective(SetToSeq(S))
         /\ ToSet(SetToSeq(S)) = S
<1>1. Cardinality(S) \in Nat /\ ExistsBijection(1 .. Cardinality(S), S)
  BY FS_CardinalityType
<1>2. PICK f : f \in Bijection(1 .. Cardinality(S), S)
  BY <1>1 DEF ExistsBijection
<1>3. f \in [1 .. Cardinality(S) -> S] /\ IsInjective(f)
  BY <1>2 DEF Bijection, Injection, IsInjective
<1>4. SetToSeq(S) \in [1 .. Cardinality(S) -> S] /\ IsInjective(SetToSeq(S))
  BY <1>3 DEF SetToSeq
<1>5. PICK s : s = SetToSeq(S)
  OBVIOUS
<1>6. s \in Seq(S) /\ DOMAIN s = 1 .. Cardinality(S)
  BY <1>1, <1>4, <1>5
<1>7. ToSet(s) \in SUBSET S
  BY <1>4, <1>5 DEF ToSet
<1>8. s \in Bijection(1 .. Cardinality(S), ToSet(s))
  BY <1>4, <1>5, <1>6 DEF Bijection, Injection, Surjection, ToSet, IsInjective
<1>9. Cardinality(ToSet(s)) = Cardinality(S)
  BY <1>1, <1>8, FS_CountingElements DEF ExistsBijection
<1>10. ToSet(s) = S
  BY <1>7, <1>9, FS_Subset
<1>11. QED
  BY <1>4, <1>5, <1>6, <1>10
-----------------------------------------------------------------------------
(* Lists of files.                                                         *)

LEMMA EmptyItems == NoItems \in ItemLists /\ DOMAIN NoItems = {}
<1>1. DOMAIN NoItems = {} /\ NoItems \in [{} -> Item]
  BY DEF NoItems
<1>2. QED
  BY <1>1 DEF ItemLists

LEMMA ItemsOf ==
  ASSUME NEW items \in ItemLists
  PROVE  DOMAIN items \subseteq UploadFiles /\ items \in [DOMAIN items -> Item]
BY DEF ItemLists

LEMMA ItemsFor ==
  ASSUME NEW items, DOMAIN items \subseteq UploadFiles, items \in [DOMAIN items -> Item]
  PROVE  items \in ItemLists
BY DEF ItemLists

LEMMA OfPage ==
  ASSUME UploadsTypeOK, NEW p \in Pages
  PROVE  /\ dialogs[p] \in Dialog /\ dialogs[p].shown \in ItemLists
         /\ dialogs[p].list \in ItemLists /\ dialogs[p].batch \in Seq(UploadFiles)
         /\ dialogs[p].pc = "idle" <=> dialogs[p].batch = <<>>
         /\ ToSet(dialogs[p].batch) \subseteq DOMAIN dialogs[p].list
         /\ attempts[p] \in [UploadFiles -> Nat]
         /\ failures.late \in Nat /\ failures.all \in Nat
BY DEF UploadsTypeOK, Dialog

\* The file a batch works on is in its list.
LEMMA HeadOfBatch ==
  ASSUME UploadsTypeOK, NEW p \in Pages, PageInv(p), Uploading(p)
  PROVE  /\ ItemFile(p) \in DOMAIN dialogs[p].list /\ ItemFile(p) \in UploadFiles
         /\ ItemFile(p) \in ToSet(dialogs[p].batch)
         /\ ItemContent(p) \in Contents
         /\ dialogs[p].batch # <<>> /\ IsInjective(dialogs[p].batch)
         /\ Tail(dialogs[p].batch) \in Seq(UploadFiles)
         /\ IsInjective(Tail(dialogs[p].batch))
         /\ ToSet(Tail(dialogs[p].batch)) = ToSet(dialogs[p].batch) \ {ItemFile(p)}
<1>1. dialogs[p].batch # <<>> /\ IsInjective(dialogs[p].batch)
  BY OfPage DEF Uploading, PageInv
<1>2. dialogs[p].batch \in Seq(UploadFiles) /\ dialogs[p].list \in ItemLists
      /\ ToSet(dialogs[p].batch) \subseteq DOMAIN dialogs[p].list
  BY OfPage
<1>3. /\ Tail(dialogs[p].batch) \in Seq(UploadFiles)
      /\ IsInjective(Tail(dialogs[p].batch))
      /\ ToSet(Tail(dialogs[p].batch)) = ToSet(dialogs[p].batch) \ {ItemFile(p)}
      /\ ItemFile(p) \in ToSet(dialogs[p].batch)
  BY <1>1, <1>2, TailOfInjective DEF ItemFile
<1>4. /\ DOMAIN dialogs[p].list \subseteq UploadFiles
      /\ dialogs[p].list \in [DOMAIN dialogs[p].list -> Item]
  BY <1>2, ItemsOf
<1>5. ItemFile(p) \in DOMAIN dialogs[p].list
  BY <1>2, <1>3
<1>6. ItemContent(p) \in Contents
  BY <1>4, <1>5 DEF ItemContent, Item
<1>7. QED
  BY <1>1, <1>3, <1>4, <1>5, <1>6

LEMMA PatchedItems ==
  ASSUME UploadsTypeOK, NEW p \in Pages, PageInv(p), Uploading(p),
         NEW step \in UploadStep, NEW items, items = Patched(p, step)
  PROVE  /\ items \in ItemLists /\ DOMAIN items = DOMAIN dialogs[p].list
         /\ \A f \in DOMAIN items :
              items[f].step = IF f = ItemFile(p) THEN step ELSE dialogs[p].list[f].step
<1>1. PICK list : list = dialogs[p].list
  OBVIOUS
<1>2. DOMAIN list \subseteq UploadFiles /\ list \in [DOMAIN list -> Item]
  BY <1>1, OfPage, ItemsOf
<1>3. PICK f : f = ItemFile(p) /\ f \in DOMAIN list
  BY <1>1, HeadOfBatch
<1>4. items = [list EXCEPT ![f].step = step]
  BY <1>1, <1>3 DEF Patched
<1>5. list[f] \in Item
  BY <1>2, <1>3
<1>6. PICK item : item = [list[f] EXCEPT !.step = step]
  OBVIOUS
<1>7. item \in Item /\ item.step = step
  BY <1>5, <1>6 DEF Item
<1>8. items = [list EXCEPT ![f] = item]
  BY <1>2, <1>3, <1>4, <1>6
<1>9. /\ DOMAIN items = DOMAIN list /\ items \in [DOMAIN list -> Item]
      /\ \A g \in DOMAIN list : items[g].step = IF g = f THEN step ELSE list[g].step
  BY <1>2, <1>3, <1>7, <1>8
<1>10. items \in ItemLists
  BY <1>2, <1>9, ItemsFor
<1>11. QED
  BY <1>1, <1>3, <1>9, <1>10

\* What a page holds when nothing of it changes but what is no longer owed.
LEMMA PageFrame ==
  ASSUME UploadsTypeOK, NEW p \in Pages, PageInv(p), dialogs'[p] = dialogs[p],
         \A f \in UploadFiles : Owed(p, f)' => Owed(p, f),
         attempts'[p] = attempts[p],
         failures'.late \in Nat, failures.late <= failures'.late
  PROVE  PageInv(p)'
<1>1. /\ Entries(p)' = Entries(p) /\ (Uploading(p))' = Uploading(p)
      /\ (ItemFile(p))' = ItemFile(p)
  BY DEF Entries, Uploading, ItemFile
<1>2. Entries(p) \in ItemLists
  BY OfPage DEF Entries
<1>3. \A f \in DOMAIN Entries(p) : f \in UploadFiles
  BY <1>2, ItemsOf
<1>4. \A f \in UploadFiles : attempts[p][f] \in Nat
  BY OfPage
<1>5. failures.late \in Nat
  BY OfPage
<1>6. QED
  BY <1>1, <1>3, <1>4, <1>5 DEF PageInv

-----------------------------------------------------------------------------
(* The page.                                                               *)

\* A page's dialog is another one, which is well formed.
DialogBecomes(p, n) ==
  /\ dialogs' = [dialogs EXCEPT ![p] = n] /\ n \in Dialog
  /\ ToSet(n.batch) \subseteq DOMAIN n.list
  /\ n.pc = "idle" <=> n.batch = <<>>

\* The item a batch works on goes on.
LEMMA ItemGoesOn ==
  ASSUME UploadsTypeOK, NEW p \in Pages, PageInv(p), Uploading(p),
         NEW pc \in {"presign", "put", "check", "insert"}, ItemGoes(p, pc),
         unsettled' = unsettled, attempts' = attempts, failures' = failures
  PROVE  (\E n : DialogBecomes(p, n)) /\ PageInv(p)'
<1>1. PICK items : items = Patched(p, "busy")
  OBVIOUS
<1>2. /\ items \in ItemLists /\ DOMAIN items = DOMAIN dialogs[p].list
      /\ \A f \in DOMAIN items :
           items[f].step = IF f = ItemFile(p) THEN "busy" ELSE dialogs[p].list[f].step
  BY <1>1, PatchedItems DEF UploadStep
<1>3. PICK n : n = [shown |-> items, list |-> items, batch |-> dialogs[p].batch,
                    pc |-> pc]
  OBVIOUS
<1>4. dialogs[p] \in Dialog /\ dialogs[p].batch # <<>>
      /\ ToSet(dialogs[p].batch) \subseteq DOMAIN dialogs[p].list
  BY OfPage, HeadOfBatch
<1>5. n \in Dialog
  BY <1>2, <1>3, <1>4 DEF Dialog
<1>6. [dialogs[p] EXCEPT !.pc = pc, !.list = items, !.shown = items] = n
  <2>1. PICK d : d = dialogs[p]
    OBVIOUS
  <2>2. d = [shown |-> d.shown, list |-> d.list, batch |-> d.batch, pc |-> d.pc]
    BY <1>4, <2>1 DEF Dialog
  <2>3. PICK a : a = [d EXCEPT !.pc = pc]
    OBVIOUS
  <2>4. a = [shown |-> d.shown, list |-> d.list, batch |-> d.batch, pc |-> pc]
    BY <2>2, <2>3
  <2>5. PICK b : b = [a EXCEPT !.list = items]
    OBVIOUS
  <2>6. b = [shown |-> d.shown, list |-> items, batch |-> d.batch, pc |-> pc]
    BY <2>4, <2>5
  <2>7. [b EXCEPT !.shown = items] = n
    BY <1>3, <2>1, <2>6
  <2>8. [d EXCEPT !.pc = pc, !.list = items, !.shown = items]
          = [[[d EXCEPT !.pc = pc] EXCEPT !.list = items] EXCEPT !.shown = items]
    OBVIOUS
  <2>9. QED
    BY <2>1, <2>3, <2>5, <2>7, <2>8
<1>7. dialogs \in [Pages -> Dialog]
  BY DEF UploadsTypeOK
<1>8. dialogs' = [dialogs EXCEPT ![p].pc = pc, ![p].list = items, ![p].shown = items]
  BY <1>1 DEF ItemGoes
<1>9. dialogs' = [dialogs EXCEPT ![p] = n]
  BY <1>6, <1>7, <1>8
<1>10. DialogBecomes(p, n)
  BY <1>2, <1>3, <1>4, <1>5, <1>9 DEF DialogBecomes
<1>11. dialogs'[p] = n
  BY <1>7, <1>9
<1>12. /\ Entries(p)' = items /\ Uploading(p)' /\ ItemFile(p)' = ItemFile(p)
       /\ Entries(p) = dialogs[p].list
  BY <1>3, <1>11 DEF Entries, Uploading, ItemFile
<1>13. ItemFile(p) \in ToSet(dialogs[p].batch) /\ ItemFile(p) \in DOMAIN dialogs[p].list
  BY HeadOfBatch
<1>14. dialogs[p].list[ItemFile(p)].step # "succeeded"
  BY <1>13 DEF PageInv
<1>15. PageInv(p)'
  <2>1. \A f \in DOMAIN items :
          items[f].step # "succeeded" <=> dialogs[p].list[f].step # "succeeded"
    BY <1>2, <1>14
  <2>2. dialogs'[p].list = items /\ dialogs'[p].batch = dialogs[p].batch
    BY <1>3, <1>11
  <2>3. \A f \in ToSet(dialogs'[p].batch) : dialogs'[p].list[f].step # "succeeded"
    BY <1>2, <1>4, <2>1, <2>2 DEF PageInv
  <2>4. \A f \in DOMAIN items :
          /\ items[f].step = "busy" => f = ItemFile(p)
          /\ items[f].step = "pending" => f \in ToSet(dialogs[p].batch)
          /\ items[f].step # "succeeded" => attempts[p][f] <= failures.late
    BY <1>2, <1>12, <2>1 DEF PageInv
  <2>5. \A f \in UploadFiles :
          /\ Owed(p, f) => f \in DOMAIN items /\ items[f].step # "succeeded"
          /\ attempts[p][f] <= 1 + failures.late
    BY <1>2, <1>12, <2>1 DEF PageInv
  <2>6. IsInjective(dialogs'[p].batch)
    BY <2>2 DEF PageInv
  <2>7. \A f \in UploadFiles : Owed(p, f)' <=> Owed(p, f)
    BY DEF Owed
  <2>8. QED
    BY <1>12, <2>2, <2>3, <2>4, <2>5, <2>6, <2>7 DEF PageInv
<1>16. QED
  BY <1>10, <1>15

\* The item a batch works on is done with.
LEMMA ItemEndsWell ==
  ASSUME UploadsTypeOK, NEW p \in Pages, PageInv(p), Uploading(p),
         NEW step \in {"succeeded", "failed"}, ItemEnds(p, step),
         \A f \in UploadFiles : Owed(p, f)' => Owed(p, f),
         \A f \in UploadFiles : (f = ItemFile(p) /\ step = "succeeded") => ~ Owed(p, f)',
         attempts' \in [Pages -> [UploadFiles -> Nat]],
         \A f \in UploadFiles \ {ItemFile(p)} : attempts'[p][f] = attempts[p][f],
         failures'.late \in Nat, failures.late <= failures'.late,
         attempts'[p][ItemFile(p)] <= 1 + failures'.late,
         step = "failed" => attempts'[p][ItemFile(p)] <= failures'.late
  PROVE  (\E n : DialogBecomes(p, n)) /\ PageInv(p)'
<1>1. PICK items : items = Patched(p, step)
  OBVIOUS
<1>2. /\ items \in ItemLists /\ DOMAIN items = DOMAIN dialogs[p].list
      /\ \A f \in DOMAIN items :
           items[f].step = IF f = ItemFile(p) THEN step ELSE dialogs[p].list[f].step
  BY <1>1, PatchedItems DEF UploadStep
<1>3. PICK rest : rest = Tail(dialogs[p].batch)
  OBVIOUS
<1>4. /\ rest \in Seq(UploadFiles) /\ IsInjective(rest)
      /\ ToSet(rest) = ToSet(dialogs[p].batch) \ {ItemFile(p)}
      /\ ItemFile(p) \in DOMAIN items /\ ItemFile(p) \in UploadFiles
  BY <1>2, <1>3, HeadOfBatch
<1>5. /\ ToSet(dialogs[p].batch) \subseteq DOMAIN items
      /\ failures.late \in Nat /\ \A f \in UploadFiles : attempts[p][f] \in Nat
      /\ \A f \in DOMAIN items : f \in UploadFiles
  BY <1>2, OfPage, ItemsOf
<1>6. Entries(p) = dialogs[p].list
  BY DEF Entries
\* What is left of the list: nothing is busy, what is pending comes later.
<1>7. \A f \in DOMAIN items :
        /\ items[f].step # "busy"
        /\ items[f].step = "pending" => f \in ToSet(rest)
        /\ items[f].step # "succeeded" => attempts'[p][f] <= failures'.late
  <2>1. SUFFICES ASSUME NEW f \in DOMAIN items
                 PROVE  /\ items[f].step # "busy"
                        /\ items[f].step = "pending" => f \in ToSet(rest)
                        /\ items[f].step # "succeeded" => attempts'[p][f] <= failures'.late
    OBVIOUS
  <2>2. CASE f = ItemFile(p)
    BY <1>2, <2>2
  <2>3. CASE f # ItemFile(p)
    <3>1. items[f].step = dialogs[p].list[f].step
      BY <1>2, <2>3
    <3>2. attempts'[p][f] = attempts[p][f] /\ attempts[p][f] \in Nat
      BY <1>5, <2>3
    <3>3. QED
      BY <1>2, <1>4, <1>5, <1>6, <2>3, <3>1, <3>2 DEF PageInv
  <2>4. QED
    BY <2>2, <2>3
<1>8. \A f \in UploadFiles :
        /\ Owed(p, f)' => f \in DOMAIN items /\ items[f].step # "succeeded"
        /\ attempts'[p][f] <= 1 + failures'.late
  <2>1. SUFFICES ASSUME NEW f \in UploadFiles
                 PROVE  /\ Owed(p, f)' => f \in DOMAIN items /\ items[f].step # "succeeded"
                        /\ attempts'[p][f] <= 1 + failures'.late
    OBVIOUS
  <2>2. CASE f = ItemFile(p)
    BY <1>2, <1>4, <2>2
  <2>3. CASE f # ItemFile(p)
    <3>1. attempts'[p][f] = attempts[p][f] /\ attempts[p][f] \in Nat
      BY <1>5, <2>3
    <3>2. QED
      BY <1>2, <1>5, <1>6, <2>3, <3>1 DEF PageInv
  <2>4. QED
    BY <2>2, <2>3
<1>9. \A f \in ToSet(rest) : items[f].step # "succeeded"
  BY <1>2, <1>4, <1>5 DEF PageInv
<1>10. dialogs \in [Pages -> Dialog]
  BY DEF UploadsTypeOK
<1>11. CASE rest # <<>>
  <2>1. PICK n : n = [shown |-> items, list |-> items, batch |-> rest, pc |-> "presign"]
    OBVIOUS
  <2>2. dialogs' = [dialogs EXCEPT ![p] = n]
    BY <1>1, <1>3, <1>11, <2>1 DEF ItemEnds
  <2>3. DialogBecomes(p, n)
    BY <1>2, <1>4, <1>5, <1>11, <2>1, <2>2 DEF DialogBecomes, Dialog
  <2>4. dialogs'[p] = n
    BY <1>10, <2>2
  <2>5. Entries(p)' = items /\ Uploading(p)' /\ dialogs'[p].batch = rest
        /\ dialogs'[p].list = items
    BY <2>1, <2>4 DEF Entries, Uploading
  <2>6. PageInv(p)'
    BY <1>4, <1>7, <1>8, <1>9, <2>5 DEF PageInv
  <2>7. QED
    BY <2>3, <2>6
<1>12. CASE rest = <<>>
  <2>1. PICK shown : shown = IF LeftOpen(items) THEN items ELSE NoItems
    OBVIOUS
  <2>2. PICK n : n = [shown |-> shown, list |-> NoItems, batch |-> rest, pc |-> "idle"]
    OBVIOUS
  <2>3. dialogs' = [dialogs EXCEPT ![p] = n]
    BY <1>1, <1>3, <1>12, <2>1, <2>2 DEF ItemEnds
  <2>4. ToSet(rest) = {}
    BY <1>12 DEF ToSet
  <2>5. shown \in ItemLists
    BY <1>2, <2>1, EmptyItems
  <2>6. DialogBecomes(p, n)
    BY <1>4, <1>12, <2>2, <2>3, <2>4, <2>5, EmptyItems DEF DialogBecomes, Dialog
  <2>7. dialogs'[p] = n
    BY <1>10, <2>3
  <2>8. Entries(p)' = shown /\ ~ Uploading(p)' /\ dialogs'[p].batch = rest
    BY <2>2, <2>7 DEF Entries, Uploading
  <2>9. \A f \in DOMAIN shown :
          /\ shown[f].step \notin {"busy", "pending"}
          /\ shown[f].step # "succeeded" => attempts'[p][f] <= failures'.late
    BY <1>7, <2>1, <2>4, EmptyItems
  <2>10. ASSUME NEW f \in UploadFiles, Owed(p, f)'
         PROVE  f \in DOMAIN shown /\ shown[f].step # "succeeded"
    <3>1. f \in DOMAIN items /\ items[f].step \notin {"succeeded", "busy", "pending"}
      BY <1>7, <1>8, <2>4, <2>10
    <3>2. items[f].step \in UploadStep
      BY <1>2, <3>1, ItemsOf DEF Item
    <3>3. LeftOpen(items)
      BY <3>1, <3>2 DEF LeftOpen, UploadStep
    <3>4. QED
      BY <2>1, <3>1, <3>3
  <2>11. PageInv(p)'
    BY <1>4, <1>8, <2>4, <2>8, <2>9, <2>10 DEF PageInv
  <2>12. QED
    BY <2>6, <2>11
<1>13. QED
  BY <1>11, <1>12

\* A step of one page: what it must show of that page, and of the rest.
LEMMA PageStep ==
  ASSUME UploadsInv, NEW p \in Pages, \E n : DialogBecomes(p, n), PageInv(p)',
         StorageInv', versions' \in Seq(Version), doomed \subseteq DOMAIN versions',
         objects' \subseteq Contents, deletions' = deletions, doomed' = doomed,
         unsettled' \subseteq Pages \X UploadFiles,
         \A q \in Pages \ {p}, f \in UploadFiles : Owed(q, f)' => Owed(q, f),
         attempts' \in [Pages -> [UploadFiles -> Nat]],
         \A q \in Pages \ {p} : attempts'[q] = attempts[q],
         picks' \in Nat, failures' \in [all : Nat, late : Nat],
         failures.late <= failures'.late
  PROVE  UploadsInv'
<1>1. UploadsTypeOK
  BY DEF UploadsInv
<1>2. PICK n : DialogBecomes(p, n)
  OBVIOUS
<1>3. /\ dialogs' \in [Pages -> Dialog] /\ dialogs'[p] = n
      /\ \A q \in Pages \ {p} : dialogs'[q] = dialogs[q]
  BY <1>1, <1>2 DEF UploadsTypeOK, DialogBecomes
<1>4. \A q \in Pages :
        /\ ToSet(dialogs'[q].batch) \subseteq DOMAIN dialogs'[q].list
        /\ dialogs'[q].pc = "idle" <=> dialogs'[q].batch = <<>>
  BY <1>1, <1>2, <1>3 DEF UploadsTypeOK, DialogBecomes
<1>5. UploadsTypeOK'
  BY <1>1, <1>3, <1>4 DEF UploadsTypeOK
<1>6. ASSUME NEW q \in Pages, q # p PROVE PageInv(q)'
  <2>1. PageInv(q) /\ failures'.late \in Nat
    BY DEF UploadsInv
  <2>2. QED
    BY <1>1, <1>3, <1>6, <2>1, PageFrame
<1>7. QED
  BY <1>5, <1>6 DEF UploadsInv

LEMMA StorageKept ==
  ASSUME StorageInv, versions' = versions, deletions' = deletions, doomed' = doomed,
         objects \subseteq objects'
  PROVE  StorageInv'
BY DEF StorageInv, LiveVersions, Excused

\* A file of a list, and its content.
LEMMA PickStep ==
  ASSUME UploadsInv, NEW p \in Pages, NEW fs \in SUBSET UploadFiles, PickFiles(p, fs)
  PROVE  UploadsInv'
<1>1. UploadsTypeOK /\ PageInv(p) /\ StorageInv
  BY DEF UploadsInv
<1>2. PICK c \in [fs -> Contents] :
        dialogs' = [dialogs EXCEPT ![p].shown =
                      [f \in fs |-> [step |-> "pending", content |-> c[f]]]]
  BY DEF PickFiles
<1>3. PICK shown : shown = [f \in fs |-> [step |-> "pending", content |-> c[f]]]
  OBVIOUS
<1>4. shown \in ItemLists /\ DOMAIN shown = fs /\ \A f \in fs : shown[f].step = "pending"
  <2>1. DOMAIN shown = fs /\ \A f \in fs : shown[f].step = "pending"
    BY <1>3
  <2>2. shown \in [fs -> Item]
    BY <1>3 DEF Item, UploadStep
  <2>3. QED
    BY <2>1, <2>2 DEF ItemLists
<1>5. PICK n : n = [dialogs[p] EXCEPT !.shown = shown]
  OBVIOUS
<1>6. /\ n \in Dialog /\ n.shown = shown /\ n.list = dialogs[p].list
      /\ n.batch = dialogs[p].batch /\ n.pc = dialogs[p].pc
  BY <1>1, <1>4, <1>5, OfPage DEF Dialog
<1>7. dialogs' = [dialogs EXCEPT ![p] = n] /\ dialogs'[p] = n
  BY <1>1, <1>2, <1>3, <1>5 DEF UploadsTypeOK
<1>8. DialogBecomes(p, n)
  BY <1>1, <1>6, <1>7, OfPage DEF DialogBecomes
<1>9. attempts \in [Pages -> [UploadFiles -> Nat]] /\ unsettled \subseteq Pages \X UploadFiles
      /\ failures \in [all : Nat, late : Nat] /\ versions \in Seq(Version)
      /\ doomed \subseteq DOMAIN versions /\ picks \in Nat /\ objects \subseteq Contents
  BY <1>1 DEF UploadsTypeOK
<1>10. /\ attempts' \in [Pages -> [UploadFiles -> Nat]]
       /\ \A q \in Pages \ {p} : attempts'[q] = attempts[q]
       /\ ~ Uploading(p) =>
            \A f \in UploadFiles : attempts'[p][f] = IF f \in fs THEN 0 ELSE attempts[p][f]
       /\ Uploading(p) => attempts' = attempts
  <2>1. CASE Uploading(p)
    BY <1>9, <2>1 DEF PickFiles
  <2>2. CASE ~ Uploading(p)
    <3>1. attempts' = [attempts EXCEPT ![p] =
                         [f \in UploadFiles |-> IF f \in fs THEN 0 ELSE attempts[p][f]]]
      BY <2>2 DEF PickFiles
    <3>2. QED
      BY <1>9, <2>2, <3>1
  <2>3. QED
    BY <2>1, <2>2
<1>11. /\ unsettled' \subseteq Pages \X UploadFiles
       /\ \A q \in Pages \ {p}, f \in UploadFiles : Owed(q, f)' => Owed(q, f)
       /\ ~ Uploading(p) => \A f \in UploadFiles : Owed(p, f)' => f \in fs
       /\ Uploading(p) => unsettled' = unsettled
  BY <1>9 DEF PickFiles, Owed, Of
<1>12. PageInv(p)'
  <2>1. Uploading(p)' <=> Uploading(p)
    BY <1>6, <1>7 DEF Uploading
  <2>2. dialogs'[p].batch = dialogs[p].batch /\ dialogs'[p].list = dialogs[p].list
    BY <1>6, <1>7
  <2>3. failures' = failures
    BY DEF PickFiles
  <2>4. CASE Uploading(p)
    <3>1. Entries(p)' = Entries(p) /\ ItemFile(p)' = ItemFile(p)
      BY <2>1, <2>2, <2>4 DEF Entries, ItemFile
    <3>2. \A f \in UploadFiles : Owed(p, f)' <=> Owed(p, f)
      BY <1>11, <2>4 DEF Owed
    <3>3. QED
      BY <1>1, <1>10, <2>1, <2>2, <2>3, <2>4, <3>1, <3>2 DEF PageInv
  <2>5. CASE ~ Uploading(p)
    <3>1. Entries(p)' = shown
      BY <1>6, <1>7, <2>1, <2>5 DEF Entries
    <3>2. failures.late \in Nat /\ dialogs[p].batch = <<>>
      BY <1>1, <2>5, OfPage DEF Uploading
    <3>3. ToSet(dialogs[p].batch) = {}
      BY <3>2 DEF ToSet
    <3>4. QED
      BY <1>1, <1>4, <1>10, <1>11, <2>1, <2>2, <2>3, <2>5, <3>1, <3>2, <3>3 DEF PageInv
  <2>6. QED
    BY <2>4, <2>5
<1>13. /\ versions' = versions /\ deletions' = deletions /\ doomed' = doomed
       /\ objects' = objects /\ failures' = failures /\ picks' \in Nat
  BY <1>9 DEF PickFiles
<1>14. StorageInv' /\ failures.late <= failures'.late
  BY <1>1, <1>9, <1>13, StorageKept
<1>15. QED
  BY <1>8, <1>9, <1>10, <1>11, <1>12, <1>13, <1>14, PageStep

LEMMA CloseStep ==
  ASSUME UploadsInv, NEW p \in Pages, CloseDialog(p)
  PROVE  UploadsInv'
<1>1. UploadsTypeOK /\ PageInv(p) /\ StorageInv
  BY DEF UploadsInv
<1>2. PICK n : n = [dialogs[p] EXCEPT !.shown = NoItems]
  OBVIOUS
<1>3. /\ n \in Dialog /\ n.shown = NoItems /\ n.list = dialogs[p].list
      /\ n.batch = dialogs[p].batch /\ n.pc = dialogs[p].pc
  BY <1>1, <1>2, OfPage, EmptyItems DEF Dialog
<1>4. dialogs' = [dialogs EXCEPT ![p] = n] /\ dialogs'[p] = n
  BY <1>1, <1>2 DEF UploadsTypeOK, CloseDialog
<1>5. DialogBecomes(p, n)
  BY <1>1, <1>3, <1>4, OfPage DEF DialogBecomes
<1>6. attempts \in [Pages -> [UploadFiles -> Nat]] /\ unsettled \subseteq Pages \X UploadFiles
      /\ failures \in [all : Nat, late : Nat] /\ versions \in Seq(Version)
      /\ doomed \subseteq DOMAIN versions /\ picks \in Nat /\ objects \subseteq Contents
  BY <1>1 DEF UploadsTypeOK
<1>7. /\ unsettled' \subseteq Pages \X UploadFiles
      /\ \A q \in Pages \ {p}, f \in UploadFiles : Owed(q, f)' => Owed(q, f)
      /\ \A f \in UploadFiles : ~ Owed(p, f)'
  BY <1>6 DEF CloseDialog, Owed, Of
<1>8. /\ versions' = versions /\ deletions' = deletions /\ doomed' = doomed
      /\ objects' = objects /\ failures' = failures /\ picks' = picks
      /\ attempts' = attempts /\ ~ Uploading(p)
  BY DEF CloseDialog
<1>9. PageInv(p)'
  <2>1. ~ Uploading(p)' /\ Entries(p)' = NoItems /\ dialogs'[p].batch = dialogs[p].batch
        /\ dialogs'[p].list = dialogs[p].list
    BY <1>3, <1>4, <1>8 DEF Uploading, Entries
  <2>2. QED
    BY <1>1, <1>7, <1>8, <2>1, EmptyItems DEF PageInv
<1>10. StorageInv' /\ failures.late <= failures'.late
  BY <1>1, <1>6, <1>8, StorageKept
<1>11. QED
  BY <1>5, <1>6, <1>7, <1>8, <1>9, <1>10, PageStep

LEMMA StartStep ==
  ASSUME UploadsInv, NEW p \in Pages, NEW step \in {"pending", "failed"},
         StartBatch(p, step)
  PROVE  UploadsInv'
<1>1. UploadsTypeOK /\ PageInv(p) /\ StorageInv
  BY DEF UploadsInv
<1>2. PICK files : files = InStep(p, step)
  OBVIOUS
<1>3. PICK shown : shown = dialogs[p].shown
  OBVIOUS
<1>4. /\ shown \in ItemLists /\ DOMAIN shown \subseteq UploadFiles
      /\ files = {f \in DOMAIN shown : shown[f].step = step}
      /\ files # {} /\ ~ Uploading(p)
  BY <1>1, <1>2, <1>3, OfPage, ItemsOf DEF InStep, StartBatch
<1>5. IsFiniteSet(files)
  BY <1>4, DocumentUploadsAssumption, FS_Subset
<1>6. PICK batch : batch = SetToSeq(files)
  OBVIOUS
<1>7. batch \in Seq(files) /\ IsInjective(batch) /\ ToSet(batch) = files
  BY <1>5, <1>6, SequenceOfSet
<1>8. batch \in Seq(UploadFiles) /\ batch # <<>>
  <2>1. files \subseteq UploadFiles
    BY <1>4
  <2>2. batch \in Seq(UploadFiles)
    BY <1>7, <2>1, SeqMonotonic
  <2>3. ToSet(<<>>) = {}
    BY DEF ToSet
  <2>4. QED
    BY <1>4, <1>7, <2>2, <2>3
<1>9. PICK n : n = [shown |-> shown, list |-> shown, batch |-> batch, pc |-> "presign"]
  OBVIOUS
<1>10. n \in Dialog
  BY <1>4, <1>8, <1>9 DEF Dialog
<1>11. dialogs' = [dialogs EXCEPT ![p] = n] /\ dialogs'[p] = n
  <2>1. dialogs \in [Pages -> Dialog]
    BY <1>1 DEF UploadsTypeOK
  <2>2. dialogs' = [dialogs EXCEPT ![p].list = shown, ![p].batch = batch,
                                   ![p].pc = "presign"]
    BY <1>2, <1>3, <1>6 DEF StartBatch
  <2>3. PICK d : d = dialogs[p]
    OBVIOUS
  <2>4. d = [shown |-> shown, list |-> d.list, batch |-> d.batch, pc |-> d.pc]
    BY <1>3, <2>1, <2>3 DEF Dialog
  <2>5. PICK a : a = [d EXCEPT !.list = shown]
    OBVIOUS
  <2>6. a = [shown |-> shown, list |-> shown, batch |-> d.batch, pc |-> d.pc]
    BY <2>4, <2>5
  <2>7. PICK b : b = [a EXCEPT !.batch = batch]
    OBVIOUS
  <2>8. b = [shown |-> shown, list |-> shown, batch |-> batch, pc |-> d.pc]
    BY <2>6, <2>7
  <2>9. [b EXCEPT !.pc = "presign"] = n
    BY <1>9, <2>8
  <2>10. [d EXCEPT !.list = shown, !.batch = batch, !.pc = "presign"]
           = [[[d EXCEPT !.list = shown] EXCEPT !.batch = batch] EXCEPT !.pc = "presign"]
    OBVIOUS
  <2>11. [dialogs[p] EXCEPT !.list = shown, !.batch = batch, !.pc = "presign"] = n
    BY <2>3, <2>5, <2>7, <2>9, <2>10
  <2>12. QED
    BY <2>1, <2>2, <2>11
<1>12. DialogBecomes(p, n)
  BY <1>4, <1>7, <1>8, <1>9, <1>10, <1>11 DEF DialogBecomes
<1>13. /\ versions' = versions /\ deletions' = deletions /\ doomed' = doomed
       /\ objects' = objects /\ failures' = failures /\ picks' = picks
       /\ attempts' = attempts /\ unsettled' = unsettled
  BY DEF StartBatch
<1>14. /\ Uploading(p)' /\ Entries(p)' = shown /\ Entries(p) = shown
       /\ dialogs'[p].batch = batch /\ dialogs'[p].list = shown
  BY <1>3, <1>4, <1>9, <1>11 DEF Uploading, Entries
<1>15. \A f \in UploadFiles : Owed(p, f)' <=> Owed(p, f)
  BY <1>13 DEF Owed
\* Either everything is pending, or nothing is.
<1>16. \A f \in DOMAIN shown : shown[f].step = "pending" => f \in files
  BY <1>1, <1>4, <1>14 DEF PageInv
<1>17. PageInv(p)'
  BY <1>1, <1>4, <1>7, <1>13, <1>14, <1>15, <1>16 DEF PageInv
<1>18. attempts \in [Pages -> [UploadFiles -> Nat]] /\ unsettled \subseteq Pages \X UploadFiles
       /\ failures \in [all : Nat, late : Nat] /\ versions \in Seq(Version)
       /\ doomed \subseteq DOMAIN versions /\ picks \in Nat /\ objects \subseteq Contents
  BY <1>1 DEF UploadsTypeOK
<1>19. StorageInv' /\ failures.late <= failures'.late
  BY <1>1, <1>13, <1>18, StorageKept
<1>20. \A q \in Pages, f \in UploadFiles : Owed(q, f)' <=> Owed(q, f)
  BY <1>13 DEF Owed
<1>21. QED
  BY <1>12, <1>13, <1>17, <1>18, <1>19, <1>20, PageStep

\* A request of a batch that inserts nothing.
LEMMA RequestStep ==
  ASSUME UploadsInv, NEW p \in Pages,
         Presign(p) \/ PutObject(p) \/ CheckObject(p) \/ ItemFails(p)
  PROVE  UploadsInv'
<1>1. UploadsTypeOK /\ PageInv(p) /\ StorageInv
  BY DEF UploadsInv
<1>2. Uploading(p)
  BY DEF Uploading, Presign, PutObject, CheckObject, ItemFails
<1>3. ItemFile(p) \in UploadFiles /\ ItemContent(p) \in Contents
      /\ ItemFile(p) \in DOMAIN dialogs[p].list
      /\ dialogs[p].list[ItemFile(p)].step # "succeeded"
  BY <1>1, <1>2, HeadOfBatch DEF PageInv
<1>4. attempts \in [Pages -> [UploadFiles -> Nat]] /\ unsettled \subseteq Pages \X UploadFiles
      /\ failures \in [all : Nat, late : Nat] /\ versions \in Seq(Version)
      /\ doomed \subseteq DOMAIN versions /\ picks \in Nat /\ objects \subseteq Contents
  BY <1>1 DEF UploadsTypeOK
<1>5. /\ versions' = versions /\ deletions' = deletions /\ doomed' = doomed
      /\ picks' = picks /\ attempts' = attempts /\ unsettled' = unsettled
      /\ objects \subseteq objects' /\ objects' \subseteq Contents
  BY <1>3, <1>4 DEF Presign, PutObject, CheckObject, ItemFails
<1>6. failures' \in [all : Nat, late : Nat] /\ failures'.late = failures.late
      /\ failures.late \in Nat
  <2>1. CASE failures' = failures
    BY <1>4, <2>1
  <2>2. CASE failures' = [failures EXCEPT !.all = failures.all + 1]
    <3>1. PICK n \in Nat : n = failures.all + 1
      BY <1>4
    <3>2. failures' = [failures EXCEPT !.all = n]
      BY <2>2, <3>1
    <3>3. QED
      BY <1>4, <3>2
  <2>3. QED
    BY <2>1, <2>2 DEF Presign, PutObject, CheckObject, ItemFails
<1>7. \A q \in Pages, f \in UploadFiles : Owed(q, f)' <=> Owed(q, f)
  BY <1>5 DEF Owed
<1>8. (\E n : DialogBecomes(p, n)) /\ PageInv(p)'
  <2>1. CASE ItemEnds(p, "failed")
    <3>1. attempts[p][ItemFile(p)] <= failures.late
      BY <1>1, <1>2, <1>3 DEF PageInv, Entries
    <3>2. attempts[p][ItemFile(p)] \in Nat
      BY <1>3, <1>4
    <3>3. attempts'[p][ItemFile(p)] <= failures'.late
          /\ attempts'[p][ItemFile(p)] <= 1 + failures'.late
      BY <1>5, <1>6, <3>1, <3>2
    <3>4. /\ attempts' \in [Pages -> [UploadFiles -> Nat]] /\ failures'.late \in Nat
          /\ failures.late <= failures'.late
          /\ \A f \in UploadFiles \ {ItemFile(p)} : attempts'[p][f] = attempts[p][f]
      BY <1>4, <1>5, <1>6
    <3>5. QED
      BY <1>1, <1>2, <1>7, <2>1, <3>3, <3>4, ItemEndsWell
  <2>2. ASSUME NEW pc \in {"presign", "put", "check", "insert"}, ItemGoes(p, pc),
               failures' = failures
        PROVE  (\E n : DialogBecomes(p, n)) /\ PageInv(p)'
    BY <1>1, <1>2, <1>5, <2>2, ItemGoesOn
  <2>3. CASE Presign(p)
    <3>1. PICK pc \in {"put", "check"} : ItemGoes(p, pc)
      BY <2>3 DEF Presign
    <3>2. failures' = failures
      BY <2>3 DEF Presign
    <3>3. QED
      BY <2>2, <3>1, <3>2
  <2>4. CASE PutObject(p)
    BY <2>2, <2>4 DEF PutObject
  <2>5. CASE CheckObject(p)
    BY <2>1, <2>2, <2>5 DEF CheckObject
  <2>6. CASE ItemFails(p)
    BY <2>1, <2>6 DEF ItemFails
  <2>7. QED
    BY <2>3, <2>4, <2>5, <2>6
<1>9. StorageInv'
  BY <1>1, <1>5, StorageKept
<1>10. /\ versions' \in Seq(Version) /\ picks' \in Nat
       /\ unsettled' \subseteq Pages \X UploadFiles
       /\ attempts' \in [Pages -> [UploadFiles -> Nat]]
       /\ \A q \in Pages \ {p} : attempts'[q] = attempts[q]
       /\ failures.late <= failures'.late
  BY <1>4, <1>5, <1>6
<1>11. QED
  BY <1>4, <1>5, <1>6, <1>7, <1>8, <1>9, <1>10, PageStep

\* The version is inserted: submitted once more, by the count of late failures.
LEMMA InsertStep ==
  ASSUME UploadsInv, NEW p \in Pages, InsertVersion(p)
  PROVE  UploadsInv'
<1>1. UploadsTypeOK /\ PageInv(p) /\ StorageInv /\ Uploading(p)
  BY DEF UploadsInv, InsertVersion, Uploading
<1>2. PICK f : f = ItemFile(p)
  OBVIOUS
<1>3. PICK c : c = ItemContent(p)
  OBVIOUS
<1>4. /\ f \in UploadFiles /\ c \in Contents /\ f \in DOMAIN dialogs[p].list
      /\ dialogs[p].list[f].step # "succeeded"
  BY <1>1, <1>2, <1>3, HeadOfBatch DEF PageInv
<1>5. attempts \in [Pages -> [UploadFiles -> Nat]] /\ unsettled \subseteq Pages \X UploadFiles
      /\ failures \in [all : Nat, late : Nat] /\ versions \in Seq(Version)
      /\ doomed \subseteq DOMAIN versions /\ picks \in Nat /\ objects \subseteq Contents
  BY <1>1 DEF UploadsTypeOK
<1>6. PICK raced \in BOOLEAN : raced = Races(c)
  BY DEF Races
<1>7. PICK version : version = [file |-> f, content |-> c, live |-> TRUE, raced |-> raced,
                                parse |-> "queued"]
  OBVIOUS
<1>8. version \in Version
  BY <1>4, <1>7 DEF Version
<1>9. versions' = Append(versions, version)
  BY <1>2, <1>3, <1>6, <1>7 DEF InsertVersion, Inserted
<1>10. PICK n \in Nat : n = Len(versions) + 1
  BY <1>5
<1>11. versions' \in Seq(Version) /\ versions'[n] = version
  BY <1>5, <1>8, <1>9, <1>10
<1>12. /\ DOMAIN versions' = DOMAIN versions \cup {n}
       /\ \A v \in DOMAIN versions : versions'[v] = versions[v]
  <2>1. /\ Len(versions') = n /\ \A v \in 1 .. n - 1 : versions'[v] = versions[v]
    BY <1>5, <1>8, <1>9, <1>10
  <2>2. DOMAIN versions = 1 .. n - 1 /\ DOMAIN versions' = 1 .. n
    BY <1>5, <1>10, <1>11, <2>1, LenProperties
  <2>3. 1 .. n = (1 .. n - 1) \cup {n}
    BY <1>10
  <2>4. QED
    BY <2>1, <2>2, <2>3
<1>13. doomed \subseteq DOMAIN versions /\ doomed' = doomed /\ deletions' = deletions
       /\ objects' = objects /\ picks' = picks
  BY <1>5 DEF InsertVersion
<1>14. StorageInv'
  <2>1. SUFFICES ASSUME NEW v \in DOMAIN versions', versions'[v].live
                 PROVE  /\ versions'[v].content \in objects \/ versions'[v].raced \/ v \in doomed
                        /\ \A d \in Deletions :
                             (/\ deletions[d].pc = "objects"
                              /\ versions'[v].content \in deletions[d].keys)
                               => versions'[v].raced \/ v \in doomed
    BY <1>13 DEF StorageInv, LiveVersions, Excused
  <2>2. CASE v \in DOMAIN versions
    BY <1>1, <1>12, <2>1, <2>2 DEF StorageInv, LiveVersions, Excused
  <2>3. CASE v = n
    <3>1. versions'[v].content = c /\ versions'[v].raced = raced
      BY <1>7, <1>11, <2>3
    <3>2. QED
      BY <1>6, <3>1 DEF Races
  <2>4. QED
    BY <1>12, <2>1, <2>2, <2>3
<1>15. /\ unsettled' \subseteq Pages \X UploadFiles
       /\ \A q \in Pages, g \in UploadFiles : Owed(q, g)' => Owed(q, g)
       /\ ~ Owed(p, f)'
  BY <1>2, <1>5 DEF InsertVersion, Owed
<1>16. PICK k \in Nat : k = attempts[p][f] + 1
  BY <1>4, <1>5
<1>17. attempts' = [attempts EXCEPT ![p][f] = k]
  BY <1>2, <1>16 DEF InsertVersion
<1>18. /\ attempts' \in [Pages -> [UploadFiles -> Nat]]
       /\ \A q \in Pages \ {p} : attempts'[q] = attempts[q]
       /\ \A g \in UploadFiles \ {f} : attempts'[p][g] = attempts[p][g]
       /\ attempts'[p][f] = k
  BY <1>4, <1>5, <1>17
<1>19. attempts[p][f] <= failures.late
  BY <1>1, <1>4 DEF PageInv, Entries
<1>20. failures.late \in Nat /\ failures.all \in Nat
  BY <1>5
<1>21. /\ failures' \in [all : Nat, late : Nat] /\ failures'.late \in Nat
       /\ failures.late <= failures'.late
       /\ (\E m : DialogBecomes(p, m)) /\ PageInv(p)'
  <2>1. CASE ItemEnds(p, "succeeded") /\ failures' = failures
    <3>1. attempts'[p][f] <= 1 + failures'.late
      BY <1>16, <1>18, <1>19, <1>20, <1>4, <1>5, <2>1
    <3>2. failures'.late \in Nat /\ failures.late <= failures'.late
      BY <1>20, <2>1
    <3>3. QED
      BY <1>1, <1>2, <1>5, <1>15, <1>18, <2>1, <3>1, <3>2, ItemEndsWell
  <2>2. CASE /\ ItemEnds(p, "failed")
             /\ failures' = [all |-> failures.all + 1, late |-> failures.late + 1]
    <3>1. failures'.late = failures.late + 1 /\ failures' \in [all : Nat, late : Nat]
      BY <1>20, <2>2
    <3>2. attempts'[p][f] <= failures'.late /\ attempts'[p][f] <= 1 + failures'.late
      BY <1>16, <1>18, <1>19, <1>20, <1>4, <1>5, <3>1
    <3>3. failures'.late \in Nat /\ failures.late <= failures'.late
      BY <1>20, <3>1
    <3>4. QED
      BY <1>1, <1>2, <1>15, <1>18, <2>2, <3>1, <3>2, <3>3, ItemEndsWell
  <2>3. QED
    BY <2>1, <2>2 DEF InsertVersion
<1>22. doomed \subseteq DOMAIN versions'
  BY <1>13, <1>12
<1>23. objects' \subseteq Contents /\ picks' \in Nat
  BY <1>5, <1>13
<1>24. QED
  BY <1>13, <1>14, <1>15, <1>18, <1>21, <1>22, <1>23, <1>11, PageStep

-----------------------------------------------------------------------------
(* The worker, and deletions.                                              *)

\* A step that leaves the pages alone.
LEMMA AwayFromPages ==
  ASSUME UploadsInv, UNCHANGED <<dialogs, unsettled, attempts, picks>>,
         failures' \in [all : Nat, late : Nat], failures'.late = failures.late,
         objects' \subseteq Contents, versions' \in Seq(Version),
         deletions' \in [Deletions -> Deletion], doomed' \subseteq DOMAIN versions',
         \A d \in Deletions : deletions'[d].mine \subseteq doomed',
         StorageInv'
  PROVE  UploadsInv'
<1>1. UploadsTypeOK /\ failures.late \in Nat
  BY DEF UploadsInv, UploadsTypeOK
<1>2. UploadsTypeOK'
  BY <1>1 DEF UploadsTypeOK
<1>3. ASSUME NEW p \in Pages PROVE PageInv(p)'
  <2>1. PageInv(p)
    BY DEF UploadsInv
  <2>2. /\ dialogs'[p] = dialogs[p] /\ attempts'[p] = attempts[p]
        /\ \A f \in UploadFiles : Owed(p, f)' => Owed(p, f)
    BY DEF Owed
  <2>3. QED
    BY <1>1, <2>1, <2>2, PageFrame
<1>4. QED
  BY <1>2, <1>3 DEF UploadsInv

LEMMA WorkerStep ==
  ASSUME UploadsInv, NEW v \in DOMAIN versions, ReadObject(v) \/ VerifyObject(v)
  PROVE  UploadsInv'
<1>1. UploadsTypeOK /\ StorageInv
  BY DEF UploadsInv
<1>2. PICK parse \in {"read", "verified", "failed"} :
        versions' = [versions EXCEPT ![v].parse = parse]
  BY DEF ReadObject, VerifyObject
<1>3. versions \in Seq(Version) /\ DOMAIN versions = 1 .. Len(versions)
      /\ versions \in [1 .. Len(versions) -> Version] /\ versions[v] \in Version
  BY <1>1, LenProperties DEF UploadsTypeOK
<1>4. PICK version : version = [versions[v] EXCEPT !.parse = parse]
  OBVIOUS
<1>5. /\ version \in Version /\ version.content = versions[v].content
      /\ version.raced = versions[v].raced /\ version.live = versions[v].live
  BY <1>3, <1>4 DEF Version
<1>6. versions' = [versions EXCEPT ![v] = version]
  BY <1>2, <1>3, <1>4
<1>7. versions' \in Seq(Version) /\ DOMAIN versions' = DOMAIN versions
  BY <1>3, <1>5, <1>6, ExceptSeq
<1>8. \A w \in DOMAIN versions :
        /\ versions'[w].content = versions[w].content
        /\ versions'[w].raced = versions[w].raced /\ versions'[w].live = versions[w].live
  BY <1>3, <1>5, <1>6
<1>9. UNCHANGED <<dialogs, unsettled, attempts, picks, failures, objects, deletions, doomed>>
  BY DEF ReadObject, VerifyObject
<1>10. StorageInv'
  BY <1>1, <1>7, <1>8, <1>9 DEF StorageInv, LiveVersions, Excused
<1>11. /\ failures' \in [all : Nat, late : Nat] /\ failures'.late = failures.late
       /\ objects' \subseteq Contents /\ deletions' \in [Deletions -> Deletion]
       /\ doomed' \subseteq DOMAIN versions'
       /\ \A d \in Deletions : deletions'[d].mine \subseteq doomed'
  BY <1>1, <1>7, <1>9 DEF UploadsTypeOK
<1>12. QED
  BY <1>7, <1>9, <1>10, <1>11, AwayFromPages

\* Where no row of the listing is gone, the contents that are counted to be deleted
\* belong to no other version.
LEMMA CountIsExact ==
  ASSUME UploadsTypeOK, NEW d \in Deletions, deletions[d].mine \subseteq LiveVersions,
         NEW v \in LiveVersions, versions[v].content \in KeysToDelete(d)
  PROVE  v \in deletions[d].mine
<1>1. PICK c : c = versions[v].content
  OBVIOUS
<1>2. PICK all : all = {w \in LiveVersions : versions[w].content = c}
  OBVIOUS
<1>3. PICK mine : mine = {w \in deletions[d].mine : versions[w].content = c}
  OBVIOUS
<1>4. Cardinality(all) <= Cardinality(mine)
  BY <1>1, <1>2, <1>3 DEF KeysToDelete
<1>5. IsFiniteSet(all)
  <2>1. Len(versions) \in Nat /\ DOMAIN versions = 1 .. Len(versions)
    BY LenProperties DEF UploadsTypeOK
  <2>2. all \in SUBSET (1 .. Len(versions)) /\ IsFiniteSet(1 .. Len(versions))
    BY <1>2, <2>1, FS_Interval DEF LiveVersions
  <2>3. QED
    BY <2>2, FS_Subset
<1>6. mine \in SUBSET all
  BY <1>2, <1>3
<1>7. /\ Cardinality(mine) <= Cardinality(all)
      /\ Cardinality(all) = Cardinality(mine) => all = mine
      /\ IsFiniteSet(mine)
  BY <1>5, <1>6, FS_Subset
<1>8. Cardinality(all) \in Nat /\ Cardinality(mine) \in Nat
  BY <1>5, <1>7, FS_CardinalityType
<1>9. all = mine
  BY <1>4, <1>7, <1>8
<1>10. QED
  BY <1>1, <1>2, <1>3, <1>9

LEMMA ReferencesStep ==
  ASSUME UploadsInv, NEW d \in Deletions, ReadReferences(d)
  PROVE  UploadsInv'
<1>1. UploadsTypeOK /\ StorageInv
  BY DEF UploadsInv
<1>2. /\ versions \in Seq(Version) /\ DOMAIN versions = 1 .. Len(versions)
      /\ Len(versions) \in Nat
      /\ \A v \in DOMAIN versions : versions[v] \in Version
      /\ deletions \in [Deletions -> Deletion] /\ doomed \subseteq DOMAIN versions
      /\ \A e \in Deletions : deletions[e].mine \subseteq doomed
  BY <1>1, LenProperties DEF UploadsTypeOK
<1>3. PICK keys : keys = KeysToDelete(d)
  OBVIOUS
<1>4. keys \subseteq Contents
  BY <1>2, <1>3 DEF KeysToDelete, Version
<1>5. deletions' = [deletions EXCEPT ![d].pc = "objects", ![d].keys = keys]
  BY <1>3 DEF ReadReferences
<1>6. /\ deletions' \in [Deletions -> Deletion]
      /\ \A e \in Deletions \ {d} : deletions'[e] = deletions[e]
      /\ deletions'[d].mine = deletions[d].mine /\ deletions'[d].keys = keys
  BY <1>2, <1>4, <1>5 DEF Deletion
<1>7. versions' = [v \in 1 .. Len(versions) |->
                     [versions[v] EXCEPT !.raced = versions[v].raced \/ Miscounted(d, v)]]
  BY <1>2 DEF ReadReferences
<1>8. ASSUME NEW v \in 1 .. Len(versions)
      PROVE  /\ versions'[v] \in Version /\ versions'[v].content = versions[v].content
             /\ versions'[v].live = versions[v].live
             /\ versions'[v].raced <=> versions[v].raced \/ Miscounted(d, v)
  <2>1. PICK raced \in BOOLEAN : raced = (versions[v].raced \/ Miscounted(d, v))
    OBVIOUS
  <2>2. versions'[v] = [versions[v] EXCEPT !.raced = raced]
    BY <1>7, <2>1
  <2>3. versions[v] \in Version
    BY <1>2
  <2>4. /\ versions'[v] \in Version /\ versions'[v].content = versions[v].content
        /\ versions'[v].live = versions[v].live /\ versions'[v].raced = raced
    BY <2>2, <2>3 DEF Version
  <2>5. QED
    BY <2>1, <2>4
<1>9. versions' \in [1 .. Len(versions) -> Version]
  BY <1>7, <1>8
<1>10. versions' \in Seq(Version) /\ DOMAIN versions' = DOMAIN versions
  BY <1>2, <1>9
<1>11. UNCHANGED <<dialogs, unsettled, attempts, picks, failures, objects, doomed>>
  BY DEF ReadReferences
<1>12. StorageInv'
  <2>1. SUFFICES ASSUME NEW v \in 1 .. Len(versions), versions[v].live
                 PROVE  /\ \/ versions[v].content \in objects
                           \/ versions'[v].raced \/ v \in doomed
                        /\ \A e \in Deletions :
                             (/\ deletions'[e].pc = "objects"
                              /\ versions[v].content \in deletions'[e].keys)
                               => versions'[v].raced \/ v \in doomed
    BY <1>2, <1>8, <1>10, <1>11 DEF StorageInv, LiveVersions, Excused
  <2>2. v \in LiveVersions
    BY <1>2, <2>1 DEF LiveVersions
  <2>3. Excused(v) => versions'[v].raced \/ v \in doomed
    BY <1>8 DEF Excused
  <2>4. ASSUME versions[v].content \in keys PROVE versions'[v].raced \/ v \in doomed
    <3>1. CASE deletions[d].mine \subseteq LiveVersions
      <4>1. v \in deletions[d].mine
        BY <1>1, <1>3, <2>2, <2>4, <3>1, CountIsExact
      <4>2. QED
        BY <1>2, <4>1
    <3>2. CASE ~ (deletions[d].mine \subseteq LiveVersions)
      <4>1. v \in deletions[d].mine \/ Miscounted(d, v)
        BY <1>3, <2>4, <3>2 DEF Miscounted
      <4>2. QED
        BY <1>2, <1>8, <4>1
    <3>3. QED
      BY <3>1, <3>2
  <2>5. QED
    BY <1>1, <1>6, <2>2, <2>3, <2>4 DEF StorageInv
<1>13. /\ failures' \in [all : Nat, late : Nat] /\ failures'.late = failures.late
       /\ objects' \subseteq Contents /\ doomed' \subseteq DOMAIN versions'
       /\ \A e \in Deletions : deletions'[e].mine \subseteq doomed'
  BY <1>1, <1>2, <1>6, <1>10, <1>11 DEF UploadsTypeOK
<1>14. QED
  BY <1>6, <1>10, <1>11, <1>12, <1>13, AwayFromPages

LEMMA NoDeletionType == NoDeletion \in Deletion /\ NoDeletion.mine = {} /\ NoDeletion.pc = "idle"
<1>1. PICK f : f = CHOOSE g \in UploadFiles : TRUE
  OBVIOUS
<1>2. f \in UploadFiles
  BY <1>1, DocumentUploadsAssumption
<1>3. NoDeletion = [pc |-> "idle", file |-> f, mine |-> {}, keys |-> {}]
  BY <1>1 DEF NoDeletion
<1>4. QED
  BY <1>2, <1>3 DEF Deletion

LEMMA DeletionStep ==
  ASSUME UploadsInv, NEW d \in Deletions,
         \/ \E f \in UploadFiles : ListVersions(d, f)
         \/ DeleteObjects(d) \/ DeleteDocument(d) \/ DeletionFails(d)
  PROVE  UploadsInv'
<1>1. UploadsTypeOK /\ StorageInv
  BY DEF UploadsInv
<1>2. /\ versions \in Seq(Version) /\ DOMAIN versions = 1 .. Len(versions)
      /\ Len(versions) \in Nat
      /\ \A v \in DOMAIN versions : versions[v] \in Version
      /\ deletions \in [Deletions -> Deletion] /\ doomed \subseteq DOMAIN versions
      /\ \A e \in Deletions : deletions[e].mine \subseteq doomed
      /\ failures \in [all : Nat, late : Nat] /\ objects \subseteq Contents
  BY <1>1, LenProperties DEF UploadsTypeOK
<1>3. UNCHANGED <<dialogs, unsettled, attempts, picks>>
  BY DEF ListVersions, DeleteObjects, DeleteDocument, DeletionFails
<1>4. CASE \E f \in UploadFiles : ListVersions(d, f)
  <2>1. PICK f \in UploadFiles : ListVersions(d, f)
    BY <1>4
  <2>2. PICK mine : mine = {v \in LiveVersions : versions[v].file = f}
    OBVIOUS
  <2>3. PICK n : n = [pc |-> "refs", file |-> f, mine |-> mine, keys |-> {}]
    OBVIOUS
  <2>4. mine \subseteq DOMAIN versions /\ mine \subseteq Nat
    BY <1>2, <2>2 DEF LiveVersions
  <2>5. n \in Deletion
    BY <2>3, <2>4 DEF Deletion
  <2>6. deletions' = [deletions EXCEPT ![d] = n] /\ doomed' = doomed \cup mine
    BY <2>1, <2>2, <2>3 DEF ListVersions
  <2>7. UNCHANGED <<versions, objects, failures>>
    BY <2>1 DEF ListVersions
  <2>8. deletions' \in [Deletions -> Deletion] /\ deletions'[d] = n
        /\ \A e \in Deletions \ {d} : deletions'[e] = deletions[e]
    BY <1>2, <2>5, <2>6
  <2>9. StorageInv'
    BY <1>1, <2>3, <2>6, <2>7, <2>8 DEF StorageInv, LiveVersions, Excused
  <2>10. \A e \in Deletions : deletions'[e].mine \subseteq doomed'
    BY <1>2, <2>3, <2>6, <2>8
  <2>11. /\ doomed' \subseteq DOMAIN versions' /\ versions' \in Seq(Version)
         /\ objects' \subseteq Contents /\ failures'.late = failures.late
         /\ failures' \in [all : Nat, late : Nat]
    BY <1>2, <2>4, <2>6, <2>7
  <2>12. QED
    BY <1>3, <2>8, <2>9, <2>10, <2>11, AwayFromPages
<1>5. CASE DeleteObjects(d)
  <2>1. /\ UNCHANGED <<versions, doomed, failures>> /\ deletions[d].pc = "objects"
        /\ objects' = objects \ deletions[d].keys
        /\ deletions' = [deletions EXCEPT ![d].pc = "rows"]
    BY <1>5 DEF DeleteObjects
  <2>2. /\ deletions' \in [Deletions -> Deletion] /\ deletions'[d].pc = "rows"
        /\ \A e \in Deletions \ {d} : deletions'[e] = deletions[e]
        /\ deletions'[d].mine = deletions[d].mine
    BY <1>2, <2>1 DEF Deletion
  <2>3. StorageInv'
    <3>1. SUFFICES ASSUME NEW v \in LiveVersions
                   PROVE  /\ versions[v].content \in objects' \/ Excused(v)
                          /\ \A e \in Deletions :
                               (/\ deletions'[e].pc = "objects"
                                /\ versions[v].content \in deletions'[e].keys)
                                 => Excused(v)
      BY <2>1 DEF StorageInv, LiveVersions, Excused
    <3>2. QED
      BY <1>1, <2>1, <2>2, <3>1 DEF StorageInv
  <2>4. /\ \A e \in Deletions : deletions'[e].mine \subseteq doomed'
        /\ doomed' \subseteq DOMAIN versions' /\ versions' \in Seq(Version)
        /\ objects' \subseteq Contents /\ failures'.late = failures.late
        /\ failures' \in [all : Nat, late : Nat]
    BY <1>2, <2>1, <2>2
  <2>5. QED
    BY <1>3, <2>2, <2>3, <2>4, AwayFromPages
<1>6. CASE DeleteDocument(d)
  <2>1. /\ UNCHANGED <<objects, doomed, failures>>
        /\ deletions' = [deletions EXCEPT ![d] = NoDeletion]
        /\ versions' = [v \in 1 .. Len(versions) |->
             [versions[v] EXCEPT
                !.live = versions[v].live /\ versions[v].file # deletions[d].file]]
    BY <1>2, <1>6 DEF DeleteDocument
  <2>2. /\ deletions' \in [Deletions -> Deletion] /\ deletions'[d] = NoDeletion
        /\ \A e \in Deletions \ {d} : deletions'[e] = deletions[e]
    BY <1>2, <2>1, NoDeletionType
  <2>3. ASSUME NEW v \in 1 .. Len(versions)
        PROVE  /\ versions'[v] \in Version /\ versions'[v].content = versions[v].content
               /\ versions'[v].raced = versions[v].raced
               /\ versions'[v].live => versions[v].live
    <3>1. PICK live \in BOOLEAN :
            live = (versions[v].live /\ versions[v].file # deletions[d].file)
      OBVIOUS
    <3>2. versions'[v] = [versions[v] EXCEPT !.live = live]
      BY <2>1, <3>1
    <3>3. versions[v] \in Version
      BY <1>2
    <3>4. /\ versions'[v] \in Version /\ versions'[v].content = versions[v].content
          /\ versions'[v].live = live /\ versions'[v].raced = versions[v].raced
      BY <3>2, <3>3 DEF Version
    <3>5. QED
      BY <3>1, <3>4
  <2>4. versions' \in [1 .. Len(versions) -> Version]
    BY <2>1, <2>3
  <2>5. versions' \in Seq(Version) /\ DOMAIN versions' = DOMAIN versions
    BY <1>2, <2>4
  <2>6. StorageInv'
    <3>1. SUFFICES ASSUME NEW v \in 1 .. Len(versions), versions'[v].live
                   PROVE  /\ versions'[v].content \in objects \/ versions'[v].raced
                             \/ v \in doomed
                          /\ \A e \in Deletions :
                               (/\ deletions'[e].pc = "objects"
                                /\ versions'[v].content \in deletions'[e].keys)
                                 => versions'[v].raced \/ v \in doomed
      BY <1>2, <2>1, <2>5 DEF StorageInv, LiveVersions, Excused
    <3>2. v \in LiveVersions
      BY <1>2, <2>3, <3>1 DEF LiveVersions
    <3>3. QED
      BY <1>1, <2>2, <2>3, <3>2, NoDeletionType DEF StorageInv, Excused
  <2>7. /\ \A e \in Deletions : deletions'[e].mine \subseteq doomed'
        /\ doomed' \subseteq DOMAIN versions' /\ versions' \in Seq(Version)
        /\ objects' \subseteq Contents /\ failures'.late = failures.late
        /\ failures' \in [all : Nat, late : Nat]
    BY <1>2, <2>1, <2>2, <2>5, NoDeletionType
  <2>8. QED
    BY <1>3, <2>2, <2>6, <2>7, AwayFromPages
<1>7. CASE DeletionFails(d)
  <2>1. /\ UNCHANGED <<versions, objects, doomed>>
        /\ deletions' = [deletions EXCEPT ![d] = NoDeletion]
        /\ failures' = [failures EXCEPT !.all = failures.all + 1]
    BY <1>7 DEF DeletionFails
  <2>2. /\ deletions' \in [Deletions -> Deletion] /\ deletions'[d] = NoDeletion
        /\ \A e \in Deletions \ {d} : deletions'[e] = deletions[e]
    BY <1>2, <2>1, NoDeletionType
  <2>3. PICK n \in Nat : n = failures.all + 1
    BY <1>2
  <2>4. failures' = [failures EXCEPT !.all = n]
    BY <2>1, <2>3
  <2>5. failures' \in [all : Nat, late : Nat] /\ failures'.late = failures.late
    BY <1>2, <2>4
  <2>6. StorageInv'
    BY <1>1, <2>1, <2>2, NoDeletionType DEF StorageInv, LiveVersions, Excused
  <2>7. /\ \A e \in Deletions : deletions'[e].mine \subseteq doomed'
        /\ doomed' \subseteq DOMAIN versions' /\ versions' \in Seq(Version)
        /\ objects' \subseteq Contents
    BY <1>2, <2>1, <2>2, NoDeletionType
  <2>8. QED
    BY <1>3, <2>2, <2>5, <2>6, <2>7, AwayFromPages
<1>8. QED
  BY <1>4, <1>5, <1>6, <1>7

-----------------------------------------------------------------------------
LEMMA UploadsInitially == UploadsInit => UploadsInv
<1> SUFFICES ASSUME UploadsInit PROVE UploadsInv
  OBVIOUS
<1>1. ToSet(<<>>) = {} /\ IsInjective(<<>>)
  BY DEF ToSet, IsInjective
<1>2. \A p \in Pages : dialogs[p] = [shown |-> NoItems, list |-> NoItems,
                                   batch |-> <<>>, pc |-> "idle"]
  BY DEF UploadsInit
<1>3. dialogs \in [Pages -> Dialog]
  BY EmptyItems DEF UploadsInit, Dialog
<1>4. versions = <<>> /\ versions \in Seq(Version) /\ DOMAIN versions = {}
  BY DEF UploadsInit
<1>5. deletions \in [Deletions -> Deletion] /\ \A d \in Deletions : deletions[d] = NoDeletion
  BY NoDeletionType DEF UploadsInit
<1>6. attempts \in [Pages -> [UploadFiles -> Nat]]
      /\ \A p \in Pages, f \in UploadFiles : attempts[p][f] = 0
  BY DEF UploadsInit
<1>7. failures \in [all : Nat, late : Nat] /\ failures.late = 0 /\ picks \in Nat
      /\ objects = {} /\ doomed = {} /\ unsettled = {}
  BY DEF UploadsInit
<1>8. UploadsTypeOK
  BY <1>1, <1>2, <1>3, <1>4, <1>5, <1>6, <1>7, NoDeletionType DEF UploadsTypeOK
<1>9. StorageInv
  BY <1>4 DEF StorageInv, LiveVersions
<1>10. ASSUME NEW p \in Pages PROVE PageInv(p)
  BY <1>1, <1>2, <1>6, <1>7, EmptyItems DEF PageInv, Uploading, Entries, Owed
<1>11. QED
  BY <1>8, <1>9, <1>10 DEF UploadsInv

LEMMA UploadsInvariant == UploadsSpec => []UploadsInv
<1>1. ASSUME UploadsInv, [UploadsNext]_uploadVars PROVE UploadsInv'
  <2>1. CASE UNCHANGED uploadVars
    <3>1. UNCHANGED <<dialogs, unsettled, attempts, picks>>
      BY <2>1 DEF uploadVars
    <3>2. /\ failures' \in [all : Nat, late : Nat] /\ failures'.late = failures.late
          /\ objects' \subseteq Contents /\ versions' \in Seq(Version)
          /\ deletions' \in [Deletions -> Deletion] /\ doomed' \subseteq DOMAIN versions'
          /\ \A d \in Deletions : deletions'[d].mine \subseteq doomed'
      BY <1>1, <2>1 DEF uploadVars, UploadsInv, UploadsTypeOK
    <3>3. StorageInv'
      BY <1>1, <2>1 DEF uploadVars, UploadsInv, StorageInv, LiveVersions, Excused
    <3>4. QED
      BY <1>1, <3>1, <3>2, <3>3, AwayFromPages
  <2>2. CASE UploadsNext
    <3>1. CASE \E p \in Pages :
                 \/ \E fs \in SUBSET UploadFiles : PickFiles(p, fs)
                 \/ CloseDialog(p) \/ StartBatch(p, "pending") \/ StartBatch(p, "failed")
                 \/ Presign(p) \/ PutObject(p) \/ CheckObject(p) \/ InsertVersion(p)
                 \/ ItemFails(p)
      BY <1>1, <3>1, PickStep, CloseStep, StartStep, RequestStep, InsertStep
    <3>2. CASE \E v \in DOMAIN versions : ReadObject(v) \/ VerifyObject(v)
      BY <1>1, <3>2, WorkerStep
    <3>3. CASE \E d \in Deletions :
                 \/ \E f \in UploadFiles : ListVersions(d, f)
                 \/ ReadReferences(d) \/ DeleteObjects(d) \/ DeleteDocument(d)
                 \/ DeletionFails(d)
      BY <1>1, <3>3, ReferencesStep, DeletionStep
    <3>4. QED
      BY <2>2, <3>1, <3>2, <3>3 DEF UploadsNext
  <2>3. QED
    BY <1>1, <2>1, <2>2
<1>2. QED
  BY <1>1, UploadsInitially, PTL DEF UploadsSpec

\* Dialogs, versions and deletions keep their types, and a batch works on files of
\* its list, for any number of pages, files, versions and deletions.
THEOREM UploadTypes == UploadsSpec => []UploadsTypeOK
<1>1. UploadsInv => UploadsTypeOK
  BY DEF UploadsInv
<1>2. QED
  BY <1>1, UploadsInvariant, PTL

\* ContentKept: a deletion that counted the references to its objects takes none
\* away from another document, outside the windows the property names.
THEOREM ContentCorrect == UploadsSpec => []ContentKept
<1>1. UploadsInv => ContentKept
  BY DEF UploadsInv, StorageInv, Excused, ContentKept
<1>2. QED
  BY <1>1, UploadsInvariant, PTL

\* UploadsAccounted: no file that was picked is lost before it was submitted, and
\* none is submitted twice without a failure that came too late.
THEOREM UploadsCorrect == UploadsSpec => []UploadsAccounted
<1>1. ASSUME UploadsInv PROVE UploadsAccounted
  <2>1. UploadsTypeOK /\ \A p \in Pages : PageInv(p)
    BY <1>1 DEF UploadsInv
  <2>2. ASSUME NEW p \in Pages, NEW f \in UploadFiles, Owed(p, f)
        PROVE  /\ f \in DOMAIN Entries(p)
               /\ \/ Entries(p)[f].step \in {"pending", "failed"}
                  \/ Uploading(p) /\ Entries(p)[f].step = "busy"
    <3>1. /\ f \in DOMAIN Entries(p) /\ Entries(p)[f].step # "succeeded"
          /\ Entries(p)[f].step = "busy" => Uploading(p)
      BY <2>1, <2>2 DEF PageInv
    <3>2. Entries(p) \in ItemLists
      BY <2>1, OfPage DEF Entries
    <3>3. Entries(p)[f].step \in UploadStep
      BY <3>1, <3>2, ItemsOf DEF Item
    <3>4. QED
      BY <3>1, <3>3 DEF UploadStep
  <2>3. \A u \in unsettled : \E p \in Pages, f \in UploadFiles : u = <<p, f>>
    BY <2>1 DEF UploadsTypeOK
  <2>4. ASSUME NEW p \in Pages, NEW f \in UploadFiles
        PROVE  attempts[p][f] <= 1 + failures.late
    BY <2>1 DEF PageInv
  <2>5. QED
    BY <2>2, <2>3, <2>4 DEF UploadsAccounted, Entries, Owed
<1>2. QED
  BY <1>1, UploadsInvariant, PTL
=============================================================================
