--------------------------- MODULE DocumentUploads ---------------------------
(***************************************************************************)
(* Uploads of documents from the pages of a library, against deletions.    *)
(* Contents are stored once, under their digest.  A page asks whether the  *)
(* content is there, puts it if not, and posts the document; the worker    *)
(* reads the object back and marks the version as verified.  A deletion    *)
(* reads who else refers to its objects, removes those nobody does, and    *)
(* then its rows.  All of this interleaves.                                *)
(***************************************************************************)
EXTENDS Naturals, FiniteSets, Sequences, SequencesExt

CONSTANTS
  Pages,         \* pages with the upload dialog
  UploadFiles,   \* files by path: a path is one document
  Contents,      \* contents of files
  Deletions,     \* requests that delete a document
  MaxPicks,      \* bound: times that files are picked
  MaxVersions,   \* bound: versions ever inserted
  MaxFailures    \* bound: requests of pages, or handlers, that fail

ASSUME DocumentUploadsAssumption ==
  IsFiniteSet(UploadFiles) /\ UploadFiles # {} /\ Contents # {}

VARIABLES
  dialogs,     \* each page: its dialog and the batch that runs
  objects,     \* contents in storage
  versions,    \* document_versions, by number
  deletions,   \* the deletions
  doomed,      \* history: versions some deletion has begun to remove
  unsettled,   \* history: <<page, file>> picked and not submitted yet
  attempts,    \* history: versions inserted for a file a page has picked
  picks,       \* times that files were picked so far
  failures     \* failures so far, and those after a version was inserted

uploadVars == <<dialogs, objects, versions, deletions, doomed, unsettled,
                attempts, picks, failures>>

\* The steps of a DocumentUploadItem; "busy" from its first request on.
UploadStep == {"pending", "busy", "succeeded", "failed"}
Item == [step : UploadStep, content : Contents]
ItemLists == UNION {[fs -> Item] : fs \in SUBSET UploadFiles}
Dialog ==
  [shown : ItemLists, list : ItemLists, batch : Seq(UploadFiles),
   pc : {"idle", "presign", "put", "check", "insert"}]
Version ==
  [file : UploadFiles, content : Contents, live : BOOLEAN, raced : BOOLEAN,
   parse : {"queued", "read", "verified", "failed"}]
Deletion ==
  [pc : {"idle", "refs", "objects", "rows"}, file : UploadFiles, mine : SUBSET Nat,
   keys : SUBSET Contents]

\* Every variable has its type, a batch only works on files of its list, and a
\* deletion on versions that were inserted.
UploadsTypeOK ==
  /\ objects \subseteq Contents
  /\ dialogs \in [Pages -> Dialog]
  /\ \A p \in Pages :
       /\ ToSet(dialogs[p].batch) \subseteq DOMAIN dialogs[p].list
       /\ dialogs[p].pc = "idle" <=> dialogs[p].batch = <<>>
  /\ versions \in Seq(Version)
  /\ deletions \in [Deletions -> Deletion]
  /\ doomed \subseteq DOMAIN versions
  /\ \A d \in Deletions : deletions[d].mine \subseteq doomed
  /\ unsettled \subseteq Pages \X UploadFiles
  /\ attempts \in [Pages -> [UploadFiles -> Nat]]
  /\ picks \in Nat /\ failures \in [all : Nat, late : Nat]

NoItems == <<>>
NoDeletion ==
  [pc |-> "idle", file |-> CHOOSE f \in UploadFiles : TRUE, mine |-> {}, keys |-> {}]
UploadsInit ==
  /\ dialogs = [p \in Pages |-> [shown |-> NoItems, list |-> NoItems,
                                 batch |-> <<>>, pc |-> "idle"]]
  /\ objects = {} /\ versions = <<>>
  /\ deletions = [d \in Deletions |-> NoDeletion]
  /\ doomed = {} /\ unsettled = {}
  /\ attempts = [p \in Pages |-> [f \in UploadFiles |-> 0]]
  /\ picks = 0 /\ failures = [all |-> 0, late |-> 0]

-----------------------------------------------------------------------------
(* The page.                                                               *)

LiveVersions == {v \in DOMAIN versions : versions[v].live}

Uploading(p) == dialogs[p].pc # "idle"
InStep(p, step) ==
  {f \in DOMAIN dialogs[p].shown : dialogs[p].shown[f].step = step}
Of(p) == {u \in unsettled : u[1] = p}

\* onDrop replaces the list, and nothing keeps it from doing so while a batch
\* runs: the next patch of the batch then shows its own list again.
PickFiles(p, fs) ==
  /\ fs # {} /\ picks < MaxPicks
  /\ picks' = picks + 1
  /\ \E c \in [fs -> Contents] :
       dialogs' = [dialogs EXCEPT ![p].shown =
                     [f \in fs |-> [step |-> "pending", content |-> c[f]]]]
  /\ unsettled' = IF Uploading(p) THEN unsettled
                  ELSE (unsettled \ Of(p)) \cup ({p} \X fs)
  /\ attempts' = IF Uploading(p) THEN attempts
                 ELSE [attempts EXCEPT ![p] =
                         [f \in UploadFiles |-> IF f \in fs THEN 0 ELSE @[f]]]
  /\ UNCHANGED <<objects, versions, deletions, doomed, failures>>

\* closeUploadModal: not while a batch runs.
CloseDialog(p) ==
  /\ ~Uploading(p) /\ dialogs[p].shown # NoItems
  /\ dialogs' = [dialogs EXCEPT ![p].shown = NoItems]
  /\ unsettled' = unsettled \ Of(p)
  /\ UNCHANGED <<objects, versions, deletions, doomed, attempts,
                 failures, picks>>

\* handleUpload with the pending files, handleRetryFailedUploads with those that
\* failed: the batch works on the list of that moment.
StartBatch(p, step) ==
  /\ ~Uploading(p) /\ InStep(p, step) # {}
  /\ dialogs' = [dialogs EXCEPT ![p].list = dialogs[p].shown,
                                ![p].batch = SetToSeq(InStep(p, step)),
                                ![p].pc = "presign"]
  /\ UNCHANGED <<objects, versions, deletions, doomed, unsettled, attempts,
                 failures, picks>>

ItemFile(p) == Head(dialogs[p].batch)
ItemContent(p) == dialogs[p].list[ItemFile(p)].content

\* applyUploadItemPatch shows the batch's list, with the item patched.
Patched(p, step) == [dialogs[p].list EXCEPT ![ItemFile(p)].step = step]
ItemGoes(p, pc) ==
  dialogs' = [dialogs EXCEPT ![p].pc = pc, ![p].list = Patched(p, "busy"),
                             ![p].shown = Patched(p, "busy")]

\* Mutant: the dialog closes as soon as something was submitted.
LeftOpenIfNone(items) == \A f \in DOMAIN items : items[f].step = "failed"

\* At the end of the batch the dialog stays open for what failed.
LeftOpen(items) == \E f \in DOMAIN items : items[f].step = "failed"

\* The item is done with, and the next one begins, if there is one.
ItemEnds(p, step) ==
  LET items == Patched(p, step)
      rest == Tail(dialogs[p].batch)
  IN dialogs' = [dialogs EXCEPT ![p] =
       [shown |-> IF rest # <<>> \/ LeftOpen(items) THEN items ELSE NoItems,
        list |-> IF rest = <<>> THEN NoItems ELSE items,
        batch |-> rest,
        pc |-> IF rest = <<>> THEN "idle" ELSE "presign"]]

\* The digest is computed, and the presign route asked: if a version with this
\* content was verified, there is nothing to put.
Presign(p) ==
  /\ dialogs[p].pc = "presign"
  /\ ItemGoes(p, IF \E v \in LiveVersions :
                       /\ versions[v].content = ItemContent(p)
                       /\ versions[v].parse = "verified"
                 THEN "check" ELSE "put")
  /\ UNCHANGED <<objects, versions, deletions, doomed, unsettled, attempts,
                 failures, picks>>

\* uploadFileWithProgress.
PutObject(p) ==
  /\ dialogs[p].pc = "put"
  /\ objects' = objects \cup {ItemContent(p)}
  /\ ItemGoes(p, "check")
  /\ UNCHANGED <<versions, deletions, doomed, unsettled, attempts,
                 failures, picks>>

\* POST documents: without the object it is refused.
CheckObject(p) ==
  /\ dialogs[p].pc = "check"
  /\ IF ItemContent(p) \in objects THEN ItemGoes(p, "insert")
     ELSE ItemEnds(p, "failed")
  /\ UNCHANGED <<objects, versions, deletions, doomed, unsettled, attempts,
                 failures, picks>>

\* A deletion that did not count this reference removed the object, or will.
Races(c) ==
  \/ c \notin objects
  \/ \E d \in Deletions : deletions[d].pc = "objects" /\ c \in deletions[d].keys

Inserted(p) ==
  Append(versions, [file |-> ItemFile(p), content |-> ItemContent(p),
                    live |-> TRUE, raced |-> Races(ItemContent(p)),
                    parse |-> "queued"])

\* The document at the path, new or not, gets a version, and the worker a job.
InsertVersion(p) ==
  /\ dialogs[p].pc = "insert" /\ Len(versions) < MaxVersions
  /\ versions' = Inserted(p)
  /\ unsettled' = unsettled \ {<<p, ItemFile(p)>>}
  /\ attempts' = [attempts EXCEPT ![p][ItemFile(p)] = @ + 1]
  /\ \/ ItemEnds(p, "succeeded") /\ UNCHANGED failures
     \* the enqueue throws, or the reply is lost
     \/ /\ failures.all < MaxFailures
        /\ failures' = [all |-> failures.all + 1, late |-> failures.late + 1]
        /\ ItemEnds(p, "failed")
  /\ UNCHANGED <<objects, deletions, doomed, picks>>

\* Any step before fails; an object may have been put.
ItemFails(p) ==
  /\ Uploading(p) /\ failures.all < MaxFailures
  /\ failures' = [failures EXCEPT !.all = @ + 1]
  /\ \/ UNCHANGED objects
     \/ dialogs[p].pc = "put" /\ objects' = objects \cup {ItemContent(p)}
  /\ ItemEnds(p, "failed")
  /\ UNCHANGED <<versions, deletions, doomed, unsettled, attempts, picks>>

-----------------------------------------------------------------------------
(* The worker, and deletions.                                              *)

\* The parse job reads the object, and fails if it is not there.
ReadObject(v) ==
  /\ v \in LiveVersions /\ versions[v].parse = "queued"
  /\ versions' = [versions EXCEPT ![v].parse =
       IF versions[v].content \in objects THEN "read" ELSE "failed"]
  /\ UNCHANGED <<dialogs, objects, deletions, doomed, unsettled, attempts,
                 failures, picks>>

\* It sets the size, which is what the presign route takes for verified.
VerifyObject(v) ==
  /\ v \in LiveVersions /\ versions[v].parse = "read"
  /\ versions' = [versions EXCEPT ![v].parse = "verified"]
  /\ UNCHANGED <<dialogs, objects, deletions, doomed, unsettled, attempts,
                 failures, picks>>

\* DELETE of a document: its versions are listed, their points removed.
ListVersions(d, f) ==
  LET mine == {v \in LiveVersions : versions[v].file = f}
  IN /\ deletions[d].pc = "idle" /\ mine # {}
     /\ deletions' = [deletions EXCEPT ![d] =
          [pc |-> "refs", file |-> f, mine |-> mine, keys |-> {}]]
     /\ doomed' = doomed \cup mine
     /\ UNCHANGED <<dialogs, objects, versions, unsettled, attempts,
                 failures, picks>>

\* Mutant: nobody else is asked.
KeysUnchecked(d) == {versions[v].content : v \in deletions[d].mine}

\* resolveStorageKeysToDelete: contents that are referred to as often as the
\* document does, and no more.
KeysToDelete(d) ==
  LET mine == deletions[d].mine
      holding(c, vs) == Cardinality({v \in vs : versions[v].content = c})
  IN {c \in {versions[v].content : v \in mine} :
          holding(c, LiveVersions) <= holding(c, mine)}

\* History: another deletion of the document removed rows that were listed, and
\* the count takes this version for one of them.
Miscounted(d, v) ==
  /\ ~(deletions[d].mine \subseteq LiveVersions)
  /\ v \notin deletions[d].mine /\ versions[v].content \in KeysToDelete(d)

ReadReferences(d) ==
  /\ deletions[d].pc = "refs"
  /\ deletions' = [deletions EXCEPT ![d].pc = "objects",
                                    ![d].keys = KeysToDelete(d)]
  /\ versions' = [v \in DOMAIN versions |->
                    [versions[v] EXCEPT !.raced = @ \/ Miscounted(d, v)]]
  /\ UNCHANGED <<dialogs, objects, doomed, unsettled, attempts, failures, picks>>

DeleteObjects(d) ==
  /\ deletions[d].pc = "objects"
  /\ objects' = objects \ deletions[d].keys
  /\ deletions' = [deletions EXCEPT ![d].pc = "rows"]
  /\ UNCHANGED <<dialogs, versions, doomed, unsettled, attempts,
                 failures, picks>>

\* The document's row, and with it the versions it has by now.
DeleteDocument(d) ==
  /\ deletions[d].pc = "rows"
  /\ versions' = [v \in DOMAIN versions |->
                    [versions[v] EXCEPT
                       !.live = @ /\ versions[v].file # deletions[d].file]]
  /\ deletions' = [deletions EXCEPT ![d] = NoDeletion]
  /\ UNCHANGED <<dialogs, objects, doomed, unsettled, attempts,
                 failures, picks>>

\* A call of a deletion throws, or its process dies.
DeletionFails(d) ==
  /\ deletions[d].pc # "idle" /\ failures.all < MaxFailures
  /\ failures' = [failures EXCEPT !.all = @ + 1]
  /\ deletions' = [deletions EXCEPT ![d] = NoDeletion]
  /\ UNCHANGED <<dialogs, objects, versions, doomed, unsettled, attempts,
                 picks>>

UploadsNext ==
  \/ \E p \in Pages :
       \/ \E fs \in SUBSET UploadFiles : PickFiles(p, fs)
       \/ CloseDialog(p) \/ StartBatch(p, "pending") \/ StartBatch(p, "failed")
       \/ Presign(p) \/ PutObject(p) \/ CheckObject(p) \/ InsertVersion(p)
       \/ ItemFails(p)
  \/ \E v \in DOMAIN versions : ReadObject(v) \/ VerifyObject(v)
  \/ \E d \in Deletions :
       \/ \E f \in UploadFiles : ListVersions(d, f)
       \/ ReadReferences(d) \/ DeleteObjects(d) \/ DeleteDocument(d)
       \/ DeletionFails(d)

UploadsSpec == UploadsInit /\ [][UploadsNext]_uploadVars

-----------------------------------------------------------------------------
(* Properties.                                                             *)

\* The object of every version is in storage, whoever else deletes documents
\* with the same content.  Left out are a version of a document whose deletion
\* began and broke off, and two windows of the code: a version inserted while a
\* deletion that had counted the references before was about to remove the object,
\* or had; and one that the later of two deletions of another document counted
\* in place of a row which the earlier one had removed since it was listed.
ContentKept ==
  \A v \in LiveVersions :
    versions[v].content \in objects \/ versions[v].raced \/ v \in doomed

\* A batch accounts for every file, whatever fails: a file that was picked stays
\* in the dialog, ready to be submitted, until it is; and none is submitted
\* twice but after a failure that came when its version was inserted.  Left out
\* are files picked while a batch runs, which its next patch removes.
UploadsAccounted ==
  /\ \A u \in unsettled :
       LET dialog == dialogs[u[1]]
           items == IF Uploading(u[1]) THEN dialog.list ELSE dialog.shown
       IN /\ u[2] \in DOMAIN items
          /\ items[u[2]].step \in {"pending", "failed"}
             \/ (Uploading(u[1]) /\ items[u[2]].step = "busy")
  /\ \A p \in Pages, f \in UploadFiles : attempts[p][f] <= 1 + failures.late
=============================================================================
