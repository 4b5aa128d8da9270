--------------------------- MODULE KnowledgeBase ---------------------------
(***************************************************************************)
(* The tree of directories and documents of one library: the private one   *)
(* of a workspace, or a managed one.                                       *)
(*                                                                         *)
(* A path is stored everywhere: in the rows of directories, which are only *)
(* marked when they are deleted and come back when their path is needed    *)
(* again, in the rows of documents, in the labels of their citations, and  *)
(* in the search index.  A request writes these one statement after the    *)
(* other, and what it had left to do is lost if the process dies.  The     *)
(* contents of documents are blobs, shared by every version with the same  *)
(* hash.  The model takes one request at a time; an upload is indexed      *)
(* before the next request (IngestPipeline is about how).                  *)
(***************************************************************************)
EXTENDS Naturals, FiniteSets, Sequences, SequencesExt

CONSTANTS
  Names,      \* names of directories
  FileNames,  \* names of files
  Blobs,      \* contents of files
  MaxDepth,   \* bound: depth of a path below the root
  MaxRows,    \* bound: directory rows
  MaxDocs,    \* bound: documents
  MaxRequests \* bound: requests

ASSUME KnowledgeBaseAssumption ==
  /\ FileNames \subseteq Names
  /\ {MaxDepth, MaxRows, MaxDocs, MaxRequests} \subseteq Nat \ {0}

VARIABLES
  kbScope,       \* "private" or "library"
  dirs,          \* rows of workspace_directories; an id is a position
  docs,          \* documents by id
  blobs,         \* the objects in storage
  kbTodo,        \* what the request under way has left to do
  interrupted,   \* what a crash cut off
  requests       \* requests so far

kbVars == <<kbScope, dirs, docs, blobs, kbTodo, interrupted, requests>>

-----------------------------------------------------------------------------
(* Paths: the names below the root, "资料库".                              *)

Root == <<>>
Paths == UNION {[1 .. n -> Names] : n \in 0 .. MaxDepth}

\* isSameOrDescendantPath and replacePathPrefix.
Under(path, ancestor) == IsPrefix(ancestor, path)
Rebase(path, from, to) == to \o SubSeq(path, Len(from) + 1, Len(path))

\* Every variable has its type, and a step left to do is about a document that
\* exists.
KbTypeOK ==
  /\ kbScope \in {"private", "library"}
  /\ dirs \in Seq([path : Seq(Names), parent : 0 .. Len(dirs), live : BOOLEAN])
  /\ \A x \in DOMAIN docs :
       docs[x] \in [dir : Seq(Names), name : FileNames, path : Seq(Names),
                    blobs : SUBSET Blobs, labels : SUBSET Seq(Names),
                    index : SUBSET Seq(Names)]
  /\ blobs \subseteq Blobs
  /\ \A k \in DOMAIN kbTodo :
       kbTodo[k].do \in {"update", "labels", "index", "assets"}
         => kbTodo[k].doc \in DOMAIN docs
  /\ interrupted \in {"nothing", "delete", "other"}
  /\ requests \in 0 .. MaxRequests

KbInit ==
  /\ kbScope \in {"private", "library"}
  /\ dirs = <<[path |-> Root, parent |-> 0, live |-> TRUE]>>
  /\ docs = <<>>
  /\ blobs = {}
  /\ kbTodo = <<>>
  /\ interrupted = "nothing"
  /\ requests = 0

LiveDirs == {i \in DOMAIN dirs : dirs[i].live}
RowsAt(path) == {i \in DOMAIN dirs : dirs[i].path = path}
RowAt(path) == CHOOSE i \in RowsAt(path) : TRUE
DocsAt(path) == {x \in DOMAIN docs : docs[x].path = path}

AtRest == kbTodo = <<>>
Begins == AtRest /\ requests < MaxRequests /\ requests' = requests + 1
\* The steps of a sequence of pairs of steps, one after the other.
Concat(pairs) == [k \in 1 .. 2 * Len(pairs) |-> pairs[(k + 1) \div 2][2 - (k % 2)]]

-----------------------------------------------------------------------------
(* What requests are made of.                                              *)

Current(do) == kbTodo # <<>> /\ Head(kbTodo).do = do
Advance == kbTodo' = Tail(kbTodo) /\ UNCHANGED <<kbScope, requests>>

\* ensureKnowledgeLibraryDirectoryPath: an upsert for every ancestor and the
\* path itself, which revives a row that was deleted.
Ensure(path) == [k \in 1 .. Len(path) + 1 |->
                   [do |-> "mkdir", path |-> SubSeq(path, 1, k - 1)]]

\* Mutant: a row that is there is left as it is, deleted or not.
UpsertedIfNew(path) ==
  IF RowsAt(path) # {} THEN dirs
  ELSE Append(dirs, [path |-> path, live |-> TRUE,
                     parent |-> IF path = Root THEN 0 ELSE RowAt(Front(path))])

Upserted(path) ==
  LET row == [path |-> path, live |-> TRUE,
              parent |-> IF path = Root THEN 0 ELSE RowAt(Front(path))]
  IN IF RowsAt(path) = {} THEN Append(dirs, row)
     ELSE [dirs EXCEPT ![RowAt(path)] = row]

MakeDirectory ==
  /\ Current("mkdir")
  /\ dirs' = Upserted(Head(kbTodo).path)
  /\ Advance
  /\ UNCHANGED <<docs, blobs, interrupted>>

\* The document at the path gets a version, or it is new.
PutDocument ==
  /\ Current("put")
  /\ LET s == Head(kbTodo)
         path == Append(s.dir, s.name)
         new == CHOOSE n \in 1 .. Cardinality(DOMAIN docs) + 1 :
                  n \notin DOMAIN docs
         x == IF DocsAt(path) = {} THEN new ELSE CHOOSE y \in DocsAt(path) : TRUE
         old == IF x = new THEN [blobs |-> {}, labels |-> {}, index |-> {}]
                ELSE docs[x]
     IN docs' = [y \in DOMAIN docs \cup {x} |->
                   IF y # x THEN docs[y]
                   ELSE [dir |-> s.dir, name |-> s.name, path |-> path,
                         blobs |-> old.blobs \cup {s.blob},
                         labels |-> old.labels \cup {path},
                         index |-> old.index \cup {path}]]
  /\ Advance
  /\ UNCHANGED <<dirs, blobs, interrupted>>

\* The update of PATCH.
UpdateDocument ==
  /\ Current("update")
  /\ LET s == Head(kbTodo)
     IN docs' = [docs EXCEPT ![s.doc].dir = s.dir, ![s.doc].name = s.name,
                             ![s.doc].path = Append(s.dir, s.name)]
  /\ Advance
  /\ UNCHANGED <<dirs, blobs, interrupted>>

\* syncDocumentCitationMetadata with the path the request computed, then
\* syncDocumentSearchIndex, which reads the row again.
Resync(x, path) == <<[do |-> "labels", doc |-> x, path |-> path],
                     [do |-> "index", doc |-> x]>>

SyncLabels ==
  /\ Current("labels")
  /\ docs' = [docs EXCEPT ![Head(kbTodo).doc].labels = {Head(kbTodo).path}]
  /\ Advance
  /\ UNCHANGED <<dirs, blobs, interrupted>>

SyncIndex ==
  /\ Current("index")
  /\ docs' = [docs EXCEPT ![Head(kbTodo).doc].index = {docs[Head(kbTodo).doc].path}]
  /\ Advance
  /\ UNCHANGED <<dirs, blobs, interrupted>>

\* deleteDocumentSearchIndexAndAssets: the points, then the objects that no
\* version of another document refers to.
Unreferenced(x) ==
  docs[x].blobs \ UNION {docs[y].blobs : y \in DOMAIN docs \ {x}}

DeleteAssets ==
  /\ Current("assets")
  /\ LET x == Head(kbTodo).doc
     IN /\ docs' = [docs EXCEPT ![x].index = {}]
        /\ blobs' = blobs \ Unreferenced(x)
  /\ Advance
  /\ UNCHANGED <<dirs, interrupted>>

\* Rows of documents are deleted and those of directories marked.
DeleteRows ==
  /\ Current("delete")
  /\ LET s == Head(kbTodo)
     IN /\ docs' = [x \in DOMAIN docs \ s.docs |-> docs[x]]
        /\ dirs' = [i \in DOMAIN dirs |->
                      [dirs[i] EXCEPT !.live = @ /\ i \notin s.dirs]]
  /\ Advance
  /\ UNCHANGED <<blobs, interrupted>>

-----------------------------------------------------------------------------
(* The requests.                                                           *)

CreateDirectory(parent, name) ==
  /\ Begins /\ parent \in LiveDirs
  /\ LET path == Append(dirs[parent].path, name)
     IN /\ RowsAt(path) \cap LiveDirs = {} /\ DocsAt(path) = {}
        /\ dirs' = Upserted(path)
  /\ UNCHANGED <<kbScope, docs, blobs, kbTodo, interrupted>>

\* The browser puts the file into storage, then posts it.
Upload(dir, name, blob) ==
  /\ Begins
  /\ blobs' = blobs \cup {blob}
  /\ kbTodo' = Append(Ensure(dir),
                      [do |-> "put", dir |-> dir, name |-> name, blob |-> blob])
  /\ UNCHANGED <<kbScope, dirs, docs, interrupted>>

\* PATCH of a private document: another title or another directory.
Patch(x, dir, name) ==
  /\ Begins /\ kbScope = "private"
  /\ LET path == Append(dir, name)
     IN /\ path # docs[x].path /\ DocsAt(path) = {}
        /\ kbTodo' = Append(Ensure(dir),
                            [do |-> "update", doc |-> x, dir |-> dir, name |-> name])
                     \o Resync(x, path)
  /\ UNCHANGED <<kbScope, dirs, docs, blobs, interrupted>>

\* compactKnowledgeBaseSelection: selected directories that are below no other,
\* and selected documents that are in none of them.
\* Mutant: every selected directory is moved for itself.
TopsAll(ds) == ds

Tops(ds) == {i \in ds : \A j \in ds \ {i} : ~Under(dirs[i].path, dirs[j].path)}
Inside(x, ds) == \E i \in ds : Under(docs[x].dir, dirs[i].path)
Loose(ds, xs) == {x \in xs : ~Inside(x, ds)}

\* Mutant: only the documents that were selected themselves.
FollowersSingle(nested, single) == SetToSeq(single)

\* The documents whose citations and index follow a move.
Followers(nested, single) == SetToSeq(nested) \o SetToSeq(single)

\* moveWorkspaceKnowledgeBaseEntries, moveKnowledgeLibraryEntries.
Move(target, ds, xs) ==
  LET tops == Tops(ds)
      to == dirs[target].path
      moved(i) == Append(to, Last(dirs[i].path))
      going == {i \in tops : moved(i) # dirs[i].path}
      rows == {i \in LiveDirs : \E j \in going : Under(dirs[i].path, dirs[j].path)}
      nested == {x \in DOMAIN docs : Inside(x, going)}
      single == {x \in Loose(tops, xs) : docs[x].path # Append(to, docs[x].name)}
      over(path) == CHOOSE j \in going : Under(path, dirs[j].path)
      new(path, dir) == Rebase(path, dirs[over(dir)].path, moved(over(dir)))
      dirPath == [i \in rows |-> new(dirs[i].path, dirs[i].path)]
      docPath == [x \in nested \cup single |->
                    IF x \in nested THEN new(docs[x].path, docs[x].dir)
                    ELSE Append(to, docs[x].name)]
      docDir == [x \in nested \cup single |->
                   IF x \in nested THEN new(docs[x].dir, docs[x].dir) ELSE to]
      kept == DOMAIN docs \ DOMAIN docPath
  IN /\ Begins /\ target \in LiveDirs
     /\ \A i \in tops : ~Under(to, dirs[i].path)
     \* 同名目录, 同名文件
     /\ \A i \in going : moved(i) \notin {dirs[j].path : j \in LiveDirs \ rows}
     /\ \A i, j \in going : moved(i) = moved(j) => i = j
     /\ \A x \in DOMAIN docPath : docPath[x] \notin {docs[y].path : y \in kept}
     /\ IsInjective(docPath)
     \* the unique index on paths, which counts rows marked as deleted
     /\ \A i \in rows : RowsAt(dirPath[i]) \subseteq rows
     /\ \A i \in rows : Len(dirPath[i]) <= MaxDepth + 1
     /\ dirs' = [i \in DOMAIN dirs |->
                   IF i \notin rows THEN dirs[i]
                   ELSE [path |-> dirPath[i], live |-> TRUE,
                         parent |-> IF i \in going THEN target
                                    ELSE dirs[i].parent]]
     /\ docs' = [x \in DOMAIN docs |->
                   IF x \in kept THEN docs[x]
                   ELSE [docs[x] EXCEPT !.dir = docDir[x], !.path = docPath[x]]]
     /\ LET order == Followers(nested, single)
        IN kbTodo' = Concat([k \in DOMAIN order |->
                               Resync(order[k], docPath[order[k]])])
     /\ UNCHANGED <<kbScope, blobs, interrupted>>

DeletesAssets(x) == [do |-> "assets", doc |-> x]
Deletes(xs, ds) == [do |-> "delete", docs |-> xs, dirs |-> ds]

\* deleteWorkspaceKnowledgeBaseEntries marks the directories, then deletes one
\* document after the other.
DeleteWorkspaceEntries(tops, rows, gone) ==
  LET order == SetToSeq(gone)
  IN /\ \A i \in tops : dirs[i].path # Root
     /\ dirs' = [i \in DOMAIN dirs |-> [dirs[i] EXCEPT !.live = @ /\ i \notin rows]]
     /\ kbTodo' = Concat([k \in DOMAIN order |->
                            <<DeletesAssets(order[k]), Deletes({order[k]}, {})>>])

\* deleteKnowledgeLibraryEntries deletes the assets of all documents, then all rows
\* in a transaction.
DeleteLibraryEntries(rows, gone) ==
  LET order == SetToSeq(gone)
  IN /\ kbTodo' = Append([k \in DOMAIN order |-> DeletesAssets(order[k])],
                          Deletes(gone, rows))
     /\ UNCHANGED dirs

Delete(ds, xs) ==
  LET tops == Tops(ds)
      rows == {i \in LiveDirs : \E j \in tops : Under(dirs[i].path, dirs[j].path)}
      gone == Loose(tops, xs) \cup {x \in DOMAIN docs : Inside(x, tops)}
  IN /\ Begins
     /\ IF kbScope = "private" THEN DeleteWorkspaceEntries(tops, rows, gone)
        ELSE DeleteLibraryEntries(rows, gone)
     /\ UNCHANGED <<kbScope, docs, blobs, interrupted>>

\* The process dies: once, which is enough to leave things behind.
Crash ==
  /\ ~AtRest /\ interrupted = "nothing"
  /\ interrupted' = IF \E k \in DOMAIN kbTodo : kbTodo[k].do = "delete"
                    THEN "delete" ELSE "other"
  /\ kbTodo' = <<>>
  /\ UNCHANGED <<kbScope, dirs, docs, blobs, requests>>

Steps == MakeDirectory \/ PutDocument \/ UpdateDocument \/ SyncLabels
         \/ SyncIndex \/ DeleteAssets \/ DeleteRows

KbNext ==
  \/ \E i \in DOMAIN dirs, n \in Names :
       Len(dirs[i].path) < MaxDepth /\ CreateDirectory(i, n)
  \/ \E p \in Paths, n \in FileNames, b \in Blobs : Upload(p, n, b)
  \/ \E x \in DOMAIN docs, p \in Paths, n \in FileNames : Patch(x, p, n)
  \/ \E i \in LiveDirs, ds \in SUBSET LiveDirs, xs \in SUBSET DOMAIN docs :
       Move(i, ds, xs)
  \/ \E ds \in SUBSET LiveDirs, xs \in SUBSET DOMAIN docs :
       ds \cup xs # {} /\ Delete(ds, xs)
  \/ Steps
  \/ Crash

\* Bounds on the rows; what a request has begun goes on.
KbBounded == Len(dirs') <= MaxRows /\ Cardinality(DOMAIN docs') <= MaxDocs

KbSpec == KbInit /\ [][KbNext /\ KbBounded]_kbVars

-----------------------------------------------------------------------------
(* Properties.                                                             *)

\* Documents a deletion has not reached yet.
Doomed == UNION {kbTodo[k].docs : k \in {k \in DOMAIN kbTodo :
                                           kbTodo[k].do = "delete"}}

\* The rows are one tree, whatever is moved, deleted and brought back, and
\* wherever a request breaks off: every directory in use is the child of one in
\* use, at its path; no path is taken twice; a document is where its path says,
\* in a directory in use.  Only a private deletion, which marks the directories
\* first, leaves documents in marked ones if it breaks off.
TreeIntact ==
  /\ \A i \in LiveDirs :
       dirs[i].path # Root =>
         /\ dirs[i].parent \in LiveDirs
         /\ dirs[dirs[i].parent].path = Front(dirs[i].path)
  /\ \A i, j \in DOMAIN dirs : dirs[i].path = dirs[j].path => i = j
  /\ \A x, y \in DOMAIN docs : docs[x].path = docs[y].path => x = y
  /\ \A x \in DOMAIN docs :
       /\ docs[x].path = Append(docs[x].dir, docs[x].name)
       /\ \/ x \in Doomed \/ (kbScope = "private" /\ interrupted = "delete")
          \/ RowsAt(docs[x].dir) \cap LiveDirs # {}

\* A move keeps shapes.  Say that an entry is transferred if its directory
\* changes, by identity and not by path.  A step that adds and removes nothing
\* transfers entries to one directory only, none of them from below another one
\* that is transferred, and renames no directory.
TransferKeepsShape ==
  LET dirMoved == {i \in LiveDirs : dirs'[i].parent # dirs[i].parent}
      docMoved == {x \in DOMAIN docs : /\ RowsAt(docs[x].dir) \cap LiveDirs # {}
                                       /\ RowAt(docs[x].dir) # RowAt(docs[x].dir)'}
      targets == {dirs'[i].parent : i \in dirMoved}
                 \cup {RowAt(docs[x].dir)' : x \in docMoved}
  IN /\ Cardinality(targets) <= 1
     /\ \A i, j \in dirMoved : Under(dirs[i].path, dirs[j].path) => i = j
     /\ \A x \in docMoved : ~Inside(x, dirMoved)
     /\ \A i \in LiveDirs : dirs[i].path = Root
                            \/ Last(dirs'[i].path) = Last(dirs[i].path)
MoveKeepsShape ==
  [][(LiveDirs' = LiveDirs /\ DOMAIN docs' = DOMAIN docs)
       => TransferKeepsShape]_kbVars

\* Citations and search follow: when no request is under way, and none was cut
\* off, the passages of every document are cited and found under its path.
SearchFollows ==
  (AtRest /\ interrupted = "nothing") =>
    \A x \in DOMAIN docs : docs[x].labels = {docs[x].path}
                           /\ docs[x].index = {docs[x].path}
=============================================================================
