----------------------------- MODULE LibraryPage -----------------------------
(***************************************************************************)
(* The explorer page of a private library, over the tree that other pages  *)
(* change as well (KnowledgeBase).                                         *)
(*                                                                         *)
(* The page holds a listing of the whole library, which it asks for again  *)
(* and again, and shows the part that belongs to one directory.  It keeps  *)
(* that directory twice, as a path and as an id, and both in its own state *)
(* and in the listing, where it is the server's answer to the path of the  *)
(* address.  Rows are marked, dragged and named in requests by their ids.  *)
(* The dialog for uploads is in DocumentUploads.                           *)
(***************************************************************************)
EXTENDS KnowledgeBase

CONSTANTS
  Calls,      \* requests the page has under way
  MaxClicks   \* bound: things the user does

VARIABLES
  listing,  \* the properties the page was last rendered with
  address,  \* the path in the address
  fetch,    \* the rendering of the page that it waits for
  place,    \* currentPath and currentDirectory
  sought,   \* the name that rows must contain, if any
  marked,   \* rowSelection
  held,     \* activeDragPayload
  dialog,   \* the dialog for moves: its target
  calls,    \* its requests
  clicks,   \* things the user has done so far
  strayed   \* history: the directory opened last was not there any more

pageVars == <<listing, address, fetch, place, sought, marked, held, dialog,
              calls, clicks, strayed>>

NoName == <<>>     \* no text to search for: not a name
Closed == [open |-> FALSE, target |-> 0]
NoCall == [pc |-> "none", act |-> "none", rows |-> {}, target |-> 0]
NoFetch == [pc |-> "none", path |-> Root]

DirectoryRow(i) == <<"directory", i>>
DocumentRow(x) == <<"document", x>>
DirsOf(rows) == {r[2] : r \in {r \in rows : r[1] = "directory"}}
DocsOf(rows) == {r[2] : r \in {r \in rows : r[1] = "document"}}

\* loadKnowledgeLibraryExplorerData: the library as it is, and the directory at the
\* path, or the root if there is none.
Library ==
  [dirs |-> {[id |-> i, parent |-> dirs[i].parent, path |-> dirs[i].path] : i \in LiveDirs},
   docs |-> {[id |-> x, dir |-> docs[x].dir, path |-> docs[x].path] : x \in DOMAIN docs}]
PlaceAt(path) ==
  LET found == RowsAt(path) \cap LiveDirs
      at == IF found # {} THEN path ELSE Root
  IN [path |-> at, dir |-> RowAt(at)]
Rendered(path) == [rows |-> Library, place |-> PlaceAt(path)]

\* A library with a directory in another one, of another name, and a document in
\* either.
LibraryInit ==
  \E top \in Names, below \in Names, name \in FileNames, blob \in Blobs :
    LET dir(path, parent) == [path |-> path, parent |-> parent, live |-> TRUE]
        inner == <<top, below>>
    IN /\ top # below /\ kbScope = "private" /\ blobs = {blob}
       /\ dirs = <<dir(Root, 0), dir(<<top>>, 1), dir(inner, 2)>>
       /\ \E at \in {<<top>>, inner} :
            LET path == Append(at, name)
            IN docs = <<[dir |-> at, name |-> name, path |-> path, blobs |-> blobs,
                         labels |-> {path}, index |-> {path}]>>
       /\ kbTodo = <<>> /\ interrupted = "nothing" /\ requests = 0

PageStart ==
  /\ listing = Rendered(Root) /\ address = Root /\ fetch = NoFetch
  /\ place = PlaceAt(Root) /\ sought = NoName /\ marked = {} /\ held = {}
  /\ dialog = Closed /\ calls = [k \in Calls |-> NoCall]
  /\ clicks = 0 /\ strayed = FALSE

-----------------------------------------------------------------------------
(* What the page shows.                                                    *)

\* currentChildren go by the id of the directory, currentDocuments by its path.
Children == {d \in listing.rows.dirs : d.parent = place.dir}
Documents == {x \in listing.rows.docs : x.dir = place.path}

\* The text a row is searched by contains its path.
Found(path) == sought = NoName \/ \E k \in DOMAIN path : path[k] = sought
Shown == {DirectoryRow(d.id) : d \in {d \in Children : Found(d.path)}}
         \cup {DocumentRow(x.id) : x \in {x \in Documents : Found(x.path)}}

\* selectedEntries: marks of rows that are not shown do not count.
Selected == Shown \cap marked

-----------------------------------------------------------------------------
(* Rendering.                                                              *)

Clicks == clicks < MaxClicks /\ clicks' = clicks + 1

\* router.replace takes the place of what was waited for, router.refresh waits.
Asked(path) == [pc |-> "asked", path |-> path]
Refreshed == IF fetch.pc = "none" THEN Asked(address) ELSE fetch

\* The timer of the page, its focus, and the button.
Poll ==
  /\ fetch.pc = "none" /\ fetch' = Asked(address)
  /\ UNCHANGED <<kbVars, listing, address, place, sought, marked, held, dialog,
                 calls, clicks, strayed>>

Render ==
  /\ fetch.pc = "asked"
  /\ fetch' = [pc |-> "rendered", path |-> fetch.path, page |-> Rendered(fetch.path)]
  /\ UNCHANGED <<kbVars, listing, address, place, sought, marked, held, dialog,
                 calls, clicks, strayed>>

\* Mutant: the effect forgets the id.
FollowPath(page) ==
  IF page.place = listing.place THEN place
  ELSE [path |-> page.place.path, dir |-> place.dir]

\* The effect of a new listing: the page goes where the server says, if that is not
\* what it said before.
Follow(page) == IF page.place = listing.place THEN place ELSE page.place

Receive ==
  /\ fetch.pc = "rendered"
  /\ LET page == fetch.page
     IN /\ listing' = page
        /\ place' = Follow(page)
        /\ dialog' = [dialog EXCEPT !.target =
                        IF page.place = listing.place THEN @ ELSE page.place.dir]
        /\ strayed' = IF page.place # listing.place THEN FALSE
                      ELSE strayed \/ page.place # place
  /\ fetch' = NoFetch
  /\ UNCHANGED <<kbVars, address, sought, marked, held, calls, clicks>>

-----------------------------------------------------------------------------
(* The user.                                                               *)

\* pathBreadcrumbs, the path above the table.
Breadcrumbs == {d \in listing.rows.dirs : Under(place.path, d.path)}

\* syncPath, from a row or a breadcrumb, to a directory that is in the listing.
OpenDirectory(d) ==
  /\ Clicks
  /\ DirectoryRow(d.id) \in Shown \/ d \in Breadcrumbs
  /\ place' = [path |-> d.path, dir |-> d.id]
  /\ address' = d.path /\ fetch' = Asked(d.path)
  /\ marked' = {} /\ dialog' = [dialog EXCEPT !.target = d.id]
  /\ strayed' = FALSE
  /\ UNCHANGED <<kbVars, listing, sought, held, calls>>

Search(name) ==
  /\ Clicks /\ name # sought /\ sought' = name
  /\ UNCHANGED <<kbVars, listing, address, fetch, place, marked, held, dialog,
                 calls, strayed>>

Mark(row) ==
  /\ Clicks
  /\ marked' = IF row \in marked THEN marked \ {row} ELSE marked \cup {row}
  /\ UNCHANGED <<kbVars, listing, address, fetch, place, sought, held, dialog,
                 calls, strayed>>

\* The box above the table is about the rows that are shown.
MarkAll ==
  /\ Clicks /\ Shown # {}
  /\ marked' = IF Shown \subseteq marked THEN marked \ Shown ELSE marked \cup Shown
  /\ UNCHANGED <<kbVars, listing, address, fetch, place, sought, held, dialog,
                 calls, strayed>>

\* buildSelectionPayload: all that is selected, if the row is.
SelectionPayload(row) == IF row \in marked THEN Selected ELSE {row}

Grab(row) ==
  /\ Clicks /\ held = {} /\ held' = SelectionPayload(row)
  /\ UNCHANGED <<kbVars, listing, address, fetch, place, sought, marked, dialog,
                 calls, strayed>>

Call(k, act, rows, target) ==
  /\ calls[k].pc = "none"
  /\ calls' = [calls EXCEPT ![k] =
                 [pc |-> "sent", act |-> act, rows |-> rows, target |-> target]]

DropMove(k, rows, target) == Call(k, "drop", rows, target)

\* handleDragEnd, over a row of a directory or elsewhere.
Drop(k, row) ==
  /\ held # {} /\ held' = {}
  /\ IF row \in Shown /\ row[1] = "directory" THEN DropMove(k, held, row[2])
     ELSE UNCHANGED calls
  /\ UNCHANGED <<kbVars, listing, address, fetch, place, sought, marked, dialog,
                 clicks, strayed>>

OpenMove ==
  /\ Clicks /\ Selected # {} /\ ~dialog.open
  /\ dialog' = [open |-> TRUE, target |-> place.dir]
  /\ UNCHANGED <<kbVars, listing, address, fetch, place, sought, marked, held,
                 calls, strayed>>

PickTarget(d) ==
  /\ Clicks /\ dialog.open /\ dialog' = [dialog EXCEPT !.target = d.id]
  /\ UNCHANGED <<kbVars, listing, address, fetch, place, sought, marked, held,
                 calls, strayed>>

CloseMove ==
  /\ dialog.open /\ dialog' = [dialog EXCEPT !.open = FALSE]
  /\ UNCHANGED <<kbVars, listing, address, fetch, place, sought, marked, held,
                 calls, clicks, strayed>>

Confirms(k, act, rows, target) ==
  /\ Clicks /\ Call(k, act, rows, target)
  /\ UNCHANGED <<kbVars, listing, address, fetch, place, sought, marked, held,
                 dialog, strayed>>

MoveSelection(k) ==
  dialog.open /\ Selected # {} /\ Confirms(k, "move", Selected, dialog.target)
DeleteSelection(k) == Selected # {} /\ Confirms(k, "delete", Selected, 0)
DownloadSelection(k) == Selected # {} /\ Confirms(k, "download", Selected, 0)
\* A task of the library, wherever its document is.
DeleteTask(k, x) == Confirms(k, "delete", {DocumentRow(x.id)}, 0)
NewDirectory(k) == Confirms(k, "create", {}, place.dir)
UploadHere(name, blob) ==
  /\ Clicks /\ Upload(place.path, name, blob)
  /\ UNCHANGED <<listing, address, fetch, place, sought, marked, held, dialog,
                 calls, strayed>>

-----------------------------------------------------------------------------
(* Requests.                                                               *)

\* POST download: the documents that are named, or below a directory that is.
Archive(rows) ==
  LET tops == Tops(DirsOf(rows) \cap LiveDirs)
  IN Loose(tops, DocsOf(rows) \cap DOMAIN docs) \cup {x \in DOMAIN docs : Inside(x, tops)}

\* The server looks for the rows by their ids; those that are gone do not count.
Serve(k) ==
  LET call == calls[k]
      ds == DirsOf(call.rows) \cap LiveDirs
      xs == DocsOf(call.rows) \cap DOMAIN docs
  IN /\ call.pc = "sent"
     /\ \/ call.act \in {"move", "drop"} /\ Move(call.target, ds, xs)
        \/ call.act = "delete" /\ Delete(ds, xs)
        \/ call.act = "create" /\ \E n \in Names : CreateDirectory(call.target, n)
        \/ call.act = "download" /\ Archive(call.rows) # {} /\ UNCHANGED kbVars
     /\ calls' = [calls EXCEPT ![k].pc = "served"]
     /\ UNCHANGED <<listing, address, fetch, place, sought, marked, held, dialog,
                    clicks, strayed>>

\* runJsonOperation, handleCreateDirectory: all marks are taken back, and the page
\* is rendered again.
Succeed(k) ==
  /\ calls[k].pc = "served" /\ AtRest
  /\ calls' = [calls EXCEPT ![k] = NoCall]
  /\ marked' = IF calls[k].act \in {"move", "drop", "delete"} THEN {} ELSE marked
  /\ fetch' = IF calls[k].act = "download" THEN fetch ELSE Refreshed
  /\ dialog' = [dialog EXCEPT !.open = @ /\ calls[k].act # "move"]
  /\ UNCHANGED <<kbVars, listing, address, place, sought, held, clicks, strayed>>

\* Refused, or lost on the way there or back: only the error is shown.
Fail(k) ==
  /\ calls[k].pc \in {"sent", "served"}
  /\ calls' = [calls EXCEPT ![k] = NoCall]
  /\ UNCHANGED <<kbVars, listing, address, fetch, place, sought, marked, held,
                 dialog, clicks, strayed>>

\* What the parts of the page offer: the table and the path above it, the toolbar,
\* the dialogs.
TableNext ==
  \/ \E d \in listing.rows.dirs : OpenDirectory(d)
  \/ \E row \in Shown : Mark(row) \/ Grab(row)
  \/ \E k \in Calls, row \in Shown \cup {NoName} : Drop(k, row)

ToolbarNext ==
  \/ MarkAll \/ OpenMove
  \/ \E n \in Names \cup {NoName} : Search(n)
  \/ \E k \in Calls : DeleteSelection(k) \/ DownloadSelection(k)

DialogsNext ==
  \/ CloseMove \/ \E d \in listing.rows.dirs : PickTarget(d)
  \/ \E n \in FileNames, b \in Blobs : UploadHere(n, b)
  \/ \E k \in Calls :
       \/ MoveSelection(k) \/ NewDirectory(k)
       \/ \E x \in listing.rows.docs : DeleteTask(k, x)

PageNext ==
  \/ Poll \/ Render \/ Receive
  \/ TableNext \/ ToolbarNext \/ DialogsNext
  \/ \E k \in Calls : Serve(k) \/ Succeed(k) \/ Fail(k)

\* Others change the library at the same time.
LibraryPageNext == PageNext \/ (KbNext /\ UNCHANGED pageVars)

LibraryPageSpec ==
  /\ LibraryInit /\ PageStart
  /\ [][LibraryPageNext /\ KbBounded]_<<kbVars, pageVars>>

-----------------------------------------------------------------------------
(* Properties.                                                             *)

Fresh == fetch.pc = "none" /\ AtRest /\ interrupted = "nothing"
         /\ listing = Rendered(address)

\* A page that has caught up shows one directory, whole.
ShowsOneDirectory ==
  Fresh /\ ~strayed =>
    /\ place.dir \in LiveDirs /\ dirs[place.dir].path = place.path
    /\ DirsOf(Shown) = {i \in LiveDirs : dirs[i].path # Root /\ Found(dirs[i].path)
                                          /\ Front(dirs[i].path) = place.path}
=============================================================================
