---------------------------- MODULE Attachments ----------------------------
(***************************************************************************)
(* Files that a user adds to a message.  The composer uploads each file,   *)
(* has it registered as an attachment of its conversation, or of a draft   *)
(* if there is none yet, and polls the job that parses it.  Sending a      *)
(* message from a draft creates the conversation; the handler of the       *)
(* message lists the files the composer names and claims every attachment  *)
(* of the draft.  Uploads, polls, the sending and the handler on the       *)
(* server all go on at the same time, and a reply may be lost.             *)
(***************************************************************************)
EXTENDS Naturals, FiniteSets, Sequences

CONSTANTS
  Files,      \* the files a user picks, each once
  MaxSends,   \* bound: messages sent
  MaxLosses   \* bound: requests that throw

ASSUME AttachmentsAssumption ==
  IsFiniteSet(Files) /\ {MaxSends, MaxLosses} \subseteq Nat

VARIABLES
  composer,  \* the conversation of the page (0: none), and its draft id
  items,     \* the attachments the composer shows: status and row
  uploads,   \* the calls of uploadAttachment under way
  polling,   \* pollingJobIdsRef: the files whose job is polled
  rows,      \* conversation_attachments
  sends,     \* the submitted messages and their handlers
  sending,   \* the one whose reply the composer awaits (0: none)
  losses,    \* requests that threw
  late       \* history: files picked while a message was being sent

attachmentVars == <<composer, items, uploads, polling, rows, sends, sending,
                    losses, late>>

-----------------------------------------------------------------------------
(* Types.                                                                  *)

\* COMPOSER_ATTACHMENT_STATUS; presigning, uploading and creating are one.
Open == {"uploading", "parsing"}
ItemStatus == Open \cup {"ready", "failed"}
Rows == 1 .. Len(rows)
Conversations == 1 .. MaxSends
Drafts == 1 .. MaxSends + 1

\* Every variable has its type, and an entry of the composer has its own row.
AttachmentsTypeOK ==
  /\ composer \in [conv : 0 .. MaxSends, draft : Drafts]
  /\ DOMAIN items \subseteq Files
  /\ \A f \in DOMAIN items :
       /\ items[f] \in [status : ItemStatus, row : 0 .. Len(rows)]
       /\ items[f].row # 0 => rows[items[f].row].file = f
  /\ DOMAIN uploads \subseteq Files
  /\ \A f \in DOMAIN uploads :
       uploads[f] \in [at : {"sending", "posted", "reply"}, conv : 0 .. MaxSends,
                       draft : 0 .. MaxSends + 1, row : 0 .. Len(rows)]
  /\ polling \subseteq Files
  /\ rows \in Seq([file : Files, conv : 0 .. MaxSends, draft : 0 .. MaxSends + 1])
  /\ sends \in Seq([pc : {"create", "select", "claim", "reply", "refused", "over"},
                    conv : 0 .. MaxSends, ids : SUBSET Rows, listed : SUBSET Rows,
                    draft : 0 .. MaxSends + 1])
  /\ sending \in 0 .. Len(sends)
  /\ losses \in 0 .. MaxLosses
  /\ late \subseteq Files

AttachmentsInit ==
  /\ \E c \in {0, 1} :
       composer = [conv |-> IF MaxSends = 0 THEN 0 ELSE c, draft |-> 1]
  /\ items = <<>> /\ uploads = <<>> /\ polling = {}
  /\ rows = <<>> /\ sends = <<>>
  /\ sending = 0 /\ losses = 0 /\ late = {}

Loss == losses < MaxLosses /\ losses' = losses + 1

Without(fn, f) == [g \in DOMAIN fn \ {f} |-> fn[g]]
With(fn, f, v) == [g \in DOMAIN fn \cup {f} |-> IF g = f THEN v ELSE fn[g]]
\* setAttachments with a map over the entries: one that is gone stays gone.
Mark(f, status) ==
  IF f \in DOMAIN items THEN [items EXCEPT ![f].status = status] ELSE items

\* hasPendingAttachments, which disables sending.
Pending == \E f \in DOMAIN items : items[f].status \in Open

-----------------------------------------------------------------------------
(* Uploading.                                                              *)

\* The file input stays enabled while a message is sent.
Pick(f) ==
  /\ f \notin DOMAIN items \cup DOMAIN uploads \cup late
  /\ \A r \in Rows : rows[r].file # f
  /\ items' = With(items, f, [status |-> "uploading", row |-> 0])
  /\ uploads' = With(uploads, f, [at |-> "sending", conv |-> composer.conv,
                                  draft |-> 0, row |-> 0])
  /\ late' = IF sending = 0 THEN late ELSE late \cup {f}
  /\ UNCHANGED <<composer, polling, rows, sends, sending, losses>>

\* A reply that is not ok, or one that never comes: fetch throws, nobody
\* catches it and the entry stays as it is.
UploadFails(f) ==
  /\ f \in DOMAIN uploads
  /\ uploads[f].at # "posted"
  /\ uploads' = Without(uploads, f)
  /\ \/ items' = Mark(f, "failed") /\ UNCHANGED losses
     \/ Loss /\ UNCHANGED items
  /\ UNCHANGED <<composer, polling, rows, sends, sending, late>>

\* The object is in storage: POST attachments, for the conversation that the
\* composer had when the file was picked, or for the draft it has now.
PostAttachment(f) ==
  /\ f \in DOMAIN uploads /\ uploads[f].at = "sending"
  /\ uploads' = [uploads EXCEPT
       ![f].at = "posted",
       ![f].draft = IF uploads[f].conv = 0 THEN composer.draft ELSE 0]
  /\ UNCHANGED <<composer, items, polling, rows, sends, sending, losses, late>>

\* Its handler inserts document, version, job and attachment, and enqueues.
Register(f) ==
  /\ f \in DOMAIN uploads /\ uploads[f].at = "posted"
  /\ rows' = Append(rows, [file |-> f, conv |-> uploads[f].conv,
                           draft |-> uploads[f].draft])
  /\ uploads' = [uploads EXCEPT ![f].at = "reply", ![f].row = Len(rows')]
  /\ UNCHANGED <<composer, items, polling, sends, sending, losses, late>>

\* Mutant: the job is not polled.
RegisteredOnly(f) ==
  /\ f \in DOMAIN uploads /\ uploads[f].at = "reply"
  /\ uploads' = Without(uploads, f)
  /\ items' = IF f \in DOMAIN items
              THEN [items EXCEPT ![f] = [status |-> "parsing",
                                         row |-> uploads[f].row]]
              ELSE items
  /\ UNCHANGED <<composer, polling, rows, sends, sending, losses, late>>

\* The entry gets its row; an effect starts to poll the job of one that parses.
Registered(f) ==
  /\ f \in DOMAIN uploads /\ uploads[f].at = "reply"
  /\ uploads' = Without(uploads, f)
  /\ IF f \in DOMAIN items
     THEN /\ items' = [items EXCEPT ![f] = [status |-> "parsing",
                                            row |-> uploads[f].row]]
          /\ polling' = polling \cup {f}
     ELSE UNCHANGED <<items, polling>>
  /\ UNCHANGED <<composer, rows, sends, sending, losses, late>>

\* pollAttachmentJob, until the parse job (IngestPipeline) ends one way or the
\* other; a reply that is not ok counts as failed, and a poll that throws is not
\* started again.
Poll(f) ==
  /\ f \in polling
  /\ polling' = polling \ {f}
  /\ \/ /\ \E end \in {"ready", "failed"} : items' = Mark(f, end)
        /\ UNCHANGED losses
     \/ Loss /\ UNCHANGED items
  /\ UNCHANGED <<composer, uploads, rows, sends, sending, late>>

-----------------------------------------------------------------------------
(* Sending.                                                                *)

\* resolveSubmittedAttachmentIds.
ReadyRows == {items[f].row : f \in {g \in DOMAIN items : items[g].status = "ready"}}

SubmitMessage ==
  /\ sending = 0 /\ ~Pending
  /\ Len(sends) < MaxSends
  /\ sends' = Append(sends,
       [pc |-> IF composer.conv = 0 THEN "create" ELSE "select",
        conv |-> composer.conv, ids |-> ReadyRows, listed |-> {},
        draft |-> IF composer.conv = 0 /\ DOMAIN items # {}
                  THEN composer.draft ELSE 0])
  /\ sending' = Len(sends')
  /\ UNCHANGED <<composer, items, uploads, polling, rows, losses, late>>

At(s, pc) == s \in DOMAIN sends /\ sends[s].pc = pc
Served == UNCHANGED <<composer, items, uploads, polling, sending, losses, late>>

\* POST conversations; a send numbers its own, which no other request uses.
CreateConversation(s) ==
  /\ At(s, "create")
  /\ sends' = [sends EXCEPT ![s].pc = "select", ![s].conv = s]
  /\ Served /\ UNCHANGED rows

\* The attachments a message may name: of the draft, or of the conversation.
Offered(s) == {r \in Rows : IF sends[s].draft # 0
                            THEN rows[r].draft = sends[s].draft
                            ELSE rows[r].conv = sends[s].conv}

\* POST messages: those go into the row of the message.
SelectListed(s) ==
  /\ At(s, "select")
  /\ \/ sends' = [sends EXCEPT
          ![s].pc = "claim", ![s].listed = sends[s].ids \cap Offered(s)]
     \/ sends' = [sends EXCEPT ![s].pc = "refused"]   \* the model profile
  /\ Served /\ UNCHANGED rows

\* Mutant: only the attachments that are listed.
ClaimedIfListed(row, s) ==
  IF \E r \in sends[s].listed : rows[r] = row
  THEN [row EXCEPT !.conv = sends[s].conv, !.draft = 0] ELSE row

\* After the messages are inserted, every attachment of the draft, listed or
\* not; then the respond job is queued.
Claimed(row, s) ==
  IF sends[s].draft # 0 /\ row.draft = sends[s].draft
  THEN [row EXCEPT !.conv = sends[s].conv, !.draft = 0] ELSE row

Claim(s) ==
  /\ At(s, "claim")
  /\ rows' = [r \in Rows |-> Claimed(rows[r], s)]
  /\ sends' = [sends EXCEPT ![s].pc = "reply"]
  /\ Served

\* The composer empties itself and takes a new draft id; the page shows the
\* conversation, whose composer starts empty.
Sent(s) ==
  /\ At(s, "reply") /\ sending = s
  /\ items' = <<>>
  /\ composer' = [conv |-> sends[s].conv, draft |-> composer.draft + 1]
  /\ sends' = [sends EXCEPT ![s].pc = "over"]
  /\ sending' = 0
  /\ UNCHANGED <<uploads, polling, rows, losses, late>>

\* 发送失败, or the reply is lost: the composer stays as it is, and the user
\* may send again.
NotSent(s) ==
  /\ sending = s /\ s # 0
  /\ sending' = 0
  /\ \/ At(s, "refused") /\ UNCHANGED losses
     \/ Loss
  /\ UNCHANGED <<composer, items, uploads, polling, rows, sends, late>>

UploadSteps(f) == PostAttachment(f) \/ Register(f) \/ Registered(f)
Handling(s) == CreateConversation(s) \/ SelectListed(s) \/ Claim(s)

AttachmentsNext ==
  \/ \E f \in Files : Pick(f) \/ UploadFails(f) \/ UploadSteps(f) \/ Poll(f)
  \/ SubmitMessage
  \/ \E s \in Conversations : Handling(s) \/ Sent(s) \/ NotSent(s)

AttachmentsSpec == AttachmentsInit /\ [][AttachmentsNext]_attachmentVars

\* Requests are answered, polls go on, and the jobs they ask for end, in some
\* order.
FileSteps == \E f \in Files : UploadSteps(f) \/ Poll(f)

FairAttachmentsSpec == AttachmentsSpec /\ WF_attachmentVars(FileSteps)

-----------------------------------------------------------------------------
(* Properties.                                                             *)

\* A message lists the files that were ready when it was sent, all of them, and
\* when the job that answers it is queued they belong to its conversation,
\* where the tools look for them.  Only a message whose reply was lost and that
\* the user sent again may lack them: the first one has them.
SentFilesArrive ==
  losses = 0 =>
    \A s \in DOMAIN sends : sends[s].pc \in {"reply", "over"} =>
      /\ sends[s].listed = sends[s].ids
      /\ \A r \in sends[s].ids : rows[r].conv = sends[s].conv

\* No registered file is left behind in a draft that no page has, except one
\* that was picked while the message was being sent.
Abandoned(r) ==
  rows[r].draft # 0 /\ (composer.conv # 0 \/ rows[r].draft # composer.draft)
NothingLeftBehind == \A r \in Rows : Abandoned(r) => rows[r].file \in late

\* Every registered file is where a page or the tools look for it: those of a message
\* with its conversation, the others in the draft of the page.
FilesAccounted == SentFilesArrive /\ NothingLeftBehind

\* Files never block sending for good, unless a request for one of them threw.
SendUnblocks == Pending ~> (~Pending \/ losses > 0)
=============================================================================
