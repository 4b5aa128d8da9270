------------------------ MODULE ConversationSharing -------------------------
(***************************************************************************)
(* The public link of a conversation.                                      *)
(*                                                                         *)
(* A conversation has at most one row in conversation_shares: a token, and *)
(* whether it was revoked.  A popover of the page loads the state of the   *)
(* link, makes one and revokes it; the popover stays when the page goes to *)
(* another conversation.  Other pages of the user do the same: of these    *)
(* only the requests are here.  Conversations and the workspace are        *)
(* deleted meanwhile.                                                      *)
(***************************************************************************)
EXTENDS Naturals, Sequences

CONSTANTS
  Threads,     \* conversations of the workspace
  MaxTokens    \* bound: tokens that are made

ASSUME SharingAssumption == Threads # {} /\ MaxTokens \in Nat

VARIABLES
  owner,      \* history: the conversation for which each token was made
  shares,     \* the row of each conversation
  threads,    \* conversations that are there
  workspace,  \* "there" or "deleted"
  popover,    \* the popover of one page: its conversation, what it shows, its load
  submits,    \* the submit of the page, and one of another page
  touched     \* history: may the link differ from what the popover shows?

shareVars == <<owner, shares, threads, workspace, popover, submits, touched>>

Tokens == 1 .. MaxTokens
NoShare == [token |-> 0, revoked |-> TRUE]
\* What a page can know of a link: a token, none, or nothing yet.
Off == 0
Unknown == MaxTokens + 1
Declined == MaxTokens + 2
Senders == {"page", "other"}
NoSubmit == [pc |-> "none", op |-> "enable", thread |-> CHOOSE c \in Threads : TRUE,
             existed |-> FALSE, reply |-> Off]
NoLoad == [pc |-> "none", reply |-> Off]

Share == [token : 0 .. MaxTokens, revoked : BOOLEAN]
LoadOf == [pc : {"none", "read", "reply"}, reply : Off .. Declined]
Popover == [thread : Threads, shown : Off .. Unknown, load : LoadOf]
SubmitOf == [pc : {"none", "check", "write", "reply"}, op : {"enable", "disable"},
             thread : Threads, existed : BOOLEAN, reply : Off .. Declined]

\* Every variable has its type.
SharingTypeOK ==
  /\ owner \in Seq(Threads) /\ Len(owner) <= MaxTokens
  /\ shares \in [Threads -> Share]
  /\ \A c \in Threads : shares[c].token <= Len(owner)
  /\ threads \subseteq Threads /\ workspace \in {"there", "deleted"}
  /\ popover \in Popover
  /\ submits \in [Senders -> SubmitOf]
  /\ touched \in BOOLEAN

SharingInit ==
  /\ owner = << >>
  /\ shares = [c \in Threads |-> NoShare]
  /\ threads = Threads /\ workspace = "there"
  /\ \E c \in Threads :
       popover = [thread |-> c, shown |-> Unknown,
                  load |-> [NoLoad EXCEPT !.pc = "read"]]
  /\ submits = [s \in Senders |-> NoSubmit]
  /\ touched = FALSE

\* requireOwnedConversation.
OwnsThread(c) == c \in threads /\ workspace = "there"
\* serializeShare.
StateOf(share) == IF share.revoked THEN Off ELSE share.token
\* The public page finds its conversation.
LinkOpens(t) ==
  \E c \in threads : shares[c] = [token |-> t, revoked |-> FALSE]
                     /\ workspace = "there"

Submitting == submits["page"].pc # "none"
Loading == popover.load.pc # "none"

-----------------------------------------------------------------------------
(* The popover.                                                            *)

\* loadShare, when the conversation changes (what was loaded for the last one is
\* dropped, what is shown of it stays), and when the popover opens, or is asked to
\* try again, with nothing to show.
OpenThread(c) ==
  /\ c # popover.thread /\ OwnsThread(c)
  /\ popover' = [popover EXCEPT !.thread = c, !.load = [NoLoad EXCEPT !.pc = "read"]]
  /\ touched' = TRUE
  /\ UNCHANGED <<owner, shares, threads, workspace, submits>>

LoadAgain ==
  /\ popover.shown = Unknown /\ ~Loading /\ ~Submitting
  /\ popover' = [popover EXCEPT !.load = [NoLoad EXCEPT !.pc = "read"]]
  /\ UNCHANGED <<owner, shares, threads, workspace, submits, touched>>

\* GET share.
LoadRead ==
  /\ popover.load.pc = "read"
  /\ popover' = [popover EXCEPT !.load =
       [pc |-> "reply", reply |-> IF OwnsThread(popover.thread)
                                  THEN StateOf(shares[popover.thread]) ELSE Declined]]
  /\ touched' = (touched /\ Submitting)
  /\ UNCHANGED <<owner, shares, threads, workspace, submits>>

\* The reply arrives, or is an error, or the fetch throws.
LoadReply ==
  /\ popover.load.pc = "reply" /\ popover.load.reply # Declined
  /\ popover' = [popover EXCEPT !.shown = popover.load.reply, !.load = NoLoad]
  /\ UNCHANGED <<owner, shares, threads, workspace, submits, touched>>

LoadFails ==
  /\ Loading
  /\ popover' = [popover EXCEPT !.load = NoLoad]
  /\ touched' = TRUE
  /\ UNCHANGED <<owner, shares, threads, workspace, submits>>

\* The buttons, hidden while the state is loaded, disabled during a submit.
Offers(op) == IF op = "enable" THEN popover.shown = Off
              ELSE popover.shown \in Tokens
\* Mutant: the buttons are there while the state is loaded.
MaySubmitAnytime(op) == ~Submitting /\ Offers(op)

MaySubmit(op) == ~Submitting /\ Offers(op) /\ ~Loading

Submit(op) ==
  /\ MaySubmit(op)
  /\ submits' = [submits EXCEPT
       !["page"] = [NoSubmit EXCEPT !.pc = "check", !.op = op,
                                    !.thread = popover.thread]]
  /\ UNCHANGED <<owner, shares, threads, workspace, popover, touched>>

-----------------------------------------------------------------------------
(* POST and DELETE share.                                                  *)

\* A request of the other page is here from its check to its write.
Replies(s, known) ==
  submits' = [submits EXCEPT
    ![s] = IF s = "page" THEN [@ EXCEPT !.pc = "reply", !.existed = FALSE,
                                        !.reply = known] ELSE NoSubmit]
\* The link was written, or the reply shows it: does the popover lag behind?
Touches(s) ==
  touched' = IF submits[s].thread # popover.thread THEN touched
             ELSE IF s = "page" /\ ~Loading THEN workspace = "deleted"
             ELSE touched \/ s = "other"

Writes(s, op, c) ==
  submits' = [submits EXCEPT
    ![s] = [NoSubmit EXCEPT !.pc = "write", !.op = op, !.thread = c,
                            !.existed = op = "enable" /\ shares[c] # NoShare]]
\* requireConversationOwner, and readConversationShare for a POST.
Check(s, op, c) ==
  /\ \/ ~OwnsThread(c) /\ Replies(s, Declined)
     \/ /\ OwnsThread(c) /\ op = "enable" /\ ~shares[c].revoked
        /\ Replies(s, StateOf(shares[c]))
     \/ /\ OwnsThread(c) /\ (op = "disable" \/ shares[c].revoked)
        /\ Writes(s, op, c)
  /\ UNCHANGED <<owner, shares, threads, workspace, popover, touched>>

CheckSubmit ==
  submits["page"].pc = "check"
  /\ Check("page", submits["page"].op, submits["page"].thread)
CheckOther ==
  /\ submits["other"].pc = "none"
  /\ \E op \in {"enable", "disable"}, c \in Threads : Check("other", op, c)

\* Mutant: a link that is made again is the one that was revoked.
RestoreLink(s) ==
  LET c == submits[s].thread
      t == IF shares[c].token = 0 THEN Len(owner) + 1 ELSE shares[c].token
  IN /\ Len(owner) < MaxTokens
     /\ owner' = IF t > Len(owner) THEN Append(owner, c) ELSE owner
     /\ shares' = [shares EXCEPT ![c] = [token |-> t, revoked |-> FALSE]]
     /\ Replies(s, t) /\ Touches(s)

\* A new token, over the row there is or in a row of its own.
MakeLink(s) ==
  LET c == submits[s].thread
      t == Len(owner) + 1
  IN /\ Len(owner) < MaxTokens
     /\ owner' = Append(owner, c)
     /\ shares' = [shares EXCEPT ![c] = [token |-> t, revoked |-> FALSE]]
     /\ Replies(s, t) /\ Touches(s)

\* The UPDATE finds no row if the conversation is gone; the INSERT is refused,
\* three times, if it is gone or another request was first.
Enable(s) ==
  LET c == submits[s].thread
  IN /\ submits[s].pc = "write" /\ submits[s].op = "enable"
     /\ \/ /\ c \in threads /\ (submits[s].existed <=> shares[c] # NoShare)
           /\ MakeLink(s)
        \/ /\ submits[s].existed /\ c \notin threads
           /\ Replies(s, Off) /\ UNCHANGED <<owner, shares, touched>>
        \/ /\ ~submits[s].existed /\ (c \notin threads \/ shares[c] # NoShare)
           /\ Replies(s, Declined) /\ UNCHANGED <<owner, shares, touched>>
     /\ UNCHANGED <<threads, workspace, popover>>

Disable(s) ==
  LET c == submits[s].thread
  IN /\ submits[s].pc = "write" /\ submits[s].op = "disable"
     /\ shares' = [shares EXCEPT ![c].revoked = TRUE]
     /\ Replies(s, Off) /\ Touches(s)
     /\ UNCHANGED <<owner, threads, workspace, popover>>

\* The popover shows the reply, for whatever conversation it is; an error leaves
\* it as it was.
SubmitReply ==
  /\ submits["page"].pc = "reply"
  /\ popover' = IF submits["page"].reply = Declined THEN popover
                ELSE [popover EXCEPT !.shown = submits["page"].reply]
  /\ touched' = (touched \/ submits["page"].thread # popover.thread)
  /\ submits' = [submits EXCEPT !["page"] = NoSubmit]
  /\ UNCHANGED <<owner, shares, threads, workspace>>

\* The fetch throws, before the request was served or after.
SubmitFails ==
  /\ submits["page"].pc \in {"check", "reply"}
  /\ submits' = [submits EXCEPT !["page"] = NoSubmit]
  /\ touched' = TRUE
  /\ UNCHANGED <<owner, shares, threads, workspace, popover>>

-----------------------------------------------------------------------------
(* DELETE of a conversation, with its row here, and of the workspace.      *)

DeleteThread(c) ==
  /\ OwnsThread(c)
  /\ threads' = threads \ {c}
  /\ shares' = [shares EXCEPT ![c] = NoShare]
  /\ touched' = (touched \/ c = popover.thread)
  /\ UNCHANGED <<owner, workspace, popover, submits>>

DeleteWorkspace ==
  /\ workspace = "there" /\ workspace' = "deleted"
  /\ touched' = TRUE
  /\ UNCHANGED <<owner, shares, threads, popover, submits>>

SharingNext ==
  \/ LoadAgain \/ LoadRead \/ LoadReply \/ LoadFails \/ SubmitReply \/ SubmitFails
  \/ \E c \in Threads : OpenThread(c) \/ DeleteThread(c)
  \/ DeleteWorkspace
  \/ Submit("enable") \/ Submit("disable") \/ CheckSubmit \/ CheckOther
  \/ \E s \in Senders : Enable(s) \/ Disable(s)

SharingSpec == SharingInit /\ [][SharingNext]_shareVars

-----------------------------------------------------------------------------
(* Properties.                                                             *)

\* A link that stopped working never works again: a conversation that is shared
\* once more gets another one, whichever requests overlap.
RevokedStaysDead ==
  [][\A t \in 1 .. Len(owner) : ~LinkOpens(t) => ~LinkOpens(t)']_shareVars

\* When nothing is under way, the popover is right: it shows the link that opens
\* the conversation of the page, or none if there is none.  Except when another
\* page, or a deletion, changed the link since; and when the page came from
\* another conversation with a submit pending, or to a load that failed: then it
\* can go on showing the link of the other conversation.
PopoverIsRight ==
  (~Loading /\ ~Submitting /\ ~touched /\ popover.shown # Unknown)
    => /\ popover.shown = StateOf(shares[popover.thread])
       /\ popover.shown \in Tokens =>
            LinkOpens(popover.shown) /\ owner[popover.shown] = popover.thread
=============================================================================
