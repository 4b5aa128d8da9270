-------------------------- MODULE WorkspaceProofs ---------------------------
(***************************************************************************)
(* Proofs about what requests overlap on in a workspace: the public link   *)
(* of a conversation, the report with its sections, and the files that are *)
(* added to a message.                                                     *)
(***************************************************************************)
EXTENDS ConversationSharing, Reports, Attachments, TLAPS

-----------------------------------------------------------------------------
(* The public link.                                                        *)

\* Links: the token of a row was made for its conversation, a row without a token
\* is revoked, and a conversation that is gone has none.
LinksInv ==
  \A c \in Threads :
    /\ shares[c].token # 0 => owner[shares[c].token] = c
    /\ shares[c].token = 0 => shares[c].revoked
    /\ c \notin threads => shares[c] = NoShare

\* What a page may show of the conversation of the popover.
Right(x) == /\ x = StateOf(shares[popover.thread])
            /\ x \in Tokens => workspace = "there"

\* A reply of the page's submit that will be shown.
Answered == submits["page"].pc = "reply" /\ submits["page"].reply # Declined

\* While nobody else touched the link, what the popover shows is right, or the
\* reply that will replace it is.
ShownInv ==
  ~ touched =>
    /\ Loading => ~ Submitting
    /\ Submitting => submits["page"].thread = popover.thread
    /\ (popover.load.pc = "reply" /\ popover.load.reply # Declined)
         => Right(popover.load.reply)
    /\ Answered => Right(submits["page"].reply)
    /\ (~ Loading /\ popover.shown # Unknown /\ ~ Answered) => Right(popover.shown)

\* The inductive invariant.
SharingInv == SharingTypeOK /\ LinksInv /\ ShownInv

LEMMA SharingValues ==
  /\ NoShare \in Share /\ NoShare.token = 0 /\ NoShare.revoked = TRUE
  /\ NoSubmit \in SubmitOf /\ NoSubmit.pc = "none"
  /\ NoLoad \in LoadOf /\ NoLoad.pc = "none"
  /\ Off \in Off .. Unknown /\ Unknown \in Off .. Unknown /\ Unknown # Declined
  /\ Off \in Off .. Declined /\ Declined \in Off .. Declined /\ Off # Declined
  /\ Tokens \subseteq Off .. Unknown /\ Tokens \subseteq Off .. Declined
  /\ Off \notin Tokens /\ Unknown \notin Tokens /\ Declined \notin Tokens
BY SharingAssumption
DEF NoShare, Share, NoSubmit, SubmitOf, NoLoad, LoadOf, Off, Unknown, Declined, Tokens

LEMMA SharingInitially == SharingInit => SharingInv
<1> SUFFICES ASSUME SharingInit PROVE SharingInv
  OBVIOUS
<1>1. PICK c \in Threads :
        popover = [thread |-> c, shown |-> Unknown,
                   load |-> [NoLoad EXCEPT !.pc = "read"]]
  BY DEF SharingInit
<1>2. PICK l : l = [NoLoad EXCEPT !.pc = "read"]
  OBVIOUS
<1>3. popover \in Popover /\ popover.load.pc = "read"
  <2>1. l \in LoadOf /\ l.pc = "read"
    BY <1>2, SharingValues DEF LoadOf
  <2>2. popover = [thread |-> c, shown |-> Unknown, load |-> l]
    BY <1>1, <1>2
  <2>3. QED
    BY <2>1, <2>2, SharingValues DEF Popover
<1>4. owner \in Seq(Threads) /\ Len(owner) = 0
  BY DEF SharingInit
<1>5. SharingTypeOK
  <2>1. shares \in [Threads -> Share] /\ \A x \in Threads : shares[x].token = 0
    BY SharingValues DEF SharingInit
  <2>2. submits \in [Senders -> SubmitOf]
    BY SharingValues DEF SharingInit
  <2>3. /\ threads \subseteq Threads /\ workspace \in {"there", "deleted"}
        /\ touched \in BOOLEAN
    BY DEF SharingInit
  <2>4. QED
    BY <1>3, <1>4, <2>1, <2>2, <2>3, SharingAssumption DEF SharingTypeOK
<1>6. LinksInv
  BY SharingValues DEF SharingInit, LinksInv
<1>7. ShownInv
  BY <1>3, SharingValues
  DEF SharingInit, ShownInv, Loading, Submitting, Answered, Senders
<1>8. QED
  BY <1>5, <1>6, <1>7 DEF SharingInv

\* What the state of a link says of its row.
LEMMA StateFacts ==
  ASSUME SharingInv, NEW c \in Threads
  PROVE  /\ StateOf(shares[c]) \in Off .. Len(owner)
         /\ StateOf(shares[c]) \in Tokens \cup {Off}
         /\ ~ shares[c].revoked => StateOf(shares[c]) \in Tokens
BY SharingAssumption
DEF SharingInv, SharingTypeOK, LinksInv, StateOf, Share, Off, Tokens

\* With nothing under way there is no reply that could replace what is shown.
LEMMA PopoverFollows == SharingInv => PopoverIsRight
<1> SUFFICES ASSUME SharingInv, ~Loading, ~Submitting, ~touched, popover.shown # Unknown
             PROVE  /\ popover.shown = StateOf(shares[popover.thread])
                    /\ popover.shown \in Tokens =>
                         LinkOpens(popover.shown) /\ owner[popover.shown] = popover.thread
  BY DEF PopoverIsRight
<1>1. Right(popover.shown)
  BY DEF SharingInv, ShownInv, Answered, Submitting
<1>2. ASSUME popover.shown \in Tokens
      PROVE  LinkOpens(popover.shown) /\ owner[popover.shown] = popover.thread
  <2>1. PICK c \in Threads : c = popover.thread
    BY DEF SharingInv, SharingTypeOK, Popover
  <2>2. shares[c] \in Share /\ ~ shares[c].revoked /\ shares[c].token = popover.shown
    BY <1>1, <1>2, <2>1, SharingValues DEF Right, StateOf, SharingInv, SharingTypeOK
  <2>3. shares[c] = [token |-> popover.shown, revoked |-> FALSE]
    BY <2>2 DEF Share
  <2>4. c \in threads /\ owner[popover.shown] = c
    BY <1>2, <2>2, SharingValues DEF SharingInv, LinksInv, Off
  <2>5. QED
    BY <1>1, <1>2, <2>1, <2>3, <2>4 DEF LinkOpens, Right
<1>3. QED
  BY <1>1, <1>2 DEF Right

-----------------------------------------------------------------------------

\* Types and links after a step of the popover alone.
LEMMA PopoverStep ==
  ASSUME SharingInv, popover' \in Popover, touched' \in BOOLEAN,
         UNCHANGED <<owner, shares, threads, workspace>>,
         submits' \in [Senders -> SubmitOf], ShownInv'
  PROVE  SharingInv'
BY DEF SharingInv, SharingTypeOK, LinksInv

LEMMA TypeFacts ==
  ASSUME SharingInv
  PROVE  /\ popover \in Popover /\ popover.load \in LoadOf /\ popover.thread \in Threads
         /\ popover.shown \in Off .. Unknown
         /\ submits \in [Senders -> SubmitOf] /\ submits["page"] \in SubmitOf
         /\ touched \in BOOLEAN
BY DEF SharingInv, SharingTypeOK, Popover, Senders

LEMMA LoadSteps ==
  ASSUME SharingInv,
         \/ LoadAgain \/ LoadRead \/ LoadReply \/ LoadFails \/ \E c \in Threads : OpenThread(c)
  PROVE  SharingInv'
<1> USE TypeFacts
<1>1. PICK l : l = [NoLoad EXCEPT !.pc = "read"]
  OBVIOUS
<1>2. l \in LoadOf /\ l.pc = "read"
  BY <1>1, SharingValues DEF LoadOf
<1>3. ASSUME NEW x \in Popover, popover' = x, touched' \in BOOLEAN,
             UNCHANGED <<owner, shares, threads, workspace, submits>>,
             \/ touched'
             \/ /\ x.thread = popover.thread /\ ~ Submitting
                /\ (x.load.pc = "reply" /\ x.load.reply # Declined) => Right(x.load.reply)
                /\ (x.load.pc = "none" /\ x.shown # Unknown) => Right(x.shown)
      PROVE  SharingInv'
  <2>1. ShownInv'
    BY <1>3 DEF ShownInv, Right, Answered, Loading, Submitting, StateOf
  <2>2. QED
    BY <1>3, <2>1, PopoverStep
<1>4. ASSUME LoadAgain PROVE SharingInv'
  <2>1. PICK x : x = [popover EXCEPT !.load = l]
    OBVIOUS
  <2>2. x \in Popover /\ x.thread = popover.thread /\ x.load = l
    BY <1>2, <2>1 DEF Popover
  <2>3. popover' = x
    BY <1>1, <1>4, <2>1 DEF LoadAgain
  <2>4. QED
    BY <1>2, <1>3, <1>4, <2>2, <2>3 DEF LoadAgain
<1>5. ASSUME NEW c \in Threads, OpenThread(c) PROVE SharingInv'
  <2>1. PICK x : x = [popover EXCEPT !.thread = c, !.load = l]
    OBVIOUS
  <2>2. x \in Popover
    BY <1>2, <2>1 DEF Popover
  <2>3. popover' = x
    BY <1>1, <1>5, <2>1 DEF OpenThread
  <2>4. QED
    BY <1>3, <1>5, <2>2, <2>3 DEF OpenThread
<1>6. ASSUME LoadFails PROVE SharingInv'
  <2>1. PICK x : x = [popover EXCEPT !.load = NoLoad]
    OBVIOUS
  <2>2. x \in Popover
    BY <2>1, SharingValues DEF Popover
  <2>3. QED
    BY <1>3, <1>6, <2>1, <2>2 DEF LoadFails
<1>7. ASSUME LoadReply PROVE SharingInv'
  <2>1. PICK x : x = [popover EXCEPT !.shown = popover.load.reply, !.load = NoLoad]
    OBVIOUS
  <2>2. popover.load.reply \in Off .. Unknown
    BY <1>7, SharingAssumption DEF LoadReply, LoadOf, Off, Declined, Unknown
  <2>3. /\ x \in Popover /\ x.thread = popover.thread /\ x.load = NoLoad
        /\ x.shown = popover.load.reply
    BY <2>1, <2>2, SharingValues DEF Popover
  <2>4. ~ touched => ~ Submitting /\ Right(popover.load.reply)
    BY <1>7 DEF LoadReply, SharingInv, ShownInv, Loading
  <2>5. popover' = x /\ touched' = touched
        /\ UNCHANGED <<owner, shares, threads, workspace, submits>>
    BY <1>7, <2>1 DEF LoadReply
  <2>6. QED
    BY <1>3, <2>3, <2>4, <2>5, SharingValues
<1>8. ASSUME LoadRead PROVE SharingInv'
  <2>1. PICK r : r = IF OwnsThread(popover.thread)
                     THEN StateOf(shares[popover.thread]) ELSE Declined
    OBVIOUS
  <2>2. r \in Off .. Declined /\ (r # Declined => Right(r))
    BY <2>1, StateFacts, SharingValues DEF OwnsThread, Right
  <2>3. PICK y : y = [pc |-> "reply", reply |-> r]
    OBVIOUS
  <2>4. y \in LoadOf /\ y.pc = "reply" /\ y.reply = r
    BY <2>2, <2>3 DEF LoadOf
  <2>5. PICK x : x = [popover EXCEPT !.load = y]
    OBVIOUS
  <2>6. x \in Popover /\ x.thread = popover.thread /\ x.load = y
    BY <2>4, <2>5 DEF Popover
  <2>7. /\ popover' = x /\ touched' = (touched /\ Submitting)
        /\ UNCHANGED <<owner, shares, threads, workspace, submits>>
    BY <1>8, <2>1, <2>3, <2>5 DEF LoadRead
  <2>8. touched' \in BOOLEAN /\ (~ touched' => ~ Submitting)
    BY <1>8, <2>7 DEF LoadRead, SharingInv, ShownInv, Loading
  <2>9. QED
    BY <1>3, <2>2, <2>4, <2>6, <2>7, <2>8
<1>9. QED
  BY <1>4, <1>5, <1>6, <1>7, <1>8

\* A step of the page's submit that writes no link: the popover stays as it is, or
\* shows the reply.
LEMMA PageStep ==
  ASSUME SharingInv, NEW n \in SubmitOf, submits' = [submits EXCEPT !["page"] = n],
         popover' \in Popover, popover'.thread = popover.thread,
         popover'.load = popover.load,
         touched' \in BOOLEAN, ~ touched' => ~ touched,
         UNCHANGED <<owner, shares, threads, workspace>>,
         ~ touched' =>
           /\ ~ Loading
           /\ n.pc # "none" => n.thread = popover.thread
           /\ (n.pc = "reply" /\ n.reply # Declined) => Right(n.reply)
           /\ ~ (n.pc = "reply" /\ n.reply # Declined) =>
                \/ popover'.shown = popover.shown /\ ~ Answered
                \/ Right(popover'.shown)
  PROVE  SharingInv'
<1>1. submits'["page"] = n /\ submits' \in [Senders -> SubmitOf]
  BY TypeFacts DEF Senders
<1>2. ShownInv'
  BY <1>1 DEF ShownInv, SharingInv, Right, Answered, Loading, Submitting, StateOf
<1>3. QED
  BY <1>1, <1>2, PopoverStep

\* A step of the other page's request that writes no link.
LEMMA OtherStep ==
  ASSUME SharingInv, NEW n \in SubmitOf, submits' = [submits EXCEPT !["other"] = n],
         UNCHANGED <<owner, shares, threads, workspace, popover, touched>>
  PROVE  SharingInv'
<1>1. submits'["page"] = submits["page"] /\ submits' \in [Senders -> SubmitOf]
  BY TypeFacts DEF Senders
<1>2. ShownInv'
  BY <1>1 DEF ShownInv, SharingInv, Right, Answered, Loading, Submitting, StateOf
<1>3. QED
  BY <1>1, <1>2, PopoverStep, TypeFacts

LEMMA SubmitInv ==
  ASSUME SharingInv, NEW op \in {"enable", "disable"}, Submit(op)
  PROVE  SharingInv'
<1>1. PICK n : n = [NoSubmit EXCEPT !.pc = "check", !.op = op, !.thread = popover.thread]
  OBVIOUS
<1>2. n \in SubmitOf /\ n.pc = "check" /\ n.thread = popover.thread
  BY <1>1, SharingValues, TypeFacts DEF SubmitOf
<1>3. submits' = [submits EXCEPT !["page"] = n]
      /\ UNCHANGED <<owner, shares, threads, workspace, popover, touched>>
      /\ ~ Loading /\ ~ Submitting
  BY <1>1 DEF Submit, MaySubmit
<1>4. ~ Answered
  BY <1>3 DEF Answered, Submitting
<1>5. QED
  BY <1>2, <1>3, <1>4, PageStep, TypeFacts

LEMMA SubmitReplyInv ==
  ASSUME SharingInv, SubmitReply \/ SubmitFails
  PROVE  SharingInv'
<1>1. NoSubmit \in SubmitOf /\ NoSubmit.pc = "none"
  BY SharingValues
<1>2. CASE SubmitFails
  BY <1>1, <1>2, PageStep, TypeFacts DEF SubmitFails
<1>3. CASE SubmitReply
  <2>1. PICK x : x = [popover EXCEPT !.shown = submits["page"].reply]
    OBVIOUS
  <2>2. /\ x.thread = popover.thread /\ x.load = popover.load
        /\ x.shown = submits["page"].reply
    BY <2>1, TypeFacts DEF Popover
  <2>3. popover' = IF submits["page"].reply = Declined THEN popover ELSE x
    BY <1>3, <2>1 DEF SubmitReply
  <2>4. x.shown # Declined => x \in Popover
    <3>1. submits["page"].reply \in Off .. Declined
      BY TypeFacts DEF SubmitOf
    <3>2. submits["page"].reply # Declined => submits["page"].reply \in Off .. Unknown
      BY <3>1, SharingAssumption DEF Off, Declined, Unknown
    <3>3. QED
      BY <2>1, <3>2, TypeFacts DEF Popover
  <2>5. popover' \in Popover /\ popover'.thread = popover.thread
        /\ popover'.load = popover.load
    BY <2>2, <2>3, <2>4, TypeFacts
  <2>6. touched' = (touched \/ submits["page"].thread # popover.thread)
        /\ submits' = [submits EXCEPT !["page"] = NoSubmit]
        /\ UNCHANGED <<owner, shares, threads, workspace>>
        /\ submits["page"].pc = "reply"
    BY <1>3 DEF SubmitReply
  <2>7. ~ touched' => ~ Loading /\ ~ touched
    BY <2>6 DEF SharingInv, ShownInv, Submitting
  <2>8. ~ touched' =>
          \/ popover'.shown = popover.shown /\ ~ Answered
          \/ Right(popover'.shown)
    BY <2>2, <2>3, <2>6, <2>7 DEF SharingInv, ShownInv, Answered
  <2>9. touched' \in BOOLEAN
    BY <2>6, TypeFacts
  <2>10. QED
    BY <1>1, <2>5, <2>6, <2>7, <2>8, <2>9, PageStep
<1>4. QED
  BY <1>2, <1>3

-----------------------------------------------------------------------------

\* The rows after a link is made, or revoked.
LEMMA LinkMade ==
  ASSUME SharingInv, NEW c \in threads, Len(owner) < MaxTokens,
         owner' = Append(owner, c), UNCHANGED threads,
         shares' = [shares EXCEPT ![c] = [token |-> Len(owner) + 1, revoked |-> FALSE]]
  PROVE  /\ owner' \in Seq(Threads) /\ Len(owner') <= MaxTokens
         /\ shares' \in [Threads -> Share]
         /\ \A d \in Threads : shares'[d].token <= Len(owner')
         /\ LinksInv'
         /\ c \in Threads /\ StateOf(shares'[c]) = Len(owner) + 1
         /\ Len(owner) + 1 \in Tokens
         /\ \A d \in Threads \ {c} : shares'[d] = shares[d]
<1>1. PICK x : x = [token |-> Len(owner) + 1, revoked |-> FALSE]
  OBVIOUS
<1>2. /\ owner \in Seq(Threads) /\ Len(owner) \in Nat /\ c \in Threads
      /\ shares \in [Threads -> Share]
      /\ \A d \in Threads : shares[d].token <= Len(owner) /\ shares[d].token \in Nat
  BY SharingAssumption DEF SharingInv, SharingTypeOK, Share
<1>3. /\ x \in Share /\ x.token = Len(owner) + 1 /\ ~ x.revoked /\ StateOf(x) = x.token
      /\ Len(owner) + 1 \in Tokens
  BY <1>1, <1>2, SharingAssumption DEF Share, StateOf, Tokens
<1>4. \A d \in Threads : shares'[d] = IF d = c THEN x ELSE shares[d]
  BY <1>1, <1>2
<1>5. shares' \in [Threads -> Share]
  BY <1>1, <1>2, <1>3
<1>6. /\ owner' \in Seq(Threads) /\ Len(owner') = Len(owner) + 1
      /\ owner'[Len(owner) + 1] = c
      /\ \A t \in 1 .. Len(owner) : owner'[t] = owner[t]
  BY <1>2
<1>7. Len(owner') <= MaxTokens
  BY <1>2, <1>6, SharingAssumption
<1>8. \A d \in Threads : shares'[d].token <= Len(owner')
  BY <1>2, <1>3, <1>4, <1>6
<1>9. ASSUME NEW d \in Threads
      PROVE  /\ shares'[d].token # 0 => owner'[shares'[d].token] = d
             /\ shares'[d].token = 0 => shares'[d].revoked
             /\ d \notin threads' => shares'[d] = NoShare
  <2>1. CASE d = c
    BY <2>1, <1>2, <1>3, <1>4, <1>6
  <2>2. CASE d # c
    BY <2>2, <1>2, <1>4, <1>6 DEF SharingInv, LinksInv
  <2>3. QED
    BY <2>1, <2>2
<1>10. LinksInv'
  BY <1>9 DEF LinksInv
<1>11. QED
  BY <1>2, <1>3, <1>4, <1>5, <1>6, <1>7, <1>8, <1>10

LEMMA LinkRevoked ==
  ASSUME SharingInv, NEW c \in Threads, UNCHANGED <<owner, threads>>,
         shares' = [shares EXCEPT ![c].revoked = TRUE]
  PROVE  /\ shares' \in [Threads -> Share]
         /\ \A d \in Threads : shares'[d].token <= Len(owner)
         /\ LinksInv' /\ StateOf(shares'[c]) = Off
         /\ \A d \in Threads \ {c} : shares'[d] = shares[d]
<1>1. PICK x : x = [shares[c] EXCEPT !.revoked = TRUE]
  OBVIOUS
<1>2. shares \in [Threads -> Share] /\ shares[c] \in Share
  BY DEF SharingInv, SharingTypeOK
<1>3. x \in Share /\ x.token = shares[c].token /\ x.revoked /\ StateOf(x) = Off
  BY <1>1, <1>2 DEF Share, StateOf
<1>4. shares' = [shares EXCEPT ![c] = x]
  BY <1>1
<1>5. \A d \in Threads : shares'[d] = IF d = c THEN x ELSE shares[d]
  BY <1>2, <1>4
<1>6. shares' \in [Threads -> Share]
  BY <1>2, <1>3, <1>4
<1>7. c \notin threads => x = NoShare
  <2> SUFFICES ASSUME c \notin threads PROVE x = NoShare
    OBVIOUS
  <2>1. shares[c] = NoShare
    BY DEF SharingInv, LinksInv
  <2>2. x.token = 0 /\ x.revoked = TRUE
    BY <1>1, <1>2, <2>1, SharingValues DEF Share
  <2>3. x = [token |-> x.token, revoked |-> x.revoked]
    BY <1>3 DEF Share
  <2>4. QED
    BY <2>2, <2>3 DEF NoShare
<1>8. LinksInv'
  BY <1>3, <1>5, <1>7 DEF SharingInv, LinksInv
<1>9. QED
  BY <1>3, <1>5, <1>6, <1>8 DEF SharingInv, SharingTypeOK

\* A request writes a link, and its reply shows what it wrote.
LEMMA WriteStep ==
  ASSUME SharingInv, NEW s \in Senders, submits[s].pc = "write",
         NEW t \in Off .. Unknown, Replies(s, t), Touches(s),
         UNCHANGED <<threads, workspace, popover>>,
         owner' \in Seq(Threads), Len(owner') <= MaxTokens,
         shares' \in [Threads -> Share], \A d \in Threads : shares'[d].token <= Len(owner'),
         LinksInv', StateOf(shares'[submits[s].thread]) = t,
         \A d \in Threads \ {submits[s].thread} : shares'[d] = shares[d]
  PROVE  SharingInv'
<1> USE TypeFacts
<1>1. submits[s] \in SubmitOf /\ t \in Off .. Declined /\ t # Declined
  BY SharingAssumption DEF Off, Declined, Unknown
<1>2. CASE s = "page"
  <2>1. PICK n : n = [submits[s] EXCEPT !.pc = "reply", !.existed = FALSE, !.reply = t]
    OBVIOUS
  <2>2. n \in SubmitOf /\ n.pc = "reply" /\ n.reply = t /\ n.thread = submits[s].thread
    BY <1>1, <2>1 DEF SubmitOf
  <2>3. submits' = [submits EXCEPT ![s] = n]
    BY <1>2, <2>1 DEF Replies
  <2>4. submits' \in [Senders -> SubmitOf] /\ submits'["page"] = n
    BY <1>2, <2>2, <2>3 DEF Senders
  <2>5. touched' \in BOOLEAN
    BY DEF Touches
  <2>6. ~ touched' =>
          ~ Loading /\ workspace = "there" /\ submits[s].thread = popover.thread
    BY <1>2 DEF Touches, SharingInv, SharingTypeOK, ShownInv, Submitting
  <2>7. ShownInv'
    BY <2>2, <2>4, <2>6, <1>1
    DEF ShownInv, Right, Answered, Loading, Submitting
  <2>8. QED
    BY <2>4, <2>5, <2>7 DEF SharingInv, SharingTypeOK
<1>3. CASE s = "other"
  <2>1. submits' = [submits EXCEPT !["other"] = NoSubmit]
    BY <1>3 DEF Replies
  <2>2. submits' \in [Senders -> SubmitOf] /\ submits'["page"] = submits["page"]
    BY <2>1, SharingValues DEF Senders
  <2>3. touched' \in BOOLEAN
        /\ (~ touched' => ~ touched /\ submits[s].thread # popover.thread)
    BY <1>3 DEF Touches
  <2>4. ShownInv'
    BY <2>2, <2>3 DEF SharingInv, ShownInv, Right, Answered, Loading, Submitting, StateOf
  <2>5. QED
    BY <2>2, <2>3, <2>4 DEF SharingInv, SharingTypeOK
<1>4. QED
  BY <1>2, <1>3 DEF Senders

LEMMA EnableInv ==
  ASSUME SharingInv, NEW s \in Senders, Enable(s)
  PROVE  SharingInv'
<1> DEFINE c == submits[s].thread
<1> USE TypeFacts
<1>1. /\ submits[s] \in SubmitOf /\ c \in Threads /\ submits[s].pc = "write"
      /\ UNCHANGED <<threads, workspace, popover>>
  BY DEF Enable, SubmitOf
<1>2. CASE c \in threads /\ MakeLink(s)
  <2>1. /\ owner' = Append(owner, c) /\ Len(owner) < MaxTokens
        /\ shares' = [shares EXCEPT ![c] = [token |-> Len(owner) + 1, revoked |-> FALSE]]
        /\ Replies(s, Len(owner) + 1) /\ Touches(s)
    BY <1>2 DEF MakeLink
  <2>2. Len(owner) + 1 \in Off .. Unknown
    BY <1>1, <1>2, <2>1, LinkMade, SharingValues
  <2>3. QED
    BY <1>1, <1>2, <2>1, <2>2, LinkMade, WriteStep
<1>3. ASSUME NEW r \in {Off, Declined}, Replies(s, r), UNCHANGED <<owner, shares, touched>>,
             r = Off => c \notin threads
      PROVE  SharingInv'
  <2>1. CASE s = "page"
    <3>1. PICK n : n = [submits[s] EXCEPT !.pc = "reply", !.existed = FALSE, !.reply = r]
      OBVIOUS
    <3>2. n \in SubmitOf /\ n.pc = "reply" /\ n.reply = r /\ n.thread = c
      BY <1>1, <3>1, SharingValues DEF SubmitOf
    <3>3. submits' = [submits EXCEPT !["page"] = n]
      BY <1>3, <2>1, <3>1 DEF Replies
    <3>4. ~ touched => ~ Loading /\ c = popover.thread /\ ~ Answered
      BY <1>1, <2>1 DEF SharingInv, ShownInv, Submitting, Answered
    <3>5. (~ touched /\ r = Off) => Right(r)
      <4>1. c \notin threads => shares[c] = NoShare
        BY <1>1 DEF SharingInv, LinksInv
      <4>2. QED
        BY <1>3, <3>4, <4>1, SharingValues DEF Right, StateOf
    <3>6. QED
      BY <1>1, <1>3, <3>2, <3>3, <3>4, <3>5, PageStep
  <2>2. CASE s = "other"
    <3>1. submits' = [submits EXCEPT !["other"] = NoSubmit]
      BY <1>3, <2>2 DEF Replies
    <3>2. QED
      BY <1>1, <1>3, <3>1, OtherStep, SharingValues
  <2>3. QED
    BY <2>1, <2>2 DEF Senders
<1>4. QED
  BY <1>2, <1>3, SharingValues DEF Enable

LEMMA DisableInv ==
  ASSUME SharingInv, NEW s \in Senders, Disable(s)
  PROVE  SharingInv'
<1> USE TypeFacts
<1>1. PICK c \in Threads : c = submits[s].thread
  BY DEF SubmitOf
<1>2. /\ submits[s].pc = "write" /\ Replies(s, Off) /\ Touches(s)
      /\ shares' = [shares EXCEPT ![c].revoked = TRUE]
      /\ UNCHANGED <<owner, threads, workspace, popover>>
  BY <1>1 DEF Disable
<1>3. /\ shares' \in [Threads -> Share]
      /\ \A d \in Threads : shares'[d].token <= Len(owner)
      /\ LinksInv' /\ StateOf(shares'[c]) = Off
      /\ \A d \in Threads \ {c} : shares'[d] = shares[d]
  BY <1>2, LinkRevoked
<1>4. owner' \in Seq(Threads) /\ Len(owner') <= MaxTokens /\ owner' = owner
  BY <1>2 DEF SharingInv, SharingTypeOK
<1>5. QED
  BY <1>1, <1>2, <1>3, <1>4, WriteStep, SharingValues

LEMMA CheckInv ==
  ASSUME SharingInv, NEW s \in Senders, NEW op \in {"enable", "disable"}, NEW c \in Threads,
         Check(s, op, c),
         s = "page" => submits[s].pc = "check" /\ c = submits[s].thread
  PROVE  SharingInv'
<1> USE TypeFacts
<1>1. UNCHANGED <<owner, shares, threads, workspace, popover, touched>>
  BY DEF Check
<1>2. (s = "page" /\ ~ touched) => ~ Loading /\ c = popover.thread /\ ~ Answered
  BY DEF SharingInv, ShownInv, Submitting, Answered
<1>3. CASE Writes(s, op, c)
  <2>1. PICK n : n = [NoSubmit EXCEPT !.pc = "write", !.op = op, !.thread = c,
                        !.existed = op = "enable" /\ shares[c] # NoShare]
    OBVIOUS
  <2>2. (op = "enable" /\ shares[c] # NoShare) \in BOOLEAN
    OBVIOUS
  <2>3. n \in SubmitOf /\ n.pc = "write" /\ n.thread = c
    BY <2>1, <2>2, SharingValues DEF SubmitOf
  <2>4. submits' = [submits EXCEPT ![s] = n]
    BY <1>3, <2>1 DEF Writes
  <2>5. CASE s = "page"
    BY <1>1, <1>2, <2>3, <2>4, <2>5, PageStep
  <2>6. CASE s = "other"
    BY <1>1, <2>3, <2>4, <2>6, OtherStep
  <2>7. QED
    BY <2>5, <2>6 DEF Senders
<1>4. ASSUME NEW r \in Off .. Declined, Replies(s, r),
             r # Declined => OwnsThread(c) /\ r = StateOf(shares[c])
      PROVE  SharingInv'
  <2>1. CASE s = "page"
    <3>1. PICK n : n = [submits[s] EXCEPT !.pc = "reply", !.existed = FALSE, !.reply = r]
      OBVIOUS
    <3>2. n \in SubmitOf /\ n.pc = "reply" /\ n.reply = r /\ n.thread = c
      BY <2>1, <3>1 DEF SubmitOf
    <3>3. submits' = [submits EXCEPT !["page"] = n]
      BY <1>4, <2>1, <3>1 DEF Replies
    <3>4. (~ touched /\ r # Declined) => Right(r)
      BY <1>2, <1>4, <2>1 DEF Right, OwnsThread
    <3>5. QED
      BY <1>1, <1>2, <2>1, <3>2, <3>3, <3>4, PageStep
  <2>2. CASE s = "other"
    <3>1. submits' = [submits EXCEPT !["other"] = NoSubmit]
      BY <1>4, <2>2 DEF Replies
    <3>2. QED
      BY <1>1, <3>1, OtherStep, SharingValues
  <2>3. QED
    BY <2>1, <2>2 DEF Senders
<1>5. StateOf(shares[c]) \in Off .. Declined
  BY StateFacts, SharingValues
<1>6. QED
  BY <1>3, <1>4, <1>5, SharingValues DEF Check

LEMMA DeletionInv ==
  ASSUME SharingInv, DeleteWorkspace \/ \E c \in Threads : DeleteThread(c)
  PROVE  SharingInv'
<1>1. CASE DeleteWorkspace
  BY <1>1 DEF DeleteWorkspace, SharingInv, SharingTypeOK, LinksInv, ShownInv
<1>2. ASSUME NEW c \in Threads, DeleteThread(c) PROVE SharingInv'
  <2>1. /\ shares' \in [Threads -> Share]
        /\ \A d \in Threads : shares'[d] = IF d = c THEN NoShare ELSE shares[d]
    BY <1>2, SharingValues DEF DeleteThread, SharingInv, SharingTypeOK
  <2>2. \A d \in Threads : shares'[d].token <= Len(owner)
    BY <2>1, SharingValues DEF SharingInv, SharingTypeOK
  <2>3. LinksInv'
    BY <1>2, <2>1, SharingValues DEF DeleteThread, SharingInv, LinksInv
  <2>4. ShownInv'
    BY <1>2, <2>1, TypeFacts
    DEF DeleteThread, SharingInv, ShownInv, Right, Answered, Loading, Submitting
  <2>5. QED
    BY <1>2, <2>1, <2>2, <2>3, <2>4 DEF DeleteThread, SharingInv, SharingTypeOK
<1>3. QED
  BY <1>1, <1>2

LEMMA SharingStep == SharingInv /\ [SharingNext]_shareVars => SharingInv'
<1> SUFFICES ASSUME SharingInv, [SharingNext]_shareVars PROVE SharingInv'
  OBVIOUS
<1>1. CASE CheckSubmit \/ CheckOther
  BY <1>1, CheckInv, TypeFacts DEF CheckSubmit, CheckOther, Senders, SubmitOf
<1>2. CASE UNCHANGED shareVars
  BY <1>2 DEF shareVars, SharingInv, SharingTypeOK, LinksInv, ShownInv, Right, StateOf,
              Answered, Loading, Submitting
<1>3. QED
  BY <1>1, <1>2, LoadSteps, SubmitInv, SubmitReplyInv, EnableInv, DisableInv,
     DeletionInv
  DEF SharingNext

\* What a step may do to links: make the next one, or take some away.
LEMMA LinksOnlyEnd ==
  ASSUME SharingInv, [SharingNext]_shareVars, NEW t \in 1 .. Len(owner), ~ LinkOpens(t)
  PROVE  ~ LinkOpens(t)'
<1>1. ASSUME workspace' = workspace \/ workspace' = "deleted",
             threads' \subseteq threads,
             \A c \in Threads : \/ shares'[c] = shares[c] \/ shares'[c] = NoShare
                               \/ shares'[c].token > Len(owner) \/ shares'[c].revoked
      PROVE  ~ LinkOpens(t)'
  <2> SUFFICES ASSUME LinkOpens(t)' PROVE FALSE
    OBVIOUS
  <2>1. PICK c \in threads' : shares'[c] = [token |-> t, revoked |-> FALSE]
                              /\ workspace' = "there"
    BY DEF LinkOpens
  <2>2. shares'[c].token = t /\ ~ shares'[c].revoked /\ c \in Threads /\ c \in threads
    BY <1>1, <2>1 DEF SharingInv, SharingTypeOK
  <2>3. shares'[c] = shares[c] /\ workspace = "there"
    BY <1>1, <2>1, <2>2, SharingValues DEF SharingInv, SharingTypeOK
  <2>4. QED
    BY <2>1, <2>2, <2>3 DEF LinkOpens
<1>2. ASSUME UNCHANGED <<workspace, threads, shares>> PROVE ~ LinkOpens(t)'
  BY <1>1, <1>2
<1>3. ASSUME NEW s \in Senders, Enable(s) PROVE ~ LinkOpens(t)'
  <2>1. CASE submits[s].thread \in threads /\ MakeLink(s)
    <3>1. PICK c \in Threads : c = submits[s].thread
      BY TypeFacts, <2>1 DEF SharingInv, SharingTypeOK
    <3>2. shares' = [shares EXCEPT ![c] = [token |-> Len(owner) + 1, revoked |-> FALSE]]
      BY <2>1, <3>1 DEF MakeLink
    <3>3. \A d \in Threads : shares'[d] = shares[d] \/ shares'[d].token > Len(owner)
      BY <3>1, <3>2 DEF SharingInv, SharingTypeOK
    <3>4. QED
      BY <1>1, <1>3, <3>3 DEF Enable
  <2>2. QED
    BY <1>2, <1>3, <2>1 DEF Enable
<1>4. ASSUME NEW s \in Senders, Disable(s) PROVE ~ LinkOpens(t)'
  <2>1. PICK c \in Threads : c = submits[s].thread
    BY TypeFacts DEF SubmitOf
  <2>2. shares' = [shares EXCEPT ![c].revoked = TRUE]
    BY <1>4, <2>1 DEF Disable
  <2>3. \A d \in Threads : shares'[d] = shares[d] \/ shares'[d].revoked
    BY <2>2 DEF SharingInv, SharingTypeOK, Share
  <2>4. QED
    BY <1>1, <1>4, <2>3 DEF Disable
<1>5. ASSUME NEW c \in Threads, DeleteThread(c) PROVE ~ LinkOpens(t)'
  <2>1. \A d \in Threads : shares'[d] = shares[d] \/ shares'[d] = NoShare
    BY <1>5 DEF DeleteThread, SharingInv, SharingTypeOK
  <2>2. QED
    BY <1>1, <1>5, <2>1 DEF DeleteThread
<1>6. CASE DeleteWorkspace
  BY <1>1, <1>6 DEF DeleteWorkspace
<1>7. ASSUME NEW s \in Senders, NEW op, NEW c, Check(s, op, c) PROVE ~ LinkOpens(t)'
  BY <1>2, <1>7 DEF Check
<1>8. CASE \/ LoadAgain \/ LoadRead \/ LoadReply \/ LoadFails \/ SubmitReply \/ SubmitFails
           \/ \E c \in Threads : OpenThread(c)
           \/ Submit("enable") \/ Submit("disable")
  BY <1>2, <1>8 DEF LoadAgain, LoadRead, LoadReply, LoadFails, SubmitReply, SubmitFails,
                   OpenThread, Submit
<1>9. CASE CheckSubmit \/ CheckOther
  BY <1>7, <1>9 DEF CheckSubmit, CheckOther, Senders
<1>10. CASE UNCHANGED shareVars
  BY <1>2, <1>10 DEF shareVars
<1>11. QED
  BY <1>3, <1>4, <1>5, <1>6, <1>8, <1>9, <1>10 DEF SharingNext

LEMMA SharingInvariant == SharingSpec => []SharingInv
<1>1. QED
  BY SharingInitially, SharingStep, PTL DEF SharingSpec

\* Every variable keeps its type, and tokens of rows were made, for any number of
\* conversations and tokens.
THEOREM SharingTypes == SharingSpec => []SharingTypeOK
<1>1. SharingInv => SharingTypeOK
  BY DEF SharingInv
<1>2. QED
  BY <1>1, SharingInvariant, PTL

\* However the popover's requests overlap with those of other pages and with
\* deletions: with nothing under way it shows the link of its conversation.
THEOREM SharingCorrect == SharingSpec => []PopoverIsRight
<1>1. QED
  BY PopoverFollows, SharingInvariant, PTL

\* No step of anybody revives a link that does not work.
THEOREM LinksCorrect == SharingSpec => RevokedStaysDead
<1>1. SharingInv /\ [SharingNext]_shareVars
        => [\A t \in 1 .. Len(owner) : ~LinkOpens(t) => ~LinkOpens(t)']_shareVars
  BY LinksOnlyEnd
<1>2. QED
  BY <1>1, SharingInvariant, PTL DEF SharingSpec, RevokedStaysDead

-----------------------------------------------------------------------------
(* Reports.                                                                *)

\* Who never ran beside another is alone while it runs; a count that found
\* nothing pending still holds then; and a report that such a request declared
\* ready has no request, and no section that is not ready.
AloneInv == \A r \in InFlight : r \notin crowded => InFlight = {r}
CountInv ==
  \A d \in DraftRequests :
    (drafting[d].pc = "settle" /\ d \notin crowded /\ ~ drafting[d].pending)
      => ~ SectionsPending
ReadyInv ==
  (report.status = "ready" /\ report.alone) => InFlight = {} /\ ~ SectionsPending

\* The inductive invariant.
ReportsInv == ReportsTypeOK /\ TextOfItsSection /\ AloneInv /\ CountInv /\ ReadyInv

LEMMA SectionIdFacts ==
  /\ NoText \notin SectionIds
  /\ (CHOOSE s \in SectionIds : TRUE) \in SectionIds
<1>1. ASSUME NEW s \in SectionIds PROVE s # NoText
  <2>1. PICK o \in OutlineRequests, n \in 1 .. MaxSections : s = <<o, n>>
    BY DEF SectionIds
  <2>2. QED
    BY <2>1 DEF NoText
<1>2. PICK o \in OutlineRequests : TRUE
  BY ReportsAssumption
<1>3. <<o, 1>> \in SectionIds
  BY ReportsAssumption DEF SectionIds
<1>4. QED
  BY <1>1, <1>3

LEMMA ReportsInitially == ReportsInit => ReportsInv
<1> SUFFICES ASSUME ReportsInit PROVE ReportsInv
  OBVIOUS
<1>1. ReportsTypeOK
  BY SectionIdFacts, ReportsAssumption
  DEF ReportsInit, ReportsTypeOK, ReportStatus, Outlining, Drafting, OutlinePc, DraftPc
<1>2. InFlight = {} /\ DOMAIN sections = {}
  BY DEF ReportsInit, InFlight
<1>3. QED
  BY <1>1, <1>2 DEF ReportsInit, ReportsInv, TextOfItsSection, AloneInv, CountInv,
                    ReadyInv, SectionsPending

\* The requests under way after a step of one of them.
LEMMA Flight ==
  ASSUME ReportsInv
  PROVE  /\ \A o \in OutlineRequests, n \in Outlining :
              outlining' = [outlining EXCEPT ![o] = n] /\ UNCHANGED drafting =>
                InFlight' = IF n.pc \in {"idle", "over"} THEN InFlight \ {o}
                            ELSE InFlight \cup {o}
         /\ \A d \in DraftRequests, n \in Drafting :
              drafting' = [drafting EXCEPT ![d] = n] /\ UNCHANGED outlining =>
                InFlight' = IF n.pc \in {"idle", "over"} THEN InFlight \ {d}
                            ELSE InFlight \cup {d}
<1>1. ASSUME NEW o \in OutlineRequests, NEW n \in Outlining,
             outlining' = [outlining EXCEPT ![o] = n], UNCHANGED drafting
      PROVE  InFlight' = IF n.pc \in {"idle", "over"} THEN InFlight \ {o}
                         ELSE InFlight \cup {o}
  <2>1. o \notin DraftRequests
    BY ReportsAssumption
  <2>2. \A p \in OutlineRequests : outlining'[p] = IF p = o THEN n ELSE outlining[p]
    BY <1>1 DEF ReportsInv, ReportsTypeOK
  <2>3. QED
    BY <1>1, <2>1, <2>2 DEF InFlight
<1>2. ASSUME NEW d \in DraftRequests, NEW n \in Drafting,
             drafting' = [drafting EXCEPT ![d] = n], UNCHANGED outlining
      PROVE  InFlight' = IF n.pc \in {"idle", "over"} THEN InFlight \ {d}
                         ELSE InFlight \cup {d}
  <2>1. d \notin OutlineRequests
    BY ReportsAssumption
  <2>2. \A e \in DraftRequests : drafting'[e] = IF e = d THEN n ELSE drafting[e]
    BY <1>2 DEF ReportsInv, ReportsTypeOK
  <2>3. QED
    BY <1>2, <2>1, <2>2 DEF InFlight
<1>3. QED
  BY <1>1, <1>2

\* A request that starts: whoever is under way then is crowded, and the report is
\* being generated.
LEMMA StartKeeps ==
  ASSUME ReportsInv, NEW r \in OutlineRequests \cup DraftRequests,
         r \notin InFlight, InFlight' = InFlight \cup {r},
         Join(r), Status(r, "generating"), UNCHANGED sections, ReportsTypeOK',
         \A d \in DraftRequests : drafting'[d].pc = "settle" => drafting'[d] = drafting[d]
  PROVE  ReportsInv'
<1>1. AloneInv'
  BY DEF ReportsInv, AloneInv, Join
<1>2. CountInv'
  BY DEF ReportsInv, CountInv, Join, SectionsPending
<1>3. ReadyInv'
  BY DEF ReadyInv, Status
<1>4. TextOfItsSection'
  BY DEF ReportsInv, TextOfItsSection
<1>5. QED
  BY <1>1, <1>2, <1>3, <1>4 DEF ReportsInv

\* A step of a request under way that leaves report and sections alone.
LEMMA QuietKeeps ==
  ASSUME ReportsInv, NEW r \in InFlight, InFlight' \in {InFlight, InFlight \ {r}},
         UNCHANGED <<report, sections, crowded>>, ReportsTypeOK',
         \A d \in DraftRequests :
           drafting'[d].pc = "settle" =>
             drafting'[d] = drafting[d] \/ drafting'[d].pending = SectionsPending
  PROVE  ReportsInv'
<1>1. AloneInv'
  BY DEF ReportsInv, AloneInv
<1>2. CountInv'
  BY DEF ReportsInv, CountInv, SectionsPending
<1>3. ReadyInv'
  BY DEF ReportsInv, ReadyInv, SectionsPending
<1>4. TextOfItsSection'
  BY DEF ReportsInv, TextOfItsSection
<1>5. QED
  BY <1>1, <1>2, <1>3, <1>4 DEF ReportsInv

\* A step of a request under way that may change the sections and the report: to
\* ready only if nothing is pending and the request ends.
LEMMA LoudKeeps ==
  ASSUME ReportsInv, NEW r \in InFlight, InFlight' \in {InFlight, InFlight \ {r}},
         UNCHANGED crowded, ReportsTypeOK', TextOfItsSection',
         \A d \in DraftRequests :
           drafting'[d].pc = "settle" => d # r /\ drafting'[d] = drafting[d],
         \/ UNCHANGED report
         \/ report'.status # "ready"
         \/ /\ report'.alone => r \notin crowded /\ ~ SectionsPending
            /\ UNCHANGED sections /\ InFlight' = InFlight \ {r}
  PROVE  ReportsInv'
<1>1. AloneInv'
  BY DEF ReportsInv, AloneInv
<1>2. CountInv'
  <2> SUFFICES ASSUME NEW d \in DraftRequests, drafting'[d].pc = "settle",
                      d \notin crowded'
               PROVE  FALSE
    BY DEF CountInv
  <2>1. d \in InFlight /\ d # r
    BY DEF InFlight
  <2>2. QED
    BY <2>1 DEF ReportsInv, AloneInv
<1>3. ReadyInv'
  BY DEF ReportsInv, ReadyInv, SectionsPending, AloneInv
<1>4. QED
  BY <1>1, <1>2, <1>3 DEF ReportsInv

\* A row of a request after its step.
LEMMA OutlineGoesTyped ==
  ASSUME ReportsInv, NEW o \in OutlineRequests, NEW pc \in OutlinePc, OutlineGoes(o, pc)
  PROVE  /\ outlining' \in [OutlineRequests -> Outlining]
         /\ \E n \in Outlining : n.pc = pc /\ outlining' = [outlining EXCEPT ![o] = n]
<1> DEFINE n == [outlining[o] EXCEPT !.pc = pc]
<1>1. n \in Outlining /\ n.pc = pc
  BY DEF ReportsInv, ReportsTypeOK, Outlining
<1>2. outlining' = [outlining EXCEPT ![o] = n]
  BY DEF OutlineGoes
<1> HIDE DEF n
<1>3. QED
  BY <1>1, <1>2 DEF ReportsInv, ReportsTypeOK

LEMMA DraftGoesTyped ==
  ASSUME ReportsInv, NEW d \in DraftRequests, NEW pc \in DraftPc, DraftGoes(d, pc)
  PROVE  /\ drafting' \in [DraftRequests -> Drafting]
         /\ \E n \in Drafting : n.pc = pc /\ drafting' = [drafting EXCEPT ![d] = n]
         /\ \A e \in DraftRequests \ {d} : drafting'[e] = drafting[e]
         /\ drafting'[d].pc = pc
<1> DEFINE n == [drafting[d] EXCEPT !.pc = pc]
<1>1. n \in Drafting /\ n.pc = pc
  BY DEF ReportsInv, ReportsTypeOK, Drafting
<1>2. drafting' = [drafting EXCEPT ![d] = n]
  BY DEF DraftGoes
<1> HIDE DEF n
<1>3. QED
  BY <1>1, <1>2 DEF ReportsInv, ReportsTypeOK

\* A request under way goes on, or is over.
LEMMA OutlineFlight ==
  ASSUME ReportsInv, NEW o \in OutlineRequests, outlining[o].pc \notin {"idle", "over"},
         NEW pc \in OutlinePc, pc # "idle", OutlineGoes(o, pc), UNCHANGED drafting
  PROVE  /\ outlining' \in [OutlineRequests -> Outlining] /\ o \in InFlight
         /\ InFlight' = IF pc = "over" THEN InFlight \ {o} ELSE InFlight
         /\ o \notin DraftRequests
<1>1. PICK n \in Outlining : n.pc = pc /\ outlining' = [outlining EXCEPT ![o] = n]
  BY OutlineGoesTyped
<1>2. o \in InFlight /\ o \notin DraftRequests
  BY ReportsAssumption DEF InFlight
<1>3. InFlight' = IF pc = "over" THEN InFlight \ {o} ELSE InFlight \cup {o}
  BY <1>1, Flight
<1>4. QED
  BY <1>2, <1>3, OutlineGoesTyped

LEMMA DraftFlight ==
  ASSUME ReportsInv, NEW d \in DraftRequests, drafting[d].pc \notin {"idle", "over"},
         NEW pc \in DraftPc, pc # "idle", DraftGoes(d, pc), UNCHANGED outlining
  PROVE  /\ drafting' \in [DraftRequests -> Drafting] /\ d \in InFlight
         /\ InFlight' = IF pc = "over" THEN InFlight \ {d} ELSE InFlight
         /\ \A e \in DraftRequests \ {d} : drafting'[e] = drafting[e]
         /\ drafting'[d].pc = pc
<1>1. PICK n \in Drafting : n.pc = pc /\ drafting' = [drafting EXCEPT ![d] = n]
  BY DraftGoesTyped
<1>2. d \in InFlight
  BY DEF InFlight
<1>3. InFlight' = IF pc = "over" THEN InFlight \ {d} ELSE InFlight \cup {d}
  BY <1>1, Flight
<1>4. QED
  BY <1>2, <1>3, DraftGoesTyped

LEMMA StatusTyped ==
  ASSUME NEW r, NEW s \in ReportStatus, Status(r, s)
  PROVE  report' \in [status : ReportStatus, alone : BOOLEAN] /\ report'.status = s
         /\ (report'.alone <=> r \notin crowded)
BY DEF Status

LEMMA OutlineStep ==
  ASSUME ReportsInv, NEW o \in OutlineRequests,
         \/ StartOutline(o) \/ OutlineModel(o) \/ OutlineFails(o)
         \/ OutlineDeletes(o) \/ OutlineCommits(o)
  PROVE  ReportsInv'
<1>1. ReportsTypeOK /\ TextOfItsSection /\ o \notin DraftRequests
  BY ReportsAssumption DEF ReportsInv
<1>2. CASE StartOutline(o)
  <2>1. PICK n \in Outlining : n.pc = "model" /\ outlining' = [outlining EXCEPT ![o] = n]
    BY <1>2, OutlineGoesTyped DEF StartOutline, OutlinePc
  <2>2. InFlight' = InFlight \cup {o} /\ o \notin InFlight
    BY <1>1, <1>2, <2>1, Flight DEF StartOutline, InFlight
  <2>3. ReportsTypeOK'
    BY <1>1, <1>2, <2>1, StatusTyped
    DEF StartOutline, ReportsTypeOK, Join, InFlight, ReportStatus
  <2>4. QED
    BY <1>2, <2>2, <2>3, StartKeeps DEF StartOutline
<1>3. CASE OutlineModel(o)
  <2>1. PICK pc \in {"delete", "failed"} : OutlineGoes(o, pc)
    BY <1>3 DEF OutlineModel
  <2>2. /\ outlining' \in [OutlineRequests -> Outlining] /\ o \in InFlight
        /\ InFlight' = InFlight
    BY <1>3, <2>1, OutlineFlight DEF OutlineModel, OutlinePc
  <2>3. ReportsTypeOK'
    BY <1>1, <1>3, <2>2 DEF OutlineModel, ReportsTypeOK
  <2>4. QED
    BY <1>3, <2>2, <2>3, QuietKeeps DEF OutlineModel
<1>4. CASE OutlineFails(o)
  <2>1. /\ outlining' \in [OutlineRequests -> Outlining] /\ o \in InFlight
        /\ InFlight' = InFlight \ {o}
    BY <1>4, OutlineFlight DEF OutlineFails, OutlinePc
  <2>2. report' \in [status : ReportStatus, alone : BOOLEAN] /\ report'.status = "failed"
    BY <1>4, StatusTyped DEF OutlineFails, ReportStatus
  <2>3. ReportsTypeOK' /\ TextOfItsSection'
    BY <1>1, <1>4, <2>1, <2>2 DEF OutlineFails, ReportsTypeOK, TextOfItsSection
  <2>4. QED
    BY <1>1, <1>4, <2>1, <2>2, <2>3, LoudKeeps DEF OutlineFails
<1>5. CASE OutlineDeletes(o)
  <2> DEFINE n == [pc |-> "insert", seen |-> DOMAIN sections]
  <2>1. n \in Outlining /\ n.pc = "insert"
    BY <1>1 DEF ReportsTypeOK, Outlining, OutlinePc
  <2>2. outlining' = [outlining EXCEPT ![o] = n]
    BY <1>5 DEF OutlineDeletes
  <2> HIDE DEF n
  <2>3. o \in InFlight
    BY <1>5 DEF OutlineDeletes, InFlight
  <2>4. InFlight' = InFlight
    <3>1. UNCHANGED drafting
      BY <1>5 DEF OutlineDeletes
    <3>2. InFlight' = InFlight \cup {o}
      BY <2>1, <2>2, <3>1, Flight
    <3>3. QED
      BY <2>3, <3>2
  <2>5. ReportsTypeOK'
    BY <1>1, <1>5, <2>1, <2>2 DEF OutlineDeletes, ReportsTypeOK
  <2>6. QED
    BY <1>5, <2>3, <2>4, <2>5, QuietKeeps DEF OutlineDeletes
<1>6. CASE OutlineCommits(o)
  <2>1. /\ outlining' \in [OutlineRequests -> Outlining] /\ o \in InFlight
        /\ InFlight' = InFlight \ {o}
    BY <1>6, OutlineFlight DEF OutlineCommits, OutlinePc
  <2>2. CASE UNCHANGED <<report, sections>>
    <3>1. ReportsTypeOK'
      BY <1>1, <1>6, <2>1, <2>2 DEF OutlineCommits, ReportsTypeOK
    <3>2. QED
      BY <1>6, <2>1, <2>2, <3>1, QuietKeeps DEF OutlineCommits
  <2>3. ASSUME NEW n \in 1 .. MaxSections,
               sections' = [s \in {o} \X (1 .. n) |-> [status |-> "draft", text |-> NoText]],
               Status(o, "draft")
        PROVE  ReportsInv'
    <3>1. report' \in [status : ReportStatus, alone : BOOLEAN] /\ report'.status = "draft"
      BY <2>3, StatusTyped DEF ReportStatus
    <3>2. DOMAIN sections' = {o} \X (1 .. n) /\ {o} \X (1 .. n) \subseteq SectionIds
      BY <2>3, ReportsAssumption DEF SectionIds
    <3>3. [status |-> "draft", text |-> NoText] \in Section
      BY DEF Section, ReportStatus
    <3>4. sections' \in [DOMAIN sections' -> Section]
      BY <2>3, <3>3
    <3>5. \A s \in DOMAIN sections' : sections'[s].status = "draft" /\ sections'[s].text = NoText
      BY <2>3
    <3>6. ReportsTypeOK' /\ TextOfItsSection'
      BY <1>1, <1>6, <2>1, <3>1, <3>2, <3>4, <3>5
      DEF OutlineCommits, ReportsTypeOK, TextOfItsSection
    <3>7. QED
      BY <1>1, <1>6, <2>1, <3>1, <3>6, LoudKeeps DEF OutlineCommits
  <2>4. QED
    BY <1>6, <2>2, <2>3 DEF OutlineCommits
<1>7. QED
  BY <1>2, <1>3, <1>4, <1>5, <1>6

LEMMA DraftStep ==
  ASSUME ReportsInv, NEW d \in DraftRequests,
         \/ StartDraft(d) \/ LookUpSection(d) \/ DraftModel(d)
         \/ FailSection(d) \/ FailReport(d)
         \/ SaveSection(d) \/ CheckPending(d) \/ SettleReport(d)
  PROVE  ReportsInv'
<1>1. ReportsTypeOK /\ TextOfItsSection /\ drafting[d] \in Drafting
  BY DEF ReportsInv, ReportsTypeOK
<1>2. CASE StartDraft(d)
  <2>1. PICK s \in SectionIds :
          drafting' = [drafting EXCEPT ![d].pc = "look", ![d].section = s]
    BY <1>2 DEF StartDraft
  <2>2. PICK n : n = [drafting[d] EXCEPT !.pc = "look", !.section = s]
    OBVIOUS
  <2>3. n \in Drafting /\ n.pc = "look"
    BY <1>1, <2>2 DEF Drafting, DraftPc
  <2>4. drafting' = [drafting EXCEPT ![d] = n]
    BY <2>1, <2>2
  <2>5. InFlight' = InFlight \cup {d} /\ d \notin InFlight
    BY <1>2, <2>3, <2>4, Flight, ReportsAssumption DEF StartDraft, InFlight
  <2>6. ReportsTypeOK'
    BY <1>1, <1>2, <2>3, <2>4, StatusTyped
    DEF StartDraft, ReportsTypeOK, Join, InFlight, ReportStatus
  <2>7. ASSUME NEW e \in DraftRequests, drafting'[e].pc = "settle"
        PROVE  drafting'[e] = drafting[e]
    BY <1>1, <2>3, <2>4, <2>7 DEF ReportsTypeOK
  <2>8. QED
    BY <1>2, <2>5, <2>6, <2>7, StartKeeps DEF StartDraft
<1>3. CASE LookUpSection(d) \/ DraftModel(d)
  <2>1. PICK pc \in {"model", "over", "save", "fail_section"} : DraftGoes(d, pc)
    BY <1>3 DEF LookUpSection, DraftModel
  <2>2. /\ drafting' \in [DraftRequests -> Drafting] /\ d \in InFlight
        /\ InFlight' \in {InFlight, InFlight \ {d}}
        /\ \A e \in DraftRequests \ {d} : drafting'[e] = drafting[e]
        /\ drafting'[d].pc = pc
    BY <1>3, <2>1, DraftFlight DEF LookUpSection, DraftModel, DraftPc
  <2>3. ReportsTypeOK'
    BY <1>1, <1>3, <2>2 DEF LookUpSection, DraftModel, ReportsTypeOK
  <2>4. \A e \in DraftRequests : drafting'[e].pc = "settle" => drafting'[e] = drafting[e]
    BY <2>2
  <2>5. QED
    BY <1>3, <2>2, <2>3, <2>4, QuietKeeps DEF LookUpSection, DraftModel
<1>4. CASE FailReport(d)
  <2>1. /\ drafting' \in [DraftRequests -> Drafting] /\ d \in InFlight
        /\ InFlight' = InFlight \ {d}
        /\ \A e \in DraftRequests \ {d} : drafting'[e] = drafting[e]
        /\ drafting'[d].pc = "over"
    BY <1>4, DraftFlight DEF FailReport, DraftPc
  <2>2. report' \in [status : ReportStatus, alone : BOOLEAN] /\ report'.status = "failed"
    BY <1>4, StatusTyped DEF FailReport, ReportStatus
  <2>3. ReportsTypeOK' /\ TextOfItsSection'
    BY <1>1, <1>4, <2>1, <2>2 DEF FailReport, ReportsTypeOK, TextOfItsSection
  <2>4. QED
    BY <1>4, <2>1, <2>2, <2>3, LoudKeeps DEF FailReport
<1>5. CASE SettleReport(d)
  <2>1. /\ drafting' \in [DraftRequests -> Drafting] /\ d \in InFlight
        /\ InFlight' = InFlight \ {d}
        /\ \A e \in DraftRequests \ {d} : drafting'[e] = drafting[e]
        /\ drafting'[d].pc = "over"
    BY <1>5, DraftFlight DEF SettleReport, DraftPc
  <2>2. PICK s \in {"generating", "ready"} :
          /\ Status(d, s)
          /\ s = "ready" => ~ drafting[d].pending
    BY <1>5, <1>1 DEF SettleReport, Drafting
  <2>3. /\ report' \in [status : ReportStatus, alone : BOOLEAN] /\ report'.status = s
        /\ report'.alone <=> d \notin crowded
    BY <2>2, StatusTyped DEF ReportStatus
  <2>4. ReportsTypeOK' /\ TextOfItsSection'
    BY <1>1, <1>5, <2>1, <2>3 DEF SettleReport, ReportsTypeOK, TextOfItsSection
  <2>5. (report'.status = "ready" /\ report'.alone) => ~ SectionsPending
    BY <1>5, <2>2, <2>3 DEF SettleReport, ReportsInv, CountInv
  <2>6. QED
    BY <1>5, <2>1, <2>3, <2>4, <2>5, LoudKeeps DEF SettleReport
<1>6. CASE CheckPending(d)
  <2>1. PICK n : n = [drafting[d] EXCEPT !.pc = "settle", !.pending = SectionsPending]
    OBVIOUS
  <2>2. SectionsPending \in BOOLEAN
    BY DEF SectionsPending
  <2>3. n \in Drafting /\ n.pc = "settle" /\ n.pending = SectionsPending
    BY <1>1, <2>1, <2>2 DEF Drafting, DraftPc
  <2>4. drafting' = [drafting EXCEPT ![d] = n]
    BY <1>6, <2>1 DEF CheckPending
  <2>5. d \in InFlight
    BY <1>6 DEF CheckPending, InFlight
  <2>6. InFlight' = InFlight
    <3>1. UNCHANGED outlining
      BY <1>6 DEF CheckPending
    <3>2. InFlight' = InFlight \cup {d}
      BY <2>3, <2>4, <3>1, Flight
    <3>3. QED
      BY <2>5, <3>2
  <2>7. ReportsTypeOK'
    <3>1. drafting' \in [DraftRequests -> Drafting]
      BY <1>1, <2>3, <2>4 DEF ReportsTypeOK
    <3>2. QED
      BY <1>1, <1>6, <3>1 DEF CheckPending, ReportsTypeOK
  <2>8. \A e \in DraftRequests :
          drafting'[e] = drafting[e] \/ drafting'[e].pending = SectionsPending
    BY <1>1, <2>3, <2>4 DEF ReportsTypeOK
  <2>9. QED
    BY <1>6, <2>5, <2>6, <2>7, <2>8, QuietKeeps DEF CheckPending
<1>7. CASE FailSection(d) \/ SaveSection(d)
  <2>1. PICK pc \in {"fail_report", "check"} : DraftGoes(d, pc)
    BY <1>7 DEF FailSection, SaveSection
  <2>2. /\ drafting' \in [DraftRequests -> Drafting] /\ d \in InFlight
        /\ InFlight' = InFlight
        /\ \A e \in DraftRequests \ {d} : drafting'[e] = drafting[e]
        /\ drafting'[d].pc = pc
    BY <1>7, <2>1, DraftFlight DEF FailSection, SaveSection, DraftPc
  <2>3. sections' = [s \in DOMAIN sections |-> sections'[s]] /\ DOMAIN sections' = DOMAIN sections
    BY <1>7 DEF FailSection, SaveSection
  <2>4. ASSUME NEW s \in DOMAIN sections'
        PROVE  /\ sections'[s] \in Section /\ sections'[s].text \in {NoText, s}
               /\ sections'[s].status = "ready" => sections'[s].text # NoText
    <3>1. /\ s \in SectionIds /\ sections[s] \in Section /\ sections[s].text \in {NoText, s}
          /\ sections[s].status = "ready" => sections[s].text # NoText
      BY <1>1, <2>3 DEF ReportsTypeOK, TextOfItsSection
    <3>2. PICK x : x = [sections[s] EXCEPT !.status = "failed"]
      OBVIOUS
    <3>3. x \in Section /\ x.text = sections[s].text /\ x.status = "failed"
      BY <3>1, <3>2 DEF Section, ReportStatus
    <3>4. PICK y : y = [status |-> "ready", text |-> s]
      OBVIOUS
    <3>5. y \in Section /\ y.text = s /\ y.status = "ready" /\ s # NoText
      BY <3>1, <3>4, SectionIdFacts DEF Section, ReportStatus
    <3>6. sections'[s] \in {sections[s], x, y}
      BY <1>7, <2>3, <3>2, <3>4 DEF FailSection, SaveSection
    <3>7. QED
      BY <3>1, <3>3, <3>5, <3>6
  <2>5. ReportsTypeOK' /\ TextOfItsSection'
    BY <1>1, <1>7, <2>2, <2>3, <2>4
    DEF FailSection, SaveSection, ReportsTypeOK, TextOfItsSection
  <2>6. \A e \in DraftRequests :
          drafting'[e].pc = "settle" => e # d /\ drafting'[e] = drafting[e]
    BY <2>2
  <2>7. QED
    BY <1>7, <2>2, <2>5, <2>6, LoudKeeps DEF FailSection, SaveSection
<1>8. QED
  BY <1>2, <1>3, <1>4, <1>5, <1>6, <1>7

LEMMA ReportsStep == ReportsInv /\ [ReportsNext]_reportVars => ReportsInv'
<1> SUFFICES ASSUME ReportsInv, [ReportsNext]_reportVars PROVE ReportsInv'
  OBVIOUS
<1>1. CASE RequestDies
  <2>1. deaths' \in 0 .. MaxDeaths
    BY <1>1, ReportsAssumption DEF RequestDies, ReportsInv, ReportsTypeOK
  <2>2. ASSUME NEW o \in InFlight \cap OutlineRequests,
               OutlineGoes(o, "over"), UNCHANGED drafting
        PROVE  ReportsInv'
    <3>1. /\ outlining' \in [OutlineRequests -> Outlining]
          /\ InFlight' = InFlight \ {o}
      BY <2>2, OutlineFlight, ReportsAssumption DEF InFlight, OutlinePc
    <3>2. ReportsTypeOK'
      BY <1>1, <2>1, <2>2, <3>1 DEF RequestDies, ReportsInv, ReportsTypeOK
    <3>3. QED
      BY <1>1, <2>2, <3>1, <3>2, QuietKeeps DEF RequestDies
  <2>3. ASSUME NEW d \in InFlight \cap DraftRequests,
               DraftGoes(d, "over"), UNCHANGED outlining
        PROVE  ReportsInv'
    <3>1. /\ drafting' \in [DraftRequests -> Drafting]
          /\ InFlight' = InFlight \ {d}
          /\ \A e \in DraftRequests \ {d} : drafting'[e] = drafting[e]
          /\ drafting'[d].pc = "over"
      BY <2>3, DraftFlight, ReportsAssumption DEF InFlight, DraftPc
    <3>2. ReportsTypeOK'
      BY <1>1, <2>1, <2>3, <3>1 DEF RequestDies, ReportsInv, ReportsTypeOK
    <3>3. QED
      BY <1>1, <2>3, <3>1, <3>2, QuietKeeps DEF RequestDies
  <2>4. QED
    BY <1>1, <2>2, <2>3 DEF RequestDies
<1>2. CASE UNCHANGED reportVars
  BY <1>2 DEF reportVars, ReportsInv, ReportsTypeOK, TextOfItsSection, AloneInv,
              CountInv, ReadyInv, InFlight, SectionsPending
<1>3. QED
  BY <1>1, <1>2, OutlineStep, DraftStep DEF ReportsNext

\* Every variable keeps its type, for any number of requests and sections.
THEOREM ReportTypes == ReportsSpec => []ReportsTypeOK
<1>1. ReportsInv => ReportsTypeOK
  BY DEF ReportsInv
<1>2. QED
  BY <1>1, ReportsInitially, ReportsStep, PTL DEF ReportsSpec

\* However many requests outline and draft, and die in the middle: a report that
\* was declared ready by a request that ran alone is, and a text is that of its
\* section.
THEOREM ReportsCorrect == ReportsSpec => [](ReadyIsComplete /\ TextOfItsSection)
<1>1. ReportsInv => ReadyIsComplete /\ TextOfItsSection
  BY DEF ReportsInv, ReadyInv, ReadyIsComplete, SectionsPending
<1>2. QED
  BY <1>1, ReportsInitially, ReportsStep, PTL DEF ReportsSpec

-----------------------------------------------------------------------------
(* Attachments.                                                            *)

Shown == DOMAIN items
Uploads == DOMAIN uploads

\* The rows of the composer's entries and of its calls are those of their files;
\* a draft number is used up with every message that is answered.
PlacesInv ==
  /\ Len(sends) <= MaxSends
  /\ composer.draft <= IF sending = 0 THEN Len(sends) + 1 ELSE Len(sends)
  /\ \A f \in Uploads : uploads[f].at = "reply" =>
       uploads[f].row # 0 /\ rows[uploads[f].row].file = f
  /\ \A f \in Uploads : uploads[f].at # "sending" =>
       (uploads[f].conv = 0 <=> uploads[f].draft # 0)
  /\ \A r \in Rows : rows[r].conv = 0 <=> rows[r].draft # 0
  /\ \A s \in DOMAIN sends :
       /\ sends[s].pc = "create" <=> sends[s].conv = 0
       /\ (sends[s].conv = 0 /\ sends[s].draft = 0) => sends[s].ids = {}
\* What the composer shows: an entry whose call or poll goes on says so, and one
\* that is ready has its row; while a message is sent only late entries are open.
EntriesInv ==
  /\ \A f \in Uploads \cap Shown : items[f].status = "uploading"
  /\ \A f \in polling \cap Shown : items[f].status = "parsing" /\ items[f].row # 0
  /\ \A f \in polling : \E r \in Rows : rows[r].file = f
  /\ \A f \in Shown : items[f].status = "ready" => items[f].row # 0
  /\ sending # 0 => \A f \in Shown \ late : items[f].status \notin Open
\* Files are uploaded to where the composer is, those of an earlier composer were late.
UploadsInv ==
  /\ Uploads \ Shown \subseteq late
  /\ \A f \in Uploads \cap Shown :
       /\ uploads[f].conv = composer.conv
       /\ uploads[f].at # "sending" =>
            uploads[f].draft = IF composer.conv = 0 THEN composer.draft ELSE 0
\* A row in a draft is in that of the composer, which shows it.
DraftsInv ==
  /\ \A r \in Rows : rows[r].draft # 0 =>
       \/ rows[r].file \in late
       \/ composer.conv = 0 /\ rows[r].draft = composer.draft /\ rows[r].file \in Shown
  /\ (sending # 0 /\ composer.conv = 0) =>
       /\ Shown \ late # {} => sends[sending].draft = composer.draft
       /\ sends[sending].pc = "reply" =>
            \A r \in Rows : rows[r].draft # 0 => rows[r].file \in late
\* A row is where the composer is, unless a message has just taken it along.
Here(r) ==
  IF composer.conv = 0
  THEN \/ rows[r].draft = composer.draft
       \/ sending # 0 /\ sends[sending].pc = "reply"
  ELSE rows[r].conv = composer.conv
\* Without a loss only one message is under way, its handler lists what it names, and
\* its files are in its draft until it claims them and in its conversation from then
\* on; and the rows the composer knows of are where the composer is.
SentInv ==
  losses = 0 =>
    /\ \A s \in DOMAIN sends :
         /\ sends[s].pc \in {"create", "select", "claim", "reply"} => sending = s
         /\ sends[s].pc \in {"claim", "reply", "over"} => sends[s].listed = sends[s].ids
         /\ \A r \in sends[s].ids :
              /\ sends[s].pc \in {"create", "select", "claim"} =>
                   IF sends[s].draft # 0 THEN rows[r].draft = sends[s].draft
                   ELSE rows[r].conv = sends[s].conv
              /\ sends[s].pc \in {"reply", "over"} => rows[r].conv = sends[s].conv
    /\ \A f \in Shown : items[f].row # 0 => Here(items[f].row)
    /\ \A f \in Shown \cap Uploads : uploads[f].at = "reply" => Here(uploads[f].row)

\* The inductive invariant.
AttachmentsInv ==
  /\ AttachmentsTypeOK /\ PlacesInv /\ EntriesInv
  /\ UploadsInv /\ DraftsInv /\ SentInv

\* The types, part by part.
ComposerTypes ==
  /\ composer \in [conv : 0 .. MaxSends, draft : Drafts]
  /\ polling \subseteq Files /\ losses \in 0 .. MaxLosses /\ late \subseteq Files
ItemsTypes ==
  /\ Shown \subseteq Files
  /\ \A f \in Shown :
       /\ items[f] \in [status : ItemStatus, row : 0 .. Len(rows)]
       /\ items[f].row # 0 => rows[items[f].row].file = f
UploadsTypes ==
  /\ Uploads \subseteq Files
  /\ \A f \in Uploads :
       uploads[f] \in [at : {"sending", "posted", "reply"}, conv : 0 .. MaxSends,
                       draft : 0 .. MaxSends + 1, row : 0 .. Len(rows)]
RowType == [file : Files, conv : 0 .. MaxSends, draft : 0 .. MaxSends + 1]
SendType ==
  [pc : {"create", "select", "claim", "reply", "refused", "over"},
   conv : 0 .. MaxSends, ids : SUBSET Rows, listed : SUBSET Rows,
   draft : 0 .. MaxSends + 1]
SendsTypes == rows \in Seq(RowType) /\ sends \in Seq(SendType) /\ sending \in 0 .. Len(sends)

LEMMA TypeParts ==
  AttachmentsTypeOK <=> ComposerTypes /\ ItemsTypes /\ UploadsTypes /\ SendsTypes
BY DEF AttachmentsTypeOK, ComposerTypes, ItemsTypes, UploadsTypes, SendsTypes,
       RowType, SendType, Shown, Uploads

LEMMA TypePartsNext ==
  AttachmentsTypeOK' <=> ComposerTypes' /\ ItemsTypes' /\ UploadsTypes' /\ SendsTypes'
BY DEF AttachmentsTypeOK, ComposerTypes, ItemsTypes, UploadsTypes, SendsTypes,
       RowType, SendType, Shown, Uploads

\* A list stays one when more may be in it.
LEMMA SeqGrows ==
  ASSUME NEW S, NEW T, S \subseteq T, NEW s \in Seq(S) PROVE s \in Seq(T)
OBVIOUS

LEMMA SendOf ==
  ASSUME SendsTypes, NEW s \in DOMAIN sends
  PROVE  sends[s] \in SendType /\ s \in 1 .. Len(sends) /\ Len(sends) \in Nat
BY DEF SendsTypes

\* The start.
LEMMA AttachmentsInitially == AttachmentsInit => AttachmentsInv
<1> SUFFICES ASSUME AttachmentsInit PROVE AttachmentsInv
  OBVIOUS
<1> USE AttachmentsAssumption
<1>1. AttachmentsTypeOK
  BY DEF AttachmentsInit, AttachmentsTypeOK, Drafts, Conversations, Rows
<1>2. PlacesInv /\ EntriesInv /\ UploadsInv
  BY DEF AttachmentsInit, PlacesInv, EntriesInv, UploadsInv, Rows, Shown, Uploads
<1>3. DraftsInv /\ SentInv
  BY DEF AttachmentsInit, DraftsInv, SentInv, Rows, Shown, Uploads
<1>4. QED
  BY <1>1, <1>2, <1>3 DEF AttachmentsInv

\* A file is picked.
LEMMA PickKeeps ==
  ASSUME AttachmentsInv, NEW f \in Files, Pick(f) PROVE AttachmentsInv'
<1> USE AttachmentsAssumption
<1>0. ComposerTypes /\ ItemsTypes /\ UploadsTypes /\ SendsTypes
  BY TypeParts DEF AttachmentsInv
<1>1. /\ Shown' = Shown \cup {f} /\ Uploads' = Uploads \cup {f}
      /\ items'[f] = [status |-> "uploading", row |-> 0]
      /\ \A g \in Shown : items'[g] = items[g] /\ g # f
      /\ uploads'[f] = [at |-> "sending", conv |-> composer.conv, draft |-> 0, row |-> 0]
      /\ \A g \in Uploads : uploads'[g] = uploads[g] /\ g # f
      /\ f \notin late /\ \A r \in Rows : rows[r].file # f
  BY DEF Pick, With, Shown, Uploads
<1>2. UNCHANGED <<composer, polling, rows, sends, sending, losses>>
      /\ late' = (IF sending = 0 THEN late ELSE late \cup {f})
  BY DEF Pick
<1>3. AttachmentsTypeOK'
  <2>1. ComposerTypes'
    BY <1>0, <1>1, <1>2 DEF ComposerTypes
  <2>2. ItemsTypes'
    BY <1>0, <1>1, <1>2 DEF ItemsTypes, ItemStatus, Open
  <2>3. UploadsTypes'
    BY <1>0, <1>1, <1>2 DEF UploadsTypes, ComposerTypes, Drafts
  <2>4. SendsTypes'
    BY <1>0, <1>1, <1>2 DEF SendsTypes, RowType, SendType, Rows
  <2>5. QED
    BY <2>1, <2>2, <2>3, <2>4, TypePartsNext
<1>4. PlacesInv'
  BY <1>0, <1>1, <1>2 DEF AttachmentsInv, PlacesInv, Rows
<1>5. EntriesInv'
  BY <1>0, <1>1, <1>2 DEF AttachmentsInv, EntriesInv, Rows
<1>6. UploadsInv'
  BY <1>0, <1>1, <1>2 DEF AttachmentsInv, UploadsInv
<1>7. DraftsInv'
  BY <1>0, <1>1, <1>2 DEF AttachmentsInv, DraftsInv, Rows
<1>8. SentInv'
  BY <1>0, <1>1, <1>2 DEF AttachmentsInv, SentInv, Here
<1>9. QED
  BY <1>3, <1>4, <1>5, <1>6, <1>7, <1>8 DEF AttachmentsInv

\* An upload that fails, or throws.
LEMMA UploadFailsKeeps ==
  ASSUME AttachmentsInv, NEW f \in Files, UploadFails(f) PROVE AttachmentsInv'
<1> USE AttachmentsAssumption
<1>0. ComposerTypes /\ ItemsTypes /\ UploadsTypes /\ SendsTypes
  BY TypeParts DEF AttachmentsInv
<1>1. /\ f \in Uploads /\ Uploads' = Uploads \ {f}
      /\ \A g \in Uploads' : uploads'[g] = uploads[g]
      /\ Shown' = Shown
      /\ \A g \in Shown \ {f} : items'[g] = items[g]
      /\ f \in Shown => \/ items'[f] = items[f]
                        \/ items'[f] = [items[f] EXCEPT !.status = "failed"]
  BY DEF UploadFails, Without, Mark, Shown, Uploads
<1>2. /\ UNCHANGED <<composer, polling, rows, sends, sending, late>>
      /\ losses' \in 0 .. MaxLosses
      /\ losses' = 0 => losses = 0
  BY <1>0 DEF UploadFails, Loss, ComposerTypes
<1>2a. \A g \in Shown : /\ items'[g].row = items[g].row
                        /\ items'[g].status \in {items[g].status, "failed"}
                        /\ items'[g] \in [status : ItemStatus, row : 0 .. Len(rows)]
                        /\ g # f => items'[g] = items[g]
  BY <1>0, <1>1 DEF ItemsTypes, ItemStatus
<1>3. AttachmentsTypeOK'
  <2>1. ComposerTypes'
    BY <1>0, <1>1, <1>2 DEF ComposerTypes
  <2>2. ItemsTypes'
    BY <1>0, <1>1, <1>2, <1>2a DEF ItemsTypes, ItemStatus, Open
  <2>3. UploadsTypes'
    BY <1>0, <1>1, <1>2, <1>2a DEF UploadsTypes, ComposerTypes, Drafts
  <2>4. SendsTypes'
    BY <1>0, <1>1, <1>2, <1>2a DEF SendsTypes, RowType, SendType, Rows
  <2>5. QED
    BY <2>1, <2>2, <2>3, <2>4, TypePartsNext
<1>4. PlacesInv'
  BY <1>0, <1>1, <1>2 DEF AttachmentsInv, PlacesInv, Rows
<1>5. EntriesInv'
  BY <1>0, <1>1, <1>2, <1>2a DEF AttachmentsInv, EntriesInv, Rows, Open
<1>6. UploadsInv'
  BY <1>0, <1>1, <1>2 DEF AttachmentsInv, UploadsInv
<1>7. DraftsInv'
  BY <1>0, <1>1, <1>2 DEF AttachmentsInv, DraftsInv, Rows
<1>8. SentInv'
  BY <1>0, <1>1, <1>2, <1>2a DEF AttachmentsInv, SentInv, Here
<1>9. QED
  BY <1>3, <1>4, <1>5, <1>6, <1>7, <1>8 DEF AttachmentsInv

\* The attachment is posted.
LEMMA PostKeeps ==
  ASSUME AttachmentsInv, NEW f \in Files, PostAttachment(f) PROVE AttachmentsInv'
<1> USE AttachmentsAssumption
<1>0. ComposerTypes /\ ItemsTypes /\ UploadsTypes /\ SendsTypes
  BY TypeParts DEF AttachmentsInv
<1>1. /\ f \in Uploads /\ uploads[f].at = "sending" /\ Uploads' = Uploads
      /\ \A g \in Uploads \ {f} : uploads'[g] = uploads[g]
      /\ uploads'[f] = [at |-> "posted", conv |-> uploads[f].conv,
                        draft |-> IF uploads[f].conv = 0 THEN composer.draft ELSE 0,
                        row |-> uploads[f].row]
  BY <1>0 DEF PostAttachment, Uploads, UploadsTypes
<1>2. UNCHANGED <<composer, items, polling, rows, sends, sending, losses, late>>
      /\ Shown' = Shown /\ Rows' = Rows
  BY DEF PostAttachment, Shown, Rows
<1>3. AttachmentsTypeOK'
  <2>1. ComposerTypes'
    BY <1>0, <1>1, <1>2 DEF ComposerTypes
  <2>2. ItemsTypes'
    BY <1>0, <1>1, <1>2 DEF ItemsTypes, ItemStatus, Open
  <2>3. UploadsTypes'
    BY <1>0, <1>1, <1>2 DEF UploadsTypes, ComposerTypes, Drafts
  <2>4. SendsTypes'
    BY <1>0, <1>1, <1>2 DEF SendsTypes, RowType, SendType, Rows
  <2>5. QED
    BY <2>1, <2>2, <2>3, <2>4, TypePartsNext
<1>4. PlacesInv'
  <2>1. uploads'[f].conv = 0 <=> uploads'[f].draft # 0
    BY <1>0, <1>1 DEF ComposerTypes, Drafts
  <2>2. QED
    BY <1>1, <1>2, <2>1 DEF AttachmentsInv, PlacesInv
<1>5. EntriesInv'
  BY <1>0, <1>1, <1>2 DEF AttachmentsInv, EntriesInv, Rows, Shown
<1>6. UploadsInv'
  BY <1>0, <1>1, <1>2 DEF AttachmentsInv, UploadsInv, Shown
<1>7. DraftsInv'
  BY <1>0, <1>1, <1>2 DEF AttachmentsInv, DraftsInv, Rows, Shown
<1>8. SentInv'
  BY <1>0, <1>1, <1>2 DEF AttachmentsInv, SentInv, Here, Shown
<1>9. QED
  BY <1>3, <1>4, <1>5, <1>6, <1>7, <1>8 DEF AttachmentsInv

\* The attachment is registered.
LEMMA RegisterKeeps ==
  ASSUME AttachmentsInv, NEW f \in Files, Register(f) PROVE AttachmentsInv'
<1> USE AttachmentsAssumption
<1>0. ComposerTypes /\ ItemsTypes /\ UploadsTypes /\ SendsTypes
  BY TypeParts DEF AttachmentsInv
<1>1. /\ f \in Uploads /\ uploads[f].at = "posted" /\ Uploads' = Uploads
      /\ \A g \in Uploads \ {f} : uploads'[g] = uploads[g]
      /\ uploads'[f] = [at |-> "reply", conv |-> uploads[f].conv,
                        draft |-> uploads[f].draft, row |-> Len(rows) + 1]
      /\ rows' = Append(rows, [file |-> f, conv |-> uploads[f].conv,
                               draft |-> uploads[f].draft])
  <2>1. rows' = Append(rows, [file |-> f, conv |-> uploads[f].conv,
                               draft |-> uploads[f].draft]) /\ Len(rows') = Len(rows) + 1
    BY <1>0 DEF Register, SendsTypes
  <2>2. QED
    BY <1>0, <2>1 DEF Register, Uploads, UploadsTypes
<1>2. UNCHANGED <<composer, items, polling, sends, sending, losses, late>>
      /\ Shown' = Shown
  BY DEF Register, Shown
<1>3. /\ rows' \in Seq(RowType)
      /\ Len(rows) \in Nat /\ Len(rows') = Len(rows) + 1
      /\ Rows' = Rows \cup {Len(rows) + 1} /\ Len(rows) + 1 \notin Rows
      /\ \A r \in Rows : rows'[r] = rows[r]
      /\ rows'[Len(rows) + 1] = [file |-> f, conv |-> uploads[f].conv,
                                 draft |-> uploads[f].draft]
  <2>1. [file |-> f, conv |-> uploads[f].conv, draft |-> uploads[f].draft] \in RowType
    BY <1>0, <1>1 DEF UploadsTypes, RowType
  <2>2. QED
    BY <1>0, <1>1, <2>1 DEF SendsTypes, Rows
<1>4. AttachmentsTypeOK'
  <2>1. ComposerTypes'
    BY <1>0, <1>1, <1>2 DEF ComposerTypes
  <2>2. ItemsTypes'
    BY <1>0, <1>1, <1>2, <1>3 DEF ItemsTypes, ItemStatus, Open
  <2>3. UploadsTypes'
    <3>1. ASSUME NEW g \in Uploads'
          PROVE  uploads'[g] \in [at : {"sending", "posted", "reply"},
                   conv : 0 .. MaxSends, draft : 0 .. MaxSends + 1,
                   row : 0 .. Len(rows) + 1]
      <4>1. uploads[g] \in [at : {"sending", "posted", "reply"},
                   conv : 0 .. MaxSends, draft : 0 .. MaxSends + 1,
                   row : 0 .. Len(rows)]
        BY <1>0, <1>1, <3>1 DEF UploadsTypes
      <4>2. CASE g = f
        BY <1>1, <1>3, <4>1, <4>2
      <4>3. CASE g # f
        BY <1>1, <1>3, <3>1, <4>1, <4>3
      <4>4. QED
        BY <4>2, <4>3
    <3>2. QED
      BY <1>0, <1>1, <1>3, <3>1 DEF UploadsTypes
  <2>4. SendsTypes'
    <3>1. SendType \subseteq SendType'
      BY <1>3 DEF SendType
    <3>2. sends' \in Seq(SendType')
      BY <1>0, <1>2, <3>1, SeqGrows DEF SendsTypes
    <3>3. QED
      BY <1>0, <1>2, <1>3, <3>2 DEF SendsTypes, RowType
  <2>5. QED
    BY <2>1, <2>2, <2>3, <2>4, TypePartsNext
<1>5. PlacesInv'
  <2>1. /\ Len(sends') <= MaxSends
        /\ composer'.draft <= IF sending' = 0 THEN Len(sends') + 1 ELSE Len(sends')
        /\ \A s \in DOMAIN sends' :
             /\ sends'[s].pc = "create" <=> sends'[s].conv = 0
             /\ (sends'[s].conv = 0 /\ sends'[s].draft = 0) => sends'[s].ids = {}
    BY <1>2 DEF AttachmentsInv, PlacesInv
  <2>2. \A g \in Uploads' : uploads'[g].at # "sending" =>
          (uploads'[g].conv = 0 <=> uploads'[g].draft # 0)
    BY <1>1 DEF AttachmentsInv, PlacesInv
  <2>3. ASSUME NEW g \in Uploads', uploads'[g].at = "reply"
        PROVE  uploads'[g].row # 0 /\ rows'[uploads'[g].row].file = g
    <3>1. CASE g = f
      BY <1>1, <1>3, <3>1
    <3>2. CASE g # f
      <4>1. uploads[g].row \in Rows /\ rows[uploads[g].row].file = g
        BY <1>0, <1>1, <2>3, <3>2 DEF AttachmentsInv, PlacesInv, UploadsTypes, Rows
      <4>2. QED
        BY <1>1, <1>3, <2>3, <3>2, <4>1 DEF Rows
    <3>3. QED
      BY <3>1, <3>2
  <2>4. \A r \in Rows' : rows'[r].conv = 0 <=> rows'[r].draft # 0
    <3>1. uploads[f].conv = 0 <=> uploads[f].draft # 0
      BY <1>1 DEF AttachmentsInv, PlacesInv
    <3>2. \A r \in Rows : rows[r].conv = 0 <=> rows[r].draft # 0
      BY DEF AttachmentsInv, PlacesInv
    <3>3. QED
      BY <1>3, <3>1, <3>2
  <2>5. QED
    BY <2>1, <2>2, <2>3, <2>4 DEF PlacesInv
<1>6. EntriesInv'
  <2>1. \A g \in polling' : \E r \in Rows' : rows'[r].file = g
    BY <1>2, <1>3 DEF AttachmentsInv, EntriesInv
  <2>2. QED
    BY <1>1, <1>2, <2>1 DEF AttachmentsInv, EntriesInv
<1>7. UploadsInv'
  BY <1>1, <1>2 DEF AttachmentsInv, UploadsInv
<1>8. DraftsInv'
  <2>1. uploads[f].draft # 0 =>
          \/ f \in late
          \/ composer.conv = 0 /\ uploads[f].draft = composer.draft /\ f \in Shown
    BY <1>1 DEF AttachmentsInv, UploadsInv, PlacesInv
  <2>2. sending # 0 => f \in late
    BY <1>1 DEF AttachmentsInv, UploadsInv, EntriesInv, Open
  <2>3. QED
    BY <1>2, <1>3, <2>1, <2>2 DEF AttachmentsInv, DraftsInv
<1>9. SentInv'
  <2>1. \A s \in DOMAIN sends : sends[s].ids \subseteq Rows
    BY <1>0, SendOf DEF SendType
  <2>2. \A g \in Shown : items[g].row # 0 => items[g].row \in Rows
    BY <1>0 DEF ItemsTypes, Rows, SendsTypes
  <2>3. \A g \in Uploads : (uploads[g].at = "reply" /\ g \in Shown) => uploads[g].row \in Rows
    BY <1>0 DEF UploadsTypes, AttachmentsInv, PlacesInv, Rows
  <2>4. f \in Shown =>
          IF composer.conv = 0 THEN rows'[Len(rows) + 1].draft = composer.draft
          ELSE rows'[Len(rows) + 1].conv = composer.conv
    BY <1>1, <1>3 DEF AttachmentsInv, UploadsInv
  <2>5. \A s \in DOMAIN sends : \A r \in sends[s].ids : rows'[r] = rows[r]
    BY <1>3, <2>1
  <2>6. ASSUME losses' = 0
        PROVE  \A s \in DOMAIN sends :
         /\ sends[s].pc \in {"create", "select", "claim", "reply"} => sending = s
         /\ sends[s].pc \in {"claim", "reply", "over"} => sends[s].listed = sends[s].ids
         /\ \A r \in sends[s].ids :
              /\ sends[s].pc \in {"create", "select", "claim"} =>
                   IF sends[s].draft # 0 THEN rows'[r].draft = sends[s].draft
                   ELSE rows'[r].conv = sends[s].conv
              /\ sends[s].pc \in {"reply", "over"} => rows'[r].conv = sends[s].conv
    BY <1>2, <2>5, <2>6 DEF AttachmentsInv, SentInv
  <2>7. ASSUME losses' = 0, NEW g \in Shown, items[g].row # 0
        PROVE  IF composer.conv = 0
               THEN rows'[items[g].row].draft = composer.draft
                    \/ (sending # 0 /\ sends[sending].pc = "reply")
               ELSE rows'[items[g].row].conv = composer.conv
    BY <1>2, <1>3, <2>2, <2>7 DEF AttachmentsInv, SentInv, Here
  <2>8. ASSUME losses' = 0, NEW g \in Shown \cap Uploads', uploads'[g].at = "reply"
        PROVE  IF composer.conv = 0
               THEN rows'[uploads'[g].row].draft = composer.draft
                    \/ (sending # 0 /\ sends[sending].pc = "reply")
               ELSE rows'[uploads'[g].row].conv = composer.conv
    <3>1. CASE g = f
      BY <1>1, <2>4, <2>8, <3>1
    <3>2. CASE g # f
      <4>1. uploads'[g] = uploads[g] /\ g \in Shown \cap Uploads /\ losses = 0
        BY <1>1, <1>2, <2>8, <3>2
      <4>2. uploads[g].row \in Rows /\ rows'[uploads[g].row] = rows[uploads[g].row]
        BY <1>3, <2>3, <2>8, <4>1
      <4>3. Here(uploads[g].row)
        BY <2>8, <4>1 DEF AttachmentsInv, SentInv
      <4>4. QED
        BY <4>1, <4>2, <4>3 DEF Here
    <3>3. QED
      BY <3>1, <3>2
  <2>9. QED
    BY <1>2, <2>6, <2>7, <2>8 DEF SentInv, Here
<1>10. QED
  BY <1>4, <1>5, <1>6, <1>7, <1>8, <1>9 DEF AttachmentsInv

\* The entry gets its row.
LEMMA RegisteredKeeps ==
  ASSUME AttachmentsInv, NEW f \in Files, Registered(f) PROVE AttachmentsInv'
<1> USE AttachmentsAssumption
<1>0. ComposerTypes /\ ItemsTypes /\ UploadsTypes /\ SendsTypes
  BY TypeParts DEF AttachmentsInv
<1>1. /\ f \in Uploads /\ uploads[f].at = "reply" /\ Uploads' = Uploads \ {f}
      /\ \A g \in Uploads' : uploads'[g] = uploads[g]
      /\ Shown' = Shown
      /\ \A g \in Shown \ {f} : items'[g] = items[g]
      /\ f \in Shown => /\ items'[f] = [status |-> "parsing", row |-> uploads[f].row]
                        /\ polling' = polling \cup {f}
      /\ f \notin Shown => polling' = polling
  BY DEF Registered, Without, Shown, Uploads
<1>2. UNCHANGED <<composer, rows, sends, sending, losses, late>> /\ Rows' = Rows
  BY DEF Registered, Rows
<1>3. /\ uploads[f].row \in Rows /\ rows[uploads[f].row].file = f
      /\ uploads[f].row # 0 /\ uploads[f].row \in 0 .. Len(rows)
  BY <1>0, <1>1 DEF AttachmentsInv, PlacesInv, UploadsTypes, Rows
<1>4. AttachmentsTypeOK'
  <2>1. ComposerTypes'
    BY <1>0, <1>1, <1>2 DEF ComposerTypes
  <2>2. ItemsTypes'
    BY <1>0, <1>1, <1>2, <1>3 DEF ItemsTypes, ItemStatus, Open
  <2>3. UploadsTypes'
    BY <1>0, <1>1, <1>2 DEF UploadsTypes
  <2>4. SendsTypes'
    BY <1>0, <1>2 DEF SendsTypes, SendType
  <2>5. QED
    BY <2>1, <2>2, <2>3, <2>4, TypePartsNext
<1>5. PlacesInv'
  BY <1>1, <1>2 DEF AttachmentsInv, PlacesInv
<1>6. EntriesInv'
  <2>1. f \in Shown /\ sending # 0 => f \in late
    BY <1>1 DEF AttachmentsInv, EntriesInv, Open
  <2>2. QED
    BY <1>1, <1>2, <1>3, <2>1 DEF AttachmentsInv, EntriesInv
<1>7. UploadsInv'
  BY <1>1, <1>2 DEF AttachmentsInv, UploadsInv
<1>8. DraftsInv'
  BY <1>1, <1>2 DEF AttachmentsInv, DraftsInv
<1>9. SentInv'
  BY <1>1, <1>2 DEF AttachmentsInv, SentInv, Here
<1>10. QED
  BY <1>4, <1>5, <1>6, <1>7, <1>8, <1>9 DEF AttachmentsInv

\* A poll ends, or throws.
LEMMA PollKeeps ==
  ASSUME AttachmentsInv, NEW f \in Files, Poll(f) PROVE AttachmentsInv'
<1> USE AttachmentsAssumption
<1>0. ComposerTypes /\ ItemsTypes /\ UploadsTypes /\ SendsTypes
  BY TypeParts DEF AttachmentsInv
<1>1. /\ f \in polling /\ polling' = polling \ {f}
      /\ Shown' = Shown
      /\ \A g \in Shown \ {f} : items'[g] = items[g]
      /\ f \in Shown => \/ items'[f] = items[f]
                        \/ items'[f] = [items[f] EXCEPT !.status = "ready"]
                        \/ items'[f] = [items[f] EXCEPT !.status = "failed"]
  BY DEF Poll, Mark, Shown
<1>2. /\ UNCHANGED <<composer, uploads, rows, sends, sending, late>>
      /\ Rows' = Rows /\ Uploads' = Uploads
      /\ losses' \in 0 .. MaxLosses
      /\ losses' = 0 => losses = 0
  BY <1>0 DEF Poll, Loss, ComposerTypes, Rows, Uploads
<1>3. f \in Shown => f \notin Uploads /\ items[f].row # 0
  BY <1>1 DEF AttachmentsInv, EntriesInv
<1>4. \A g \in Shown : /\ items'[g].row = items[g].row
                       /\ items'[g].status \in {items[g].status, "ready", "failed"}
                       /\ items'[g] \in [status : ItemStatus, row : 0 .. Len(rows)]
                       /\ g # f => items'[g] = items[g]
  BY <1>0, <1>1 DEF ItemsTypes, ItemStatus
<1>5. AttachmentsTypeOK'
  <2>1. ComposerTypes'
    BY <1>0, <1>1, <1>2 DEF ComposerTypes
  <2>2. ItemsTypes'
    BY <1>0, <1>1, <1>2, <1>4 DEF ItemsTypes
  <2>3. UploadsTypes'
    BY <1>0, <1>2 DEF UploadsTypes
  <2>4. SendsTypes'
    BY <1>0, <1>2 DEF SendsTypes, SendType
  <2>5. QED
    BY <2>1, <2>2, <2>3, <2>4, TypePartsNext
<1>6. PlacesInv'
  BY <1>2 DEF AttachmentsInv, PlacesInv
<1>7. EntriesInv'
  BY <1>1, <1>2, <1>3, <1>4 DEF AttachmentsInv, EntriesInv, Open
<1>8. UploadsInv'
  BY <1>1, <1>2 DEF AttachmentsInv, UploadsInv
<1>9. DraftsInv'
  BY <1>1, <1>2 DEF AttachmentsInv, DraftsInv
<1>10. SentInv'
  BY <1>1, <1>2, <1>4 DEF AttachmentsInv, SentInv, Here
<1>11. QED
  BY <1>5, <1>6, <1>7, <1>8, <1>9, <1>10 DEF AttachmentsInv

\* A message is submitted.
LEMMA SubmitKeeps ==
  ASSUME AttachmentsInv, SubmitMessage PROVE AttachmentsInv'
<1> USE AttachmentsAssumption
<1>0. ComposerTypes /\ ItemsTypes /\ UploadsTypes /\ SendsTypes
  BY TypeParts DEF AttachmentsInv
<1> DEFINE new == [pc |-> IF composer.conv = 0 THEN "create" ELSE "select",
                   conv |-> composer.conv, ids |-> ReadyRows, listed |-> {},
                   draft |-> IF composer.conv = 0 /\ Shown # {}
                             THEN composer.draft ELSE 0]
           n == Len(sends) + 1
<1>1. /\ sending = 0 /\ Len(sends) < MaxSends /\ sends' = Append(sends, new)
      /\ \A f \in Shown : items[f].status \notin Open
      /\ UNCHANGED <<composer, items, uploads, polling, rows, losses, late>>
      /\ Shown' = Shown /\ Uploads' = Uploads /\ Rows' = Rows
  BY DEF SubmitMessage, Shown, Uploads, Rows, Pending
<1>2. /\ Len(sends) \in Nat /\ Len(sends') = n /\ DOMAIN sends' = DOMAIN sends \cup {n}
      /\ \A s \in DOMAIN sends : sends'[s] = sends[s] /\ s # n
      /\ sends'[n] = new /\ sending' = n
  BY <1>0, <1>1 DEF SubmitMessage, SendsTypes
<1>3. ASSUME NEW r \in ReadyRows
      PROVE  \E f \in Shown : items[f].row = r /\ r # 0 /\ r \in Rows
  BY <1>0 DEF ReadyRows, Shown, ItemsTypes, AttachmentsInv, EntriesInv, Rows, SendsTypes
<1>4. AttachmentsTypeOK'
  <2>1. ComposerTypes'
    BY <1>0, <1>1 DEF ComposerTypes
  <2>2. ItemsTypes'
    BY <1>0, <1>1 DEF ItemsTypes
  <2>3. UploadsTypes'
    BY <1>0, <1>1 DEF UploadsTypes
  <2>4. new \in SendType
    BY <1>0, <1>3 DEF SendType, ComposerTypes, Drafts
  <2>5. sends' \in Seq(SendType)
    BY <1>0, <1>1, <2>4 DEF SendsTypes
  <2>6. SendsTypes'
    BY <1>0, <1>1, <1>2, <2>5 DEF SendsTypes, SendType
  <2>7. QED
    BY <2>1, <2>2, <2>3, <2>6, TypePartsNext
<1>5. PlacesInv'
  <2>1. Shown = {} => ReadyRows = {}
    BY DEF ReadyRows, Shown
  <2>2. /\ Len(sends') <= MaxSends
        /\ composer'.draft <= IF sending' = 0 THEN Len(sends') + 1 ELSE Len(sends')
    BY <1>0, <1>1, <1>2 DEF AttachmentsInv, PlacesInv
  <2>3. /\ new.pc = "create" <=> new.conv = 0
        /\ (new.conv = 0 /\ new.draft = 0) => new.ids = {}
    BY <1>0, <2>1 DEF ComposerTypes, Drafts
  <2>4. QED
    BY <1>1, <1>2, <2>2, <2>3 DEF AttachmentsInv, PlacesInv
<1>6. EntriesInv'
  BY <1>1 DEF AttachmentsInv, EntriesInv
<1>7. UploadsInv'
  BY <1>1 DEF AttachmentsInv, UploadsInv
<1>8. DraftsInv'
  BY <1>1, <1>2 DEF AttachmentsInv, DraftsInv
<1>9. SentInv'
  <2>1. ASSUME losses = 0, NEW r \in ReadyRows
        PROVE  IF new.draft # 0 THEN rows[r].draft = new.draft ELSE rows[r].conv = new.conv
    BY <1>0, <1>1, <1>3, <2>1 DEF AttachmentsInv, SentInv, Here, ComposerTypes, Drafts
  <2>2. losses = 0 => \A s \in DOMAIN sends :
          sends[s].pc \notin {"create", "select", "claim", "reply"}
    BY <1>1, <1>0, SendOf DEF AttachmentsInv, SentInv
  <2>3. losses = 0 => \A s \in DOMAIN sends' :
         /\ sends'[s].pc \in {"create", "select", "claim", "reply"} => sending' = s
         /\ sends'[s].pc \in {"claim", "reply", "over"} => sends'[s].listed = sends'[s].ids
         /\ \A r \in sends'[s].ids :
              /\ sends'[s].pc \in {"create", "select", "claim"} =>
                   IF sends'[s].draft # 0 THEN rows[r].draft = sends'[s].draft
                   ELSE rows[r].conv = sends'[s].conv
              /\ sends'[s].pc \in {"reply", "over"} => rows[r].conv = sends'[s].conv
    BY <1>2, <2>1, <2>2 DEF AttachmentsInv, SentInv
  <2>4. QED
    BY <1>1, <2>3 DEF AttachmentsInv, SentInv, Here
<1>10. QED
  BY <1>4, <1>5, <1>6, <1>7, <1>8, <1>9 DEF AttachmentsInv

\* A handler that leaves the rows alone.
LEMMA ServedTypes ==
  ASSUME AttachmentsInv, NEW s \in DOMAIN sends, NEW m \in SendType,
         sends' = [sends EXCEPT ![s] = m], Served, UNCHANGED rows
  PROVE  /\ AttachmentsTypeOK'
         /\ DOMAIN sends' = DOMAIN sends /\ Len(sends') = Len(sends)
         /\ sends'[s] = m
         /\ \A t \in DOMAIN sends \ {s} : sends'[t] = sends[t]
         /\ Rows' = Rows /\ Shown' = Shown /\ Uploads' = Uploads
<1>0. ComposerTypes /\ ItemsTypes /\ UploadsTypes /\ SendsTypes
  BY TypeParts DEF AttachmentsInv
<1>1. /\ UNCHANGED <<composer, items, uploads, polling, sending, losses, late>>
      /\ Rows' = Rows /\ Shown' = Shown /\ Uploads' = Uploads
  BY DEF Served, Rows, Shown, Uploads
<1>2. /\ sends' \in Seq(SendType) /\ DOMAIN sends' = DOMAIN sends
      /\ Len(sends') = Len(sends) /\ sends'[s] = m
      /\ \A t \in DOMAIN sends \ {s} : sends'[t] = sends[t]
  BY <1>0 DEF SendsTypes
<1>3. ComposerTypes' /\ ItemsTypes' /\ UploadsTypes'
  BY <1>0, <1>1 DEF ComposerTypes, ItemsTypes, UploadsTypes
<1>4. SendType' = SendType
  BY <1>1 DEF SendType
<1>5. SendsTypes'
  BY <1>0, <1>1, <1>2, <1>4 DEF SendsTypes
<1>6. QED
  BY <1>1, <1>2, <1>3, <1>5, TypePartsNext

\* The conversation is created.
LEMMA CreateKeeps ==
  ASSUME AttachmentsInv, NEW s \in Conversations, CreateConversation(s)
  PROVE  AttachmentsInv'
<1> USE AttachmentsAssumption
<1>0. ComposerTypes /\ ItemsTypes /\ UploadsTypes /\ SendsTypes
  BY TypeParts DEF AttachmentsInv
<1> DEFINE m == [sends[s] EXCEPT !.pc = "select", !.conv = s]
<1>1. /\ s \in DOMAIN sends /\ sends[s].pc = "create" /\ sends[s].conv = 0
      /\ sends' = [sends EXCEPT ![s] = m] /\ Served /\ UNCHANGED rows
      /\ UNCHANGED <<composer, items, uploads, polling, sending, losses, late>>
      /\ s \in 1 .. MaxSends
  BY DEF CreateConversation, At, AttachmentsInv, PlacesInv, Served, Conversations
<1>2. m \in SendType /\ m.pc = "select" /\ m.conv = s /\ m.ids = sends[s].ids
      /\ m.draft = sends[s].draft /\ m.listed = sends[s].listed
  <2>1. sends[s] \in SendType
    BY <1>0, <1>1, SendOf
  <2>2. s \in 0 .. MaxSends
    BY <1>1
  <2>3. QED
    BY <2>1, <2>2 DEF SendType
<1> HIDE DEF m
<1>3. /\ AttachmentsTypeOK'
      /\ DOMAIN sends' = DOMAIN sends /\ Len(sends') = Len(sends)
      /\ sends'[s] = m
      /\ \A t \in DOMAIN sends \ {s} : sends'[t] = sends[t]
      /\ Rows' = Rows /\ Shown' = Shown /\ Uploads' = Uploads
  BY <1>1, <1>2, ServedTypes
<1>4. PlacesInv'
  BY <1>1, <1>2, <1>3 DEF AttachmentsInv, PlacesInv
<1>5. EntriesInv' /\ UploadsInv'
  BY <1>1, <1>3 DEF AttachmentsInv, EntriesInv, UploadsInv
<1>6. sending \in {0} \cup DOMAIN sends
  BY <1>0 DEF SendsTypes
<1>7. DraftsInv'
  BY <1>1, <1>2, <1>3, <1>6 DEF AttachmentsInv, DraftsInv
<1>8. SentInv'
  <2>1. sends[s].draft = 0 => sends[s].ids = {}
    BY <1>1 DEF AttachmentsInv, PlacesInv
  <2>2. \A r : Here(r) => Here(r)'
    BY <1>1, <1>2, <1>3, <1>6 DEF Here
  <2>3. QED
    BY <1>1, <1>2, <1>3, <2>1, <2>2 DEF AttachmentsInv, SentInv
<1>9. QED
  BY <1>3, <1>4, <1>5, <1>7, <1>8 DEF AttachmentsInv

\* The files of the message are listed, or the message is refused.
LEMMA SelectKeeps ==
  ASSUME AttachmentsInv, NEW s \in Conversations, SelectListed(s)
  PROVE  AttachmentsInv'
<1> USE AttachmentsAssumption
<1>0. ComposerTypes /\ ItemsTypes /\ UploadsTypes /\ SendsTypes
  BY TypeParts DEF AttachmentsInv
<1>1. /\ s \in DOMAIN sends /\ sends[s].pc = "select" /\ sends[s].conv # 0
      /\ Served /\ UNCHANGED rows
      /\ UNCHANGED <<composer, items, uploads, polling, sending, losses, late>>
  BY DEF SelectListed, At, AttachmentsInv, PlacesInv, Served
<1>2. PICK m : /\ sends' = [sends EXCEPT ![s] = m]
               /\ \/ m = [sends[s] EXCEPT !.pc = "claim",
                                          !.listed = sends[s].ids \cap Offered(s)]
                  \/ m = [sends[s] EXCEPT !.pc = "refused"]
  BY DEF SelectListed
<1>3. /\ m \in SendType /\ m.pc \in {"claim", "refused"} /\ m.conv = sends[s].conv
      /\ m.ids = sends[s].ids /\ m.draft = sends[s].draft
      /\ m.pc = "claim" => m.listed = sends[s].ids \cap Offered(s)
  BY <1>0, <1>1, <1>2, SendOf DEF SendType
<1>4. /\ AttachmentsTypeOK'
      /\ DOMAIN sends' = DOMAIN sends /\ Len(sends') = Len(sends)
      /\ sends'[s] = m
      /\ \A t \in DOMAIN sends \ {s} : sends'[t] = sends[t]
      /\ Rows' = Rows /\ Shown' = Shown /\ Uploads' = Uploads
  BY <1>1, <1>2, <1>3, ServedTypes
<1>5. PlacesInv'
  BY <1>1, <1>3, <1>4 DEF AttachmentsInv, PlacesInv
<1>6. EntriesInv' /\ UploadsInv'
  BY <1>1, <1>4 DEF AttachmentsInv, EntriesInv, UploadsInv
<1>7. sending \in {0} \cup DOMAIN sends
  BY <1>0 DEF SendsTypes
<1>8. DraftsInv'
  BY <1>1, <1>3, <1>4, <1>7 DEF AttachmentsInv, DraftsInv
<1>9. SentInv'
  <2>1. losses = 0 => sends[s].ids \subseteq Offered(s)
    BY <1>0, <1>1, SendOf DEF AttachmentsInv, SentInv, Offered, SendType
  <2>2. \A r : Here(r) => Here(r)'
    BY <1>1, <1>3, <1>4, <1>7 DEF Here
  <2>3. (losses = 0 /\ m.pc = "claim") => m.listed = m.ids
    BY <1>3, <2>1
  <2>4. QED
    BY <1>1, <1>3, <1>4, <2>2, <2>3 DEF AttachmentsInv, SentInv
<1>10. QED
  BY <1>4, <1>5, <1>6, <1>8, <1>9 DEF AttachmentsInv

LEMMA RowMoved ==
  ASSUME NEW F, NEW C, NEW D, NEW row \in [file : F, conv : C, draft : D],
         NEW c \in C, NEW d \in D
  PROVE  [row EXCEPT !.conv = c, !.draft = d] \in [file : F, conv : C, draft : D]
OBVIOUS

\* The attachments of the draft are claimed.
LEMMA ClaimKeeps ==
  ASSUME AttachmentsInv, NEW s \in Conversations, Claim(s)
  PROVE  AttachmentsInv'
<1> USE AttachmentsAssumption
<1>0. ComposerTypes /\ ItemsTypes /\ UploadsTypes /\ SendsTypes
  BY TypeParts DEF AttachmentsInv
<1> DEFINE m == [sends[s] EXCEPT !.pc = "reply"]
<1>1. /\ s \in DOMAIN sends /\ sends[s].pc = "claim" /\ sends[s].conv # 0
      /\ sends' = [sends EXCEPT ![s] = m]
      /\ rows' = [r \in Rows |-> Claimed(rows[r], s)]
      /\ UNCHANGED <<composer, items, uploads, polling, sending, losses, late>>
      /\ Shown' = Shown /\ Uploads' = Uploads
  BY DEF Claim, At, AttachmentsInv, PlacesInv, Served, Shown, Uploads
<1>2. m \in SendType /\ m.pc = "reply" /\ m.conv = sends[s].conv
      /\ m.ids = sends[s].ids /\ m.draft = sends[s].draft /\ m.listed = sends[s].listed
      /\ sends[s].conv \in 0 .. MaxSends /\ sends[s].draft \in 0 .. MaxSends + 1
  BY <1>0, <1>1, SendOf DEF SendType
<1> HIDE DEF m
<1>3. /\ \A r \in Rows : rows[r] \in RowType /\ Claimed(rows[r], s) \in RowType
      /\ Rows = DOMAIN rows
  <2>1. Rows = DOMAIN rows /\ \A r \in Rows : rows[r] \in RowType
    BY <1>0 DEF SendsTypes, Rows
  <2>2. ASSUME NEW row \in RowType PROVE Claimed(row, s) \in RowType
    <3>1. sends[s].conv \in 0 .. MaxSends /\ 0 \in 0 .. MaxSends + 1
      BY <1>2
    <3>2. [row EXCEPT !.conv = sends[s].conv, !.draft = 0] \in RowType
      BY <3>1, RowMoved DEF RowType
    <3>3. QED
      BY <3>2 DEF Claimed
  <2>3. QED
    BY <2>1, <2>2
<1>4. /\ rows' \in Seq(RowType) /\ Len(rows') = Len(rows) /\ Rows' = Rows
      /\ \A r \in Rows : rows'[r] = Claimed(rows[r], s)
  BY <1>0, <1>1, <1>3 DEF SendsTypes, Rows
<1>5. \A r \in Rows :
        /\ rows'[r].file = rows[r].file
        /\ (sends[s].draft # 0 /\ rows[r].draft = sends[s].draft)
             => rows'[r].conv = sends[s].conv /\ rows'[r].draft = 0
        /\ ~ (sends[s].draft # 0 /\ rows[r].draft = sends[s].draft) => rows'[r] = rows[r]
  BY <1>3, <1>4 DEF Claimed, RowType
<1>6. /\ sends' \in Seq(SendType) /\ DOMAIN sends' = DOMAIN sends
      /\ Len(sends') = Len(sends) /\ sends'[s] = m
      /\ \A t \in DOMAIN sends \ {s} : sends'[t] = sends[t]
  BY <1>0, <1>1, <1>2 DEF SendsTypes
<1>7. AttachmentsTypeOK'
  <2>1. ComposerTypes' /\ UploadsTypes'
    BY <1>0, <1>1, <1>4 DEF ComposerTypes, UploadsTypes
  <2>2. ItemsTypes'
    <3>1. \A f \in Shown : items[f].row # 0 => items[f].row \in Rows
      BY <1>0 DEF ItemsTypes, Rows, SendsTypes
    <3>2. QED
      BY <1>0, <1>1, <1>4, <1>5, <3>1 DEF ItemsTypes
  <2>3. SendType' = SendType
    BY <1>4 DEF SendType
  <2>4. SendsTypes'
    BY <1>0, <1>1, <1>4, <1>6, <2>3 DEF SendsTypes
  <2>5. QED
    BY <2>1, <2>2, <2>4, TypePartsNext
<1>8. PlacesInv'
  <2>1. \A r \in Rows : rows'[r].conv = 0 <=> rows'[r].draft # 0
    BY <1>1, <1>5 DEF AttachmentsInv, PlacesInv
  <2>2. \A f \in Uploads : uploads[f].at = "reply" => uploads[f].row \in Rows
    BY <1>0 DEF AttachmentsInv, PlacesInv, UploadsTypes, Rows
  <2>3. QED
    <3>1. /\ Len(sends') <= MaxSends
          /\ composer'.draft <= IF sending' = 0 THEN Len(sends') + 1 ELSE Len(sends')
      BY <1>1, <1>6 DEF AttachmentsInv, PlacesInv
    <3>2. \A t \in DOMAIN sends' :
            /\ sends'[t].pc = "create" <=> sends'[t].conv = 0
            /\ (sends'[t].conv = 0 /\ sends'[t].draft = 0) => sends'[t].ids = {}
      BY <1>1, <1>2, <1>6 DEF AttachmentsInv, PlacesInv
    <3>3. uploads' = uploads /\ Uploads' = Uploads
      BY <1>1
    <3>4. \A f \in Uploads' : uploads'[f].at = "reply" =>
            uploads'[f].row # 0 /\ rows'[uploads'[f].row].file = f
      BY <1>5, <2>2, <3>3 DEF AttachmentsInv, PlacesInv
    <3>5. \A f \in Uploads' : uploads'[f].at # "sending" =>
            (uploads'[f].conv = 0 <=> uploads'[f].draft # 0)
      BY <3>3 DEF AttachmentsInv, PlacesInv
    <3>6. \A r \in Rows' : rows'[r].conv = 0 <=> rows'[r].draft # 0
      BY <1>4, <2>1
    <3>7. QED
      BY <3>1, <3>2, <3>4, <3>5, <3>6 DEF PlacesInv
<1>9. EntriesInv'
  <2>1. \A f \in polling : \E r \in Rows' : rows'[r].file = f
    BY <1>4, <1>5 DEF AttachmentsInv, EntriesInv
  <2>2. QED
    BY <1>1, <2>1 DEF AttachmentsInv, EntriesInv
<1>10. UploadsInv'
  BY <1>1 DEF AttachmentsInv, UploadsInv
<1>11. sending \in {0} \cup DOMAIN sends
  BY <1>0 DEF SendsTypes
<1>12. DraftsInv'
  <2>1. \A r \in Rows : rows'[r].draft # 0 => rows'[r] = rows[r]
    BY <1>5
  <2>2. ASSUME sending = s, composer.conv = 0, NEW r \in Rows, rows'[r].draft # 0,
               rows[r].file \notin late
        PROVE  FALSE
    <3>1. rows[r].draft = composer.draft /\ rows[r].file \in Shown \ late
          /\ rows[r].draft # 0
      BY <2>1, <2>2 DEF AttachmentsInv, DraftsInv
    <3>2. sends[s].draft = composer.draft
      BY <2>2, <3>1, <1>1 DEF AttachmentsInv, DraftsInv, Conversations
    <3>3. QED
      BY <1>5, <2>2, <3>1, <3>2
  <2>3. \A r \in Rows : rows'[r].draft # 0 =>
       \/ rows'[r].file \in late
       \/ composer.conv = 0 /\ rows'[r].draft = composer.draft /\ rows'[r].file \in Shown
    BY <2>1 DEF AttachmentsInv, DraftsInv
  <2>4. (sending # 0 /\ composer.conv = 0) =>
       /\ Shown \ late # {} => sends'[sending].draft = composer.draft
       /\ sends'[sending].pc = "reply" =>
            \A r \in Rows : rows'[r].draft # 0 => rows'[r].file \in late
    <3>1. CASE sending = s
      BY <1>2, <1>5, <1>6, <2>2, <3>1 DEF AttachmentsInv, DraftsInv
    <3>2. CASE sending # s
      BY <1>6, <1>11, <2>1, <3>2 DEF AttachmentsInv, DraftsInv
    <3>3. QED
      BY <3>1, <3>2
  <2>5. QED
    BY <1>1, <1>4, <2>3, <2>4 DEF DraftsInv
<1>13. SentInv'
  <2> SUFFICES ASSUME losses = 0 PROVE SentInv'
    BY <1>1 DEF SentInv
  <2>1. sending = s /\ sending # 0
    BY <1>1 DEF AttachmentsInv, SentInv, Conversations
  <2>2. \A t \in DOMAIN sends : sends[t].ids \subseteq Rows
    BY <1>0, SendOf DEF SendType
  <2>3. ASSUME NEW r \in sends[s].ids PROVE rows'[r].conv = sends[s].conv
    <3>1. r \in Rows /\ IF sends[s].draft # 0 THEN rows[r].draft = sends[s].draft
                        ELSE rows[r].conv = sends[s].conv
      BY <1>1, <2>2 DEF AttachmentsInv, SentInv
    <3>2. QED
      BY <1>5, <3>1
  <2>4. ASSUME NEW t \in DOMAIN sends \ {s}, NEW r \in sends[t].ids,
               sends[t].pc \in {"reply", "over"}
        PROVE  rows'[r].conv = sends[t].conv
    <3>1. r \in Rows /\ rows[r].conv = sends[t].conv /\ sends[t].conv # 0
      BY <2>2, <2>4 DEF AttachmentsInv, SentInv, PlacesInv
    <3>2. rows[r].draft = 0
      BY <3>1 DEF AttachmentsInv, PlacesInv
    <3>3. QED
      BY <1>5, <3>1, <3>2
  <2>5. \A t \in DOMAIN sends \ {s} : sends[t].pc \notin {"create", "select", "claim", "reply"}
    BY <2>1 DEF AttachmentsInv, SentInv
  <2>6. ASSUME NEW r \in Rows, Here(r)
        PROVE  IF composer.conv = 0
               THEN \/ rows'[r].draft = composer.draft
                    \/ sending # 0 /\ sends'[sending].pc = "reply"
               ELSE rows'[r].conv = composer.conv
    <3>1. CASE composer.conv = 0
      BY <1>2, <1>6, <2>1, <3>1
    <3>2. CASE composer.conv # 0
      <4>1. rows[r].conv = composer.conv /\ rows[r].draft = 0
        BY <2>6, <3>2 DEF Here, AttachmentsInv, PlacesInv
      <4>2. QED
        BY <1>5, <3>2, <4>1
    <3>3. QED
      BY <3>1, <3>2
  <2>7. /\ \A f \in Shown : items[f].row # 0 => items[f].row \in Rows
        /\ \A f \in Uploads : uploads[f].at = "reply" => uploads[f].row \in Rows
    BY <1>0 DEF ItemsTypes, UploadsTypes, Rows, SendsTypes, AttachmentsInv, PlacesInv
  <2>8. \A t \in DOMAIN sends' :
         /\ sends'[t].pc \in {"create", "select", "claim", "reply"} => sending = t
         /\ sends'[t].pc \in {"claim", "reply", "over"} => sends'[t].listed = sends'[t].ids
         /\ \A r \in sends'[t].ids :
              /\ sends'[t].pc \in {"create", "select", "claim"} =>
                   IF sends'[t].draft # 0 THEN rows'[r].draft = sends'[t].draft
                   ELSE rows'[r].conv = sends'[t].conv
              /\ sends'[t].pc \in {"reply", "over"} => rows'[r].conv = sends'[t].conv
    BY <1>1, <1>2, <1>6, <2>1, <2>3, <2>4, <2>5 DEF AttachmentsInv, SentInv
  <2>9. /\ \A f \in Shown : items[f].row # 0 => Here(items[f].row)
        /\ \A f \in Shown \cap Uploads : uploads[f].at = "reply" => Here(uploads[f].row)
    BY DEF AttachmentsInv, SentInv
  <2>10. QED
    BY <1>1, <2>6, <2>7, <2>8, <2>9 DEF SentInv, Here
<1>14. QED
  BY <1>7, <1>8, <1>9, <1>10, <1>12, <1>13 DEF AttachmentsInv

\* The answer to the message arrives.
LEMMA SentKeeps ==
  ASSUME AttachmentsInv, NEW s \in Conversations, Sent(s)
  PROVE  AttachmentsInv'
<1> USE AttachmentsAssumption
<1>0. ComposerTypes /\ ItemsTypes /\ UploadsTypes /\ SendsTypes
  BY TypeParts DEF AttachmentsInv
<1> DEFINE m == [sends[s] EXCEPT !.pc = "over"]
<1>1. /\ s \in DOMAIN sends /\ sends[s].pc = "reply" /\ sends[s].conv # 0
      /\ sending = s /\ sending # 0 /\ sending' = 0
      /\ sends' = [sends EXCEPT ![s] = m]
      /\ composer' = [conv |-> sends[s].conv, draft |-> composer.draft + 1]
      /\ Shown' = {} /\ items' = << >>
      /\ UNCHANGED <<uploads, polling, rows, losses, late>>
      /\ Uploads' = Uploads /\ Rows' = Rows
  BY DEF Sent, At, AttachmentsInv, PlacesInv, Conversations, Shown, Uploads, Rows
<1>2. m \in SendType /\ m.pc = "over" /\ m.conv = sends[s].conv
      /\ m.ids = sends[s].ids /\ m.draft = sends[s].draft /\ m.listed = sends[s].listed
      /\ sends[s].conv \in 1 .. MaxSends
  <2>1. sends[s] \in SendType
    BY <1>0, <1>1, SendOf
  <2>2. sends[s].conv \in 1 .. MaxSends
    BY <1>1, <2>1 DEF SendType
  <2>3. QED
    BY <2>1, <2>2 DEF SendType
<1> HIDE DEF m
<1>3. /\ sends' \in Seq(SendType) /\ DOMAIN sends' = DOMAIN sends
      /\ Len(sends') = Len(sends) /\ sends'[s] = m
      /\ \A t \in DOMAIN sends \ {s} : sends'[t] = sends[t]
  BY <1>0, <1>1, <1>2 DEF SendsTypes
<1>4. /\ composer.draft + 1 <= Len(sends') + 1 /\ Len(sends') <= MaxSends
      /\ composer.draft \in Nat /\ composer'.draft \in Drafts
  BY <1>0, <1>1, <1>3, SendOf DEF AttachmentsInv, PlacesInv, ComposerTypes, Drafts
<1>5. AttachmentsTypeOK'
  <2>1. ComposerTypes'
    BY <1>0, <1>1, <1>2, <1>4 DEF ComposerTypes, Drafts
  <2>2. ItemsTypes' /\ UploadsTypes'
    BY <1>0, <1>1 DEF ItemsTypes, UploadsTypes
  <2>3. SendType' = SendType
    BY <1>1 DEF SendType
  <2>4. Len(sends) \in Nat
    BY <1>1, <1>0, SendOf
  <2>5. SendsTypes'
    BY <1>0, <1>1, <1>3, <2>3, <2>4 DEF SendsTypes
  <2>6. QED
    BY <2>1, <2>2, <2>5, TypePartsNext
<1>6. PlacesInv'
  BY <1>1, <1>2, <1>3, <1>4 DEF AttachmentsInv, PlacesInv
<1>7. EntriesInv'
  BY <1>1 DEF AttachmentsInv, EntriesInv
<1>8. UploadsInv'
  <2>1. Uploads \subseteq late
    BY <1>1 DEF AttachmentsInv, UploadsInv, EntriesInv, Open
  <2>2. QED
    BY <1>1, <2>1 DEF UploadsInv
<1>9. DraftsInv'
  <2>1. \A r \in Rows : rows[r].draft # 0 => rows[r].file \in late
    BY <1>1 DEF AttachmentsInv, DraftsInv
  <2>2. QED
    BY <1>1, <2>1 DEF DraftsInv
<1>10. SentInv'
  BY <1>1, <1>2, <1>3 DEF AttachmentsInv, SentInv
<1>11. QED
  BY <1>5, <1>6, <1>7, <1>8, <1>9, <1>10 DEF AttachmentsInv

\* The message was refused, or its answer is lost.
LEMMA NotSentKeeps ==
  ASSUME AttachmentsInv, NEW s \in Conversations, NotSent(s)
  PROVE  AttachmentsInv'
<1> USE AttachmentsAssumption
<1>0. ComposerTypes /\ ItemsTypes /\ UploadsTypes /\ SendsTypes
  BY TypeParts DEF AttachmentsInv
<1>1. /\ sending = s /\ s # 0 /\ sending' = 0
      /\ UNCHANGED <<composer, items, uploads, polling, rows, sends, late>>
      /\ Shown' = Shown /\ Uploads' = Uploads /\ Rows' = Rows
      /\ losses' \in 0 .. MaxLosses
      /\ losses' = 0 => losses = 0 /\ s \in DOMAIN sends /\ sends[s].pc = "refused"
  BY <1>0 DEF NotSent, At, Loss, ComposerTypes, Shown, Uploads, Rows
<1>2. s \in DOMAIN sends /\ Len(sends) \in Nat
  BY <1>0, <1>1 DEF SendsTypes
<1>3. AttachmentsTypeOK'
  <2>1. ComposerTypes' /\ ItemsTypes' /\ UploadsTypes'
    BY <1>0, <1>1 DEF ComposerTypes, ItemsTypes, UploadsTypes
  <2>2. SendsTypes'
    BY <1>0, <1>1, <1>2 DEF SendsTypes, SendType
  <2>3. QED
    BY <2>1, <2>2, TypePartsNext
<1>4. PlacesInv'
  BY <1>0, <1>1, <1>2 DEF AttachmentsInv, PlacesInv, ComposerTypes, Drafts
<1>5. EntriesInv' /\ UploadsInv' /\ DraftsInv'
  BY <1>1 DEF AttachmentsInv, EntriesInv, UploadsInv, DraftsInv
<1>6. SentInv'
  BY <1>1 DEF AttachmentsInv, SentInv, Here
<1>7. QED
  BY <1>3, <1>4, <1>5, <1>6 DEF AttachmentsInv

LEMMA AttachmentsStep ==
  AttachmentsInv /\ [AttachmentsNext]_attachmentVars => AttachmentsInv'
<1> SUFFICES ASSUME AttachmentsInv, [AttachmentsNext]_attachmentVars
             PROVE  AttachmentsInv'
  OBVIOUS
<1>1. CASE UNCHANGED attachmentVars
  BY <1>1 DEF attachmentVars, AttachmentsInv, AttachmentsTypeOK, PlacesInv, EntriesInv,
              UploadsInv, DraftsInv, SentInv, Here, Shown, Uploads, Rows
<1>2. CASE AttachmentsNext
  BY <1>2, PickKeeps, UploadFailsKeeps, PostKeeps, RegisterKeeps, RegisteredKeeps,
     PollKeeps, SubmitKeeps, CreateKeeps, SelectKeeps, ClaimKeeps, SentKeeps, NotSentKeeps
     DEF AttachmentsNext, UploadSteps, Handling
<1>3. QED
  BY <1>1, <1>2

\* Every variable keeps its type, and every entry its own row, for any files, messages
\* and lost replies.
THEOREM AttachmentTypes == AttachmentsSpec => []AttachmentsTypeOK
<1>1. AttachmentsInv => AttachmentsTypeOK
  BY DEF AttachmentsInv
<1>2. QED
  BY <1>1, AttachmentsInitially, AttachmentsStep, PTL DEF AttachmentsSpec

\* However uploads, polls and messages overlap: the files of a message are listed with it and
\* belong to its conversation, and none is left behind in a draft no page has, but for
\* those picked while a message was being sent and for messages whose answer was lost.
THEOREM FilesCorrect == AttachmentsSpec => []FilesAccounted
<1>1. AttachmentsInv => FilesAccounted
  BY DEF AttachmentsInv, SentInv, DraftsInv, FilesAccounted, SentFilesArrive,
         NothingLeftBehind, Abandoned
<1>2. QED
  BY <1>1, AttachmentsInitially, AttachmentsStep, PTL DEF AttachmentsSpec
=============================================================================
