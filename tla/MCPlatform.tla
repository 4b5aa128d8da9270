--------------------------- MODULE MCPlatform ------------------------------
(***************************************************************************)
(* For TLC, in one run: sign-ups, the sessions of a user, model profiles,  *)
(* the process view of an answer's tools, the public link of a             *)
(* conversation, a run of ConversationRun that keeps up, the knowledge     *)
(* base, its page and its search, uploads, and reports.  They share no     *)
(* state here, but for the knowledge base and its page: a behaviour takes  *)
(* the steps of one component, chosen in its first state, and leaves the   *)
(* others as they begin.                                                   *)
(***************************************************************************)
EXTENDS ToolTimeline, LibraryPage, KnowledgeSearch, DocumentUploads, Reports,
        ConversationSharing, Registration, ModelProfiles, AuthSessions

CONSTANTS Workers, Requests, Nil,
  PageFiles  \* bound: names of files while the page takes steps

VARIABLES
  focus,      \* the component that takes steps
  clock, row, cites, issued, jobs, stalls, term, proc, active, main, agent,
  side, shut, req

runVars == <<clock, row, cites, issued, jobs, stalls, term, proc, active, main,
             agent, side, shut, req>>
accountVars == <<registrationVars, authVars, profileVars>>
answerVars == <<timelineVars, shareVars, runVars>>
documentVars == <<kbVars, pageVars, uploadVars, searchVars, reportVars>>
platformVars == <<focus, accountVars, answerVars, documentVars>>

\* A run that keeps up, with leases of three ticks and a heartbeat every tick.
Run == INSTANCE ConversationRun WITH
  MaxRuns <- 1, Lease <- 3, Beat <- 1, MaxClock <- 6,
  Env <- {"stop", "expire"}

\* The explorer page, while somebody changes the library: one request of theirs
\* or of the page's to change it, and names out of PageFiles.
PageFilesOnly == \A x \in DOMAIN docs : docs[x].name \in PageFiles
PageNextBounded ==
  requests' \in requests .. 1 /\ LibraryPageNext /\ KbBounded /\ PageFilesOnly'

On(c) == focus = c
Only(c, next) == On(c) /\ next /\ UNCHANGED focus

PlatformInit ==
  /\ RegistrationInit /\ AuthInit /\ ProfilesInit
  /\ TimelineInit /\ SharingInit /\ Run!Init
  /\ UploadsInit /\ SearchInit /\ ReportsInit
  /\ focus \in {"signup", "session", "profiles", "timeline", "sharing", "prompt",
               "base", "page", "uploads", "search", "reports"}
  /\ IF On("page") THEN LibraryInit /\ PageFilesOnly ELSE KbInit
  /\ PageStart
  \* one state each for the others
  /\ On("signup") \/ \A q \in Registrations :
       signups[q].name = CHOOSE n \in UserNames : TRUE
  /\ kbScope = "private" \/ On("base")
  /\ popover.thread = (CHOOSE c \in Threads : TRUE) \/ On("sharing")
  /\ On("search")
     \/ /\ library = "active" /\ private /\ subscription = "none"
        /\ \A d \in AllDocs : ~material[d].row

AccountNext ==
  \/ Only("signup", RegistrationNext) /\ UNCHANGED <<authVars, profileVars>>
  \/ Only("session", AuthNext) /\ UNCHANGED <<registrationVars, profileVars>>
  \/ Only("profiles", ProfilesNext) /\ UNCHANGED <<registrationVars, authVars>>

AnswerNext ==
  \/ Only("timeline", TimelineNext) /\ UNCHANGED <<shareVars, runVars>>
  \/ Only("sharing", SharingNext) /\ UNCHANGED <<timelineVars, runVars>>
  \/ Only("prompt", Run!PromptNext) /\ UNCHANGED <<timelineVars, shareVars>>

DocumentNext ==
  \/ Only("base", KbNext /\ KbBounded)
     /\ UNCHANGED <<pageVars, uploadVars, searchVars, reportVars>>
  \/ Only("page", PageNextBounded)
     /\ UNCHANGED <<uploadVars, searchVars, reportVars>>
  \/ Only("uploads", UploadsNext)
     /\ UNCHANGED <<kbVars, pageVars, searchVars, reportVars>>
  \/ Only("search", SearchNext)
     /\ UNCHANGED <<kbVars, pageVars, uploadVars, reportVars>>
  \/ Only("reports", ReportsNext)
     /\ UNCHANGED <<kbVars, pageVars, uploadVars, searchVars>>

PlatformNext ==
  \/ AccountNext /\ UNCHANGED <<answerVars, documentVars>>
  \/ AnswerNext /\ UNCHANGED <<accountVars, documentVars>>
  \/ DocumentNext /\ UNCHANGED <<accountVars, answerVars>>

\* Nothing tells two deletions apart.
DeletionSymmetry == Permutations(Deletions)

PlatformSpec == PlatformInit /\ [][PlatformNext]_platformVars

\* A run whose runtime keeps up is never failed by a reader (ConversationRun).
HealthyRunNotExpired == Run!HealthyRunNotExpired
=============================================================================
