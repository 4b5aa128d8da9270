------------------------------ MODULE Reports -------------------------------
(***************************************************************************)
(* A report and its sections.                                              *)
(*                                                                         *)
(* Two kinds of requests work on a report, each in several statements      *)
(* around a call of the model: POST outline replaces the sections, POST    *)
(* generate drafts one of them.  The buttons of the page stay enabled, so  *)
(* requests overlap, and the process may die inside one.  The status of    *)
(* the report sums up its sections: this is where the two can disagree.    *)
(***************************************************************************)
EXTENDS Naturals, FiniteSets, Functions

CONSTANTS
  OutlineRequests,
  DraftRequests,
  MaxSections,      \* bound: sections of an outline
  MaxDeaths         \* bound: requests that die in the middle

ASSUME ReportsAssumption ==
  /\ IsFiniteSet(OutlineRequests) /\ IsFiniteSet(DraftRequests)
  /\ OutlineRequests \cap DraftRequests = {} /\ OutlineRequests # {}
  /\ MaxSections \in Nat \ {0} /\ MaxDeaths \in Nat

VARIABLES
  report,      \* its status; history: the request that set it ran alone
  sections,    \* report_sections: the status and the text of each
  outlining,   \* the requests to outline
  drafting,    \* the requests to draft a section
  crowded,     \* history: the requests that ran beside another
  deaths       \* requests that died so far

reportVars == <<report, sections, outlining, drafting, crowded, deaths>>

\* A section is known by the request that made it and its place in the outline.
SectionIds == OutlineRequests \X (1 .. MaxSections)
NoText == <<>>

ReportStatus == {"draft", "generating", "ready", "failed"}
OutlinePc == {"idle", "model", "failed", "delete", "insert", "over"}
DraftPc == {"idle", "look", "model", "save", "check", "settle",
            "fail_section", "fail_report", "over"}

Section == [status : ReportStatus, text : SectionIds \cup {NoText}]
Outlining == [pc : OutlinePc, seen : SUBSET SectionIds]
Drafting == [pc : DraftPc, section : SectionIds, pending : BOOLEAN]

\* Every variable has its type; a section that is ready has a text.
ReportsTypeOK ==
  /\ report \in [status : ReportStatus, alone : BOOLEAN]
  /\ DOMAIN sections \subseteq SectionIds
  /\ sections \in [DOMAIN sections -> Section]
  /\ \A s \in DOMAIN sections : sections[s].status = "ready" => sections[s].text # NoText
  /\ outlining \in [OutlineRequests -> Outlining]
  /\ drafting \in [DraftRequests -> Drafting]
  /\ crowded \subseteq OutlineRequests \cup DraftRequests
  /\ deaths \in 0 .. MaxDeaths

\* POST reports.
ReportsInit ==
  /\ report = [status |-> "draft", alone |-> TRUE]
  /\ sections = << >>
  /\ outlining = [o \in OutlineRequests |-> [pc |-> "idle", seen |-> {}]]
  /\ drafting = [d \in DraftRequests |->
                   [pc |-> "idle", section |-> CHOOSE s \in SectionIds : TRUE,
                    pending |-> FALSE]]
  /\ crowded = {}
  /\ deaths = 0

InFlight == {o \in OutlineRequests : outlining[o].pc \notin {"idle", "over"}}
            \cup {d \in DraftRequests : drafting[d].pc \notin {"idle", "over"}}

OutlineGoes(o, pc) == outlining' = [outlining EXCEPT ![o].pc = pc]
DraftGoes(d, pc) == drafting' = [drafting EXCEPT ![d].pc = pc]
Status(request, s) ==
  report' = [status |-> s, alone |-> request \notin crowded]
Join(request) ==
  crowded' = crowded \cup (IF InFlight = {} THEN {} ELSE InFlight \cup {request})

-----------------------------------------------------------------------------
(* POST /api/reports/:id/outline.                                          *)

StartOutline(o) ==
  /\ outlining[o].pc = "idle"
  /\ Join(o) /\ Status(o, "generating")
  /\ OutlineGoes(o, "model")
  /\ UNCHANGED <<sections, drafting, deaths>>

\* createReportOutlineHandler: an outline, or an error of the model, the search or
\* the configuration.
OutlineModel(o) ==
  /\ outlining[o].pc = "model"
  /\ OutlineGoes(o, "delete") \/ OutlineGoes(o, "failed")
  /\ UNCHANGED <<report, sections, drafting, crowded, deaths>>

OutlineFails(o) ==
  /\ outlining[o].pc = "failed"
  /\ Status(o, "failed")
  /\ OutlineGoes(o, "over")
  /\ UNCHANGED <<sections, drafting, crowded, deaths>>

\* The transaction begins: its DELETE takes the sections it sees.
OutlineDeletes(o) ==
  /\ outlining[o].pc = "delete"
  /\ outlining' = [outlining EXCEPT ![o] = [pc |-> "insert",
                                            seen |-> DOMAIN sections]]
  /\ UNCHANGED <<report, sections, drafting, crowded, deaths>>

\* It commits.  If another outline was committed after the DELETE looked, their
\* sections share a place, report_sections_report_order_uid refuses the INSERT,
\* and the request throws.
OutlineCommits(o) ==
  /\ outlining[o].pc = "insert"
  /\ OutlineGoes(o, "over")
  /\ \/ /\ DOMAIN sections \subseteq outlining[o].seen
        /\ \E n \in 1 .. MaxSections :
             sections' = [s \in {o} \X (1 .. n) |->
                            [status |-> "draft", text |-> NoText]]
        /\ Status(o, "draft")
     \/ /\ ~(DOMAIN sections \subseteq outlining[o].seen)
        /\ UNCHANGED <<report, sections>>
  /\ UNCHANGED <<drafting, crowded, deaths>>

-----------------------------------------------------------------------------
(* POST /api/reports/:id/sections/:id/generate.                            *)

\* Mutant: a report that is ready stays so until the section is drafted.
StartDraftQuietly(d) ==
  /\ drafting[d].pc = "idle"
  /\ \E s \in SectionIds :
       /\ s \in DOMAIN sections \/ outlining[s[1]].pc = "over"
       /\ drafting' = [drafting EXCEPT ![d].pc = "look", ![d].section = s]
  /\ Join(d)
  /\ UNCHANGED <<report, sections, outlining, deaths>>

\* A page asks for a section it was shown, which may have been replaced since.
StartDraft(d) ==
  /\ drafting[d].pc = "idle"
  /\ \E s \in SectionIds :
       /\ s \in DOMAIN sections \/ outlining[s[1]].pc = "over"
       /\ drafting' = [drafting EXCEPT ![d].pc = "look", ![d].section = s]
  /\ Join(d) /\ Status(d, "generating")
  /\ UNCHANGED <<sections, outlining, deaths>>

\* A section that is gone is not found: 404, and the report stays as it is.
LookUpSection(d) ==
  /\ drafting[d].pc = "look"
  /\ DraftGoes(d, IF drafting[d].section \in DOMAIN sections THEN "model" ELSE "over")
  /\ UNCHANGED <<report, sections, outlining, crowded, deaths>>

\* writeReportSectionHandler reads the section again; then the model answers, or
\* not.
DraftModel(d) ==
  /\ drafting[d].pc = "model"
  /\ \/ drafting[d].section \in DOMAIN sections /\ DraftGoes(d, "save")
     \/ DraftGoes(d, "fail_section")
  /\ UNCHANGED <<report, sections, outlining, crowded, deaths>>

FailSection(d) ==
  /\ drafting[d].pc = "fail_section"
  /\ sections' = [s \in DOMAIN sections |->
                    IF s = drafting[d].section
                    THEN [sections[s] EXCEPT !.status = "failed"] ELSE sections[s]]
  /\ DraftGoes(d, "fail_report")
  /\ UNCHANGED <<report, outlining, crowded, deaths>>

FailReport(d) ==
  /\ drafting[d].pc = "fail_report"
  /\ Status(d, "failed")
  /\ DraftGoes(d, "over")
  /\ UNCHANGED <<sections, outlining, crowded, deaths>>

\* Mutant: the text goes to the place of the section in the outline there is.
SaveSectionByPlace(d) ==
  /\ drafting[d].pc = "save"
  /\ sections' = [s \in DOMAIN sections |->
                    IF s[2] = drafting[d].section[2]
                    THEN [status |-> "ready", text |-> drafting[d].section]
                    ELSE sections[s]]
  /\ DraftGoes(d, "check")
  /\ UNCHANGED <<report, outlining, crowded, deaths>>

\* The text is stored under the id of the section: nowhere, if it is gone.
SaveSection(d) ==
  /\ drafting[d].pc = "save"
  /\ sections' = [s \in DOMAIN sections |->
                    IF s = drafting[d].section
                    THEN [status |-> "ready", text |-> drafting[d].section]
                    ELSE sections[s]]
  /\ DraftGoes(d, "check")
  /\ UNCHANGED <<report, outlining, crowded, deaths>>

\* Is there a section that is not ready?
SectionsPending == \E s \in DOMAIN sections : sections[s].status # "ready"

CheckPending(d) ==
  /\ drafting[d].pc = "check"
  /\ drafting' = [drafting EXCEPT ![d].pc = "settle", ![d].pending = SectionsPending]
  /\ UNCHANGED <<report, sections, outlining, crowded, deaths>>

SettleReport(d) ==
  /\ drafting[d].pc = "settle"
  /\ Status(d, IF drafting[d].pending THEN "generating" ELSE "ready")
  /\ DraftGoes(d, "over")
  /\ UNCHANGED <<sections, outlining, crowded, deaths>>

\* The process dies, or a statement throws: the request ends where it is.
RequestDies ==
  /\ deaths < MaxDeaths /\ deaths' = deaths + 1
  /\ \/ \E o \in InFlight \cap OutlineRequests :
          OutlineGoes(o, "over") /\ UNCHANGED drafting
     \/ \E d \in InFlight \cap DraftRequests :
          DraftGoes(d, "over") /\ UNCHANGED outlining
  /\ UNCHANGED <<report, sections, crowded>>

ReportsNext ==
  \/ \E o \in OutlineRequests :
       \/ StartOutline(o) \/ OutlineModel(o) \/ OutlineFails(o)
       \/ OutlineDeletes(o) \/ OutlineCommits(o)
  \/ \E d \in DraftRequests :
       \/ StartDraft(d) \/ LookUpSection(d) \/ DraftModel(d)
       \/ FailSection(d) \/ FailReport(d)
       \/ SaveSection(d) \/ CheckPending(d) \/ SettleReport(d)
  \/ RequestDies

ReportsSpec == ReportsInit /\ [][ReportsNext]_reportVars

-----------------------------------------------------------------------------
(* Properties.                                                             *)

\* A report that was declared ready by a request that ran alone is ready: every
\* section is, at every moment, whatever dies in the middle, until a request
\* declares otherwise; for a request declares the report as generating before it
\* changes a section.  (Requests that overlap can leave a ready report with a
\* section that failed, or with a new outline.)
ReadyIsComplete ==
  (report.status = "ready" /\ report.alone)
    => \A s \in DOMAIN sections : sections[s].status = "ready"

\* A text is that of its section, although the outline may have been replaced while
\* the model was writing.
TextOfItsSection ==
  \A s \in DOMAIN sections : sections[s].text \in {NoText, s}
=============================================================================
