--------------------------- MODULE MCConversation ---------------------------
(***************************************************************************)
(* For TLC, in one run: the files a question is sent with, the tool calls  *)
(* and citations of an answer, and the stream that brings it to its page.  *)
(* They share no state here: a behaviour takes the steps of one of them,   *)
(* chosen in its first state, and leaves the others as they begin.         *)
(***************************************************************************)
EXTENDS ConversationStream, AgentAnswer, Attachments

VARIABLE focus    \* the component that takes steps

conversationVars == <<focus, streamVars, answerVars, attachmentVars>>

On(c) == focus = c
Only(c, next) == On(c) /\ next /\ UNCHANGED focus

ConversationInit ==
  /\ StreamInit /\ AnswerInit /\ AttachmentsInit
  /\ focus \in {"stream", "answer", "files"}
  \* one state for the others
  /\ composer.conv = 0 \/ On("files")

ConversationNext ==
  \/ Only("stream", StreamNext) /\ UNCHANGED <<answerVars, attachmentVars>>
  \/ Only("answer", AnswerNext) /\ UNCHANGED <<streamVars, attachmentVars>>
  \/ Only("files", AttachmentsNext) /\ UNCHANGED <<streamVars, answerVars>>

ConversationFairness ==
  /\ WF_streamVars(On("stream") /\ JobSteps)
  /\ WF_streamVars(On("stream") /\ Connect)
  /\ WF_streamVars(On("stream") /\ Handler)
  /\ WF_answerVars(On("answer") /\ ToolSteps)
  /\ WF_attachmentVars(On("files") /\ FileSteps)

ConversationSpec ==
  ConversationInit /\ [][ConversationNext]_conversationVars /\ ConversationFairness

\* Each component's variables have their types.
ConversationTypeOK == StreamTypeOK /\ AnswerTypeOK /\ AttachmentsTypeOK
=============================================================================
