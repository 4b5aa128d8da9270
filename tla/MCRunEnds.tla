----------------------------- MODULE MCRunEnds -------------------------------
(***************************************************************************)
(* For TLC, in one run: how answers end.  A behaviour is one of an answer  *)
(* whose conversation somebody keeps open, with the constants of the .cfg  *)
(* file, of a run that nobody looks at, or of one that meets faults, as    *)
(* its first state says.                                                   *)
(***************************************************************************)
EXTENDS ConversationRun

VARIABLE focus   \* which of the three it is

\* A run that no page follows, through stops, crashes and shutdowns.
Alone == INSTANCE ConversationRun WITH
  MaxClock <- 1, Env <- {"stop", "crash", "shutdown"}

\* A run that is stopped, deleted, expired or found stalled, whose runtime crashes
\* and whose statements are rejected.
Faulty == INSTANCE ConversationRun WITH
  MaxClock <- 3, Env <- {"stop", "expire", "delete", "crash", "stall", "dberror"}

On(c) == focus = c

EndsInit == Init /\ focus \in {"attended", "alone", "faults"}

EndsNext ==
  /\ UNCHANGED focus
  /\ \/ On("attended") /\ Next
     \/ On("alone") /\ Alone!Next
     \/ On("faults") /\ Faulty!Next

\* RuntimeFairness of ConversationRun, for the one run there is.
AloneFairness ==
  /\ \A q \in Requests : WF_vars(On("alone") /\ Alone!WebStep(q))
  /\ \A w \in Workers :
       /\ SF_vars(On("alone") /\ Alone!Take(w, 1))
       /\ WF_vars(On("alone") /\ Alone!JobStep(w))
       /\ SF_vars(On("alone") /\ (Alone!AgentReturns(w) \/ Alone!AgentFails(w)))
       /\ WF_vars(On("alone") /\ (Alone!SideAssert(w) \/ Alone!SideWrite(w)))
  /\ WF_vars(On("alone") /\ Alone!ShutFail(1))
  /\ SF_vars(On("alone") /\ Alone!Stalled(1))
  /\ WF_vars(On("alone") /\ Alone!Exit) /\ WF_vars(On("alone") /\ Alone!Restart)
  /\ WF_vars(On("alone") /\ Alone!Tick)

\* The same without what only a crash, a stall or a shutdown leads to; and somebody
\* keeps the conversation open: its stream handler syncs again and again.
AttendedFairness ==
  /\ \A q \in Requests : /\ WF_vars(On("attended") /\ WebStep(q))
                         /\ WF_vars(On("attended") /\ ViewRead(q))
  /\ \A w \in Workers :
       /\ SF_vars(On("attended") /\ \E r \in Runs : Take(w, r))
       /\ WF_vars(On("attended") /\ JobStep(w))
       /\ SF_vars(On("attended") /\ (AgentReturns(w) \/ AgentFails(w)))
       /\ WF_vars(On("attended") /\ (SideAssert(w) \/ SideWrite(w)))
  /\ WF_vars(On("attended") /\ Tick)

EndsSpec == EndsInit /\ [][EndsNext]_<<focus, vars>> /\ AloneFairness /\ AttendedFairness

\* An outcome that was announced is settled (AnnouncedIsSettled), over the faults
\* that Faulty has.
SettledOverFaults == On("faults") => AnnouncedIsSettled

\* With nobody there to expire it, an answer ends all the same, through crashes and
\* shutdowns, unless BullMQ has given its job up.
EndsByItself ==
  On("alone") /\ row.status = "streaming" ~> (row.status # "streaming" \/ stalls[1] > 1)

\* No answer streams forever: it is completed, failed or deleted, over retries that
\* overlap it and statements that are rejected.
StreamingEnds ==
  On("attended") /\ row.status = "streaming" ~> row.status # "streaming"
=============================================================================
