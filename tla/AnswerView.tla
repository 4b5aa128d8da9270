----------------------------- MODULE AnswerView -----------------------------
(***************************************************************************)
(* What the conversation page promises a reader, whatever carries it: an   *)
(* answer is generated in rounds (regenerating it starts the next one),    *)
(* each round ends once, and the reader is shown the outcome of a round    *)
(* whole, as it was stored, never that of a round older than the one the   *)
(* reader was already looking at.  ConversationStream implements this.     *)
(***************************************************************************)
EXTENDS Naturals, Sequences

CONSTANT Pending    \* the outcome of a round that has not ended

VARIABLES
  rounds,   \* the outcome of every round so far, in order
  shown     \* the round the reader looks at, and what the page shows of it

viewVars == <<rounds, shown>>

Init ==
  /\ rounds = <<Pending>>
  /\ shown = [round |-> 1, outcome |-> Pending]

\* The current round ends.
Settle ==
  /\ rounds[Len(rounds)] = Pending
  /\ LET o == rounds'[Len(rounds)]
     IN o # Pending /\ rounds' = [rounds EXCEPT ![Len(rounds)] = o]
  /\ UNCHANGED shown

\* The answer is regenerated, by this reader or by another.
Restart ==
  /\ rounds[Len(rounds)] # Pending
  /\ rounds' = Append(rounds, Pending)
  /\ \/ UNCHANGED shown
     \/ shown' = [round |-> Len(rounds'), outcome |-> Pending]

\* The rounds whose outcome the page may show next.
Due == {r \in shown.round .. Len(rounds) :
          shown.outcome = Pending /\ rounds[r] # Pending}

\* The page shows how a round ended.
Show ==
  /\ \E r \in Due : shown' = [round |-> r, outcome |-> rounds[r]]
  /\ UNCHANGED rounds

\* The page is loaded again and shows the latest round.
Load ==
  /\ shown' = [round |-> Len(rounds), outcome |-> rounds[Len(rounds)]]
  /\ UNCHANGED rounds

Next == Settle \/ Restart \/ Show \/ Load

ViewSafety == Init /\ [][Next]_viewVars

\* The reader who waits is told in the end.
ViewSpec == ViewSafety /\ WF_viewVars(Show)
=============================================================================
