----------------------------- MODULE SQSRefinement -----------------------------
(******************************************************************************)
(* The in-memory SQS service implements the abstract queue, as long as nobody *)
(* uses ChangeMessageVisibility or deletes with an empty receipt handle.      *)
(******************************************************************************)
EXTENDS SQS

(* A row that is not in the table has not been sent yet or is gone.           *)
AbsState == [m \in Msg |-> IF messages[m].status \in {"INITIAL", "DELAYED"} THEN "visible"
                           ELSE IF messages[m].status = "INVISIBLE" THEN "lent"
                           ELSE IF issued[m] = 0 THEN "new" ELSE "gone"]

AbsPlace == [m \in Msg |-> messages[m].queue]

AbsHolder == [m \in Msg |-> {c \in Client : Valid(c, m)}]

AbsUntil == [c \in Client |-> [m \in Msg |-> lease[c][m].until]]

MQ == INSTANCE MessageQueue
      WITH state <- AbsState, place <- AbsPlace, holder <- AbsHolder,
           until <- AbsUntil, clock <- now

(* The service only does what the abstract queue allows: it lends visible     *)
(* messages only, takes them back only after their timeout, moves only        *)
(* visible ones, and drops a message only for its holder or with its queue.   *)
ImplementsMessageQueue == MQ!MQSpec

================================================================================
