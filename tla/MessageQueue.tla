----------------------------- MODULE MessageQueue -----------------------------
(******************************************************************************)
(* What an SQS queue promises its users, without its tables and threads: a    *)
(* message is sent once, is lent to one client at a time for a limited        *)
(* period, comes back when the period is over, and leaves when the client     *)
(* that holds it says so or when its queue is emptied.  Module SQSRefinement  *)
(* maps the service on the in-memory database to it.                          *)
(******************************************************************************)
EXTENDS Integers

CONSTANTS Queue, NoQueue, Msg, Client, VisibilityTimeouts

VARIABLES
    state,      \* "new" (not sent yet), "visible", "lent" or "gone"
    place,      \* the queue a message is in
    holder,     \* the clients whose receipt handle is good for a message
    until,      \* the end of the loan of each client
    clock

qvars == <<state, place, holder, until, clock>>

States == {"new", "visible", "lent", "gone"}

MQTypeOK ==
    /\ state \in [Msg -> States]
    /\ place \in [Msg -> Queue \cup {NoQueue}]
    /\ holder \in [Msg -> SUBSET Client]
    /\ until \in [Client -> [Msg -> Int]]
    /\ clock \in Nat

MQInit ==
    /\ state = [m \in Msg |-> "new"]
    /\ place = [m \in Msg |-> NoQueue]
    /\ holder = [m \in Msg |-> {}]
    /\ until = [c \in Client |-> [m \in Msg |-> -1]]
    /\ clock = 0

Override(f, S, v) == [x \in Msg |-> IF x \in S THEN v ELSE f[x]]

(* The sender gets a receipt handle too, good until the first receive.        *)
Send(c, m, q) ==
    /\ state[m] = "new"
    /\ state' = [state EXCEPT ![m] = "visible"]
    /\ place' = [place EXCEPT ![m] = q]
    /\ holder' = [holder EXCEPT ![m] = {c}]
    /\ UNCHANGED <<until, clock>>

(* Only visible messages of one queue are lent.                               *)
Lend(c, S, q, t) ==
    /\ \A m \in S : state[m] = "visible" /\ place[m] = q
    /\ state' = Override(state, S, "lent")
    /\ holder' = Override(holder, S, {c})
    /\ until' = [until EXCEPT ![c] = Override(@, S, clock + t)]
    /\ UNCHANGED <<place, clock>>

(* A loan ends only after its period; the handle is void from then on.        *)
TakeBack(S) ==
    /\ \A m \in S : /\ state[m] = "lent"
                    /\ \A c \in Client : until[c][m] < clock
    /\ state' = Override(state, S, "visible")
    /\ holder' = Override(holder, S, {})
    /\ UNCHANGED <<place, until, clock>>

(* Only visible messages are moved to a dead-letter queue.                    *)
MoveTo(S, q) ==
    /\ \A m \in S : state[m] = "visible"
    /\ place' = Override(place, S, q)
    /\ UNCHANGED <<state, holder, until, clock>>

(* A client may dispose of what it has the receipt handle of.                 *)
Acknowledge(c, m) ==
    /\ state[m] \in {"visible", "lent"}
    /\ c \in holder[m]
    /\ state' = [state EXCEPT ![m] = "gone"]
    /\ place' = [place EXCEPT ![m] = NoQueue]
    /\ holder' = [holder EXCEPT ![m] = {}]
    /\ UNCHANGED <<until, clock>>

(* All messages of a queue are thrown away, lent or not.                      *)
Empty(q) ==
    LET S == {m \in Msg : state[m] \in {"visible", "lent"} /\ place[m] = q}
    IN  /\ state' = Override(state, S, "gone")
        /\ place' = Override(place, S, NoQueue)
        /\ holder' = Override(holder, S, {})
        /\ UNCHANGED <<until, clock>>

Pass == clock' = clock + 1 /\ UNCHANGED <<state, place, holder, until>>

MQNext ==
    \/ \E c \in Client, m \in Msg, q \in Queue \cup {NoQueue} : Send(c, m, q)
    \/ \E c \in Client, S \in SUBSET Msg, q \in Queue, t \in VisibilityTimeouts : Lend(c, S, q, t)
    \/ \E S \in SUBSET Msg : TakeBack(S)
    \/ \E S \in SUBSET Msg, q \in Queue : MoveTo(S, q)
    \/ \E c \in Client, m \in Msg : Acknowledge(c, m)
    \/ \E q \in Queue : Empty(q)
    \/ Pass

MQSpec == MQInit /\ [][MQNext]_qvars

================================================================================
