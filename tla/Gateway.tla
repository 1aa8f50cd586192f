------------------------------- MODULE Gateway -------------------------------
(***************************************************************************)
(* One HTTP connection of the gateway.  The session reads requests ahead   *)
(* of the responses it writes, until as many responses wait as the limit   *)
(* allows; the next response written makes it read on.  All its callbacks  *)
(* run on one strand, so that each is one step; between them a read and a  *)
(* write may be under way at the same time.  Connections share nothing     *)
(* but the table of handlers.                                              *)
(*                                                                         *)
(* Requests are numbered as the client sends them.                         *)
(***************************************************************************)
EXTENDS Naturals, Sequences, SequencesExt

CONSTANTS
    QueueLimit, \* awsmock.service.gateway.http.max.queue
    MaxRequests \* bound: how many requests the client sends

ASSUME GatewayAssumption == QueueLimit \in Nat \ {0} /\ MaxRequests \in Nat

(* What the client asks to happen after the response, or a request that the *)
(* parser refuses: no HTTP, or a body above the limit.                       *)
Kind == {"keep-alive", "close", "malformed"}

VARIABLES
    sent,     \* the kinds of the requests the client has sent, in order
    finished, \* the client has shut down its sending side
    broken,   \* the connection is reset, or closed because a timer expired
    sending,  \* the session's sending side: "open", "closing", "closed"
    handled,  \* how many requests the session has read and executed
    reads,    \* reads under way
    writes,   \* writes under way
    queue,    \* response_queue_: requests whose responses are not written yet
    answered  \* requests whose responses are written, in order

client == <<sent, finished>>
vars   == <<sent, finished, broken, sending, handled, reads, writes, queue, answered>>

-----------------------------------------------------------------------------
Init ==
    /\ sent = <<>> /\ finished = FALSE /\ broken = FALSE
    /\ sending = "open"
    /\ handled = 0
    /\ reads = 1            \* Run posts the first DoRead
    /\ writes = 0
    /\ queue = <<>>
    /\ answered = <<>>

(* The client.                                                               *)
Send(kind) ==
    /\ ~finished /\ Len(sent) < MaxRequests
    /\ sent' = Append(sent, kind)
    /\ UNCHANGED <<finished, broken, sending, handled, reads, writes, queue, answered>>

Finish ==
    /\ ~finished
    /\ finished' = TRUE
    /\ UNCHANGED <<sent, broken, sending, handled, reads, writes, queue, answered>>

Reset ==
    /\ ~broken
    /\ broken' = TRUE
    /\ UNCHANGED <<client, sending, handled, reads, writes, queue, answered>>

-----------------------------------------------------------------------------
(* DoRead starts a read and, with expires_after, the timers; a timer that    *)
(* expires while its operation is under way closes the stream.               *)
NoReadTimer == writes > 0
TimerRuns == reads > 0 \/ writes > 0

Timeout ==
    /\ ~broken /\ TimerRuns
    /\ broken' = TRUE
    /\ UNCHANGED <<client, sending, handled, reads, writes, queue, answered>>

(* DoWrite starts a write of the front of the queue, if there is one.        *)
DoWrite(q) == IF q # <<>> THEN 1 ELSE 0

(* QueueWrite: a response waits, and is written at once if no other waits.   *)
AlwaysWrites(q) == DoWrite(q)
StartsWrite(q) == IF Len(q) = 1 THEN DoWrite(q) ELSE 0

(* How many reads OnRead starts, given the queue that results: it reads      *)
(* ahead below the limit.                                                    *)
ReadsAtLimit(q) == IF Len(q) <= QueueLimit THEN 1 ELSE 0
ReadsAhead(q) == IF Len(q) < QueueLimit THEN 1 ELSE 0

(* How many reads OnWrite starts, given the queue with the response written: *)
(* it reads on if the limit has paused reading.                              *)
NeverResumes(q) == 0
Resumes(q) == IF Len(q) = QueueLimit THEN 1 ELSE 0

(* DoClose shuts down the sending side.  A write that is under way may have  *)
(* left everything to the system by then, or fail; later ones do fail.       *)
DoClose(w) == IF w > 0 /\ sending # "closed" THEN "closing" ELSE "closed"

Pending == handled < Len(sent)
NextKind == sent[handled + 1]

(* OnRead with a request: it is executed here, and every way through          *)
(* HandleRequest makes a response.  The clients send an Authorization header *)
(* with each; without one GetAuthorizationKeys reads past an empty vector.   *)
(* Requests that are in the buffer when the connection breaks are parsed and *)
(* executed all the same.                                                    *)
OnRead ==
    /\ reads > 0 /\ Pending /\ NextKind # "malformed"
    /\ LET q == Append(queue, handled + 1) IN
           /\ queue' = q
           /\ writes' = writes + StartsWrite(q)
           /\ reads' = reads - 1 + ReadsAhead(q)
    /\ handled' = handled + 1
    /\ UNCHANGED <<client, broken, sending, answered>>

(* OnRead with the end of the stream closes the sending side, whatever is    *)
(* still to be written.                                                      *)
OnEnd ==
    /\ reads > 0 /\ ~broken /\ ~Pending /\ finished
    /\ reads' = reads - 1
    /\ sending' = DoClose(writes)
    /\ UNCHANGED <<client, broken, handled, writes, queue, answered>>

(* OnRead with another error logs it and reads no more.                      *)
OnReadError ==
    /\ reads > 0 /\ (broken \/ (Pending /\ NextKind = "malformed"))
    /\ reads' = reads - 1
    /\ UNCHANGED <<client, broken, sending, handled, writes, queue, answered>>

(* OnWrite: the response is out.                                             *)
Written ==
    /\ writes > 0 /\ ~broken /\ sending # "closed"
    /\ answered' = Append(answered, Head(queue))

(* It asked to close: the loop ends, with the response still in the queue.   *)
OnLastWrite ==
    /\ Written /\ sent[Head(queue)] = "close"
    /\ writes' = writes - 1
    /\ sending' = DoClose(writes')
    /\ UNCHANGED <<client, broken, handled, reads, queue>>

PopsOne(q) == Tail(q)
PopsNone(q) == q
Pop(q) == PopsOne(q)
OnWrite ==
    /\ Written /\ sent[Head(queue)] # "close"
    /\ queue' = Pop(queue)
    /\ reads' = reads + Resumes(queue)
    /\ writes' = writes - 1 + DoWrite(queue')
    /\ sending' = IF sending = "closing" THEN "closed" ELSE sending
    /\ UNCHANGED <<client, broken, handled>>

(* OnWrite with an error: nothing more is written.                           *)
OnWriteError ==
    /\ writes > 0 /\ (broken \/ sending # "open")
    /\ writes' = writes - 1
    /\ UNCHANGED <<client, broken, sending, handled, reads, queue, answered>>

Next ==
    \/ \E kind \in Kind : Send(kind)
    \/ Finish
    \/ Reset
    \/ Timeout
    \/ OnRead
    \/ OnEnd
    \/ OnReadError
    \/ OnLastWrite
    \/ OnWrite
    \/ OnWriteError

Spec == Init /\ [][Next]_vars

(* The network delivers what is sent on a connection that is not broken, the *)
(* io_context runs every callback that is ready, time passes.  The client    *)
(* need not send anything, nor end.                                          *)
FairSpec ==
    /\ Spec
    /\ WF_vars(OnRead) /\ WF_vars(OnEnd) /\ WF_vars(OnReadError)
    /\ WF_vars(OnLastWrite \/ OnWrite \/ OnWriteError)
    /\ WF_vars(Timeout)

-----------------------------------------------------------------------------
(* Properties.                                                               *)

TypeOK ==
    /\ sent \in Seq(Kind) /\ Len(sent) <= MaxRequests
    /\ finished \in BOOLEAN /\ broken \in BOOLEAN
    /\ sending \in {"open", "closing", "closed"}
    /\ handled \in 0..Len(sent)
    /\ reads \in Nat /\ writes \in Nat
    /\ queue \in Seq(1..handled) /\ Len(queue) <= QueueLimit
    /\ answered \in Seq(1..handled)

(* asio allows one read and one write at a time on a stream.  OnRead and     *)
(* OnWrite both start reads, and QueueWrite and OnWrite both start writes.   *)
OneOfEach == reads <= 1 /\ writes <= 1

(* Every response goes out once and in the order of its request, whatever    *)
(* was executed in the meantime (QueueWrite, OnWrite).                       *)
AnswersInOrder == \A i \in DOMAIN answered : answered[i] = i

(* The session reads only what it has room for: the responses that wait and  *)
(* the one a read under way will add are within the limit (OnRead, OnWrite,  *)
(* which reads on before it pops).                                           *)
BackPressure == Len(queue) + reads <= QueueLimit

(* Nothing the client, the network or a timer did gives a reason not to      *)
(* answer request n.                                                         *)
Undisturbed(n) ==
    /\ ~broken /\ ~finished
    /\ n <= Len(sent) /\ sent[n] # "malformed"
    /\ \A i \in 1..(n - 1) : sent[i] = "keep-alive"

(* Reading never stays paused: on a connection that neither breaks nor ends, *)
(* every request is answered, until one asks to close or is refused.         *)
RequestsAreAnswered ==
    \A n \in 1..MaxRequests : Undisturbed(n) ~> n \in Range(answered) \/ ~Undisturbed(n)

(* A session ends: the client sends no more at some time, and then the       *)
(* timers, the end of the stream or an error leave nothing under way, which  *)
(* destroys the session and frees its socket (shared_from_this).             *)
SessionsEnd == <>[](reads = 0 /\ writes = 0)
=============================================================================
