------------------------- MODULE SQSRefinementProofs -------------------------
(******************************************************************************)
(* The message properties of the in-memory SQS service and its refinement of  *)
(* the abstract queue, for any sets of queues, messages and clients and any   *)
(* queue definitions.                                                         *)
(******************************************************************************)
EXTENDS SQSRefinement, SQSProofs

(* Redrive.  What a row, or a copy of one that a handler will write back,     *)
(* says of its message: the retry counter in the queue it was sent to counts  *)
(* receives, and a row in another queue was delivered too often before.       *)
RowOK(m, r) ==
    r.status # "ABSENT" =>
        /\ issued[m] > 0
        /\ r.queue = home[m] => r.retries < issued[m]
        /\ r.queue # home[m] =>
               home[m] \in Queue /\ issued[m] - 1 > MaxReceiveCount[home[m]]

RedriveInv ==
    /\ \A m \in Msg : RowOK(m, messages[m])
    /\ \A c \in Client : call[c].pc = "changeUpdate" => RowOK(Head(call[c].todo), call[c].copy)

(* Receipt handles: none was given out that was not counted, no two clients   *)
(* have the same one of a message, and the handle of a running lease is that  *)
(* of the row.                                                                *)
HandleInv ==
    /\ \A m \in Msg : messages[m].handle <= issued[m]
    /\ \A c \in Client, m \in Msg : lease[c][m].handle <= issued[m]
    /\ \A c, d \in Client, m \in Msg :
           lease[c][m].handle > 0 /\ lease[c][m].handle = lease[d][m].handle => c = d
    /\ \A c \in Client, m \in Msg :
           Present(m) /\ lease[c][m].until >= now => messages[m].handle = lease[c][m].handle

(* What the refinement needs besides: rows are never DELAYED (SendMessage     *)
(* stores INITIAL whatever the delay), nobody deletes by an empty handle, the *)
(* queue emptied by a request is a queue, and the worker redrives only queues *)
(* that have a dead-letter queue.                                             *)
PlainInv ==
    /\ \A m \in Msg : messages[m].status # "DELAYED"
    /\ \A c \in Client : /\ call[c].pc # "eraseEmpty"
                         /\ call[c].pc \in {"deleteMessages", "purge"} => call[c].queue \in Queue
    /\ worker.pc = "redrive" => DeadLetter[worker.queue] \in Queue
    /\ \A c \in Client, m \in Msg : issued[m] = 0 => lease[c][m].until = -1

--------------------------------------------------------------------------------
(* The steps other than the insert, the take and the write-back of a copy     *)
(* leave the history alone and change the rows with one of these calls.       *)
RowsMove ==
    \/ UNCHANGED messages
    \/ \E X : messages' = Erase(X)
    \/ \E q : messages' = ResetMessages(q)
    \/ \E q \in Queue : messages' = RedriveMessages(q)
    \/ \E q : messages' = ResetDelayedMessages(q)

LEMMA StepKinds ==
    ASSUME TypeInv, Next
    PROVE  \/ \E c \in Client, m \in Msg, t \in VisibilityTimeouts : SendCreate(c, m, t)
           \/ \E c \in Client, S \in SUBSET Msg, t \in VisibilityTimeouts : ReceiveTake(c, S, t)
           \/ \E c \in Client : ChangeUpdate(c)
           \/ RowsMove /\ UNCHANGED history /\ (now' = now \/ Tick)
<1>1. ASSUME NEW c \in Client, Request(c)
      PROVE  RowsMove /\ UNCHANGED history /\ now' = now
  BY <1>1 DEF RowsMove, Request, CreateQueue, DeleteQueue, PurgeQueue, SendMessage, Receive,
         SetVisibilityTimeout, DeleteMessageBatch, DeleteMessageEmpty
<1>2. ASSUME NEW c \in Client, Handle(c)
      PROVE  \/ \E m \in Msg, t \in VisibilityTimeouts : SendCreate(c, m, t)
             \/ \E S \in SUBSET Msg, t \in VisibilityTimeouts : ReceiveTake(c, S, t)
             \/ ChangeUpdate(c)
             \/ RowsMove /\ UNCHANGED history /\ now' = now
  BY <1>2 DEF RowsMove, Handle, CreateQueueInsert, DeleteQueueMessages, DeleteQueueEntry,
         PurgeQueueErase, SendGetQueue, ReceiveGetQueue, ReceiveReset, ChangeGet, DeleteCheck,
         DeleteErase, DeleteEraseEmpty
<1>3. CASE RunWorker
  <2>1. worker.pc = "redrive" => worker.queue \in Queue
    BY DEF TypeInv, LocalOK
  <2> QED
    BY <1>3, <2>1 DEF RowsMove, RunWorker, WorkerListQueues, WorkerNext, WorkerRetention,
           WorkerReset, WorkerRedrive, WorkerDelayed, WorkerUpdateQueue, WorkerAt
<1>4. CASE Tick
  BY <1>4 DEF Tick, RowsMove
<1> QED
  BY <1>1, <1>2, <1>3, <1>4 DEF Next

(* A thread changes nothing that another thread keeps.                        *)
LEMMA OthersWait ==
    ASSUME TypeInv, NEW c \in Client, NEW d \in Client, c # d, Request(c) \/ Handle(c)
    PROVE  call'[d] = call[d]
<1>1. call \in [Client -> Call]
  BY DEF TypeInv, TypeOK
<1>2. CASE Request(c)
  <2>1. \E k : call' = [call EXCEPT ![c] = k]
    BY <1>2 DEF Request, CreateQueue, DeleteQueue, PurgeQueue, SendMessage, Receive,
           SetVisibilityTimeout, DeleteMessageBatch, DeleteMessageEmpty, Begin
  <2> QED
    BY <1>1, <2>1
<1>3. CASE Handle(c)
  <2>1. \/ Return(c) \/ \E l : Goto(c, l)
        \/ SendGetQueue(c) \/ ReceiveGetQueue(c) \/ ChangeGet(c) \/ DeleteErase(c)
    BY <1>3 DEF Handle, CreateQueueInsert, DeleteQueueMessages, DeleteQueueEntry,
           PurgeQueueErase, SendCreate, ReceiveReset, ReceiveTake, ChangeUpdate, DeleteCheck,
           DeleteEraseEmpty
  <2> QED
    BY <1>1, <2>1 DEF Return, Goto, SendGetQueue, ReceiveGetQueue, ChangeGet, DeleteErase
<1> QED
  BY <1>2, <1>3

(* A thread gets to the write-back of a copy only by taking the copy.         *)
LEMMA CopyTaken ==
    ASSUME TypeInv, Next, NEW d \in Client, call'[d].pc = "changeUpdate"
    PROVE  call'[d] = call[d] \/ ChangeGet(d)
<1>1. call \in [Client -> Call] /\ call[d] \in Call
  BY DEF TypeInv, TypeOK
<1>2. ASSUME NEW c \in Client, Request(c)
      PROVE  call'[d] = call[d]
  <2>1. \E k : k.pc # "changeUpdate" /\ call' = [call EXCEPT ![c] = k]
    <3>1. CASE \/ \E q \in Queue : CreateQueue(c, q) \/ DeleteQueue(c, q) \/ PurgeQueue(c, q)
               \/ \E q \in Url : SendMessage(c, q)
      BY <3>1 DEF CreateQueue, DeleteQueue, PurgeQueue, SendMessage, Begin, NoCall
    <3>2. CASE \E q \in Url, w \in WaitTimes, x \in BatchSizes : Receive(c, q, w, x)
      BY <3>2 DEF Receive, Begin, NoCall
    <3>3. CASE \E e \in Batches : DeleteMessageBatch(c, e)
      BY <3>3 DEF DeleteMessageBatch, Begin, NoCall
    <3>4. CASE DeleteMessageEmpty(c)
      BY <3>4 DEF DeleteMessageEmpty, Begin, NoCall
    <3>5. CASE \E m \in Msg, t \in VisibilityTimeouts : SetVisibilityTimeout(c, m, t)
      BY <3>5 DEF SetVisibilityTimeout, Begin, NoCall
    <3> QED
      BY <1>2, <3>1, <3>2, <3>3, <3>4, <3>5 DEF Request
  <2> QED
    BY <1>1, <2>1
<1>3. ASSUME NEW c \in Client, Handle(c), c # d
      PROVE  call'[d] = call[d]
  BY <1>3, OthersWait
<1>4. CASE Handle(d)
  <2>1. ~Return(d)
    BY <1>1 DEF Return, NoCall
  <2>2. \A l : l # "changeUpdate" => ~Goto(d, l)
    BY <1>1 DEF Goto, Call
  <2>3. ~SendGetQueue(d) /\ ~ReceiveGetQueue(d)
    BY <1>1, <2>1 DEF SendGetQueue, ReceiveGetQueue, Call
  <2>4. ~DeleteErase(d)
    BY <1>1, <2>1 DEF DeleteErase, Call
  <2> QED
    BY <1>4, <2>1, <2>2, <2>3, <2>4
       DEF Handle, CreateQueueInsert, DeleteQueueMessages, DeleteQueueEntry,
           PurgeQueueErase, SendCreate, ReceiveReset, ReceiveTake, ChangeUpdate, DeleteCheck,
           DeleteEraseEmpty
<1>5. CASE RunWorker \/ Tick
  BY <1>5 DEF RunWorker, Tick, WorkerListQueues, WorkerNext, WorkerRetention,
         WorkerReset, WorkerRedrive, WorkerDelayed, WorkerUpdateQueue
<1> QED
  BY <1>2, <1>3, <1>4, <1>5 DEF Next

--------------------------------------------------------------------------------
(* Redrive.                                                                   *)

LEMMA MovedRowOK ==
    ASSUME TypeInv, RedriveInv, RowsMove, UNCHANGED history, NEW m \in Msg
    PROVE  RowOK(m, messages[m])'
<1>1. messages[m] \in Message /\ issued[m] \in Nat /\ RowOK(m, messages[m])
  BY DEF TypeInv, TypeOK, RedriveInv
<1>2. issued' = issued /\ home' = home
  BY DEF history
<1>3. CASE UNCHANGED messages
  BY <1>1, <1>2, <1>3 DEF RowOK
<1>4. CASE \E X : messages' = Erase(X)
  <2>1. messages'[m] = messages[m] \/ messages'[m] = NoMessage
    BY <1>4 DEF Erase
  <2> QED
    BY <1>1, <1>2, <2>1 DEF RowOK, NoMessage
<1>5. CASE \E q : messages' = ResetMessages(q)
  <2>1. \/ messages'[m] = messages[m]
        \/ /\ Present(m)
           /\ messages'[m] = [messages[m] EXCEPT !.status = "INITIAL", !.handle = 0]
    BY <1>5 DEF ResetMessages, Expired, MessagesOf
  <2> QED
    BY <1>1, <1>2, <2>1 DEF RowOK, Message, Present
<1>6. ASSUME NEW q \in Queue, messages' = RedriveMessages(q)
      PROVE  RowOK(m, messages[m])'
  <2>1. CASE m \in Overdue(q)
    <3>1. /\ Present(m) /\ messages[m].queue = q
          /\ messages[m].retries > MaxReceiveCount[q]
      BY <2>1 DEF Overdue, MessagesOf
    <3>2. messages'[m] = [messages[m] EXCEPT !.retries = 0, !.queue = DeadLetter[q]]
      BY <1>6, <2>1 DEF RedriveMessages
    <3>3. messages[m].retries \in Nat /\ MaxReceiveCount[q] \in Nat
      BY <1>1, SQSAssumption DEF Message
    <3>4. messages'[m].retries = 0
      BY <1>1, <3>2 DEF Message
    <3>5. /\ issued[m] > 0
          /\ home[m] \in Queue /\ issued[m] - 1 > MaxReceiveCount[home[m]]
      BY <1>1, <3>1, <3>3 DEF RowOK, Present
    <3> QED
      BY <1>2, <3>4, <3>5 DEF RowOK
  <2>2. CASE m \notin Overdue(q)
    <3>1. messages'[m] = messages[m]
      BY <1>6, <2>2 DEF RedriveMessages
    <3> QED
      BY <1>1, <1>2, <3>1 DEF RowOK
  <2> QED
    BY <2>1, <2>2
<1>7. CASE \E q : messages' = ResetDelayedMessages(q)
  <2>1. \/ messages'[m] = messages[m]
        \/ /\ Present(m)
           /\ messages'[m] = [messages[m] EXCEPT !.status = "INITIAL"]
    BY <1>7 DEF ResetDelayedMessages, DelayOver, MessagesOf
  <2> QED
    BY <1>1, <1>2, <2>1 DEF RowOK, Message, Present
<1> QED
  BY <1>3, <1>4, <1>5, <1>6, <1>7 DEF RowsMove

LEMMA SentRowOK ==
    ASSUME TypeInv, RedriveInv, NEW m \in Msg,
           NEW c \in Client, NEW n \in Msg, NEW t \in VisibilityTimeouts, SendCreate(c, n, t)
    PROVE  RowOK(m, messages[m])'
<1>1. CASE m = n
  <2>1. /\ messages'[m].queue = call[c].queue /\ messages'[m].retries = 0
        /\ issued'[m] = 1
        /\ home'[m] = call[c].queue
    BY <1>1 DEF SendCreate, TypeInv, TypeOK
  <2> QED
    BY <2>1 DEF RowOK
<1>2. CASE m # n
  <2>1. messages'[m] = messages[m] /\ issued'[m] = issued[m] /\ home'[m] = home[m]
    BY <1>2 DEF SendCreate, TypeInv, TypeOK
  <2> QED
    BY <2>1 DEF RedriveInv, RowOK
<1> QED
  BY <1>1, <1>2

LEMMA TakenRowOK ==
    ASSUME TypeInv, RedriveInv, NEW m \in Msg,
           NEW c \in Client, NEW S \in SUBSET Msg, NEW t \in VisibilityTimeouts,
           ReceiveTake(c, S, t)
    PROVE  RowOK(m, messages[m])'
<1>1. messages[m] \in Message /\ issued[m] \in Nat /\ RowOK(m, messages[m])
  BY DEF TypeInv, TypeOK, RedriveInv
<1>2. home' = home
  BY DEF ReceiveTake
<1>3. CASE m \in S
  <2>1. Present(m)
    BY <1>3 DEF ReceiveTake, Visible, Present
  <2>2. issued'[m] = issued[m] + 1
    BY <1>3 DEF ReceiveTake
  <2> DEFINE k == messages[m].retries + 1
             h == issued[m] + 1
             u == now + t
  <2>3. messages'[m] = [messages[m] EXCEPT !.status = "INVISIBLE", !.retries = k,
                                          !.handle = h, !.reset = u]
    BY <1>3 DEF ReceiveTake, ReceiveMessages
  <2> HIDE DEF k, h, u
  <2>4. messages'[m].queue = messages[m].queue /\ messages'[m].retries = k
    BY <1>1, <2>3 DEF Message
  <2>5. messages[m].retries \in Nat
    BY <1>1 DEF Message
  <2>6. /\ issued[m] > 0
        /\ messages[m].queue = home[m] => messages[m].retries < issued[m]
        /\ messages[m].queue # home[m] =>
               home[m] \in Queue /\ issued[m] - 1 > MaxReceiveCount[home[m]]
    BY <1>1, <2>1 DEF RowOK, Present
  <2>7. \A q \in Queue : MaxReceiveCount[q] \in Nat
    BY SQSAssumption
  <2> QED
    BY <1>1, <1>2, <2>2, <2>4, <2>5, <2>6, <2>7 DEF RowOK, k
<1>4. CASE m \notin S
  <2>1. messages'[m] = messages[m] /\ issued'[m] = issued[m]
    BY <1>4 DEF ReceiveTake, ReceiveMessages
  <2> QED
    BY <1>1, <1>2, <2>1 DEF RowOK
<1> QED
  BY <1>3, <1>4

LEMMA WrittenRowOK ==
    ASSUME TypeInv, RedriveInv, NEW m \in Msg, NEW c \in Client, ChangeUpdate(c)
    PROVE  RowOK(m, messages[m])'
<1>1. RowOK(m, messages[m]) /\ RowOK(Head(call[c].todo), call[c].copy)
  BY DEF RedriveInv, ChangeUpdate, At
<1>2. UNCHANGED <<issued, home>>
  BY DEF ChangeUpdate
<1>3. \/ messages'[m] = messages[m]
      \/ m = Head(call[c].todo) /\ messages'[m] = call[c].copy
  BY DEF ChangeUpdate, Stored, TypeInv, TypeOK
<1> QED
  BY <1>1, <1>2, <1>3 DEF RowOK

(* Receives of a message count up, so what a copy says stays true.            *)
LEMMA RowOKLasts ==
    ASSUME TypeInv, NEW m \in Msg, NEW r \in Message, RowOK(m, r),
           issued[m] > 0 => issued'[m] \in Nat /\ issued'[m] >= issued[m] /\ home'[m] = home[m]
    PROVE  r.status # "ABSENT" =>
               /\ issued'[m] > 0
               /\ r.queue = home'[m] => r.retries < issued'[m]
               /\ r.queue # home'[m] =>
                      home'[m] \in Queue /\ issued'[m] - 1 > MaxReceiveCount[home'[m]]
<1>1. issued[m] \in Nat /\ r.retries \in Nat /\ \A q \in Queue : MaxReceiveCount[q] \in Nat
  BY SQSAssumption DEF TypeInv, TypeOK, Message
<1> QED
  BY <1>1 DEF RowOK

LEMMA HistoryGrows ==
    ASSUME TypeInv, Next, NEW m \in Msg, issued[m] > 0
    PROVE  issued'[m] \in Nat /\ issued'[m] >= issued[m] /\ home'[m] = home[m]
<1>1. issued[m] \in Nat /\ issued'[m] \in Nat
  BY NextType DEF TypeInv, TypeOK
<1>2. CASE \E c \in Client, n \in Msg, t \in VisibilityTimeouts : SendCreate(c, n, t)
  BY <1>1, <1>2 DEF SendCreate, TypeInv, TypeOK
<1>3. CASE \E c \in Client, S \in SUBSET Msg, t \in VisibilityTimeouts : ReceiveTake(c, S, t)
  BY <1>1, <1>3 DEF ReceiveTake
<1>4. CASE UNCHANGED <<issued, home>>
  BY <1>1, <1>4
<1> QED
  BY <1>2, <1>3, <1>4, StepKinds DEF ChangeUpdate, history

LEMMA CopiesOK ==
    ASSUME TypeInv, RedriveInv, Next, NEW d \in Client, call'[d].pc = "changeUpdate"
    PROVE  RowOK(Head(call[d].todo), call[d].copy)'
<1>1. TypeInv'
  BY NextType
<1>2. call[d] \in Call /\ call'[d] \in Call /\ CallOK(call'[d])
  BY <1>1 DEF TypeInv, TypeOK, LocalOK
<1>3. CASE call'[d] = call[d]
  <2> DEFINE m == Head(call[d].todo)
             r == call[d].copy
  <2>1. m \in Msg /\ r \in Message
    BY <1>2, <1>3 DEF CallOK, EntryLabels, Call
  <2>2. RowOK(m, r)
    BY <1>3 DEF RedriveInv
  <2>3. Head(call'[d].todo) = m /\ call'[d].copy = r
    BY <1>3
  <2> HIDE DEF m, r
  <2> QED
    BY <2>1, <2>2, <2>3, HistoryGrows, RowOKLasts DEF RowOK
<1>4. CASE ChangeGet(d)
  <2> DEFINE m == Head(call[d].todo)
             u == now + call[d].timeout
             found == IF Valid(d, m) THEN messages[m] ELSE NoMessage
  <2>1. call' = [call EXCEPT ![d].pc = "changeUpdate", ![d].copy = [found EXCEPT !.reset = u]]
    BY <1>4 DEF ChangeGet
  <2>2. m \in Msg
    BY <1>4, <1>2 DEF ChangeGet, At, TypeInv, LocalOK, CallOK, EntryLabels, Call
  <2>3. RowOK(m, found) /\ found \in Message
    BY <2>2, NoMessageType DEF RedriveInv, TypeInv, TypeOK, RowOK, NoMessage
  <2> HIDE DEF u, found
  <2>4. call'[d].todo = call[d].todo /\ call'[d].copy = [found EXCEPT !.reset = u]
    BY <1>2, <2>1 DEF TypeInv, TypeOK, Call
  <2>5. UNCHANGED <<issued, home>>
    BY <1>4 DEF ChangeGet, history
  <2>6. Head(call'[d].todo) = m
    BY <2>4
  <2> HIDE DEF m
  <2> QED
    BY <2>3, <2>4, <2>5, <2>6 DEF RowOK, Message
<1> QED
  BY <1>3, <1>4, CopyTaken

LEMMA RedriveNext == TypeInv /\ RedriveInv /\ [Next]_vars => RedriveInv'
<1> SUFFICES ASSUME TypeInv, RedriveInv, [Next]_vars PROVE RedriveInv'
  OBVIOUS
<1>1. CASE Next
  <2>1. \A m \in Msg : RowOK(m, messages[m])'
    BY <1>1, StepKinds, MovedRowOK, SentRowOK, TakenRowOK, WrittenRowOK
  <2>2. \A d \in Client : call'[d].pc = "changeUpdate" =>
                             RowOK(Head(call[d].todo), call[d].copy)'
    BY <1>1, CopiesOK
  <2> QED
    BY <2>1, <2>2 DEF RedriveInv
<1>2. CASE UNCHANGED vars
  BY <1>2 DEF vars, RedriveInv, RowOK
<1> QED
  BY <1>1, <1>2

LEMMA RedriveInit == Init => RedriveInv
  BY DEF Init, RedriveInv, RowOK, NoMessage, NoCall

(* A message is found in a queue it was not sent to only if the queue it was  *)
(* sent to delivered it more often than maxReceiveCount allows: for any       *)
(* queues and redrive policies (cycles of dead-letter queues included) and    *)
(* all requests, those that write old copies of messages back too             *)
(* (SQSMemoryDb::RedriveMessages, UpdateMessage).                             *)
THEOREM RedriveIsLate == Spec => []DeadLetterOnlyAfterMaxReceives
<1>1. RedriveInv => DeadLetterOnlyAfterMaxReceives
  BY DEF RedriveInv, RowOK, DeadLetterOnlyAfterMaxReceives, Present
<1> QED
  BY RedriveInit, RedriveNext, TypeInvariant, <1>1, PTL DEF Spec

--------------------------------------------------------------------------------
(* Receipt handles.                                                           *)

(* None of the calls of RowsMove gives a row a new handle, and it takes the   *)
(* handle away only from rows whose leases are over.                          *)
LEMMA MovedHandle ==
    ASSUME TypeInv, LeaseInv, RowsMove, NEW m \in Msg, Present(m)'
    PROVE  /\ Present(m)
           /\ \/ messages'[m].handle = messages[m].handle
              \/ messages'[m].handle = 0 /\ \A c \in Client : lease[c][m].until < now
<1>1. messages[m] \in Message
  BY DEF TypeInv, TypeOK
<1>2. CASE UNCHANGED messages
  BY <1>2 DEF Present
<1>3. CASE \E X : messages' = Erase(X)
  BY <1>3 DEF Erase, Present, NoMessage
<1>4. ASSUME NEW q, messages' = ResetMessages(q)
      PROVE  /\ Present(m)
             /\ \/ messages'[m].handle = messages[m].handle
                \/ messages'[m].handle = 0 /\ \A c \in Client : lease[c][m].until < now
  <2>1. CASE m \in Expired(q)
    <3>1. Present(m) /\ messages[m].status = "INVISIBLE" /\ messages[m].reset < now
      BY <2>1 DEF Expired, MessagesOf
    <3>2. messages'[m].handle = 0
      BY <1>1, <1>4, <2>1 DEF ResetMessages, Message
    <3>3. messages[m].reset \in Nat /\ now \in Nat /\ \A c \in Client : lease[c][m].until \in Int
      BY <1>1 DEF TypeInv, TypeOK, Message, Lease
    <3> QED
      BY <3>1, <3>2, <3>3 DEF LeaseInv
  <2>2. CASE m \notin Expired(q)
    BY <1>4, <2>2 DEF ResetMessages, Present
  <2> QED
    BY <2>1, <2>2
<1>5. CASE \E q \in Queue : messages' = RedriveMessages(q)
  <2>1. \/ messages'[m] = messages[m]
        \/ \E u : messages'[m] = [messages[m] EXCEPT !.retries = 0, !.queue = u]
    BY <1>5 DEF RedriveMessages
  <2> QED
    BY <1>1, <2>1 DEF Message, Present
<1>6. CASE \E q : messages' = ResetDelayedMessages(q)
  <2>1. \/ messages'[m] = messages[m]
        \/ /\ Present(m)
           /\ messages'[m] = [messages[m] EXCEPT !.status = "INITIAL"]
    BY <1>6 DEF ResetDelayedMessages, DelayOver, MessagesOf
  <2> QED
    BY <1>1, <2>1 DEF Message, Present
<1> QED
  BY <1>2, <1>3, <1>4, <1>5, <1>6 DEF RowsMove

LEMMA MovedHandleBound ==
    ASSUME TypeInv, RowsMove, NEW m \in Msg
    PROVE  messages'[m].handle = messages[m].handle \/ messages'[m].handle = 0
<1>1. messages[m] \in Message
  BY DEF TypeInv, TypeOK
<1>2. CASE UNCHANGED messages \/ \E X : messages' = Erase(X)
  BY <1>2 DEF Erase, NoMessage
<1>3. CASE \E q : messages' = ResetMessages(q)
  BY <1>1, <1>3 DEF ResetMessages, Message
<1>4. CASE \E q \in Queue : messages' = RedriveMessages(q)
  <2>1. \/ messages'[m] = messages[m]
        \/ \E u : messages'[m] = [messages[m] EXCEPT !.retries = 0, !.queue = u]
    BY <1>4 DEF RedriveMessages
  <2> QED
    BY <1>1, <2>1 DEF Message
<1>5. CASE \E q : messages' = ResetDelayedMessages(q)
  BY <1>1, <1>5 DEF ResetDelayedMessages, Message
<1> QED
  BY <1>2, <1>3, <1>4, <1>5 DEF RowsMove

LEMMA HandleMove ==
    ASSUME TypeInv, LeaseInv, HandleInv, RowsMove, UNCHANGED history,
           now' = now \/ Tick
    PROVE  HandleInv'
<1>1. issued' = issued /\ lease' = lease
  BY DEF history
<1>2. \A m \in Msg : messages'[m].handle <= issued'[m]
  BY <1>1, MovedHandleBound DEF HandleInv, TypeInv, TypeOK
<1>3. ASSUME NEW c \in Client, NEW m \in Msg, Present(m)', lease'[c][m].until >= now'
      PROVE  messages'[m].handle = lease'[c][m].handle
  <2>1. lease[c][m].until \in Int /\ now \in Nat
    BY DEF TypeInv, TypeOK, Lease
  <2>2. lease[c][m].until >= now
    BY <1>1, <1>3, <2>1 DEF Tick
  <2>3. Present(m) /\ messages'[m].handle = messages[m].handle
    BY <1>3, <2>1, <2>2, MovedHandle
  <2> QED
    BY <1>1, <2>2, <2>3 DEF HandleInv
<1> QED
  BY <1>1, <1>2, <1>3 DEF HandleInv

LEMMA HandleSend ==
    ASSUME TypeInv, LeaseInv, HandleInv, NEW c \in Client, NEW n \in Msg,
           NEW t \in VisibilityTimeouts, SendCreate(c, n, t)
    PROVE  HandleInv'
<1>1. /\ issued[n] = 0 /\ now' = now /\ now \in Nat
      /\ messages'[n].handle = 1 /\ issued'[n] = 1
      /\ \A m \in Msg \ {n} : messages'[m] = messages[m] /\ issued'[m] = issued[m]
  BY DEF SendCreate, TypeInv, TypeOK
<1>2. /\ lease'[c][n] = [handle |-> 1, until |-> -1]
      /\ \A d \in Client \ {c} : lease'[d][n] = lease[d][n]
      /\ \A d \in Client, m \in Msg \ {n} : lease'[d][m] = lease[d][m]
  BY DEF SendCreate, TypeInv, TypeOK
<1>3. \A d \in Client : lease[d][n].handle \in Nat /\ lease[d][n].handle <= 0
  BY <1>1 DEF HandleInv, TypeInv, TypeOK, Lease
<1>4. lease'[c][n].handle = 1 /\ lease'[c][n].until = -1
  BY <1>2
<1>5. \A m \in Msg : messages'[m].handle <= issued'[m]
  BY <1>1 DEF HandleInv
<1>6. \A d \in Client, m \in Msg : lease'[d][m].handle <= issued'[m]
  BY <1>1, <1>2, <1>3, <1>4 DEF HandleInv
<1>7. ASSUME NEW d \in Client, NEW e \in Client, NEW m \in Msg,
             lease'[d][m].handle > 0, lease'[d][m].handle = lease'[e][m].handle
      PROVE  d = e
  <2>1. CASE m = n
    BY <1>2, <1>3, <1>7, <2>1
  <2>2. CASE m # n
    BY <1>2, <1>7, <2>2 DEF HandleInv
  <2> QED
    BY <2>1, <2>2
<1>8. ASSUME NEW d \in Client, NEW m \in Msg, Present(m)', lease'[d][m].until >= now'
      PROVE  messages'[m].handle = lease'[d][m].handle
  <2>1. CASE m = n
    <3>1. \A e \in Client : lease[e][n].until < now /\ lease[e][n].until \in Int
      BY <1>1 DEF LeaseInv, TypeInv, TypeOK, Lease
    <3> QED
      BY <1>1, <1>2, <1>4, <1>8, <2>1, <3>1
  <2>2. CASE m # n
    BY <1>1, <1>2, <1>8, <2>2 DEF HandleInv, Present
  <2> QED
    BY <2>1, <2>2
<1> QED
  BY <1>5, <1>6, <1>7, <1>8 DEF HandleInv

(* What a receive does to a message it takes and to the others.               *)
LEMMA TakeEffect ==
    ASSUME TypeInv, NEW c \in Client, NEW S \in SUBSET Msg,
           NEW t \in VisibilityTimeouts, ReceiveTake(c, S, t)
    PROVE  /\ \A m \in S : /\ messages'[m].status = "INVISIBLE"
                          /\ messages'[m].queue = messages[m].queue
                          /\ messages'[m].handle = issued[m] + 1
                          /\ issued'[m] = issued[m] + 1
                          /\ lease'[c][m].handle = issued[m] + 1
                          /\ lease'[c][m].until = now + t
           /\ \A m \in Msg \ S : /\ messages'[m] = messages[m]
                                /\ issued'[m] = issued[m]
                                /\ lease'[c][m] = lease[c][m]
           /\ \A d \in Client \ {c} : lease'[d] = lease[d]
<1>1. ASSUME NEW m \in S
      PROVE  /\ messages'[m].status = "INVISIBLE"
             /\ messages'[m].queue = messages[m].queue
             /\ messages'[m].handle = issued[m] + 1
  <2> DEFINE k == messages[m].retries + 1
             h == issued[m] + 1
             u == now + t
  <2>1. messages[m] \in Message
    BY DEF TypeInv, TypeOK
  <2>2. messages'[m] = [messages[m] EXCEPT !.status = "INVISIBLE", !.retries = k,
                                          !.handle = h, !.reset = u]
    BY DEF ReceiveTake, ReceiveMessages
  <2> HIDE DEF k, h, u
  <2>3. /\ messages'[m].status = "INVISIBLE"
        /\ messages'[m].queue = messages[m].queue
        /\ messages'[m].handle = h
    BY <2>1, <2>2 DEF Message
  <2> QED
    BY <2>3 DEF h
<1>2. /\ \A m \in S : issued'[m] = issued[m] + 1
      /\ \A m \in Msg \ S : messages'[m] = messages[m] /\ issued'[m] = issued[m]
  BY DEF ReceiveTake, ReceiveMessages
<1> DEFINE u == now + t
           row == [m \in Msg |-> IF m \in S THEN [handle |-> issued[m] + 1, until |-> u]
                                ELSE lease[c][m]]
<1>3. lease' = [lease EXCEPT ![c] = row]
  BY DEF ReceiveTake
<1>4. /\ \A m \in S : row[m].handle = issued[m] + 1 /\ row[m].until = u
      /\ \A m \in Msg \ S : row[m] = lease[c][m]
  OBVIOUS
<1> HIDE DEF row
<1>5. lease'[c] = row /\ \A d \in Client \ {c} : lease'[d] = lease[d]
  BY <1>3 DEF TypeInv, TypeOK
<1> QED
  BY <1>1, <1>2, <1>4, <1>5

LEMMA HandleTake ==
    ASSUME TypeInv, LeaseInv, HandleInv, NEW c \in Client, NEW S \in SUBSET Msg,
           NEW t \in VisibilityTimeouts, ReceiveTake(c, S, t)
    PROVE  HandleInv'
<1>t. \A m \in S : /\ messages'[m].status = "INVISIBLE"
                 /\ messages'[m].queue = messages[m].queue
                 /\ messages'[m].handle = issued[m] + 1
                 /\ issued'[m] = issued[m] + 1
                 /\ lease'[c][m].handle = issued[m] + 1
                 /\ lease'[c][m].until = now + t
  BY TakeEffect
<1>u. \A m \in Msg \ S : /\ messages'[m] = messages[m]
                       /\ issued'[m] = issued[m]
                       /\ lease'[c][m] = lease[c][m]
  BY TakeEffect
<1>o. \A d \in Client \ {c} : lease'[d] = lease[d]
  BY TakeEffect
<1>1. now' = now /\ now \in Nat /\ issued \in [Msg -> Nat]
  BY DEF ReceiveTake, TypeInv, TypeOK
<1>2. \A d \in Client, m \in Msg : lease[d][m].handle \in Nat /\ lease[d][m].until \in Int
  BY DEF TypeInv, TypeOK, Lease
<1>3. \A m \in S, d \in Client : lease[d][m].until < now
  BY DEF ReceiveTake, Visible, LeaseInv
<1>4. ASSUME NEW m \in Msg
      PROVE  messages'[m].handle <= issued'[m]
  <2>1. CASE m \in S
    <3>1. messages'[m].handle = issued[m] + 1 /\ issued'[m] = issued[m] + 1
      BY <2>1, <1>t, <1>u, <1>o
    <3> QED
      BY <1>1, <3>1
  <2>2. CASE m \notin S
    <3>1. messages'[m] = messages[m] /\ issued'[m] = issued[m]
      BY <2>2, <1>t, <1>u, <1>o
    <3> QED
      BY <3>1 DEF HandleInv
  <2> QED
    BY <2>1, <2>2
<1>5. \A d \in Client, m \in Msg : lease[d][m].handle <= issued[m]
  BY DEF HandleInv
<1>6. \A d \in Client, m \in Msg : lease'[d][m].handle <= issued'[m]
  <2> SUFFICES ASSUME NEW d \in Client, NEW m \in Msg
               PROVE  lease'[d][m].handle <= issued'[m]
    OBVIOUS
  <2>1. CASE d = c /\ m \in S
    BY <1>1, <2>1, <1>t, <1>u, <1>o
  <2>2. CASE d = c /\ m \notin S
    BY <1>5, <2>2, <1>t, <1>u, <1>o
  <2>3. CASE d # c
    <3>1. lease'[d] = lease[d]
      BY <2>3, <1>t, <1>u, <1>o
    <3>2. issued'[m] = issued[m] + 1 \/ issued'[m] = issued[m]
      BY <1>t, <1>u, <1>o
    <3> QED
      BY <1>1, <1>2, <1>5, <3>1, <3>2
  <2> QED
    BY <2>1, <2>2, <2>3
<1>7. ASSUME NEW d \in Client, NEW e \in Client, NEW m \in Msg,
             lease'[d][m].handle > 0, lease'[d][m].handle = lease'[e][m].handle
      PROVE  d = e
  <2>1. CASE m \in S
    <3>1. lease'[c][m].handle = issued[m] + 1
      BY <2>1, <1>t, <1>u, <1>o
    <3>2. \A f \in Client \ {c} : lease'[f][m].handle < issued[m] + 1
      <4>1. \A f \in Client \ {c} : lease'[f] = lease[f]
        BY <1>t, <1>u, <1>o
      <4> QED
        BY <1>1, <1>2, <1>5, <4>1
    <3>3. CASE d = c /\ e # c
      BY <1>1, <1>7, <3>1, <3>2, <3>3
    <3>4. CASE d # c /\ e = c
      BY <1>1, <1>7, <3>1, <3>2, <3>4
    <3>5. CASE d # c /\ e # c
      <4>1. lease'[d] = lease[d] /\ lease'[e] = lease[e]
        BY <3>5, <1>t, <1>u, <1>o
      <4> QED
        BY <1>7, <4>1 DEF HandleInv
    <3> QED
      BY <3>3, <3>4, <3>5
  <2>2. CASE m \notin S
    <3>1. lease'[d][m] = lease[d][m] /\ lease'[e][m] = lease[e][m]
      BY <2>2, <1>t, <1>u, <1>o
    <3> QED
      BY <1>7, <3>1 DEF HandleInv
  <2> QED
    BY <2>1, <2>2
<1>8. ASSUME NEW d \in Client, NEW m \in Msg, Present(m)', lease'[d][m].until >= now'
      PROVE  messages'[m].handle = lease'[d][m].handle
  <2>1. CASE m \in S
    <3>1. d = c
      BY <1>1, <1>2, <1>3, <1>8, <2>1, <1>t, <1>u, <1>o
    <3> QED
      BY <2>1, <3>1, <1>t, <1>u, <1>o
  <2>2. CASE m \notin S
    <3>1. lease'[d][m] = lease[d][m] /\ messages'[m] = messages[m]
      BY <2>2, <1>t, <1>u, <1>o
    <3> QED
      BY <1>1, <1>8, <3>1 DEF HandleInv, Present
  <2> QED
    BY <2>1, <2>2
<1> QED
  BY <1>4, <1>6, <1>7, <1>8 DEF HandleInv

LEMMA HandleNext == TypeInv /\ LeaseInv /\ HandleInv /\ [Next]_vars => HandleInv'
<1> SUFFICES ASSUME TypeInv, LeaseInv, HandleInv, [Next]_vars PROVE HandleInv'
  OBVIOUS
<1>1. CASE Next
  <2>1. \A c \in Client : ~ChangeUpdate(c)
    BY DEF LeaseInv, ChangeUpdate, At
  <2> QED
    BY <1>1, <2>1, StepKinds, HandleMove, HandleSend, HandleTake
<1>2. CASE UNCHANGED vars
  BY <1>2 DEF vars, HandleInv, Present
<1> QED
  BY <1>1, <1>2

LEMMA HandleInit == Init => HandleInv
  BY DEF Init, HandleInv, NoMessage, NoLease, Present

LEMMA HandleInvariant ==
    ASSUME "SetVisibilityTimeout" \notin Api
    PROVE  Spec => [](TypeInv /\ LeaseInv /\ HandleInv)
<1>1. TypeInv /\ LeaseInv /\ [Next]_vars => LeaseInv'
  BY LeaseNext
<1> QED
  BY LeaseInit, HandleInit, HandleNext, TypeInvariant, <1>1, PTL DEF Spec

--------------------------------------------------------------------------------
(* The two action properties.                                                 *)

LEMMA EraseStep ==
    ASSUME TypeInv, Next, NEW c \in Client, At(c, "deleteErase"), call'[c] # call[c]
    PROVE  DeleteErase(c)
<1>1. ~RunWorker /\ ~Tick
  BY DEF RunWorker, Tick, WorkerListQueues, WorkerNext, WorkerRetention, WorkerReset,
         WorkerRedrive, WorkerDelayed, WorkerUpdateQueue
<1>2. ~Request(c)
  BY DEF Request, CreateQueue, DeleteQueue, PurgeQueue, SendMessage, Receive,
         SetVisibilityTimeout, DeleteMessageBatch, DeleteMessageEmpty, Begin, At
<1>3. Handle(c)
  BY <1>1, <1>2, OthersWait DEF Next
<1> QED
  BY <1>3 DEF Handle, CreateQueueInsert, DeleteQueueMessages, DeleteQueueEntry,
         PurgeQueueErase, SendGetQueue, SendCreate, ReceiveGetQueue, ReceiveReset, ReceiveTake,
         ChangeGet, ChangeUpdate, DeleteCheck, DeleteEraseEmpty, At

LEMMA EraseIsTheHolders ==
    ASSUME TypeInv, LeaseInv, HandleInv, Next, NEW c \in Client, NEW m \in Msg,
           At(c, "deleteErase"), call'[c] # call[c], Present(m), ~Present(m)',
           NEW d \in Client \ {c}
    PROVE  lease[d][m].until < now
<1>1. DeleteErase(c)
  BY EraseStep
<1>2. Valid(c, m)
  <2> DEFINE n == Head(call[c].todo)
  <2>1. messages' = Erase(IF Valid(c, n) THEN {n} ELSE {})
    BY <1>1 DEF DeleteErase
  <2>2. messages'[m] # messages[m]
    BY DEF Present
  <2> HIDE DEF n
  <2>3. Valid(c, n) /\ m = n
    BY <2>1, <2>2 DEF Erase
  <2> QED
    BY <2>3
<1>3. lease[d][m].until \in Int /\ now \in Nat
  BY DEF TypeInv, TypeOK, Lease
<1>4. ASSUME lease[d][m].until >= now
      PROVE  FALSE
  <2>1. messages[m].handle = lease[d][m].handle
    BY <1>4 DEF HandleInv
  <2> QED
    BY <1>2, <2>1 DEF Valid, HandleInv
<1> QED
  BY <1>3, <1>4

(* A delete with a stale receipt handle never removes a message that another  *)
(* client holds (SQSService::DeleteMessage, SQSMemoryDb::DeleteMessage): for  *)
(* any number of clients and messages, as long as nobody changes the          *)
(* visibility timeout of a message.                                           *)
THEOREM DeletesAreTheHolders ==
    ASSUME "SetVisibilityTimeout" \notin Api
    PROVE  Spec => OnlyTheHolderDeletes
<1> DEFINE A == \A c \in Client, m \in Msg :
                    At(c, "deleteErase") /\ call'[c] # call[c] /\ Present(m) /\ ~Present(m)' =>
                        \A d \in Client \ {c} : lease[d][m].until < now
<1>1. TypeInv /\ LeaseInv /\ HandleInv /\ [Next]_vars => [A]_vars
  BY EraseIsTheHolders
<1>2. [][A]_vars => OnlyTheHolderDeletes
  BY DEF OnlyTheHolderDeletes
<1> HIDE DEF A
<1> QED
  BY <1>1, <1>2, HandleInvariant, PTL DEF Spec

(* A row stays in its queue unless it is redriven, which takes INITIAL rows,  *)
(* or the message is sent.                                                    *)
LEMMA LeasedRowStays ==
    ASSUME TypeInv, LeaseInv, HandleInv, Next, NEW c \in Client, NEW m \in Msg,
           lease[c][m].until >= now, Present(m), Present(m)'
    PROVE  messages'[m].queue = messages[m].queue
<1>1. messages[m] \in Message /\ lease[c][m].until \in Int /\ now \in Nat
  BY DEF TypeInv, TypeOK, Lease
<1>2. messages[m].status = "INVISIBLE"
  BY <1>1 DEF LeaseInv, Present, Message, Status
<1>3. CASE \E d \in Client, n \in Msg, t \in VisibilityTimeouts : SendCreate(d, n, t)
  <2>1. PICK d \in Client, n \in Msg, t \in VisibilityTimeouts : SendCreate(d, n, t)
    BY <1>3
  <2>2. issued[n] = 0 /\ \A k \in Msg \ {n} : messages'[k] = messages[k]
    BY <2>1 DEF SendCreate, TypeInv, TypeOK
  <2>3. m # n
    BY <2>2 DEF LeaseInv
  <2> QED
    BY <2>2, <2>3
<1>4. CASE \E d \in Client, S \in SUBSET Msg, t \in VisibilityTimeouts : ReceiveTake(d, S, t)
  <2>1. PICK d \in Client, S \in SUBSET Msg, t \in VisibilityTimeouts : ReceiveTake(d, S, t)
    BY <1>4
  <2>2. messages'[m].queue = messages[m].queue \/ messages'[m] = messages[m]
    BY <2>1, TakeEffect
  <2> QED
    BY <2>2
<1>5. CASE RowsMove
  <2>1. CASE UNCHANGED messages
    BY <2>1
  <2>2. CASE \E X : messages' = Erase(X)
    BY <2>2 DEF Erase, NoMessage, Present
  <2>3. CASE \E q : messages' = ResetMessages(q)
    BY <1>1, <2>3 DEF ResetMessages, Message
  <2>4. CASE \E q \in Queue : messages' = RedriveMessages(q)
    <3>1. \A q : m \notin Overdue(q)
      BY <1>2 DEF Overdue
    <3> QED
      BY <2>4, <3>1 DEF RedriveMessages
  <2>5. CASE \E q : messages' = ResetDelayedMessages(q)
    BY <1>1, <2>5 DEF ResetDelayedMessages, Message
  <2> QED
    BY <1>5, <2>1, <2>2, <2>3, <2>4, <2>5 DEF RowsMove
<1>6. ~\E d \in Client : ChangeUpdate(d)
  BY DEF LeaseInv, ChangeUpdate, At
<1> QED
  BY <1>3, <1>4, <1>5, <1>6, StepKinds

(* RedriveMessages never moves a message away from under the client that is   *)
(* processing it, for any number of clients and messages and any redrive      *)
(* policies, as long as nobody changes the visibility timeout of a message.   *)
THEOREM LeasedRowsStay ==
    ASSUME "SetVisibilityTimeout" \notin Api
    PROVE  Spec => LeasedStaysInQueue
<1> DEFINE A == \A c \in Client, m \in Msg :
                    lease[c][m].until >= now /\ Present(m) /\ Present(m)' =>
                        messages'[m].queue = messages[m].queue
<1>1. TypeInv /\ LeaseInv /\ HandleInv /\ [Next]_vars => [A]_vars
  BY LeasedRowStays
<1>2. [][A]_vars => LeasedStaysInQueue
  BY DEF LeasedStaysInQueue
<1> HIDE DEF A
<1> QED
  BY <1>1, <1>2, HandleInvariant, PTL DEF Spec

--------------------------------------------------------------------------------
(* Who received a message keeps it.  The property is not inductive: that a    *)
(* reset comes after the lease follows from the row's reset time, and that a  *)
(* copy written back is the row of its writer follows from what the copy was  *)
(* when it was read, which nobody but its writer changes.                     *)
HeldRow(m) ==
    /\ messages[m].handle <= issued[m]
    /\ Present(m) => issued[m] > 0
    /\ Present(m) /\ messages[m].handle > 1 => messages[m].status = "INVISIBLE"

HeldLease(c, m) ==
    /\ lease[c][m].handle <= issued[m]
    /\ Received(c, m) /\ lease[c][m].until >= now /\ Present(m) =>
           /\ messages[m].handle = lease[c][m].handle
           /\ messages[m].status = "INVISIBLE"
           /\ lease[c][m].until <= messages[m].reset

HeldCopy(c) ==
    At(c, "changeUpdate") /\ ~Empty(call[c].copy) =>
        LET m == Head(call[c].todo)
        IN  /\ issued[m] > 0
            /\ call[c].copy.handle = lease[c][m].handle
            /\ call[c].copy.handle > 1 => call[c].copy.status = "INVISIBLE"

HoldInv ==
    /\ \A m \in Msg : HeldRow(m)
    /\ \A c \in Client, m \in Msg : HeldLease(c, m)
    /\ \A c \in Client : HeldCopy(c)

(* None of the calls of RowsMove takes the handle from a row before the time  *)
(* of whoever received it is over.                                            *)
LEMMA MovedHold ==
    ASSUME TypeInv, HoldInv, RowsMove, UNCHANGED history, now' = now, NEW m \in Msg
    PROVE  HeldRow(m)' /\ \A c \in Client : HeldLease(c, m)'
<1>1. /\ messages[m] \in Message /\ messages[m].reset \in Nat /\ messages[m].handle \in Nat
      /\ now \in Nat /\ issued[m] \in Nat
      /\ \A c \in Client : lease[c][m].until \in Int
  BY DEF TypeInv, TypeOK, Message, Lease
<1>2. HeldRow(m) /\ \A c \in Client : HeldLease(c, m)
  BY DEF HoldInv
<1>3. UNCHANGED <<lease, issued>>
  BY DEF history
<1>4. CASE messages'[m] = messages[m]
  BY <1>2, <1>3, <1>4 DEF HeldRow, HeldLease, Present, Received
<1>5. CASE messages'[m] = NoMessage
  BY <1>1, <1>2, <1>3, <1>5 DEF HeldRow, HeldLease, Present, Received, NoMessage
<1>6. ASSUME NEW q, m \in Expired(q), messages' = ResetMessages(q)
      PROVE  HeldRow(m)' /\ \A c \in Client : HeldLease(c, m)'
  <2>1. Present(m) /\ messages[m].status = "INVISIBLE" /\ messages[m].reset < now
    BY <1>6 DEF Expired, MessagesOf
  <2>2. messages'[m].handle = 0 /\ messages'[m].status = "INITIAL"
    BY <1>1, <1>6 DEF ResetMessages, Message
  <2>3. \A c \in Client : Received(c, m) => lease[c][m].until < now
    BY <1>1, <1>2, <2>1 DEF HeldLease
  <2> QED
    BY <1>1, <1>2, <1>3, <2>1, <2>2, <2>3 DEF HeldRow, HeldLease, Present, Received
<1>7. ASSUME NEW q \in Queue, messages' = RedriveMessages(q)
      PROVE  HeldRow(m)' /\ \A c \in Client : HeldLease(c, m)'
  <2>1. /\ messages'[m].handle = messages[m].handle
        /\ messages'[m].status = messages[m].status
        /\ messages'[m].reset = messages[m].reset
    BY <1>1, <1>7 DEF RedriveMessages, Message
  <2> QED
    BY <1>2, <1>3, <2>1 DEF HeldRow, HeldLease, Present, Received
<1>8. ASSUME NEW q, m \in DelayOver(q), messages' = ResetDelayedMessages(q)
      PROVE  HeldRow(m)' /\ \A c \in Client : HeldLease(c, m)'
  <2>1. Present(m) /\ messages[m].status = "DELAYED"
    BY <1>8 DEF DelayOver, MessagesOf
  <2>2. messages'[m].handle = messages[m].handle /\ messages'[m].status = "INITIAL"
    BY <1>1, <1>8 DEF ResetDelayedMessages, Message
  <2>3. \A c \in Client : Received(c, m) => ~(lease[c][m].until >= now)
    BY <1>2, <2>1 DEF HeldLease
  <2> QED
    BY <1>1, <1>2, <1>3, <2>1, <2>2, <2>3 DEF HeldRow, HeldLease, Present, Received
<1> QED
  BY <1>4, <1>5, <1>6, <1>7, <1>8 DEF RowsMove, Erase, ResetMessages, ResetDelayedMessages

LEMMA SentHold ==
    ASSUME TypeInv, HoldInv, NEW c \in Client, NEW n \in Msg, NEW t \in VisibilityTimeouts,
           SendCreate(c, n, t), NEW m \in Msg
    PROVE  HeldRow(m)' /\ \A d \in Client : HeldLease(d, m)'
<1>1. HeldRow(m) /\ \A d \in Client : HeldLease(d, m)
  BY DEF HoldInv
<1>2. now' = now
  BY DEF SendCreate
<1>3. CASE m = n
  <2>1. /\ messages'[m].handle = 1 /\ messages'[m].status = "INITIAL"
        /\ issued[m] = 0 /\ issued'[m] = 1
    BY <1>3 DEF SendCreate, TypeInv, TypeOK
  <2>2. ASSUME NEW d \in Client
        PROVE  lease'[d][m].handle \in {0, 1}
    <3>1. lease'[d][m].handle = 1 \/ lease'[d][m] = lease[d][m]
      BY <1>3 DEF SendCreate, TypeInv, TypeOK
    <3>2. lease[d][m].handle = 0
      BY <1>1, <2>1 DEF HeldLease, TypeInv, TypeOK, Lease
    <3> QED
      BY <3>1, <3>2
  <2>3. \A d \in Client : HeldLease(d, m)'
    BY <2>1, <2>2 DEF HeldLease, Received
  <2>4. HeldRow(m)'
    BY <2>1 DEF HeldRow
  <2> QED
    BY <2>3, <2>4
<1>4. CASE m # n
  <2>1. /\ messages'[m] = messages[m] /\ issued'[m] = issued[m]
        /\ \A d \in Client : lease'[d][m] = lease[d][m]
    BY <1>4 DEF SendCreate, TypeInv, TypeOK
  <2> QED
    BY <1>1, <1>2, <2>1 DEF HeldRow, HeldLease, Present, Received
<1> QED
  BY <1>3, <1>4

LEMMA TakenHold ==
    ASSUME TypeInv, HoldInv, NEW c \in Client, NEW S \in SUBSET Msg,
           NEW t \in VisibilityTimeouts, ReceiveTake(c, S, t), NEW m \in Msg
    PROVE  HeldRow(m)' /\ \A d \in Client : HeldLease(d, m)'
<1>1. HeldRow(m) /\ \A d \in Client : HeldLease(d, m)
  BY DEF HoldInv
<1>2. now' = now
  BY DEF ReceiveTake
<1>3. CASE m \in S
  <2> DEFINE k == messages[m].retries + 1
             h == issued[m] + 1
             u == now + t
  <2>1. messages[m] \in Message /\ issued[m] \in Nat /\ h \in Nat /\ u \in Int
    BY SQSAssumption DEF TypeInv, TypeOK
  <2>2. messages[m].status = "INITIAL" /\ Present(m)
    BY <1>3 DEF ReceiveTake, Visible, Present
  <2>3. messages'[m] = [messages[m] EXCEPT !.status = "INVISIBLE", !.retries = k,
                                          !.handle = h, !.reset = u]
    BY <1>3 DEF ReceiveTake, ReceiveMessages
  <2>4. lease' = [lease EXCEPT ![c] = [n \in Msg |->
                     IF n \in S THEN [handle |-> issued[n] + 1, until |-> u]
                     ELSE lease[c][n]]]
    BY DEF ReceiveTake
  <2>5. issued'[m] = h
    BY <1>3 DEF ReceiveTake
  <2>6. issued[m] > 0 /\ h > 1
    BY <1>1, <2>1, <2>2 DEF HeldRow
  <2> HIDE DEF k, u
  <2>7. messages'[m].status = "INVISIBLE" /\ messages'[m].reset = u /\ messages'[m].handle = h
    BY <2>1, <2>3 DEF Message
  <2>8. /\ lease'[c][m] = [handle |-> h, until |-> u]
        /\ \A d \in Client \ {c} : lease'[d][m] = lease[d][m]
    BY <1>3, <2>4 DEF TypeInv, TypeOK
  <2>9. HeldRow(m)'
    BY <2>1, <2>5, <2>6, <2>7 DEF HeldRow, Present
  <2>10. HeldLease(c, m)'
    BY <2>1, <2>5, <2>7, <2>8 DEF HeldLease
  <2>11. ASSUME NEW d \in Client \ {c}
         PROVE  HeldLease(d, m)'
    <3>1. lease[d][m].handle \in Nat /\ ~(Received(d, m) /\ lease[d][m].until >= now)
      BY <1>1, <2>2 DEF HeldLease, TypeInv, TypeOK, Lease
    <3>2. lease'[d][m] = lease[d][m] /\ lease[d][m].handle <= issued[m]
      BY <1>1, <2>8 DEF HeldLease
    <3> QED
      BY <1>2, <2>1, <2>5, <3>1, <3>2 DEF HeldLease, Received
  <2> QED
    BY <2>9, <2>10, <2>11
<1>4. CASE m \notin S
  <2>1. /\ messages'[m] = messages[m] /\ issued'[m] = issued[m]
        /\ \A d \in Client : lease'[d][m] = lease[d][m]
    BY <1>4 DEF ReceiveTake, ReceiveMessages, TypeInv, TypeOK
  <2> QED
    BY <1>1, <1>2, <2>1 DEF HeldRow, HeldLease, Present, Received
<1> QED
  BY <1>3, <1>4

(* The client that writes a copy back is the only one.                        *)
LEMMA WrittenHold ==
    ASSUME TypeInv, HoldInv, NEW c \in Client, ChangeUpdate(c), \A d \in Client : d = c,
           NEW m \in Msg
    PROVE  HeldRow(m)' /\ \A d \in Client : HeldLease(d, m)'
<1> DEFINE n == Head(call[c].todo)
           k == call[c].copy
<1>1. HeldRow(m) /\ HeldLease(c, m) /\ HeldCopy(c)
  BY DEF HoldInv
<1>2. now' = now /\ issued' = issued
  BY DEF ChangeUpdate
<1>3. k \in Message /\ k.reset \in Nat /\ lease \in [Client -> [Msg -> Lease]]
  BY DEF TypeInv, TypeOK, Call, Message
<1>4. SUFFICES HeldRow(m)' /\ HeldLease(c, m)'
  OBVIOUS
<1>5. CASE m # n \/ Empty(k)
  <2>1. messages'[m] = messages[m] /\ lease'[c][m] = lease[c][m]
    BY <1>3, <1>5 DEF ChangeUpdate, Stored, TypeInv, TypeOK
  <2> QED
    BY <1>1, <1>2, <2>1 DEF HeldRow, HeldLease, Present, Received
<1>6. CASE m = n /\ ~Empty(k)
  <2>1. /\ lease'[c][m].handle = lease[c][m].handle
        /\ lease'[c][m].until = k.reset
    BY <1>3, <1>6 DEF ChangeUpdate, Lease
  <2>2. /\ issued[m] > 0
        /\ k.handle = lease[c][m].handle
        /\ k.handle > 1 => k.status = "INVISIBLE"
    BY <1>1, <1>6 DEF HeldCopy, ChangeUpdate
  <2>3. messages'[m] = k \/ (~Present(m) /\ messages'[m] = messages[m])
    BY <1>6 DEF ChangeUpdate, Stored, TypeInv, TypeOK
  <2>4. lease[c][m].handle <= issued[m] /\ messages[m].handle <= issued[m]
    BY <1>1 DEF HeldRow, HeldLease
  <2> HIDE DEF k
  <2>5. CASE messages'[m] = k
    BY <1>2, <1>3, <2>1, <2>2, <2>4, <2>5 DEF HeldRow, HeldLease, Present, Received
  <2>6. CASE ~Present(m) /\ messages'[m] = messages[m]
    BY <1>2, <2>1, <2>4, <2>6 DEF HeldRow, HeldLease, Present, Received
  <2> QED
    BY <2>3, <2>5, <2>6
<1> QED
  BY <1>5, <1>6

LEMMA CopyHold ==
    ASSUME TypeInv, HoldInv, Next, NEW c \in Client,
           At(c, "changeUpdate")' => \A d \in Client : d = c
    PROVE  HeldCopy(c)'
<1> SUFFICES ASSUME At(c, "changeUpdate")', ~Empty(call[c].copy)'
             PROVE  HeldCopy(c)'
  BY DEF HeldCopy
<1>1. call[c] \in Call /\ HeldCopy(c) /\ \A d \in Client : d = c
  BY DEF TypeInv, TypeOK, HoldInv
<1>2. CASE call'[c] = call[c]
  <2>1. call[c].pc = "changeUpdate"
    BY <1>2 DEF At
  <2>2. ~\E d \in Client, n \in Msg, t \in VisibilityTimeouts : SendCreate(d, n, t)
    BY <1>1, <2>1 DEF SendCreate, At
  <2>3. ~\E d \in Client, S \in SUBSET Msg, t \in VisibilityTimeouts : ReceiveTake(d, S, t)
    BY <1>1, <2>1 DEF ReceiveTake, At
  <2>4. ~\E d \in Client : ChangeUpdate(d)
    <3>1. ChangeUpdate(c) => call'[c] = NoCall
      BY DEF ChangeUpdate, Return, TypeInv, TypeOK
    <3> QED
      BY <1>1, <1>2, <2>1, <3>1 DEF NoCall
  <2>5. UNCHANGED history
    BY <2>2, <2>3, <2>4, StepKinds
  <2> QED
    BY <1>1, <1>2, <2>5 DEF HeldCopy, At, history
<1>3. CASE ChangeGet(c)
  <2> DEFINE m == Head(call[c].todo)
             u == now + call[c].timeout
             found == IF Valid(c, m) THEN messages[m] ELSE NoMessage
  <2>1. call' = [call EXCEPT ![c].pc = "changeUpdate", ![c].copy = [found EXCEPT !.reset = u]]
    BY <1>3 DEF ChangeGet
  <2>2. m \in Msg
    BY <1>1, <1>3 DEF ChangeGet, At, TypeInv, LocalOK, CallOK, EntryLabels, Call
  <2>3. found \in Message
    BY <2>2, NoMessageType DEF TypeInv, TypeOK
  <2>4. found.status # "ABSENT" =>
            /\ issued[m] > 0
            /\ found.handle = lease[c][m].handle
            /\ found.handle > 1 => found.status = "INVISIBLE"
    BY <2>2 DEF HoldInv, HeldRow, Valid, NoMessage
  <2> HIDE DEF u, found
  <2>5. call'[c].todo = call[c].todo /\ call'[c].copy = [found EXCEPT !.reset = u]
    BY <1>1, <2>1 DEF TypeInv, TypeOK, Call
  <2>6. /\ call'[c].copy.status = found.status
        /\ call'[c].copy.handle = found.handle
    BY <2>3, <2>5 DEF Message
  <2>7. UNCHANGED <<issued, lease>>
    BY <1>3 DEF ChangeGet, history
  <2>8. Head(call'[c].todo) = m
    BY <2>5
  <2> HIDE DEF m
  <2> QED
    BY <2>4, <2>6, <2>7, <2>8 DEF HeldCopy, Empty
<1> QED
  BY <1>2, <1>3, CopyTaken DEF At

LEMMA TickHold ==
    ASSUME TypeInv, HoldInv, Tick, NEW m \in Msg
    PROVE  HeldRow(m)' /\ \A c \in Client : HeldLease(c, m)'
<1>1. now' = now + 1 /\ now \in Nat /\ \A c \in Client : lease[c][m].until \in Int
  BY DEF Tick, TypeInv, TypeOK, Lease
<1>2. UNCHANGED <<lease, issued, messages>>
  BY DEF Tick, history
<1>3. HeldRow(m) /\ \A c \in Client : HeldLease(c, m)
  BY DEF HoldInv
<1>4. \A c \in Client : lease[c][m].until >= now + 1 => lease[c][m].until >= now
  BY <1>1
<1> QED
  BY <1>1, <1>2, <1>3, <1>4 DEF HeldRow, HeldLease, Present, Received

(* A step keeps the invariant when a client that is writing a copy back, or   *)
(* is about to, is the only one.                                              *)
LEMMA HoldNext ==
    ASSUME TypeInv, HoldInv, [Next]_vars,
           \A c, d \in Client : At(c, "changeUpdate") \/ At(c, "changeUpdate")' => d = c
    PROVE  HoldInv'
<1>1. CASE UNCHANGED vars
  BY <1>1 DEF vars, HoldInv, HeldRow, HeldLease, HeldCopy, Present, Received, At
<1>2. CASE Next
  <2>1. ASSUME NEW m \in Msg
        PROVE  HeldRow(m)' /\ \A c \in Client : HeldLease(c, m)'
    <3>1. CASE \E c \in Client : ChangeUpdate(c)
      BY <3>1, WrittenHold DEF ChangeUpdate
    <3>2. CASE Tick
      BY <3>2, TickHold
    <3> QED
      BY <1>2, <3>1, <3>2, StepKinds, SentHold, TakenHold, MovedHold
  <2>2. \A c \in Client : HeldCopy(c)'
    BY <1>2, CopyHold
  <2> QED
    BY <2>1, <2>2 DEF HoldInv
<1> QED
  BY <1>1, <1>2

LEMMA HoldInit == Init => HoldInv
  BY DEF Init, HoldInv, HeldRow, HeldLease, HeldCopy, Present, Received, At, NoMessage,
         NoLease, NoCall

(* A client that received a message and whose timeout runs still has it, for  *)
(* any queues and messages, if nobody changes visibility timeouts or the      *)
(* client is the only one: ChangeMessageVisibility writes its old copy over   *)
(* the resets and redrives of the worker without harm.  Written over the       *)
(* receive of another client it takes the message away from that one.         *)
THEOREM HoldersKeepMessages ==
    ASSUME "SetVisibilityTimeout" \notin Api \/ \A c, d \in Client : c = d
    PROVE  Spec => []HolderKeepsMessage
<1>1. TypeInv /\ HoldInv => HolderKeepsMessage
  <2> SUFFICES ASSUME TypeInv, HoldInv, NEW c \in Client, NEW m \in Msg, Received(c, m),
                      lease[c][m].until >= now, Present(m)
               PROVE  Valid(c, m) /\ messages[m].status = "INVISIBLE"
    BY DEF HolderKeepsMessage
  <2>1. lease[c][m].handle > 0
    BY DEF Received, TypeInv, TypeOK, Lease
  <2> QED
    BY <2>1 DEF HoldInv, HeldLease, Valid
<1>2. CASE "SetVisibilityTimeout" \notin Api
  <2>1. TypeInv /\ LeaseInv /\ [Next]_vars => LeaseInv'
    BY <1>2, LeaseNext
  <2>2. TypeInv /\ LeaseInv /\ LeaseInv' /\ HoldInv /\ [Next]_vars => HoldInv'
    BY HoldNext DEF LeaseInv, At
  <2> QED
    BY <1>1, <2>1, <2>2, LeaseInit, HoldInit, TypeInvariant, PTL DEF Spec
<1>3. CASE \A c, d \in Client : c = d
  <2>1. TypeInv /\ HoldInv /\ [Next]_vars => HoldInv'
    BY <1>3, HoldNext
  <2> QED
    BY <1>1, <2>1, HoldInit, TypeInvariant, PTL DEF Spec
<1> QED
  BY <1>2, <1>3

--------------------------------------------------------------------------------
(* The implementation of the abstract queue.                                  *)

(* A request that is under way never goes back to one of these labels.        *)
Doors == {"deleteMessages", "purge", "eraseEmpty"}

LEMMA HandleLeavesDoors ==
    ASSUME TypeInv, NEW c \in Client, Handle(c)
    PROVE  call'[c].pc \notin Doors
<1>1. call \in [Client -> Call] /\ call[c] \in Call
  BY DEF TypeInv, TypeOK
<1>2. Return(c) => call'[c].pc \notin Doors
  BY <1>1 DEF Return, NoCall, Doors
<1>3. \A l : Goto(c, l) /\ l \notin Doors => call'[c].pc \notin Doors
  BY <1>1 DEF Goto, Call
<1>4. SendGetQueue(c) => call'[c].pc \notin Doors
  BY <1>1 DEF SendGetQueue, Call, Doors
<1>5. ReceiveGetQueue(c) => call'[c].pc \notin Doors
  BY <1>1, <1>2 DEF ReceiveGetQueue, Call, Doors
<1>6. ChangeGet(c) => call'[c].pc \notin Doors
  <2>1. ChangeGet(c) => \E row : call' = [call EXCEPT ![c].pc = "changeUpdate", ![c].copy = row]
    BY DEF ChangeGet
  <2> QED
    BY <1>1, <2>1 DEF Call, Doors
<1>7. DeleteErase(c) => call'[c].pc \notin Doors
  <2>1. DeleteErase(c) => Return(c) \/ call' = [call EXCEPT ![c].pc = "deleteCheck",
                                                           ![c].todo = Tail(@)]
    BY DEF DeleteErase
  <2> QED
    BY <1>1, <1>2, <2>1 DEF Call, Doors
<1> QED
  BY <1>2, <1>3, <1>4, <1>5, <1>6, <1>7
     DEF Handle, CreateQueueInsert, DeleteQueueMessages, DeleteQueueEntry, PurgeQueueErase,
         SendCreate, ReceiveReset, ReceiveTake, ChangeUpdate, DeleteCheck, DeleteEraseEmpty, Doors

LEMMA RequestDoors ==
    ASSUME TypeInv, NEW c \in Client, Request(c),
           "DeleteMessage without handle" \notin Api
    PROVE  call'[c].pc # "eraseEmpty" /\ (call'[c].pc \in Doors => call'[c].queue \in Queue)
<1>1. call \in [Client -> Call]
  BY DEF TypeInv, TypeOK
<1> DEFINE Fine(k) == k.pc # "eraseEmpty" /\ (k.pc \in Doors => k.queue \in Queue)
<1>2. /\ \A q \in Queue : /\ Fine([NoCall EXCEPT !.pc = "createQueue", !.queue = q])
                        /\ Fine([NoCall EXCEPT !.pc = "deleteMessages", !.queue = q])
                        /\ Fine([NoCall EXCEPT !.pc = "purge", !.queue = q])
      /\ \A q : Fine([NoCall EXCEPT !.pc = "sendGet", !.queue = q])
      /\ \A q, w, x : Fine([NoCall EXCEPT !.pc = "receiveGet", !.queue = q, !.timeout = w,
                                          !.max = x])
      /\ \A e : Fine([NoCall EXCEPT !.pc = "deleteCheck", !.todo = e])
      /\ \A m, u : Fine([NoCall EXCEPT !.pc = "changeGet", !.todo = <<m>>, !.timeout = u])
  BY DEF NoCall, Doors
<1> HIDE DEF Fine
<1>3. \E k : call' = [call EXCEPT ![c] = k] /\ Fine(k)
  <2>1. CASE \/ \E q \in Queue : CreateQueue(c, q) \/ DeleteQueue(c, q) \/ PurgeQueue(c, q)
             \/ \E q \in Url : SendMessage(c, q)
    BY <2>1, <1>2 DEF CreateQueue, DeleteQueue, PurgeQueue, SendMessage, Begin
  <2>2. CASE \E q \in Url, w \in WaitTimes, x \in BatchSizes : Receive(c, q, w, x)
    <3>1. PICK q \in Url, w \in WaitTimes, x \in BatchSizes : Receive(c, q, w, x)
      BY <2>2
    <3>2. Fine([NoCall EXCEPT !.pc = "receiveGet", !.queue = q, !.timeout = w, !.max = x])
      BY <1>2
    <3> QED
      BY <3>1, <3>2 DEF Receive, Begin
  <2>3. CASE \E e \in Batches : DeleteMessageBatch(c, e)
    BY <2>3, <1>2 DEF DeleteMessageBatch, Begin
  <2>4. CASE \E m \in Msg, t \in VisibilityTimeouts : SetVisibilityTimeout(c, m, t)
    <3>1. PICK m \in Msg, t \in VisibilityTimeouts : SetVisibilityTimeout(c, m, t)
      BY <2>4
    <3>2. Fine([NoCall EXCEPT !.pc = "changeGet", !.todo = <<m>>, !.timeout = t])
      BY <1>2
    <3> QED
      BY <3>1, <3>2 DEF SetVisibilityTimeout, Begin
  <2> QED
    BY <2>1, <2>2, <2>3, <2>4 DEF Request
<1> QED
  BY <1>1, <1>3 DEF Fine

LEMMA PlainRows ==
    ASSUME TypeInv, LeaseInv, PlainInv, Next
    PROVE  /\ \A m \in Msg : messages'[m].status # "DELAYED"
           /\ \A c \in Client, m \in Msg : issued'[m] = 0 => lease'[c][m].until = -1
<1>1. messages \in [Msg -> Message]
  BY DEF TypeInv, TypeOK
<1>2. CASE \E c \in Client, m \in Msg, t \in VisibilityTimeouts : SendCreate(c, m, t)
  BY <1>2 DEF SendCreate, PlainInv, TypeInv, TypeOK
<1>3. ASSUME NEW c \in Client, NEW S \in SUBSET Msg, NEW t \in VisibilityTimeouts,
             ReceiveTake(c, S, t)
      PROVE  /\ \A m \in Msg : messages'[m].status # "DELAYED"
             /\ \A d \in Client, m \in Msg : issued'[m] = 0 => lease'[d][m].until = -1
  <2>1. \A m \in Msg : messages'[m].status # "DELAYED"
    BY <1>3, TakeEffect DEF PlainInv
  <2>2. ASSUME NEW d \in Client, NEW m \in Msg, issued'[m] = 0
        PROVE  lease'[d][m].until = -1
    <3>1. m \notin S
      BY <1>3, <2>2 DEF ReceiveTake, TypeInv, TypeOK
    <3>2. issued'[m] = issued[m] /\ lease'[d][m] = lease[d][m]
      BY <1>3, <3>1, TakeEffect
    <3> QED
      BY <2>2, <3>2 DEF PlainInv
  <2> QED
    BY <2>1, <2>2
<1>4. CASE RowsMove /\ UNCHANGED history
  <2>1. ASSUME NEW m \in Msg
        PROVE  messages'[m].status # "DELAYED"
    <3>1. CASE UNCHANGED messages \/ \E X : messages' = Erase(X)
      BY <3>1 DEF PlainInv, Erase, NoMessage
    <3>2. CASE \E q : messages' = ResetMessages(q)
      BY <1>1, <3>2 DEF PlainInv, ResetMessages, Message
    <3>3. CASE \E q \in Queue : messages' = RedriveMessages(q)
      BY <1>1, <3>3 DEF PlainInv, RedriveMessages, Message
    <3>4. CASE \E q : messages' = ResetDelayedMessages(q)
      BY <1>1, <3>4 DEF PlainInv, ResetDelayedMessages, Message
    <3> QED
      BY <1>4, <3>1, <3>2, <3>3, <3>4 DEF RowsMove
  <2> QED
    BY <1>4, <2>1 DEF PlainInv, history
<1>5. ~\E c \in Client : ChangeUpdate(c)
  BY DEF LeaseInv, ChangeUpdate, At
<1> QED
  BY <1>2, <1>3, <1>4, <1>5, StepKinds

LEMMA PlainWorker ==
    ASSUME TypeInv, PlainInv, Next, worker'.pc = "redrive"
    PROVE  DeadLetter[worker'.queue] \in Queue
<1>1. worker \in Worker /\ (worker.pc \notin {"idle", "next"} => worker.queue \in Queue)
  BY DEF TypeInv, TypeOK, LocalOK
<1>2. CASE worker' = worker
  BY <1>2 DEF PlainInv
<1>3. CASE WorkerReset
  BY <1>1, <1>3, SQSAssumption DEF WorkerReset, WorkerGoto, WorkerAt, Worker
<1>4. CASE \E q \in Queue : WorkerNext(q)
  BY <1>4 DEF WorkerNext
<1>5. CASE WorkerListQueues
  BY <1>5 DEF WorkerListQueues
<1>6. CASE WorkerRetention \/ WorkerRedrive \/ WorkerDelayed \/ WorkerUpdateQueue
  <2>1. \A l : WorkerGoto(l) => worker'.pc = l
    BY <1>1 DEF WorkerGoto, Worker
  <2>2. WorkerUpdateQueue => worker'.pc \in {"idle", "next"}
    BY <1>1 DEF WorkerUpdateQueue, Worker
  <2> QED
    BY <1>6, <2>1, <2>2 DEF WorkerRetention, WorkerRedrive, WorkerDelayed
<1>7. CASE \E c \in Client : Request(c) \/ Handle(c)
  <2>1. \A c \in Client : Request(c) => worker' = worker
    BY DEF Request, CreateQueue, DeleteQueue, PurgeQueue, SendMessage, Receive,
           SetVisibilityTimeout, DeleteMessageBatch, DeleteMessageEmpty
  <2>2. \A c \in Client : Handle(c) => worker' = worker
    BY DEF Handle, CreateQueueInsert, DeleteQueueMessages, DeleteQueueEntry, PurgeQueueErase,
           SendGetQueue, SendCreate, ReceiveGetQueue, ReceiveReset, ReceiveTake, ChangeGet,
           ChangeUpdate, DeleteCheck, DeleteErase, DeleteEraseEmpty
  <2> QED
    BY <1>2, <1>7, <2>1, <2>2
<1>8. CASE Tick
  BY <1>2, <1>8 DEF Tick
<1> QED
  BY <1>3, <1>4, <1>5, <1>6, <1>7, <1>8 DEF Next, RunWorker

LEMMA PlainNext ==
    ASSUME TypeInv, LeaseInv, PlainInv, [Next]_vars,
           "DeleteMessage without handle" \notin Api
    PROVE  PlainInv'
<1>1. CASE Next
  <2>1. ASSUME NEW d \in Client
        PROVE  /\ call'[d].pc # "eraseEmpty"
               /\ call'[d].pc \in {"deleteMessages", "purge"} => call'[d].queue \in Queue
    <3>1. CASE Request(d)
      BY <3>1, RequestDoors DEF Doors
    <3>2. CASE Handle(d)
      BY <3>2, HandleLeavesDoors DEF Doors
    <3>3. CASE call'[d] = call[d]
      BY <3>3 DEF PlainInv
    <3>4. CASE RunWorker \/ Tick
      <4>1. call' = call
        BY <3>4 DEF RunWorker, Tick, WorkerListQueues, WorkerNext, WorkerRetention, WorkerReset,
               WorkerRedrive, WorkerDelayed, WorkerUpdateQueue
      <4> QED
        BY <3>3, <4>1
    <3> QED
      BY <1>1, <3>1, <3>2, <3>3, <3>4, OthersWait DEF Next
  <2>2. worker'.pc = "redrive" => DeadLetter[worker'.queue] \in Queue
    BY <1>1, PlainWorker
  <2> QED
    BY <1>1, <2>1, <2>2, PlainRows DEF PlainInv
<1>2. CASE UNCHANGED vars
  BY <1>2 DEF vars, PlainInv
<1> QED
  BY <1>1, <1>2

LEMMA PlainInit == Init => PlainInv
  BY DEF Init, PlainInv, NoMessage, NoCall, NoLease

RefInv == TypeInv /\ LeaseInv /\ HandleInv /\ PlainInv

(* The abstract state of a message depends on its row and the history only.   *)
LEMMA AbsSame ==
    ASSUME UNCHANGED <<messages, lease, issued>>
    PROVE  /\ AbsState' = AbsState /\ AbsPlace' = AbsPlace
           /\ AbsHolder' = AbsHolder /\ AbsUntil' = AbsUntil
<1>1. \A c \in Client, m \in Msg : Valid(c, m)' <=> Valid(c, m)
  BY DEF Valid, Present
<1> QED
  BY <1>1 DEF AbsState, AbsPlace, AbsHolder, AbsUntil

LEMMA SendSends ==
    ASSUME RefInv, NEW c \in Client, NEW n \in Msg, NEW t \in VisibilityTimeouts,
           SendCreate(c, n, t)
    PROVE  MQ!Send(c, n, call[c].queue)
<1>1. /\ issued[n] = 0 /\ now' = now
      /\ messages'[n].status = "INITIAL" /\ messages'[n].queue = call[c].queue
      /\ messages'[n].handle = 1 /\ issued'[n] = 1
      /\ \A m \in Msg \ {n} : messages'[m] = messages[m] /\ issued'[m] = issued[m]
  BY DEF SendCreate, RefInv, TypeInv, TypeOK
<1>2. /\ lease'[c][n] = [handle |-> 1, until |-> -1]
      /\ \A d \in Client \ {c} : lease'[d][n] = lease[d][n]
      /\ \A d \in Client, m \in Msg \ {n} : lease'[d][m] = lease[d][m]
  BY DEF SendCreate, RefInv, TypeInv, TypeOK
<1>3. \A d \in Client : lease[d][n].handle \in Nat /\ lease[d][n].handle <= 0
  BY <1>1 DEF RefInv, HandleInv, TypeInv, TypeOK, Lease
<1>4. AbsState[n] = "new"
  BY <1>1 DEF AbsState, RefInv, LeaseInv, Present
<1>5. AbsState' = [AbsState EXCEPT ![n] = "visible"]
  BY <1>1 DEF AbsState
<1>6. AbsPlace' = [AbsPlace EXCEPT ![n] = call[c].queue]
  BY <1>1 DEF AbsPlace
<1>7. AbsHolder' = [AbsHolder EXCEPT ![n] = {c}]
  <2>1. \A d \in Client : Valid(d, n)' <=> d = c
    BY <1>1, <1>2, <1>3 DEF Valid, Present
  <2>2. \A d \in Client, m \in Msg \ {n} : Valid(d, m)' <=> Valid(d, m)
    BY <1>1, <1>2 DEF Valid, Present
  <2> QED
    BY <2>1, <2>2 DEF AbsHolder
<1>8. AbsUntil' = AbsUntil
  <2>1. \A d \in Client, m \in Msg : lease'[d][m].until = lease[d][m].until
    BY <1>1, <1>2 DEF RefInv, PlainInv
  <2> QED
    BY <2>1 DEF AbsUntil
<1> QED
  BY <1>1, <1>4, <1>5, <1>6, <1>7, <1>8 DEF MQ!Send

LEMMA TakeLends ==
    ASSUME RefInv, NEW c \in Client, NEW S \in SUBSET Msg, NEW t \in VisibilityTimeouts,
           ReceiveTake(c, S, t), call[c].queue # NoQueue
    PROVE  MQ!Lend(c, S, call[c].queue, t)
<1>t. \A m \in S : /\ messages'[m].status = "INVISIBLE"
                 /\ messages'[m].queue = messages[m].queue
                 /\ messages'[m].handle = issued[m] + 1
                 /\ issued'[m] = issued[m] + 1
                 /\ lease'[c][m].handle = issued[m] + 1
                 /\ lease'[c][m].until = now + t
  BY TakeEffect DEF RefInv
<1>u. \A m \in Msg \ S : /\ messages'[m] = messages[m]
                       /\ issued'[m] = issued[m]
                       /\ lease'[c][m] = lease[c][m]
  BY TakeEffect DEF RefInv
<1>o. \A d \in Client \ {c} : lease'[d] = lease[d]
  BY TakeEffect DEF RefInv
<1>1. \A m \in S : messages[m].status = "INITIAL" /\ messages[m].queue = call[c].queue
  BY DEF ReceiveTake, Visible, MessagesOf
<1>2. TypeInv /\ now' = now /\ issued \in [Msg -> Nat]
  BY DEF ReceiveTake, RefInv, TypeInv, TypeOK
<1>3. \A d \in Client, m \in Msg : lease[d][m].handle \in Nat /\ lease[d][m].handle <= issued[m]
  BY DEF RefInv, HandleInv, TypeInv, TypeOK, Lease
<1>4. \A m \in S : AbsState[m] = "visible" /\ AbsPlace[m] = call[c].queue
  BY <1>1 DEF AbsState, AbsPlace
<1>5. /\ \A m \in S : messages'[m].status = "INVISIBLE" /\ messages'[m].queue = messages[m].queue
      /\ \A m \in Msg \ S : messages'[m] = messages[m] /\ issued'[m] = issued[m]
  BY <1>2, <1>t, <1>u, <1>o
<1>6. AbsState' = MQ!Override(AbsState, S, "lent")
  BY <1>5 DEF AbsState, MQ!Override
<1>7. AbsPlace' = AbsPlace
  BY <1>5 DEF AbsPlace
<1>8. AbsHolder' = MQ!Override(AbsHolder, S, {c})
  <2>1. ASSUME NEW m \in S, NEW d \in Client
        PROVE  Valid(d, m)' <=> d = c
    <3>1. messages'[m].status = "INVISIBLE" /\ messages'[m].handle = issued[m] + 1
      BY <1>2, <1>t, <1>u, <1>o
    <3>2. CASE d = c
      <4>1. lease'[d][m].handle = issued[m] + 1
        BY <1>2, <3>2, <1>t, <1>u, <1>o
      <4> QED
        BY <1>2, <3>1, <3>2, <4>1 DEF Valid, Present
    <3>3. CASE d # c
      <4>1. lease'[d] = lease[d]
        BY <1>2, <3>3, <1>t, <1>u, <1>o
      <4> QED
        BY <1>2, <1>3, <3>1, <3>3, <4>1 DEF Valid
    <3> QED
      BY <3>2, <3>3
  <2>2. ASSUME NEW m \in Msg \ S, NEW d \in Client
        PROVE  Valid(d, m)' <=> Valid(d, m)
    <3>1. lease'[d][m] = lease[d][m]
      BY <1>2, <1>t, <1>u, <1>o
    <3> QED
      BY <1>5, <3>1 DEF Valid, Present
  <2> QED
    BY <2>1, <2>2 DEF AbsHolder, MQ!Override
<1>9. AbsUntil' = [AbsUntil EXCEPT ![c] = MQ!Override(@, S, now + t)]
  <2>1. \A m \in S : lease'[c][m].until = now + t
    BY <1>2, <1>t, <1>u, <1>o
  <2>2. \A m \in Msg \ S : lease'[c][m] = lease[c][m]
    BY <1>2, <1>t, <1>u, <1>o
  <2>3. \A d \in Client \ {c} : lease'[d] = lease[d]
    BY <1>2, <1>t, <1>u, <1>o
  <2>4. AbsUntil'[c] = MQ!Override(AbsUntil[c], S, now + t)
    BY <2>1, <2>2 DEF AbsUntil, MQ!Override
  <2>5. \A d \in Client \ {c} : AbsUntil'[d] = AbsUntil[d]
    BY <2>3 DEF AbsUntil
  <2> QED
    BY <2>4, <2>5 DEF AbsUntil
<1> QED
  BY <1>2, <1>4, <1>6, <1>7, <1>8, <1>9 DEF MQ!Lend

LEMMA ResetTakesBack ==
    ASSUME RefInv, NEW q, messages' = ResetMessages(q), UNCHANGED <<lease, issued, now>>
    PROVE  MQ!TakeBack(Expired(q))
<1> DEFINE S == Expired(q)
<1>1. messages \in [Msg -> Message] /\ now \in Nat
  BY DEF RefInv, TypeInv, TypeOK
<1>2. \A m \in S : /\ m \in Msg /\ messages[m].status = "INVISIBLE"
                   /\ \A c \in Client : lease[c][m].until < now
  <2>1. \A m \in S : /\ m \in Msg /\ messages[m].status = "INVISIBLE"
                     /\ messages[m].reset < now
    BY DEF Expired, MessagesOf
  <2>2. \A m \in Msg : messages[m].reset \in Nat /\ \A c \in Client : lease[c][m].until \in Int
    BY <1>1 DEF Message, RefInv, TypeInv, TypeOK, Lease
  <2> QED
    BY <1>1, <2>1, <2>2 DEF RefInv, LeaseInv
<1>3. /\ \A m \in S : /\ messages'[m].status = "INITIAL" /\ messages'[m].handle = 0
                     /\ messages'[m].queue = messages[m].queue
      /\ \A m \in Msg \ S : messages'[m] = messages[m]
  BY <1>1, <1>2 DEF ResetMessages, Message
<1> HIDE DEF S
<1>4. \A m \in S : AbsState[m] = "lent" /\ \A c \in Client : AbsUntil[c][m] < now
  BY <1>2 DEF AbsState, AbsUntil
<1>5. AbsState' = MQ!Override(AbsState, S, "visible")
  BY <1>3 DEF AbsState, MQ!Override
<1>6. AbsPlace' = AbsPlace
  BY <1>2, <1>3 DEF AbsPlace
<1>7. AbsHolder' = MQ!Override(AbsHolder, S, {})
  <2>1. \A m \in S, c \in Client : ~Valid(c, m)'
    BY <1>3 DEF Valid
  <2>2. \A m \in Msg \ S, c \in Client : Valid(c, m)' <=> Valid(c, m)
    BY <1>3 DEF Valid, Present
  <2> QED
    BY <2>1, <2>2 DEF AbsHolder, MQ!Override
<1>8. AbsUntil' = AbsUntil
  BY DEF AbsUntil
<1> QED
  BY <1>4, <1>5, <1>6, <1>7, <1>8 DEF MQ!TakeBack, S

LEMMA RedriveMoves ==
    ASSUME RefInv, NEW q \in Queue, messages' = RedriveMessages(q),
           UNCHANGED <<lease, issued, now>>
    PROVE  MQ!MoveTo(Overdue(q), DeadLetter[q])
<1> DEFINE S == Overdue(q)
<1>1. messages \in [Msg -> Message]
  BY DEF RefInv, TypeInv, TypeOK
<1>2. \A m \in S : m \in Msg /\ messages[m].status = "INITIAL"
  BY DEF Overdue, MessagesOf
<1>3. /\ \A m \in S : /\ messages'[m].status = "INITIAL"
                     /\ messages'[m].handle = messages[m].handle
                     /\ messages'[m].queue = DeadLetter[q]
      /\ \A m \in Msg \ S : messages'[m] = messages[m]
  BY <1>1, <1>2 DEF RedriveMessages, Message
<1> HIDE DEF S
<1>4. \A m \in S : AbsState[m] = "visible"
  BY <1>2 DEF AbsState
<1>5. AbsState' = AbsState
  BY <1>2, <1>3 DEF AbsState
<1>6. AbsPlace' = MQ!Override(AbsPlace, S, DeadLetter[q])
  BY <1>3 DEF AbsPlace, MQ!Override
<1>7. AbsHolder' = AbsHolder
  <2>1. \A m \in Msg, c \in Client : Valid(c, m)' <=> Valid(c, m)
    BY <1>2, <1>3 DEF Valid, Present
  <2> QED
    BY <2>1 DEF AbsHolder
<1>8. AbsUntil' = AbsUntil
  BY DEF AbsUntil
<1> QED
  BY <1>4, <1>5, <1>6, <1>7, <1>8 DEF MQ!MoveTo, S

(* Rows that leave the table.                                                 *)
LEMMA EraseEffect ==
    ASSUME RefInv, NEW S \in SUBSET Msg, \A m \in S : Present(m),
           messages' = Erase(S), UNCHANGED <<lease, issued, now>>
    PROVE  /\ AbsState' = MQ!Override(AbsState, S, "gone")
           /\ AbsPlace' = MQ!Override(AbsPlace, S, NoQueue)
           /\ AbsHolder' = MQ!Override(AbsHolder, S, {})
           /\ AbsUntil' = AbsUntil
<1>1. /\ \A m \in S : messages'[m] = NoMessage /\ issued[m] # 0
      /\ \A m \in Msg \ S : messages'[m] = messages[m]
  BY DEF Erase, RefInv, LeaseInv
<1>2. AbsState' = MQ!Override(AbsState, S, "gone")
  BY <1>1 DEF AbsState, MQ!Override, NoMessage
<1>3. AbsPlace' = MQ!Override(AbsPlace, S, NoQueue)
  BY <1>1 DEF AbsPlace, MQ!Override, NoMessage
<1>4. AbsHolder' = MQ!Override(AbsHolder, S, {})
  <2>1. \A m \in S, c \in Client : ~Valid(c, m)'
    BY <1>1 DEF Valid, Present, NoMessage
  <2>2. \A m \in Msg \ S, c \in Client : Valid(c, m)' <=> Valid(c, m)
    BY <1>1 DEF Valid, Present
  <2> QED
    BY <2>1, <2>2 DEF AbsHolder, MQ!Override
<1>5. AbsUntil' = AbsUntil
  BY DEF AbsUntil
<1> QED
  BY <1>2, <1>3, <1>4, <1>5

LEMMA EraseAcknowledges ==
    ASSUME RefInv, NEW c \in Client, NEW m \in Msg, Valid(c, m), messages' = Erase({m}),
           UNCHANGED <<lease, issued, now>>
    PROVE  MQ!Acknowledge(c, m)
<1>1. messages[m] \in Message /\ Present(m)
  BY DEF RefInv, TypeInv, TypeOK, Valid
<1>2. AbsState[m] \in {"visible", "lent"}
  BY <1>1 DEF AbsState, Message, Status, Present
<1>3. c \in AbsHolder[m]
  BY DEF AbsHolder
<1>4. /\ AbsState' = MQ!Override(AbsState, {m}, "gone")
      /\ AbsPlace' = MQ!Override(AbsPlace, {m}, NoQueue)
      /\ AbsHolder' = MQ!Override(AbsHolder, {m}, {})
      /\ AbsUntil' = AbsUntil
  BY <1>1, EraseEffect
<1>5. /\ AbsState' = [AbsState EXCEPT ![m] = "gone"]
      /\ AbsPlace' = [AbsPlace EXCEPT ![m] = NoQueue]
      /\ AbsHolder' = [AbsHolder EXCEPT ![m] = {}]
  BY <1>4 DEF MQ!Override, AbsState, AbsPlace, AbsHolder
<1> QED
  BY <1>2, <1>3, <1>4, <1>5 DEF MQ!Acknowledge

LEMMA EraseEmpties ==
    ASSUME RefInv, NEW q, messages' = Erase(MessagesOf(q)), UNCHANGED <<lease, issued, now>>
    PROVE  MQ!Empty(q)
<1> DEFINE S == MessagesOf(q)
<1>1. S \in SUBSET Msg /\ \A m \in S : Present(m)
  BY DEF MessagesOf
<1>2. S = {m \in Msg : AbsState[m] \in {"visible", "lent"} /\ AbsPlace[m] = q}
  <2>1. \A m \in Msg : Present(m) <=> AbsState[m] \in {"visible", "lent"}
    BY DEF Present, AbsState, RefInv, TypeInv, TypeOK, Message, Status
  <2> QED
    BY <2>1 DEF MessagesOf, AbsPlace
<1>3. messages' = Erase(S)
  OBVIOUS
<1> HIDE DEF S
<1>4. /\ AbsState' = MQ!Override(AbsState, S, "gone")
      /\ AbsPlace' = MQ!Override(AbsPlace, S, NoQueue)
      /\ AbsHolder' = MQ!Override(AbsHolder, S, {})
      /\ AbsUntil' = AbsUntil
  BY <1>1, <1>3, EraseEffect
<1> QED
  BY <1>2, <1>4 DEF MQ!Empty

LEMMA HandleImplements ==
    ASSUME RefInv, NEW c \in Client, Handle(c)
    PROVE  MQ!MQNext \/ UNCHANGED MQ!qvars
<1>1. ~ChangeGet(c) /\ ~ChangeUpdate(c) /\ ~DeleteEraseEmpty(c)
  BY DEF RefInv, LeaseInv, PlainInv, ChangeGet, ChangeUpdate, DeleteEraseEmpty, At
<1>2. CASE UNCHANGED <<messages, lease, issued, now>>
  BY <1>2, AbsSame DEF MQ!qvars
<1>3. CASE \E m \in Msg, t \in VisibilityTimeouts : SendCreate(c, m, t)
  <2>1. call[c].queue \in Queue \cup {NoQueue}
    BY DEF RefInv, TypeInv, TypeOK, Call, Url
  <2> QED
    BY <1>3, <2>1, SendSends DEF MQ!MQNext
<1>4. ASSUME NEW S \in SUBSET Msg, NEW t \in VisibilityTimeouts, ReceiveTake(c, S, t)
      PROVE  MQ!MQNext \/ UNCHANGED MQ!qvars
  <2>1. CASE call[c].queue = NoQueue
    <3>1. S = {} /\ TypeInv
      BY <1>4, <2>1 DEF ReceiveTake, RefInv
    <3>2. messages' = messages /\ issued' = issued /\ now' = now
      BY <1>4, <3>1 DEF ReceiveTake, ReceiveMessages, TypeInv, TypeOK
    <3>3. lease' = lease
      <4>1. lease' = [lease EXCEPT ![c] = [m \in Msg |-> lease[c][m]]]
        BY <1>4, <3>1 DEF ReceiveTake
      <4>2. lease \in [Client -> [Msg -> Lease]]
        BY <3>1 DEF TypeInv, TypeOK
      <4> QED
        BY <4>1, <4>2
    <3> QED
      BY <3>2, <3>3, AbsSame DEF MQ!qvars
  <2>2. CASE call[c].queue # NoQueue
    <3>1. call[c].queue \in Queue
      BY <2>2 DEF RefInv, TypeInv, TypeOK, Call, Url
    <3> QED
      BY <1>4, <2>2, <3>1, TakeLends DEF MQ!MQNext
  <2> QED
    BY <2>1, <2>2
<1>5. CASE ReceiveReset(c)
  <2> DEFINE q == call[c].queue
  <2>1. messages' = ResetMessages(q) /\ UNCHANGED <<lease, issued, now>>
    BY <1>5 DEF ReceiveReset, history
  <2> HIDE DEF q
  <2>2. MQ!TakeBack(Expired(q)) /\ Expired(q) \in SUBSET Msg
    BY <2>1, ResetTakesBack DEF Expired, MessagesOf
  <2> QED
    BY <2>2 DEF MQ!MQNext
<1>6. CASE DeleteQueueMessages(c) \/ PurgeQueueErase(c)
  <2> DEFINE q == call[c].queue
  <2>1. messages' = Erase(MessagesOf(q)) /\ UNCHANGED <<lease, issued, now>>
    BY <1>6 DEF DeleteQueueMessages, PurgeQueueErase, history
  <2>2. q \in Queue
    BY <1>6 DEF DeleteQueueMessages, PurgeQueueErase, At, RefInv, PlainInv
  <2> HIDE DEF q
  <2>3. MQ!Empty(q)
    BY <2>1, EraseEmpties
  <2> QED
    BY <2>2, <2>3 DEF MQ!MQNext
<1>7. CASE DeleteErase(c)
  <2> DEFINE m == Head(call[c].todo)
  <2>1. m \in Msg
    BY <1>7 DEF DeleteErase, At, RefInv, TypeInv, LocalOK, CallOK, EntryLabels, Call
  <2>2. /\ messages' = Erase(IF Valid(c, m) THEN {m} ELSE {})
        /\ UNCHANGED <<lease, issued, now>>
    BY <1>7 DEF DeleteErase, history
  <2> HIDE DEF m
  <2>3. CASE Valid(c, m)
    <3>1. MQ!Acknowledge(c, m)
      BY <2>1, <2>2, <2>3, EraseAcknowledges
    <3> QED
      BY <2>1, <3>1 DEF MQ!MQNext
  <2>4. CASE ~Valid(c, m)
    <3>1. messages' = messages
      BY <2>2, <2>4 DEF Erase, RefInv, TypeInv, TypeOK
    <3> QED
      BY <2>2, <3>1, AbsSame DEF MQ!qvars
  <2> QED
    BY <2>3, <2>4
<1> QED
  BY <1>1, <1>2, <1>3, <1>4, <1>5, <1>6, <1>7
     DEF Handle, CreateQueueInsert, DeleteQueueEntry, SendGetQueue, ReceiveGetQueue,
         DeleteCheck, history

LEMMA WorkerImplements ==
    ASSUME RefInv, RunWorker
    PROVE  MQ!MQNext \/ UNCHANGED MQ!qvars
<1>1. UNCHANGED <<lease, issued, now>>
  BY DEF RunWorker, WorkerListQueues, WorkerNext, WorkerRetention, WorkerReset,
         WorkerRedrive, WorkerDelayed, WorkerUpdateQueue, history
<1>2. messages \in [Msg -> Message] /\ \A m \in Msg : messages[m].status # "DELAYED"
  BY DEF RefInv, PlainInv, TypeInv, TypeOK
<1>3. CASE UNCHANGED messages
  BY <1>1, <1>3, AbsSame DEF MQ!qvars
<1>4. CASE WorkerRetention
  <2>1. Retired(worker.queue) = {}
    BY <1>2 DEF Retired, DelayOver, MessagesOf
  <2> QED
    BY <1>2, <1>3, <1>4, <2>1 DEF WorkerRetention, Erase
<1>5. CASE WorkerDelayed
  <2>1. DelayOver(worker.queue) = {}
    BY <1>2 DEF DelayOver, MessagesOf
  <2> QED
    BY <1>2, <1>3, <1>5, <2>1 DEF WorkerDelayed, ResetDelayedMessages
<1>6. CASE WorkerReset
  <2> DEFINE q == worker.queue
  <2>1. messages' = ResetMessages(q)
    BY <1>6 DEF WorkerReset
  <2> HIDE DEF q
  <2>2. MQ!TakeBack(Expired(q)) /\ Expired(q) \in SUBSET Msg
    BY <1>1, <2>1, ResetTakesBack DEF Expired, MessagesOf
  <2> QED
    BY <2>2 DEF MQ!MQNext
<1>7. CASE WorkerRedrive
  <2> DEFINE q == worker.queue
  <2>1. messages' = RedriveMessages(q)
    BY <1>7 DEF WorkerRedrive
  <2>2. q \in Queue /\ DeadLetter[q] \in Queue
    BY <1>7 DEF WorkerRedrive, WorkerAt, RefInv, TypeInv, LocalOK, PlainInv
  <2> HIDE DEF q
  <2>3. MQ!MoveTo(Overdue(q), DeadLetter[q]) /\ Overdue(q) \in SUBSET Msg
    BY <1>1, <2>1, <2>2, RedriveMoves DEF Overdue, MessagesOf
  <2> QED
    BY <2>2, <2>3 DEF MQ!MQNext
<1>8. CASE WorkerListQueues \/ (\E q \in Queue : WorkerNext(q)) \/ WorkerUpdateQueue
  BY <1>3, <1>8 DEF WorkerListQueues, WorkerNext, WorkerUpdateQueue
<1> QED
  BY <1>4, <1>5, <1>6, <1>7, <1>8 DEF RunWorker

(* Every step of the service is a step of the abstract queue or changes       *)
(* nothing that its users can see.                                            *)
LEMMA StepImplements ==
    ASSUME RefInv, [Next]_vars
    PROVE  [MQ!MQNext]_(MQ!qvars)
<1>1. CASE UNCHANGED vars
  <2>1. UNCHANGED <<messages, lease, issued, now>>
    BY <1>1 DEF vars
  <2> QED
    BY <2>1, AbsSame DEF MQ!qvars
<1>2. ASSUME NEW c \in Client, Request(c)
      PROVE  UNCHANGED MQ!qvars
  <2>1. UNCHANGED <<messages, lease, issued, now>>
    BY <1>2 DEF Request, CreateQueue, DeleteQueue, PurgeQueue, SendMessage, Receive,
           SetVisibilityTimeout, DeleteMessageBatch, DeleteMessageEmpty, history
  <2> QED
    BY <2>1, AbsSame DEF MQ!qvars
<1>3. CASE Tick
  <2>1. now' = now + 1 /\ UNCHANGED <<messages, lease, issued>>
    BY <1>3 DEF Tick, history
  <2> QED
    BY <2>1, AbsSame DEF MQ!MQNext, MQ!Pass
<1> QED
  BY <1>1, <1>2, <1>3, HandleImplements, WorkerImplements DEF Next

LEMMA InitImplements == Init => MQ!MQInit
<1> SUFFICES ASSUME Init PROVE MQ!MQInit
  OBVIOUS
<1>1. \A c \in Client, m \in Msg : ~Valid(c, m)
  BY DEF Init, Valid, Present, NoMessage
<1> QED
  BY <1>1 DEF Init, MQ!MQInit, AbsState, AbsPlace, AbsHolder, AbsUntil, NoMessage, NoLease

(* The service on the in-memory database implements the abstract queue: with  *)
(* any interleaving of its handlers and its worker it lends visible messages  *)
(* only, takes them back only after their timeout, moves only visible ones,   *)
(* and drops a message only for the holder of its receipt handle or with its  *)
(* queue; for any queues, messages, clients and queue definitions.            *)
THEOREM ServiceImplementsQueue ==
    ASSUME "SetVisibilityTimeout" \notin Api, "DeleteMessage without handle" \notin Api
    PROVE  Spec => ImplementsMessageQueue
<1>1. Spec => []RefInv
  <2>1. TypeInv /\ LeaseInv /\ PlainInv /\ [Next]_vars => PlainInv'
    BY PlainNext
  <2>2. TypeInv /\ LeaseInv /\ HandleInv /\ PlainInv <=> RefInv
    BY DEF RefInv
  <2> QED
    BY HandleInvariant, PlainInit, <2>1, <2>2, PTL DEF Spec
<1>2. RefInv /\ [Next]_vars => [MQ!MQNext]_(MQ!qvars)
  BY StepImplements
<1> QED
  BY InitImplements, <1>1, <1>2, PTL DEF Spec, ImplementsMessageQueue, MQ!MQSpec

================================================================================
