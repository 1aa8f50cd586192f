------------------------------- MODULE SQSProofs -------------------------------
(******************************************************************************)
(* Theorems about the in-memory SQS service, for any sets of queues, messages *)
(* and clients and any queue definitions.                                     *)
(******************************************************************************)
EXTENDS SQS, TLAPS

(* What a handler has in hand at its labels: a queue to create, an entry to   *)
(* work on.  The types alone do not carry over from one call to the next.     *)
EntryLabels == {"changeGet", "changeUpdate", "deleteCheck", "deleteErase"}

CallOK(k) ==
    /\ k \in Call
    /\ k.pc = "createQueue" => k.queue \in Queue
    /\ k.pc \in EntryLabels => k.todo # <<>>

LocalOK ==
    /\ \A c \in Client : CallOK(call[c])
    /\ worker.pc \notin {"idle", "next"} => worker.queue \in Queue

TypeInv == TypeOK /\ LocalOK

--------------------------------------------------------------------------------
(* The database calls return tables.                                          *)

LEMMA EraseType ==
    ASSUME TypeOK, NEW S
    PROVE  Erase(S) \in [Msg -> Message]
  BY DEF TypeOK, Erase, NoMessage, Message, Status, Url

LEMMA RowReset ==
    ASSUME NEW r \in Message
    PROVE  [r EXCEPT !.status = "INITIAL", !.handle = 0] \in Message
  BY DEF Message, Status

LEMMA RowReceive ==
    ASSUME NEW r \in Message, NEW h \in Nat, NEW t \in Nat
    PROVE  [r EXCEPT !.status = "INVISIBLE", !.retries = @ + 1, !.handle = h,
                     !.reset = t] \in Message
<1> DEFINE k == r.retries + 1
<1>1. k \in Nat
  BY DEF Message
<1> HIDE DEF k
<1>2. [r EXCEPT !.status = "INVISIBLE", !.retries = k, !.handle = h, !.reset = t]
          \in Message
  BY <1>1 DEF Message, Status
<1> QED
  BY <1>2 DEF k

LEMMA RowRedrive ==
    ASSUME NEW r \in Message, NEW q \in Url
    PROVE  [r EXCEPT !.retries = 0, !.queue = q] \in Message
  BY DEF Message, Status

LEMMA RowDelayed ==
    ASSUME NEW r \in Message
    PROVE  [r EXCEPT !.status = "INITIAL"] \in Message
  BY DEF Message, Status

LEMMA ResetType ==
    ASSUME TypeOK, NEW q
    PROVE  ResetMessages(q) \in [Msg -> Message]
  BY RowReset DEF TypeOK, ResetMessages

LEMMA ReceiveType ==
    ASSUME TypeOK, NEW S, NEW t \in Nat
    PROVE  ReceiveMessages(S, t) \in [Msg -> Message]
<1> SUFFICES ASSUME NEW m \in Msg
             PROVE  ReceiveMessages(S, t)[m] \in Message
  BY DEF ReceiveMessages
<1>1. messages[m] \in Message /\ issued[m] + 1 \in Nat /\ now + t \in Nat
  BY DEF TypeOK, Message
<1>2. [messages[m] EXCEPT !.status = "INVISIBLE", !.retries = @ + 1,
                          !.handle = issued[m] + 1, !.reset = now + t] \in Message
  BY <1>1, RowReceive
<1> QED
  BY <1>1, <1>2 DEF ReceiveMessages

LEMMA RedriveType ==
    ASSUME TypeOK, NEW q \in Queue
    PROVE  RedriveMessages(q) \in [Msg -> Message]
  BY SQSAssumption, RowRedrive DEF TypeOK, RedriveMessages, Url

LEMMA DelayedType ==
    ASSUME TypeOK, NEW q
    PROVE  ResetDelayedMessages(q) \in [Msg -> Message]
  BY RowDelayed DEF TypeOK, ResetDelayedMessages

LEMMA NoMessageType == NoMessage \in Message
  BY DEF NoMessage, Message, Status, Url

LEMMA NoCallType == NoCall \in Call
  BY NoMessageType DEF NoCall, Call, Labels, Url

LEMMA NoCallOK == CallOK(NoCall)
  BY NoCallType DEF CallOK, NoCall, EntryLabels

(* A step that only changes what one thread keeps.                            *)
LEMMA CallStep ==
    ASSUME TypeInv, NEW c \in Client, NEW k, CallOK(k),
           call' = [call EXCEPT ![c] = k]
    PROVE  call' \in [Client -> Call] /\ \A d \in Client : CallOK(call'[d])
  BY DEF TypeInv, TypeOK, LocalOK, CallOK

LEMMA ReturnStep ==
    ASSUME TypeInv, NEW c \in Client, Return(c)
    PROVE  call' \in [Client -> Call] /\ \A d \in Client : CallOK(call'[d])
  BY CallStep, NoCallOK DEF Return

LEMMA GotoStep ==
    ASSUME TypeInv, NEW c \in Client, NEW l \in Labels \ {"createQueue"}, Goto(c, l),
           l \in EntryLabels => call[c].todo # <<>>
    PROVE  call' \in [Client -> Call] /\ \A d \in Client : CallOK(call'[d])
<1> DEFINE k == [call[c] EXCEPT !.pc = l]
<1>1. call[c] \in Call
  BY DEF TypeInv, TypeOK
<1>2. CallOK(k)
  BY <1>1 DEF CallOK, Call
<1>3. call' = [call EXCEPT ![c] = k]
  BY DEF Goto
<1> QED
  BY <1>2, <1>3, CallStep

--------------------------------------------------------------------------------
(* One lemma per group of actions: requests, handler steps, worker steps.     *)

LEMMA RequestType ==
    ASSUME TypeInv, NEW c \in Client, Request(c)
    PROVE  TypeInv'
<1> DEFINE K(l, q) == [NoCall EXCEPT !.pc = l, !.queue = q]
<1>1. \A l \in Labels \ EntryLabels, q \in Url :
          (l = "createQueue" => q \in Queue) => CallOK(K(l, q))
  BY NoCallType DEF CallOK, Call, EntryLabels, Url
<1>2. \A q \in Url, w \in WaitTimes, x \in BatchSizes :
          CallOK([NoCall EXCEPT !.pc = "receiveGet", !.queue = q, !.timeout = w, !.max = x])
  BY SQSAssumption, NoCallType DEF CallOK, Call, EntryLabels, Labels
<1>3. \A m \in Msg, t \in VisibilityTimeouts :
          CallOK([NoCall EXCEPT !.pc = "changeGet", !.todo = <<m>>, !.timeout = t])
  <2> SUFFICES ASSUME NEW m \in Msg, NEW t \in VisibilityTimeouts
               PROVE  CallOK([NoCall EXCEPT !.pc = "changeGet", !.todo = <<m>>, !.timeout = t])
    OBVIOUS
  <2> DEFINE e == <<m>>
  <2>1. e \in Seq(Msg) /\ e # <<>> /\ t \in Nat
    BY SQSAssumption
  <2> HIDE DEF e
  <2>2. CallOK([NoCall EXCEPT !.pc = "changeGet", !.todo = e, !.timeout = t])
    BY <2>1, NoCallType DEF CallOK, Call, EntryLabels, Url, Labels
  <2> QED
    BY <2>2 DEF e
<1>4. \A e \in Batches : CallOK([NoCall EXCEPT !.pc = "deleteCheck", !.todo = e])
  BY SQSAssumption, NoCallType DEF CallOK, Call, EntryLabels, Url, Labels
<1>5. CallOK([NoCall EXCEPT !.pc = "eraseEmpty"])
  BY NoCallType DEF CallOK, Call, EntryLabels, Url, Labels
<1>6. \E k : CallOK(k) /\ call' = [call EXCEPT ![c] = k]
  <2>1. CASE \E q \in Queue : CreateQueue(c, q)
    BY <2>1, <1>1 DEF CreateQueue, Begin, EntryLabels, Labels, Url
  <2>2. CASE \E q \in Queue : DeleteQueue(c, q)
    BY <2>2, <1>1 DEF DeleteQueue, Begin, EntryLabels, Labels, Url
  <2>3. CASE \E q \in Queue : PurgeQueue(c, q)
    BY <2>3, <1>1 DEF PurgeQueue, Begin, EntryLabels, Labels, Url
  <2>4. CASE \E q \in Url : SendMessage(c, q)
    BY <2>4, <1>1 DEF SendMessage, Begin, EntryLabels, Labels
  <2>5. CASE \E q \in Url, w \in WaitTimes, x \in BatchSizes : Receive(c, q, w, x)
    BY <2>5, <1>2 DEF Receive, Begin
  <2>6. CASE \E m \in Msg, t \in VisibilityTimeouts : SetVisibilityTimeout(c, m, t)
    BY <2>6, <1>3 DEF SetVisibilityTimeout, Begin
  <2>7. CASE \E e \in Batches : DeleteMessageBatch(c, e)
    BY <2>7, <1>4 DEF DeleteMessageBatch, Begin
  <2>8. CASE DeleteMessageEmpty(c)
    BY <2>8, <1>5 DEF DeleteMessageEmpty, Begin
  <2> QED
    BY <2>1, <2>2, <2>3, <2>4, <2>5, <2>6, <2>7, <2>8 DEF Request
<1>7. UNCHANGED <<queues, messages, worker, now, history>>
  BY DEF Request, CreateQueue, DeleteQueue, PurgeQueue, SendMessage, Receive,
         SetVisibilityTimeout, DeleteMessageBatch, DeleteMessageEmpty
<1>8. call' \in [Client -> Call] /\ \A d \in Client : CallOK(call'[d])
  BY <1>6, CallStep
<1> QED
  BY <1>7, <1>8 DEF TypeInv, TypeOK, LocalOK, history

LEMMA QueueRequestStepsType ==
    ASSUME TypeInv, NEW c \in Client,
           \/ CreateQueueInsert(c) \/ DeleteQueueMessages(c) \/ DeleteQueueEntry(c)
           \/ PurgeQueueErase(c)
    PROVE  TypeInv'
<1>1. CASE CreateQueueInsert(c)
  <2>1. queues' \subseteq Queue
    BY <1>1 DEF CreateQueueInsert, TypeInv, TypeOK, LocalOK, CallOK, At
  <2> QED
    BY <1>1, <2>1, ReturnStep DEF CreateQueueInsert, TypeInv, TypeOK, LocalOK, history
<1>2. CASE DeleteQueueMessages(c)
  <2>1. call' \in [Client -> Call] /\ \A d \in Client : CallOK(call'[d])
    BY <1>2, GotoStep DEF DeleteQueueMessages, Labels, EntryLabels
  <2>2. messages' \in [Msg -> Message]
    BY <1>2, EraseType DEF DeleteQueueMessages, TypeInv
  <2> QED
    BY <1>2, <2>1, <2>2 DEF DeleteQueueMessages, TypeInv, TypeOK, LocalOK, history
<1>3. CASE DeleteQueueEntry(c)
  BY <1>3, ReturnStep DEF DeleteQueueEntry, TypeInv, TypeOK, LocalOK, history
<1>4. CASE PurgeQueueErase(c)
  <2>1. messages' \in [Msg -> Message]
    BY <1>4, EraseType DEF PurgeQueueErase, TypeInv
  <2> QED
    BY <1>4, <2>1, ReturnStep DEF PurgeQueueErase, TypeInv, TypeOK, LocalOK, history
<1> QED
  BY <1>1, <1>2, <1>3, <1>4

LEMMA SendStepsType ==
    ASSUME TypeInv, NEW c \in Client,
           \/ SendGetQueue(c)
           \/ \E m \in Msg, t \in VisibilityTimeouts : SendCreate(c, m, t)
    PROVE  TypeInv'
<1>1. CASE SendGetQueue(c)
  <2> DEFINE u == IF call[c].queue \in queues THEN call[c].queue ELSE NoQueue
             k == [call[c] EXCEPT !.pc = "sendCreate", !.queue = u]
  <2>1. call[c] \in Call /\ u \in Url
    BY DEF TypeInv, TypeOK, Url
  <2>2. call' = [call EXCEPT ![c] = k]
    BY <1>1 DEF SendGetQueue
  <2> HIDE DEF u
  <2>3. CallOK(k)
    BY <2>1 DEF CallOK, Call, Labels, EntryLabels
  <2>4. call' \in [Client -> Call] /\ \A d \in Client : CallOK(call'[d])
    BY <2>2, <2>3, CallStep
  <2> QED
    BY <1>1, <2>4 DEF SendGetQueue, TypeInv, TypeOK, LocalOK, history
<1>2. ASSUME NEW m \in Msg, NEW t \in VisibilityTimeouts, SendCreate(c, m, t)
      PROVE  TypeInv'
  <2> DEFINE q == call[c].queue
             wait == IF q # NoQueue /\ DelaySeconds[q] > 0 THEN DelaySeconds[q] ELSE t
             row == [status |-> "INITIAL", queue |-> q, reset |-> now + wait,
                     retries |-> 0, handle |-> 1]
  <2>1. q \in Url
    BY DEF TypeInv, TypeOK, Call
  <2>2. now + wait \in Nat /\ now \in Nat
    BY <2>1, SQSAssumption DEF TypeInv, TypeOK, Url
  <2>3. row \in Message
    BY <2>1, <2>2 DEF Message, Status
  <2>4. messages' = [messages EXCEPT ![m] = row]
    BY <1>2 DEF SendCreate
  <2> HIDE DEF row
  <2>5. messages' \in [Msg -> Message]
    BY <2>3, <2>4 DEF TypeInv, TypeOK
  <2>6. /\ issued' \in [Msg -> Nat]
        /\ home' \in [Msg -> Url]
    BY <1>2, <2>1 DEF SendCreate, TypeInv, TypeOK
  <2>7. lease' \in [Client -> [Msg -> Lease]]
    BY <1>2 DEF SendCreate, TypeInv, TypeOK, Lease
  <2> QED
    BY <1>2, <2>5, <2>6, <2>7, ReturnStep DEF SendCreate, TypeInv, TypeOK, LocalOK
<1> QED
  BY <1>1, <1>2

LEMMA ReceiveStepsType ==
    ASSUME TypeInv, NEW c \in Client,
           \/ ReceiveGetQueue(c) \/ ReceiveReset(c)
           \/ \E S \in SUBSET Msg, t \in VisibilityTimeouts : ReceiveTake(c, S, t)
    PROVE  TypeInv'
<1>1. CASE ReceiveGetQueue(c)
  <2> DEFINE u == IF call[c].queue \in queues THEN call[c].queue ELSE NoQueue
             e == now + call[c].timeout
             k == [call[c] EXCEPT !.pc = "receiveReset", !.queue = u, !.deadline = e]
  <2>1. call[c] \in Call /\ u \in Url /\ e \in Nat
    BY DEF TypeInv, TypeOK, Url, Call
  <2>2. Return(c) \/ call' = [call EXCEPT ![c] = k]
    BY <1>1 DEF ReceiveGetQueue
  <2> HIDE DEF u, e
  <2>3. CallOK(k)
    BY <2>1 DEF CallOK, Call, Labels, EntryLabels
  <2>4. call' \in [Client -> Call] /\ \A d \in Client : CallOK(call'[d])
    BY <2>2, <2>3, CallStep, ReturnStep
  <2> QED
    BY <1>1, <2>4 DEF ReceiveGetQueue, TypeInv, TypeOK, LocalOK, history
<1>2. CASE ReceiveReset(c)
  <2>1. call' \in [Client -> Call] /\ \A d \in Client : CallOK(call'[d])
    BY <1>2, GotoStep DEF ReceiveReset, Labels, EntryLabels
  <2>2. messages' \in [Msg -> Message]
    BY <1>2, ResetType DEF ReceiveReset, TypeInv
  <2> QED
    BY <1>2, <2>1, <2>2 DEF ReceiveReset, TypeInv, TypeOK, LocalOK, history
<1>3. ASSUME NEW S \in SUBSET Msg, NEW t \in VisibilityTimeouts, ReceiveTake(c, S, t)
      PROVE  TypeInv'
  <2>1. messages' \in [Msg -> Message]
    BY <1>3, ReceiveType, SQSAssumption DEF ReceiveTake, TypeInv
  <2>2. issued' \in [Msg -> Nat]
    BY <1>3 DEF ReceiveTake, TypeInv, TypeOK
  <2>3. lease' \in [Client -> [Msg -> Lease]]
    <3> DEFINE row == [m \in Msg |-> IF m \in S THEN [handle |-> issued[m] + 1, until |-> now + t]
                                     ELSE lease[c][m]]
    <3>1. row \in [Msg -> Lease]
      BY SQSAssumption DEF TypeInv, TypeOK, Lease
    <3>2. lease' = [lease EXCEPT ![c] = row]
      BY <1>3 DEF ReceiveTake
    <3> HIDE DEF row
    <3> QED
      BY <3>1, <3>2 DEF TypeInv, TypeOK
  <2>4. call' \in [Client -> Call] /\ \A d \in Client : CallOK(call'[d])
    <3>1. Return(c) \/ Goto(c, "receiveReset")
      BY <1>3 DEF ReceiveTake
    <3> QED
      BY <3>1, ReturnStep, GotoStep DEF Labels, EntryLabels
  <2> QED
    BY <1>3, <2>1, <2>2, <2>3, <2>4 DEF ReceiveTake, TypeInv, TypeOK, LocalOK
<1> QED
  BY <1>1, <1>2, <1>3

LEMMA ChangeStepsType ==
    ASSUME TypeInv, NEW c \in Client, ChangeGet(c) \/ ChangeUpdate(c)
    PROVE  TypeInv'
<1> DEFINE m == Head(call[c].todo)
<1>1. call[c] \in Call /\ call[c].todo # <<>>
  BY DEF TypeInv, TypeOK, LocalOK, CallOK, EntryLabels, ChangeGet, ChangeUpdate, At
<1>2. m \in Msg
  BY <1>1 DEF Call
<1> HIDE DEF m
<1>3. CASE ChangeGet(c)
  <2> DEFINE t == now + call[c].timeout
             found == IF Valid(c, m) THEN messages[m] ELSE NoMessage
             row == [found EXCEPT !.reset = t]
             k == [call[c] EXCEPT !.pc = "changeUpdate", !.copy = row]
  <2>1. t \in Nat
    BY <1>1 DEF TypeInv, TypeOK, Call
  <2>2. found \in Message
    BY <1>2, NoMessageType DEF TypeInv, TypeOK
  <2>3. call' = [call EXCEPT ![c] = k]
    BY <1>3 DEF ChangeGet, m
  <2> HIDE DEF t, found
  <2>4. row \in Message
    BY <2>1, <2>2 DEF Message
  <2> HIDE DEF row
  <2>5. CallOK(k)
    BY <1>1, <2>4 DEF CallOK, Call, Labels
  <2>6. call' \in [Client -> Call] /\ \A d \in Client : CallOK(call'[d])
    BY <2>3, <2>5, CallStep
  <2> QED
    BY <1>3, <2>6 DEF ChangeGet, TypeInv, TypeOK, LocalOK, history
<1>4. CASE ChangeUpdate(c)
  <2> DEFINE row == call[c].copy
             u == row.reset
             l == [lease[c][m] EXCEPT !.until = u]
  <2>1. row \in Message /\ u \in Int
    BY <1>1 DEF Call, Message
  <2>2. /\ UNCHANGED messages \/ messages' = [messages EXCEPT ![m] = row]
        /\ UNCHANGED lease \/ lease' = [lease EXCEPT ![c] = [lease[c] EXCEPT ![m] = l]]
    BY <1>4 DEF ChangeUpdate, Stored, m
  <2> HIDE DEF row, u
  <2>3. messages' \in [Msg -> Message]
    BY <2>1, <2>2 DEF TypeInv, TypeOK
  <2>4. l \in Lease
    <3>1. lease[c][m] \in Lease
      BY <1>2 DEF TypeInv, TypeOK
    <3> QED
      BY <2>1, <3>1 DEF Lease
  <2> HIDE DEF l
  <2>5. lease' \in [Client -> [Msg -> Lease]]
    <3> DEFINE e == [lease[c] EXCEPT ![m] = l]
    <3>1. lease \in [Client -> [Msg -> Lease]]
      BY DEF TypeInv, TypeOK
    <3>2. e \in [Msg -> Lease]
      BY <2>4, <3>1
    <3>3. UNCHANGED lease \/ lease' = [lease EXCEPT ![c] = e]
      BY <2>2
    <3> HIDE DEF e
    <3> QED
      BY <3>1, <3>2, <3>3
  <2> QED
    BY <1>4, <2>3, <2>5, ReturnStep DEF ChangeUpdate, TypeInv, TypeOK, LocalOK
<1> QED
  BY <1>3, <1>4

LEMMA DeleteStepsType ==
    ASSUME TypeInv, NEW c \in Client,
           DeleteCheck(c) \/ DeleteErase(c) \/ DeleteEraseEmpty(c)
    PROVE  TypeInv'
<1>1. CASE DeleteCheck(c)
  <2>1. call[c].todo # <<>>
    BY <1>1 DEF TypeInv, LocalOK, CallOK, EntryLabels, DeleteCheck, At
  <2>2. Return(c) \/ Goto(c, "deleteErase")
    BY <1>1 DEF DeleteCheck
  <2>3. call' \in [Client -> Call] /\ \A d \in Client : CallOK(call'[d])
    BY <2>1, <2>2, ReturnStep, GotoStep DEF Labels, EntryLabels
  <2> QED
    BY <1>1, <2>3 DEF DeleteCheck, TypeInv, TypeOK, LocalOK, history
<1>2. CASE DeleteErase(c)
  <2> DEFINE rest == Tail(call[c].todo)
             k == [call[c] EXCEPT !.pc = "deleteCheck", !.todo = rest]
  <2>1. call[c] \in Call /\ call[c].todo \in Seq(Msg) /\ call[c].todo # <<>>
    BY <1>2 DEF TypeInv, TypeOK, LocalOK, CallOK, Call, EntryLabels, DeleteErase, At
  <2>2. rest \in Seq(Msg)
    BY <2>1
  <2>3. Return(c) \/ (rest # <<>> /\ call' = [call EXCEPT ![c] = k])
    BY <1>2 DEF DeleteErase
  <2> HIDE DEF rest
  <2>4. rest # <<>> => CallOK(k)
    BY <2>1, <2>2 DEF CallOK, Call, Labels
  <2>5. call' \in [Client -> Call] /\ \A d \in Client : CallOK(call'[d])
    BY <2>3, <2>4, CallStep, ReturnStep
  <2>6. messages' \in [Msg -> Message]
    BY <1>2, EraseType DEF DeleteErase, TypeInv
  <2> QED
    BY <1>2, <2>5, <2>6 DEF DeleteErase, TypeInv, TypeOK, LocalOK, history
<1>3. CASE DeleteEraseEmpty(c)
  <2>1. messages' \in [Msg -> Message]
    BY <1>3, EraseType DEF DeleteEraseEmpty, TypeInv
  <2> QED
    BY <1>3, <2>1, ReturnStep DEF DeleteEraseEmpty, TypeInv, TypeOK, LocalOK, history
<1> QED
  BY <1>1, <1>2, <1>3

LEMMA WorkerType ==
    ASSUME TypeInv, RunWorker
    PROVE  TypeInv'
<1>1. messages' \in [Msg -> Message]
  <2>1. worker.pc = "redrive" => worker.queue \in Queue
    BY DEF TypeInv, LocalOK
  <2>2. \/ UNCHANGED messages
        \/ messages' = Erase(Retired(worker.queue))
        \/ messages' = ResetMessages(worker.queue)
        \/ worker.queue \in Queue /\ messages' = RedriveMessages(worker.queue)
        \/ messages' = ResetDelayedMessages(worker.queue)
    BY <2>1 DEF RunWorker, WorkerListQueues, WorkerNext, WorkerRetention, WorkerReset,
                WorkerRedrive, WorkerDelayed, WorkerUpdateQueue, WorkerAt
  <2>3. TypeOK
    BY DEF TypeInv
  <2> QED
    BY <2>2, <2>3, EraseType, ResetType, RedriveType, DelayedType DEF TypeOK
<1>2. worker' \in Worker /\ (worker'.pc \notin {"idle", "next"} => worker'.queue \in Queue)
  <2>1. worker \in Worker /\ (worker.pc \notin {"idle", "next"} => worker.queue \in Queue)
    BY DEF TypeInv, TypeOK, LocalOK
  <2>2. CASE WorkerListQueues
    BY <2>2 DEF WorkerListQueues, TypeInv, TypeOK, Worker, WorkerLabels, Url
  <2>3. CASE \E q \in Queue : WorkerNext(q)
    BY <2>1, <2>3 DEF WorkerNext, Worker, WorkerLabels, Url
  <2>4. CASE \E l \in {"reset", "redrive", "delayed", "update"} :
                 WorkerGoto(l) /\ worker.pc \notin {"idle", "next"}
    BY <2>1, <2>4 DEF WorkerGoto, Worker, WorkerLabels
  <2>5. CASE WorkerUpdateQueue
    BY <2>1, <2>5 DEF WorkerUpdateQueue, Worker, WorkerLabels, Url
  <2> QED
    BY <2>2, <2>3, <2>4, <2>5 DEF RunWorker, WorkerRetention, WorkerReset, WorkerRedrive,
       WorkerDelayed, WorkerAt
<1>4. queues' \subseteq Queue
  BY DEF RunWorker, WorkerListQueues, WorkerNext, WorkerRetention, WorkerReset,
         WorkerRedrive, WorkerDelayed, WorkerUpdateQueue, WorkerAt, TypeInv, TypeOK, LocalOK
<1>3. UNCHANGED <<call, now, history>>
  BY DEF RunWorker, WorkerListQueues, WorkerNext, WorkerRetention, WorkerReset,
         WorkerRedrive, WorkerDelayed, WorkerUpdateQueue
<1> QED
  BY <1>1, <1>2, <1>3, <1>4 DEF TypeInv, TypeOK, LocalOK, history

LEMMA InitType == Init => TypeInv
<1> SUFFICES ASSUME Init PROVE TypeInv
  OBVIOUS
<1>1. TypeOK
  BY SQSAssumption, NoMessageType, NoCallType
     DEF Init, TypeOK, Worker, WorkerLabels, Url, Lease, NoLease
<1>2. LocalOK
  BY NoCallOK DEF Init, LocalOK
<1> QED
  BY <1>1, <1>2 DEF TypeInv

LEMMA NextType == TypeInv /\ [Next]_vars => TypeInv'
<1> SUFFICES ASSUME TypeInv, [Next]_vars PROVE TypeInv'
  OBVIOUS
<1>1. CASE \E c \in Client : Request(c)
  BY <1>1, RequestType
<1>2. CASE \E c \in Client : Handle(c)
  BY <1>2, QueueRequestStepsType, SendStepsType, ReceiveStepsType, ChangeStepsType,
     DeleteStepsType DEF Handle
<1>3. CASE RunWorker
  BY <1>3, WorkerType
<1>4. CASE Tick
  BY <1>4 DEF Tick, TypeInv, TypeOK, LocalOK, history
<1>5. CASE UNCHANGED vars
  BY <1>5 DEF vars, TypeInv, TypeOK, LocalOK
<1> QED
  BY <1>1, <1>2, <1>3, <1>4, <1>5 DEF Next

(* Every table and every thread's local data keeps its type, whatever the     *)
(* requests and however they interleave.                                      *)
THEOREM TypeCorrect == Spec => []TypeOK
<1>1. Spec => []TypeInv
  BY InitType, NextType, PTL DEF Spec
<1> QED
  BY <1>1, PTL DEF TypeInv

THEOREM TypeInvariant == Spec => []TypeInv
  BY InitType, NextType, PTL DEF Spec

--------------------------------------------------------------------------------
(* Exclusive leases.  ExclusiveLease alone is not inductive: that the next    *)
(* receive of a message finds all its leases over follows from the reset      *)
(* times of the rows.  A row that can be received has no running lease, and   *)
(* the lease of a row that cannot is over when its reset time is.  Writing an *)
(* old copy of a row back breaks exactly this, so ChangeMessageVisibility is  *)
(* excluded.                                                                  *)
LeaseInv ==
    /\ \A c \in Client : call[c].pc \notin {"changeGet", "changeUpdate"}
    /\ \A m \in Msg : issued[m] = 0 =>
           ~Present(m) /\ \A c \in Client : lease[c][m].until < now
    /\ \A m \in Msg : messages[m].status \in {"INITIAL", "DELAYED"} =>
           \A c \in Client : lease[c][m].until < now
    /\ \A m \in Msg : messages[m].status = "INVISIBLE" =>
           \A c \in Client : lease[c][m].until >= now =>
               lease[c][m].until <= messages[m].reset
    /\ ExclusiveLease

(* What the steps other than SendCreate and ReceiveTake do to a row: it stays *)
(* as it is, leaves the table, is moved, or is reset after its time.          *)
Kept(m) ==
    \/ messages'[m].status = messages[m].status /\ messages'[m].reset = messages[m].reset
    \/ messages'[m].status = "ABSENT"
    \/ /\ messages[m].status = "INVISIBLE" /\ messages[m].reset < now
       /\ messages'[m].status = "INITIAL"
    \/ messages[m].status = "DELAYED" /\ messages'[m].status = "INITIAL"

LEMMA EraseKeeps ==
    ASSUME TypeOK, NEW S, messages' = Erase(S) PROVE \A m \in Msg : Kept(m)
  BY DEF Kept, Erase, NoMessage

LEMMA ResetKeeps ==
    ASSUME TypeOK, NEW q, messages' = ResetMessages(q) PROVE \A m \in Msg : Kept(m)
  BY DEF Kept, ResetMessages, Expired, TypeOK, Message

LEMMA RedriveKeeps ==
    ASSUME TypeOK, NEW q, messages' = RedriveMessages(q) PROVE \A m \in Msg : Kept(m)
  BY DEF Kept, RedriveMessages, TypeOK, Message

LEMMA DelayedKeeps ==
    ASSUME TypeOK, NEW q, messages' = ResetDelayedMessages(q) PROVE \A m \in Msg : Kept(m)
  BY DEF Kept, ResetDelayedMessages, DelayOver, TypeOK, Message

LEMMA KeptLease ==
    ASSUME TypeOK, LeaseInv, \A m \in Msg : Kept(m),
           UNCHANGED <<lease, issued, now>>,
           \A c \in Client : call'[c].pc \notin {"changeGet", "changeUpdate"}
    PROVE  LeaseInv'
<1>1. ASSUME NEW m \in Msg, issued'[m] = 0
      PROVE  messages'[m].status = "ABSENT" /\ \A c \in Client : lease'[c][m].until < now'
  BY <1>1 DEF LeaseInv, Kept, Present
<1>2. ASSUME NEW m \in Msg, messages'[m].status \in {"INITIAL", "DELAYED"}, NEW c \in Client
      PROVE  lease'[c][m].until < now'
  <2>1. lease[c][m].until \in Int /\ now \in Int /\ messages[m].reset \in Int
    BY DEF TypeOK, Lease, Message
  <2> QED
    BY <1>2, <2>1 DEF LeaseInv, Kept
<1>3. ASSUME NEW m \in Msg, messages'[m].status = "INVISIBLE", NEW c \in Client,
             lease'[c][m].until >= now'
      PROVE  lease'[c][m].until <= messages'[m].reset
  BY <1>3 DEF LeaseInv, Kept
<1>4. ExclusiveLease'
  BY DEF LeaseInv, ExclusiveLease
<1> QED
  BY <1>1, <1>2, <1>3, <1>4 DEF LeaseInv, Present

(* No step outside a change of visibility leads to its labels.                *)
LEMMA NoChange ==
    ASSUME TypeInv, LeaseInv, Next, "SetVisibilityTimeout" \notin Api
    PROVE  \A c \in Client : call'[c].pc \notin {"changeGet", "changeUpdate"}
<1> DEFINE Other == Labels \ {"changeGet", "changeUpdate"}
<1>1. \A c \in Client : call[c] \in Call /\ call[c].pc \in Other
  BY DEF TypeInv, TypeOK, LeaseInv, Call
<1>2. ASSUME NEW c \in Client, NEW k \in Call, k.pc \in Other, call' = [call EXCEPT ![c] = k]
      PROVE  \A d \in Client : call'[d].pc \in Other
  BY <1>1, <1>2 DEF TypeInv, TypeOK
<1>3. ASSUME NEW c \in Client, NEW l \in Other, call' = [call EXCEPT ![c].pc = l]
      PROVE  \A d \in Client : call'[d].pc \in Other
  BY <1>1, <1>3 DEF TypeInv, TypeOK, Call
<1>4. NoCall \in Call /\ NoCall.pc \in Other
  BY NoCallType DEF NoCall, Labels
<1>5. ASSUME NEW c \in Client, Request(c)
      PROVE  \A d \in Client : call'[d].pc \in Other
  <2>1. \E k : k.pc \in Other /\ call' = [call EXCEPT ![c] = k]
    <3>1. CASE \/ \E q \in Queue : CreateQueue(c, q) \/ DeleteQueue(c, q) \/ PurgeQueue(c, q)
               \/ \E q \in Url : SendMessage(c, q)
      BY <3>1 DEF CreateQueue, DeleteQueue, PurgeQueue, SendMessage, Begin, NoCall, Labels
    <3>2. CASE \E q \in Url, w \in WaitTimes, x \in BatchSizes : Receive(c, q, w, x)
      BY <3>2 DEF Receive, Begin, NoCall, Labels
    <3>3. CASE \E e \in Batches : DeleteMessageBatch(c, e)
      BY <3>3 DEF DeleteMessageBatch, Begin, NoCall, Labels
    <3>4. CASE DeleteMessageEmpty(c)
      BY <3>4 DEF DeleteMessageEmpty, Begin, NoCall, Labels
    <3> QED
      BY <1>5, <3>1, <3>2, <3>3, <3>4 DEF Request
  <2> QED
    BY <1>1, <2>1 DEF TypeInv, TypeOK
<1>6. ASSUME NEW c \in Client, Handle(c)
      PROVE  \A d \in Client : call'[d].pc \in Other
  <2>1. ~ChangeGet(c) /\ ~ChangeUpdate(c)
    BY <1>1 DEF ChangeGet, ChangeUpdate, At
  <2>2. CASE Return(c)
    BY <2>2, <1>2, <1>4 DEF Return
  <2>3. CASE \E l \in Other : Goto(c, l)
    BY <2>3, <1>3 DEF Goto
  <2>4. CASE SendGetQueue(c) \/ ReceiveGetQueue(c) \/ DeleteErase(c)
    <3>1. call[c] \in Call /\ call \in [Client -> Call]
      BY DEF TypeInv, TypeOK
    <3>2. \/ Return(c)
          \/ call'[c].pc \in {"sendCreate", "receiveReset", "deleteCheck"}
      <4>1. CASE SendGetQueue(c)
        BY <4>1, <3>1 DEF SendGetQueue, Call
      <4>2. CASE ReceiveGetQueue(c)
        BY <4>2, <3>1 DEF ReceiveGetQueue, Call
      <4>3. CASE DeleteErase(c)
        BY <4>3, <3>1 DEF DeleteErase, Call
      <4> QED
        BY <2>4, <4>1, <4>2, <4>3
    <3>3. \A d \in Client \ {c} : call'[d] = call[d]
      BY <2>4, <3>1 DEF SendGetQueue, ReceiveGetQueue, DeleteErase, Return
    <3> QED
      BY <3>2, <3>3, <2>2, <1>1 DEF Labels
  <2> QED
    BY <1>6, <2>1, <2>2, <2>3, <2>4
       DEF Handle, CreateQueueInsert, DeleteQueueMessages, DeleteQueueEntry, PurgeQueueErase,
           SendCreate, ReceiveReset, ReceiveTake, DeleteCheck, DeleteEraseEmpty, Labels
<1>7. CASE RunWorker \/ Tick
  BY <1>7, <1>1 DEF RunWorker, Tick, WorkerListQueues, WorkerNext, WorkerRetention,
         WorkerReset, WorkerRedrive, WorkerDelayed, WorkerUpdateQueue
<1> QED
  BY <1>5, <1>6, <1>7 DEF Next

LEMMA LeaseSend ==
    ASSUME TypeInv, LeaseInv, NEW c \in Client, NEW m \in Msg, NEW t \in VisibilityTimeouts,
           SendCreate(c, m, t),
           \A d \in Client : call'[d].pc \notin {"changeGet", "changeUpdate"}
    PROVE  LeaseInv'
<1>1. /\ messages'[m].status = "INITIAL"
      /\ \A n \in Msg \ {m} : messages'[n] = messages[n]
      /\ issued'[m] = 1
      /\ \A n \in Msg \ {m} : issued'[n] = issued[n]
      /\ now' = now
  BY DEF SendCreate, TypeInv, TypeOK
<1>2. /\ \A d \in Client : lease'[d][m].until < now
      /\ \A d \in Client, n \in Msg \ {m} : lease'[d][n] = lease[d][n]
  <2>1. issued[m] = 0 /\ now \in Nat
    BY DEF SendCreate, TypeInv, TypeOK
  <2>2. lease'[c][m].until = -1 /\ \A d \in Client \ {c} : lease'[d][m] = lease[d][m]
    BY DEF SendCreate, TypeInv, TypeOK
  <2>3. \A d \in Client, n \in Msg \ {m} : lease'[d][n] = lease[d][n]
    BY DEF SendCreate, TypeInv, TypeOK
  <2> QED
    BY <2>1, <2>2, <2>3 DEF LeaseInv
<1>3. \A d \in Client, n \in Msg : lease'[d][n].until \in Int
  <2>1. lease' \in [Client -> [Msg -> Lease]]
    BY SendStepsType DEF TypeInv, TypeOK
  <2> QED
    BY <2>1 DEF Lease
<1>4. ExclusiveLease'
  BY <1>1, <1>2, <1>3 DEF LeaseInv, ExclusiveLease, TypeInv, TypeOK
<1> QED
  BY <1>1, <1>2, <1>4 DEF LeaseInv, Present

LEMMA LeaseTake ==
    ASSUME TypeInv, LeaseInv, NEW c \in Client, NEW S \in SUBSET Msg,
           NEW t \in VisibilityTimeouts, ReceiveTake(c, S, t),
           \A d \in Client : call'[d].pc \notin {"changeGet", "changeUpdate"}
    PROVE  LeaseInv'
<1>1. now' = now /\ now \in Nat /\ t \in Nat
  BY SQSAssumption DEF ReceiveTake, TypeInv, TypeOK
<1>2. \A m \in S : messages[m].status = "INITIAL"
  BY DEF ReceiveTake, Visible
<1>3. \A m \in S : /\ messages'[m].status = "INVISIBLE"
                    /\ messages'[m].reset = now + t
                    /\ issued'[m] # 0
                    /\ lease'[c][m].until = now + t
                    /\ \A d \in Client \ {c} : lease'[d][m] = lease[d][m]
  <2> SUFFICES ASSUME NEW m \in S
               PROVE  /\ messages'[m].status = "INVISIBLE"
                      /\ messages'[m].reset = now + t
                      /\ issued'[m] # 0
                      /\ lease'[c][m].until = now + t
                      /\ \A d \in Client \ {c} : lease'[d][m] = lease[d][m]
    OBVIOUS
  <2> DEFINE k == messages[m].retries + 1
             h == issued[m] + 1
             u == now + t
  <2>1. messages[m] \in Message /\ issued[m] \in Nat
    BY DEF TypeInv, TypeOK
  <2>2. messages'[m] = [messages[m] EXCEPT !.status = "INVISIBLE", !.retries = k,
                                          !.handle = h, !.reset = u]
    BY DEF ReceiveTake, ReceiveMessages
  <2>3. issued'[m] = h /\ h # 0
    BY <2>1 DEF ReceiveTake
  <2>4. lease' = [lease EXCEPT ![c] = [n \in Msg |->
                     IF n \in S THEN [handle |-> issued[n] + 1, until |-> u]
                     ELSE lease[c][n]]]
    BY DEF ReceiveTake
  <2>5. lease \in [Client -> [Msg -> Lease]]
    BY DEF TypeInv, TypeOK
  <2> HIDE DEF k, h, u
  <2>6. messages'[m].status = "INVISIBLE" /\ messages'[m].reset = u
    BY <2>1, <2>2 DEF Message
  <2>7. lease'[c][m].until = u /\ \A d \in Client \ {c} : lease'[d][m] = lease[d][m]
    BY <2>4, <2>5
  <2> QED
    BY <2>3, <2>6, <2>7 DEF u
<1>4. \A m \in Msg \ S : /\ messages'[m] = messages[m]
                          /\ issued'[m] = issued[m]
                          /\ \A d \in Client : lease'[d][m] = lease[d][m]
  BY DEF ReceiveTake, ReceiveMessages, TypeInv, TypeOK
<1>5. \A m \in S, d \in Client : lease[d][m].until < now
  BY <1>2 DEF LeaseInv
<1>6. \A d \in Client, n \in Msg : lease[d][n].until \in Int
  BY DEF TypeInv, TypeOK, Lease
<1>7. ExclusiveLease'
  <2> SUFFICES ASSUME NEW d \in Client, NEW e \in Client, NEW m \in Msg,
                      lease'[d][m].until >= now, lease'[e][m].until >= now
               PROVE  d = e
    BY <1>1 DEF ExclusiveLease
  <2>1. CASE m \in S
    BY <2>1, <1>1, <1>3, <1>5, <1>6
  <2>2. CASE m \notin S
    BY <2>2, <1>4 DEF LeaseInv, ExclusiveLease
  <2> QED
    BY <2>1, <2>2
<1>8. \A m \in Msg : messages'[m].status = "INVISIBLE" =>
          \A d \in Client : lease'[d][m].until >= now' =>
              lease'[d][m].until <= messages'[m].reset
  <2> SUFFICES ASSUME NEW m \in Msg, messages'[m].status = "INVISIBLE", NEW d \in Client,
                      lease'[d][m].until >= now'
               PROVE  lease'[d][m].until <= messages'[m].reset
    OBVIOUS
  <2>1. CASE m \in S
    <3>1. d = c
      BY <2>1, <1>1, <1>3, <1>5, <1>6
    <3> QED
      BY <3>1, <2>1, <1>1, <1>3
  <2>2. CASE m \notin S
    BY <2>2, <1>1, <1>4 DEF LeaseInv
  <2> QED
    BY <2>1, <2>2
<1>9. \A m \in Msg : issued'[m] = 0 => m \notin S
  BY <1>3
<1>10. \A m \in Msg : messages'[m].status \in {"INITIAL", "DELAYED"} => m \notin S
  BY <1>3
<1> QED
  BY <1>1, <1>4, <1>7, <1>8, <1>9, <1>10 DEF LeaseInv, Present

LEMMA LeaseTick ==
    ASSUME TypeInv, LeaseInv, Tick
    PROVE  LeaseInv'
<1>1. now' = now + 1 /\ now \in Nat /\ \A c \in Client, m \in Msg : lease[c][m].until \in Int
  BY DEF Tick, TypeInv, TypeOK, Lease
<1>2. UNCHANGED <<call, lease, issued, messages>>
  BY DEF Tick, history
<1>3. \A c \in Client, m \in Msg : lease[c][m].until < now => lease[c][m].until < now + 1
  BY <1>1
<1>4. \A c \in Client, m \in Msg : lease[c][m].until >= now + 1 => lease[c][m].until >= now
  BY <1>1
<1> QED
  BY <1>1, <1>2, <1>3, <1>4 DEF LeaseInv, ExclusiveLease, Present

LEMMA LeaseNext ==
    ASSUME TypeInv, LeaseInv, [Next]_vars, "SetVisibilityTimeout" \notin Api
    PROVE  LeaseInv'
<1>1. TypeOK
  BY DEF TypeInv
<1>2. CASE UNCHANGED vars
  BY <1>2 DEF vars, LeaseInv, ExclusiveLease, Present
<1>3. CASE Next
  <2>1. \A c \in Client : call'[c].pc \notin {"changeGet", "changeUpdate"}
    BY <1>3, NoChange
  <2>2. ASSUME NEW c \in Client, Request(c)
        PROVE  LeaseInv'
    <3>1. UNCHANGED <<messages, lease, issued, now>>
      BY <2>2 DEF Request, CreateQueue, DeleteQueue, PurgeQueue, SendMessage, Receive,
             SetVisibilityTimeout, DeleteMessageBatch, DeleteMessageEmpty, history
    <3>2. \A m \in Msg : Kept(m)
      BY <3>1 DEF Kept
    <3> QED
      BY <1>1, <2>1, <3>1, <3>2, KeptLease
  <2>3. ASSUME NEW c \in Client, Handle(c)
        PROVE  LeaseInv'
    <3>1. CASE \E m \in Msg, t \in VisibilityTimeouts : SendCreate(c, m, t)
      BY <3>1, <2>1, LeaseSend
    <3>2. CASE \E S \in SUBSET Msg, t \in VisibilityTimeouts : ReceiveTake(c, S, t)
      BY <3>2, <2>1, LeaseTake
    <3>3. CASE ChangeGet(c) \/ ChangeUpdate(c)
      BY <3>3 DEF LeaseInv, ChangeGet, ChangeUpdate, At
    <3>4. CASE \/ CreateQueueInsert(c) \/ DeleteQueueMessages(c) \/ DeleteQueueEntry(c)
               \/ PurgeQueueErase(c) \/ SendGetQueue(c) \/ ReceiveGetQueue(c)
               \/ ReceiveReset(c) \/ DeleteCheck(c) \/ DeleteErase(c) \/ DeleteEraseEmpty(c)
      <4>1. UNCHANGED <<lease, issued, now>>
        BY <3>4 DEF CreateQueueInsert, DeleteQueueMessages, DeleteQueueEntry, PurgeQueueErase,
               SendGetQueue, ReceiveGetQueue, ReceiveReset, DeleteCheck, DeleteErase,
               DeleteEraseEmpty, history
      <4>2. \/ UNCHANGED messages
            \/ \E X : messages' = Erase(X)
            \/ \E q : messages' = ResetMessages(q)
        BY <3>4 DEF CreateQueueInsert, DeleteQueueMessages, DeleteQueueEntry, PurgeQueueErase,
               SendGetQueue, ReceiveGetQueue, ReceiveReset, DeleteCheck, DeleteErase,
               DeleteEraseEmpty
      <4>3. \A m \in Msg : Kept(m)
        <5>1. CASE UNCHANGED messages
          BY <5>1 DEF Kept
        <5> QED
          BY <1>1, <4>2, <5>1, EraseKeeps, ResetKeeps
      <4> QED
        BY <1>1, <2>1, <4>1, <4>3, KeptLease
    <3> QED
      BY <2>3, <3>1, <3>2, <3>3, <3>4 DEF Handle
  <2>4. CASE RunWorker
    <3>1. UNCHANGED <<lease, issued, now>>
      BY <2>4 DEF RunWorker, WorkerListQueues, WorkerNext, WorkerRetention, WorkerReset,
             WorkerRedrive, WorkerDelayed, WorkerUpdateQueue, history
    <3>2. \/ UNCHANGED messages
          \/ \E X : messages' = Erase(X)
          \/ \E q : messages' = ResetMessages(q)
          \/ \E q : messages' = RedriveMessages(q)
          \/ \E q : messages' = ResetDelayedMessages(q)
      BY <2>4 DEF RunWorker, WorkerListQueues, WorkerNext, WorkerRetention, WorkerReset,
             WorkerRedrive, WorkerDelayed, WorkerUpdateQueue
    <3>3. \A m \in Msg : Kept(m)
      <4>1. CASE UNCHANGED messages
        BY <4>1 DEF Kept
      <4> QED
        BY <1>1, <3>2, <4>1, EraseKeeps, ResetKeeps, RedriveKeeps, DelayedKeeps
    <3> QED
      BY <1>1, <2>1, <3>1, <3>3, KeptLease
  <2> QED
    BY <1>3, <2>2, <2>3, <2>4, LeaseTick DEF Next
<1> QED
  BY <1>2, <1>3

LEMMA LeaseInit == Init => LeaseInv
  BY DEF Init, LeaseInv, ExclusiveLease, NoCall, NoLease, NoMessage, Present

(* While the visibility timeout of a receive runs, no other client gets the   *)
(* message: for any number of clients, queues and messages, as long as nobody *)
(* changes the visibility timeout of a message.                               *)
THEOREM LeasesAreExclusive ==
    ASSUME "SetVisibilityTimeout" \notin Api
    PROVE  Spec => []ExclusiveLease
<1>1. TypeInv /\ LeaseInv /\ [Next]_vars => LeaseInv'
  BY LeaseNext
<1>2. LeaseInv => ExclusiveLease
  BY DEF LeaseInv
<1> QED
  BY LeaseInit, TypeInvariant, <1>1, <1>2, PTL DEF Spec

================================================================================
