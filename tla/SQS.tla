---------------------------------- MODULE SQS ----------------------------------
(******************************************************************************)
(* The SQS service on the in-memory database: SQSService (the request         *)
(* handlers, one gateway thread per client), SQSDatabase/SQSMemoryDb (the     *)
(* queue and message tables) and SQSWorker (the maintenance thread).          *)
(*                                                                            *)
(* A step of a process is one call into the database: SQSMemoryDb runs each   *)
(* of them under a mutex, while nothing is locked between two calls of the    *)
(* same handler.  A client is the thread that serves its request, so it has   *)
(* one call at a time.                                                        *)
(*                                                                            *)
(* Queue attributes are those of the queue definitions of the deployment (the *)
(* constants below); their changes at run time are not modelled, except that  *)
(* the visibility timeout of a call ranges over a set, so a change of that    *)
(* attribute between two calls is covered.                                    *)
(******************************************************************************)
EXTENDS Integers, Sequences, FiniteSets

CONSTANTS
    Queue,              \* queue URLs a client may name
    NoQueue,            \* the empty URL
    Msg,                \* message object ids (UUIDs, never reused)
    Client,             \* the callers, each served by its own gateway thread
    Existing,           \* the queues that were created before the behaviour starts
    Api,                \* the requests the clients make, see Requests
    VisibilityTimeouts, \* values of the VisibilityTimeout attribute/parameter
    WaitTimes,          \* values of the WaitTimeSeconds parameter
    BatchSizes,         \* values of the MaxNumberOfMessages parameter
    Batches,            \* the entry lists a client may ask to delete
    DelaySeconds,       \* queue attribute, per queue
    RetentionPeriod,    \* queue attribute, per queue
    DeadLetter,         \* redrivePolicy.deadLetterTargetArn, per queue, or NoQueue
    MaxReceiveCount,    \* redrivePolicy.maxReceiveCount, per queue
    MaxTime,            \* bound: no receive begins from then on and the clock stops
    MaxHandles          \* bound: receipt handles of a message a change may follow

Requests == {"CreateQueue", "DeleteQueue", "PurgeQueue", "SendMessage",
             "ReceiveMessages", "SetVisibilityTimeout", "DeleteMessage",
             "DeleteMessage without handle"}

ASSUME SQSAssumption ==
    /\ NoQueue \notin Queue
    /\ Existing \subseteq Queue
    /\ Api \subseteq Requests
    /\ VisibilityTimeouts \subseteq Nat /\ VisibilityTimeouts # {}
    /\ WaitTimes \subseteq Nat
    /\ BatchSizes \subseteq Int
    /\ Batches \subseteq Seq(Msg) \ {<<>>}
    /\ DelaySeconds \in [Queue -> Nat]
    /\ RetentionPeriod \in [Queue -> Nat]
    /\ DeadLetter \in [Queue -> Queue \cup {NoQueue}]
    /\ MaxReceiveCount \in [Queue -> Nat]
    /\ MaxTime \in Nat
    /\ MaxHandles \in Nat

VARIABLES
    queues,     \* _queues: the URLs that have an entry
    messages,   \* _messages, by object id
    call,       \* the request each client's thread is executing
    worker,     \* the maintenance thread's local state
    now,        \* the clock, in seconds
    lease,      \* history: the last receipt handle a client was given of a message
    issued,     \* history: how many receipt handles a message has had
    home        \* history: the queue a message was sent to

vars == <<queues, messages, call, worker, now, lease, issued, home>>
history == <<lease, issued, home>>

--------------------------------------------------------------------------------
(* Data.                                                                      *)

Url == Queue \cup {NoQueue}

Status == {"ABSENT", "INITIAL", "DELAYED", "INVISIBLE"}

(* A row of _messages.  Receipt handles are numbered per message, 0 is the    *)
(* empty one; a row that is not in the table has status ABSENT.               *)
Message == [status: Status, queue: Url, reset: Nat, retries: Nat,
            handle: Nat]

NoMessage == [status |-> "ABSENT", queue |-> NoQueue, reset |-> 0,
              retries |-> 0, handle |-> 0]

Labels == {"idle", "createQueue", "deleteMessages", "deleteQueue", "purge",
           "sendGet", "sendCreate", "receiveGet", "receiveReset", "receiveTake",
           "changeGet", "changeUpdate", "deleteCheck", "deleteErase",
           "eraseEmpty"}

(* What a handler keeps between two database calls: the URL (after the get,   *)
(* that of its copy of the queue), the entries still to be deleted, the end   *)
(* of the long poll, the batch limit, the wait time or visibility timeout of  *)
(* the request, and its copy of the message whose timeout it changes.         *)
Call == [pc: Labels, queue: Url, todo: Seq(Msg), deadline: Nat, max: Int,
         timeout: Nat, copy: Message]

NoCall == [pc |-> "idle", queue |-> NoQueue, todo |-> <<>>, deadline |-> 0,
           max |-> 0, timeout |-> 0, copy |-> NoMessage]

WorkerLabels == {"idle", "next", "retention", "reset", "redrive", "delayed", "update"}

(* The worker keeps the queues of its ListQueues snapshot it has yet to visit *)
(* and the one it is working on.                                              *)
Worker == [pc: WorkerLabels, todo: SUBSET Queue, queue: Url]

Lease == [handle: Nat, until: Int]

NoLease == [handle |-> 0, until |-> -1]

Present(m) == messages[m].status # "ABSENT"

MessagesOf(q) == {m \in Msg : Present(m) /\ messages[m].queue = q}

Init ==
    /\ queues = Existing
    /\ messages = [m \in Msg |-> NoMessage]
    /\ call = [c \in Client |-> NoCall]
    /\ worker = [pc |-> "idle", todo |-> {}, queue |-> NoQueue]
    /\ now = 0
    /\ lease = [c \in Client |-> [m \in Msg |-> NoLease]]
    /\ issued = [m \in Msg |-> 0]
    /\ home = [m \in Msg |-> NoQueue]

--------------------------------------------------------------------------------
(* The database calls that change the message table, as the new table.        *)

Erase(S) == [m \in Msg |-> IF m \in S THEN NoMessage ELSE messages[m]]

(* Mutation: the reset time is not compared with the clock.                   *)
InvisibleRows(q) == {m \in MessagesOf(q) : messages[m].status = "INVISIBLE"}

(* INVISIBLE rows of the queue whose reset time is over.                      *)
Expired(q) == {m \in MessagesOf(q) :
                   messages[m].status = "INVISIBLE" /\ messages[m].reset < now}

(* Mutation: the loop changes its copy of a row and does not store it.        *)
ResetNotStored(q) == messages

(* Mutation: the row is reset and keeps its receipt handle.                   *)
ResetKeepsHandle(q) ==
    [m \in Msg |-> IF m \in Expired(q)
                   THEN [messages[m] EXCEPT !.status = "INITIAL"]
                   ELSE messages[m]]

ResetMessages(q) ==
    [m \in Msg |-> IF m \in Expired(q)
                   THEN [messages[m] EXCEPT !.status = "INITIAL", !.handle = 0]
                   ELSE messages[m]]

(* Rows a receive of the queue may take.                                      *)
Visible(q) == {m \in MessagesOf(q) : messages[m].status = "INITIAL"}

(* The size of the batch: the loop tests the limit after it has added a row,  *)
(* and compares a size_t with an int, so a negative limit is no limit.        *)
BatchSize(q, max) ==
    LET n == Cardinality(Visible(q))
        k == IF max < 0 THEN n ELSE IF max = 0 THEN 1 ELSE max
    IN  IF k < n THEN k ELSE n

(* Mutation: the retry counter counts down.                                   *)
ReceiveCountsDown(S, timeout) ==
    [m \in Msg |-> IF m \in S
                   THEN [messages[m] EXCEPT !.status = "INVISIBLE",
                                            !.retries = @ - 1,
                                            !.handle = issued[m] + 1,
                                            !.reset = now + timeout]
                   ELSE messages[m]]

ReceiveMessages(S, timeout) ==
    [m \in Msg |-> IF m \in S
                   THEN [messages[m] EXCEPT !.status = "INVISIBLE",
                                            !.retries = @ + 1,
                                            !.handle = issued[m] + 1,
                                            !.reset = now + timeout]
                   ELSE messages[m]]

(* Mutation: off by one.                                                      *)
OverdueTooEarly(q) == {m \in MessagesOf(q) : /\ messages[m].status = "INITIAL"
                                             /\ messages[m].retries >= MaxReceiveCount[q]}

(* Mutation: the status is not tested.                                        *)
OverdueInAnyStatus(q) == {m \in MessagesOf(q) : messages[m].retries > MaxReceiveCount[q]}

Overdue(q) == {m \in MessagesOf(q) : /\ messages[m].status = "INITIAL"
                                     /\ messages[m].retries > MaxReceiveCount[q]}

(* Mutation: the loop changes its copy of a row and does not store it.        *)
RedriveNotStored(q) == messages

RedriveMessages(q) ==
    [m \in Msg |-> IF m \in Overdue(q)
                   THEN [messages[m] EXCEPT !.retries = 0, !.queue = DeadLetter[q]]
                   ELSE messages[m]]

DelayOver(q) == {m \in MessagesOf(q) :
                     messages[m].status = "DELAYED" /\ messages[m].reset < now}

ResetDelayedMessages(q) ==
    [m \in Msg |-> IF m \in DelayOver(q)
                   THEN [messages[m] EXCEPT !.status = "INITIAL"]
                   ELSE messages[m]]

(* The rows the retention check removes: DELAYED rows whose reset time is     *)
(* over (the retention period is computed and not used), each with every row  *)
(* that has the same receipt handle.                                          *)
Retired(q) == DelayOver(q) \cup
              {m \in Msg : /\ Present(m) /\ messages[m].handle = 0
                           /\ \E d \in DelayOver(q) : messages[d].handle = 0}

--------------------------------------------------------------------------------
(* Requests.  Each begins in the thread's idle state with the check that the  *)
(* queue or the message exists; when the check fails the handler throws and   *)
(* nothing has changed, so a failed request is a stuttering step.             *)

Begin(c, r) == call[c].pc = "idle" /\ call' = [call EXCEPT ![c] = r]
At(c, label) == call[c].pc = label
Goto(c, label) == call' = [call EXCEPT ![c].pc = label]
Return(c) == call' = [call EXCEPT ![c] = NoCall]

(* CreateQueue: the check and the insert are two calls.                       *)
CreateQueue(c, q) ==
    /\ q \notin queues
    /\ Begin(c, [NoCall EXCEPT !.pc = "createQueue", !.queue = q])
    /\ UNCHANGED <<queues, messages, worker, now, history>>

CreateQueueInsert(c) ==
    /\ At(c, "createQueue")
    /\ queues' = queues \cup {call[c].queue}
    /\ Return(c)
    /\ UNCHANGED <<messages, worker, now, history>>

(* DeleteQueue: first the messages, then the queue.                           *)
DeleteQueue(c, q) ==
    /\ q \in queues
    /\ Begin(c, [NoCall EXCEPT !.pc = "deleteMessages", !.queue = q])
    /\ UNCHANGED <<queues, messages, worker, now, history>>

DeleteQueueMessages(c) ==
    /\ At(c, "deleteMessages")
    /\ messages' = Erase(MessagesOf(call[c].queue))
    /\ Goto(c, "deleteQueue")
    /\ UNCHANGED <<queues, worker, now, history>>

DeleteQueueEntry(c) ==
    /\ At(c, "deleteQueue")
    /\ queues' = queues \ {call[c].queue}
    /\ Return(c)
    /\ UNCHANGED <<messages, worker, now, history>>

PurgeQueue(c, q) ==
    /\ q \in queues
    /\ Begin(c, [NoCall EXCEPT !.pc = "purge", !.queue = q])
    /\ UNCHANGED <<queues, messages, worker, now, history>>

PurgeQueueErase(c) ==
    /\ At(c, "purge")
    /\ messages' = Erase(MessagesOf(call[c].queue))
    /\ Return(c)
    /\ UNCHANGED <<queues, worker, now, history>>

(* SendMessage: the check, which an empty URL passes, the copy of the queue   *)
(* (an empty one when there is none by then, and its empty URL goes into the  *)
(* message), the insert.                                                      *)
Accepts(q) == q = NoQueue \/ q \in queues
Sending == {c \in Client : At(c, "sendGet") \/ At(c, "sendCreate")}

SendMessage(c, q) ==
    /\ Accepts(q)
    /\ Cardinality(Sending) < Cardinality({m \in Msg : issued[m] = 0})  \* bound
    /\ Begin(c, [NoCall EXCEPT !.pc = "sendGet", !.queue = q])
    /\ UNCHANGED <<queues, messages, worker, now, history>>

SendGetQueue(c) ==
    /\ At(c, "sendGet")
    /\ call' = [call EXCEPT ![c].pc = "sendCreate",
                            ![c].queue = IF @ \in queues THEN @ ELSE NoQueue]
    /\ UNCHANGED <<queues, messages, worker, now, history>>

SendCreate(c, m, timeout) ==
    LET q == call[c].queue
        wait == IF q # NoQueue /\ DelaySeconds[q] > 0 THEN DelaySeconds[q] ELSE timeout
    IN  /\ At(c, "sendCreate")
        /\ issued[m] = 0
        /\ messages' = [messages EXCEPT ![m] =
                            [status |-> "INITIAL", queue |-> q, reset |-> now + wait,
                             retries |-> 0, handle |-> 1]]
        /\ issued' = [issued EXCEPT ![m] = 1]
        /\ home' = [home EXCEPT ![m] = q]
        /\ lease' = [lease EXCEPT ![c][m] = [handle |-> 1, until |-> -1]]
        /\ Return(c)
        /\ UNCHANGED <<queues, worker, now>>

(* ReceiveMessages: the check, the copy of the queue, then the long poll.     *)
(* With a wait time of zero the loop body is never executed.                  *)
Receive(c, q, wait, max) ==
    /\ Accepts(q)
    /\ now < MaxTime  \* bound
    /\ Begin(c, [NoCall EXCEPT !.pc = "receiveGet", !.queue = q,
                               !.timeout = wait, !.max = max])
    /\ UNCHANGED <<queues, messages, worker, now, history>>

ReceiveGetQueue(c) ==
    /\ At(c, "receiveGet")
    /\ IF call[c].timeout = 0
       THEN Return(c)
       ELSE call' = [call EXCEPT ![c].pc = "receiveReset",
                                 ![c].queue = IF @ \in queues THEN @ ELSE NoQueue,
                                 ![c].deadline = now + call[c].timeout]
    /\ UNCHANGED <<queues, messages, worker, now, history>>

ReceiveReset(c) ==
    /\ At(c, "receiveReset")
    /\ messages' = ResetMessages(call[c].queue)
    /\ Goto(c, "receiveTake")
    /\ UNCHANGED <<queues, worker, now, history>>

(* Mutation: the poll ends only when it has found something.                  *)
PollForever(c, S, timeout) ==
    /\ At(c, "receiveTake")
    /\ S \subseteq Visible(call[c].queue)
    /\ Cardinality(S) = BatchSize(call[c].queue, call[c].max)
    /\ messages' = ReceiveMessages(S, timeout)
    /\ issued' = [m \in Msg |-> IF m \in S THEN issued[m] + 1 ELSE issued[m]]
    /\ IF S = {} THEN Goto(c, "receiveReset") ELSE Return(c)
    /\ UNCHANGED <<queues, worker, now, lease, home>>

(* One pass over the table in the order of the object ids, which says nothing *)
(* about the messages: any batch of the right size.  An empty one is polled   *)
(* for again until the wait time is over.  A queue that was gone at the get   *)
(* has an empty copy, and no message matches its empty region.                *)
ReceiveTake(c, S, timeout) ==
    /\ At(c, "receiveTake")
    /\ IF call[c].queue = NoQueue
       THEN S = {}
       ELSE /\ S \subseteq Visible(call[c].queue)
            /\ Cardinality(S) = BatchSize(call[c].queue, call[c].max)
    /\ messages' = ReceiveMessages(S, timeout)
    /\ issued' = [m \in Msg |-> IF m \in S THEN issued[m] + 1 ELSE issued[m]]
    /\ lease' = [lease EXCEPT ![c] = [m \in Msg |->
                     IF m \in S THEN [handle |-> issued[m] + 1, until |-> now + timeout]
                     ELSE lease[c][m]]]
    /\ IF S = {} /\ now < call[c].deadline THEN Goto(c, "receiveReset") ELSE Return(c)
    /\ UNCHANGED <<queues, worker, now, home>>

(* Mutation: the message is looked up, its receipt handle is not compared.    *)
ValidWithAnyHandle(c, m) == Present(m) /\ lease[c][m].handle > 0

(* SetVisibilityTimeout: the check, the copy of the message, and the update,  *)
(* which writes the whole copy back.                                          *)
Valid(c, m) ==
    /\ Present(m)
    /\ lease[c][m].handle > 0
    /\ messages[m].handle = lease[c][m].handle

SetVisibilityTimeout(c, m, timeout) ==
    /\ Valid(c, m)
    /\ issued[m] < MaxHandles  \* bound
    /\ Begin(c, [NoCall EXCEPT !.pc = "changeGet", !.todo = <<m>>, !.timeout = timeout])
    /\ UNCHANGED <<queues, messages, worker, now, history>>

(* A handle that is void by now finds no row, and the copy is an empty        *)
(* message with the new reset time.                                           *)
ChangeGet(c) ==
    /\ At(c, "changeGet")
    /\ LET m == Head(call[c].todo)
           found == IF Valid(c, m) THEN messages[m] ELSE NoMessage
       IN  call' = [call EXCEPT ![c].pc = "changeUpdate",
                                ![c].copy = [found EXCEPT !.reset = now + call[c].timeout]]
    /\ UNCHANGED <<queues, messages, worker, now, history>>

(* UpdateMessage stores the whole copy.  It dereferences the end iterator     *)
(* when the message is gone, and for an empty copy, whose object id is that   *)
(* of no row.  The process may crash, which is the behaviour that takes no    *)
(* further step, the write may miss the table, or the copy is stored under a  *)
(* garbage key: a message that was gone is back, an empty one is of no queue. *)
(* The client is told in any case that its timeout is set; what it is lent    *)
(* changes when a copy is stored.                                             *)
Empty(row) == row.status = "ABSENT"

(* Mutation: only the reset time of the row is stored.                        *)
StoredInRow(c) ==
    LET m == Head(call[c].todo)
    IN  IF Empty(call[c].copy) THEN messages
        ELSE [messages EXCEPT ![m].reset = call[c].copy.reset]

Stored(c) ==
    LET m == Head(call[c].todo)
    IN  IF Empty(call[c].copy) THEN messages
        ELSE [messages EXCEPT ![m] = call[c].copy]

ChangeUpdate(c) ==
    /\ At(c, "changeUpdate")
    /\ LET m == Head(call[c].todo)
       IN  /\ \/ messages' = Stored(c)
              \/ ~Present(m) /\ UNCHANGED messages
           /\ lease' = IF Empty(call[c].copy) THEN lease
                       ELSE [lease EXCEPT ![c][m].until = call[c].copy.reset]
    /\ Return(c)
    /\ UNCHANGED <<queues, worker, now, issued, home>>

(* DeleteMessage, and DeleteMessageBatch: entry by entry a check and an       *)
(* erase; the first entry whose message does not exist ends the request.      *)
DeleteMessageBatch(c, entries) ==
    /\ \A i \in DOMAIN entries : lease[c][entries[i]].handle > 0
    /\ Begin(c, [NoCall EXCEPT !.pc = "deleteCheck", !.todo = entries])
    /\ UNCHANGED <<queues, messages, worker, now, history>>

DeleteCheck(c) ==
    /\ At(c, "deleteCheck")
    /\ IF Valid(c, Head(call[c].todo)) THEN Goto(c, "deleteErase") ELSE Return(c)
    /\ UNCHANGED <<queues, messages, worker, now, history>>

(* The erase looks the handle up again: nothing happens when it is stale.     *)
DeleteErase(c) ==
    /\ At(c, "deleteErase")
    /\ LET m == Head(call[c].todo)
       IN  messages' = Erase(IF Valid(c, m) THEN {m} ELSE {})
    /\ IF Tail(call[c].todo) = <<>>
       THEN Return(c)
       ELSE call' = [call EXCEPT ![c].pc = "deleteCheck", ![c].todo = Tail(@)]
    /\ UNCHANGED <<queues, worker, now, history>>

(* A request without a receipt handle: the empty handle is that of every      *)
(* message whose visibility timeout ran out, in any queue, and erase_if       *)
(* removes all of them.                                                       *)
Handleless == {m \in Msg : Present(m) /\ messages[m].handle = 0}

DeleteMessageEmpty(c) ==
    /\ Handleless # {}
    /\ Begin(c, [NoCall EXCEPT !.pc = "eraseEmpty"])
    /\ UNCHANGED <<queues, messages, worker, now, history>>

DeleteEraseEmpty(c) ==
    /\ At(c, "eraseEmpty")
    /\ messages' = Erase(Handleless)
    /\ Return(c)
    /\ UNCHANGED <<queues, worker, now, history>>

--------------------------------------------------------------------------------
(* SQSWorker: one pass over a snapshot of the queue list, one database call   *)
(* per step.  The counters it computes are the subject of SQSQueueTable.      *)

WorkerAt(label) == worker.pc = label
WorkerGoto(label) == worker' = [worker EXCEPT !.pc = label]

WorkerListQueues ==
    /\ WorkerAt("idle")
    /\ queues # {}
    /\ worker' = [pc |-> "next", todo |-> queues, queue |-> NoQueue]
    /\ UNCHANGED <<queues, messages, call, now, history>>

WorkerNext(q) ==
    /\ WorkerAt("next")
    /\ q \in worker.todo
    /\ worker' = [pc |-> IF RetentionPeriod[q] > 0 THEN "retention" ELSE "reset",
                  todo |-> worker.todo \ {q}, queue |-> q]
    /\ UNCHANGED <<queues, messages, call, now, history>>

WorkerRetention ==
    /\ WorkerAt("retention")
    /\ messages' = Erase(Retired(worker.queue))
    /\ WorkerGoto("reset")
    /\ UNCHANGED <<queues, call, now, history>>

WorkerReset ==
    /\ WorkerAt("reset")
    /\ messages' = ResetMessages(worker.queue)
    /\ WorkerGoto(IF DeadLetter[worker.queue] # NoQueue THEN "redrive"
                  ELSE IF DelaySeconds[worker.queue] > 0 THEN "delayed" ELSE "update")
    /\ UNCHANGED <<queues, call, now, history>>

WorkerRedrive ==
    /\ WorkerAt("redrive")
    /\ messages' = RedriveMessages(worker.queue)
    /\ WorkerGoto(IF DelaySeconds[worker.queue] > 0 THEN "delayed" ELSE "update")
    /\ UNCHANGED <<queues, call, now, history>>

WorkerDelayed ==
    /\ WorkerAt("delayed")
    /\ messages' = ResetDelayedMessages(worker.queue)
    /\ WorkerGoto("update")
    /\ UNCHANGED <<queues, call, now, history>>

(* UpdateQueue dereferences the end iterator when the queue was deleted since *)
(* the snapshot: a crash (no further step), a write that misses the table, or *)
(* the queue is inserted again under a garbage object id.                     *)
WorkerUpdateQueue ==
    /\ WorkerAt("update")
    /\ \/ queues' = queues \cup {worker.queue}
       \/ worker.queue \notin queues /\ UNCHANGED queues
    /\ worker' = [worker EXCEPT !.pc = IF worker.todo = {} THEN "idle" ELSE "next",
                                !.queue = NoQueue]
    /\ UNCHANGED <<messages, call, now, history>>

--------------------------------------------------------------------------------
(* Time passes; past the bound only until the polls that have begun are over. *)
Tick ==
    /\ now < MaxTime \/ \E c \in Client : now < call[c].deadline
    /\ now' = now + 1
    /\ UNCHANGED <<queues, messages, call, worker, history>>

Request(c) ==
    \/ \E q \in Queue :
          \/ "CreateQueue" \in Api /\ CreateQueue(c, q)
          \/ "DeleteQueue" \in Api /\ DeleteQueue(c, q)
          \/ "PurgeQueue" \in Api /\ PurgeQueue(c, q)
    \/ \E q \in Url :
          \/ "SendMessage" \in Api /\ SendMessage(c, q)
          \/ "ReceiveMessages" \in Api /\
                \E wait \in WaitTimes, max \in BatchSizes : Receive(c, q, wait, max)
    \/ "SetVisibilityTimeout" \in Api /\
          \E m \in Msg, timeout \in VisibilityTimeouts : SetVisibilityTimeout(c, m, timeout)
    \/ "DeleteMessage" \in Api /\ \E entries \in Batches : DeleteMessageBatch(c, entries)
    \/ "DeleteMessage without handle" \in Api /\ DeleteMessageEmpty(c)

(* A step of a request that a thread is already executing.                    *)
Handle(c) ==
    \/ CreateQueueInsert(c)
    \/ DeleteQueueMessages(c) \/ DeleteQueueEntry(c)
    \/ PurgeQueueErase(c)
    \/ SendGetQueue(c)
    \/ \E m \in Msg, timeout \in VisibilityTimeouts : SendCreate(c, m, timeout)
    \/ ReceiveGetQueue(c) \/ ReceiveReset(c)
    \/ \E S \in SUBSET Msg, timeout \in VisibilityTimeouts : ReceiveTake(c, S, timeout)
    \/ ChangeGet(c) \/ ChangeUpdate(c)
    \/ DeleteCheck(c) \/ DeleteErase(c)
    \/ DeleteEraseEmpty(c)

RunWorker ==
    \/ WorkerListQueues
    \/ \E q \in Queue : WorkerNext(q)
    \/ WorkerRetention \/ WorkerReset \/ WorkerRedrive \/ WorkerDelayed
    \/ WorkerUpdateQueue

Next ==
    \/ \E c \in Client : Request(c) \/ Handle(c)
    \/ RunWorker
    \/ Tick

Spec == Init /\ [][Next]_vars

(* A thread of the gateway's pool goes on until its handler returns, the      *)
(* worker's timer calls Run again and again until it is stopped, and time     *)
(* passes.  Nothing is assumed of the clients: a request may never come.      *)
Fairness ==
    /\ \A c \in Client : WF_vars(Handle(c))
    /\ WF_vars(RunWorker)
    /\ WF_vars(Tick)

FairSpec == Spec /\ Fairness

--------------------------------------------------------------------------------
(* Properties.                                                                *)

(* Every variable has the type of the C++ field it stands for.                *)
TypeOK ==
    /\ queues \subseteq Queue
    /\ messages \in [Msg -> Message]
    /\ call \in [Client -> Call]
    /\ worker \in Worker
    /\ now \in Nat
    /\ lease \in [Client -> [Msg -> Lease]]
    /\ issued \in [Msg -> Nat]
    /\ home \in [Msg -> Url]

(* No message is on loan to two clients: while the visibility timeout of a    *)
(* receive runs, ReceiveMessages gives the message to nobody else, whatever   *)
(* resets, redrives and deletes happen in between.                            *)
ExclusiveLease ==
    \A c, d \in Client, m \in Msg :
        lease[c][m].until >= now /\ lease[d][m].until >= now => c = d

(* A message is found in a queue it was not sent to (RedriveMessages moved    *)
(* it) only if the queue it was sent to delivered it more often than          *)
(* maxReceiveCount allows, even though the retry counter starts again at zero *)
(* in the dead-letter queue and handlers write old copies of messages back.   *)
DeadLetterOnlyAfterMaxReceives ==
    \A m \in Msg :
        Present(m) /\ messages[m].queue # home[m] =>
            issued[m] - 1 > MaxReceiveCount[home[m]]

(* The handle of the send is the first of a message.                          *)
Received(c, m) == lease[c][m].handle > 1

(* A client that received a message and whose timeout runs still has it: the  *)
(* row carries its handle and nobody can receive it, also when its            *)
(* ChangeMessageVisibility wrote a copy over what the worker did to the row   *)
(* since the copy was read.                                                   *)
HolderKeepsMessage ==
    \A c \in Client, m \in Msg :
        Received(c, m) /\ lease[c][m].until >= now /\ Present(m) =>
            Valid(c, m) /\ messages[m].status = "INVISIBLE"

(* DeleteMessage with a stale receipt handle does no harm: a delete never     *)
(* removes a message that another client holds.                               *)
OnlyTheHolderDeletes ==
    [][\A c \in Client, m \in Msg :
          At(c, "deleteErase") /\ call'[c] # call[c] /\ Present(m) /\ ~Present(m)' =>
              \A d \in Client \ {c} : lease[d][m].until < now]_vars

(* RedriveMessages never moves a message away from under the client that is   *)
(* processing it.                                                             *)
LeasedStaysInQueue ==
    [][\A c \in Client, m \in Msg :
          lease[c][m].until >= now /\ Present(m) /\ Present(m)' =>
              messages'[m].queue = messages[m].queue]_vars

(* A message whose visibility timeout is over comes back, although nobody     *)
(* receives from its queue: the worker's pass resets it.                      *)
ExpiredMessageReturns ==
    \A m \in Msg, q \in Queue :
        m \in Expired(q) ~> m \notin Expired(q) \/ q \notin queues

(* A message that was received too often leaves its queue: the worker moves   *)
(* it, or a client takes it once more.                                        *)
OverdueMessageLeaves ==
    \A m \in Msg, q \in Queue :
        m \in Overdue(q) /\ DeadLetter[q] \notin {NoQueue, q} ~>
            m \notin Overdue(q) \/ q \notin queues

(* Every request is answered: the long poll of ReceiveMessages and the entry  *)
(* loop of DeleteMessageBatch end.                                            *)
EveryRequestReturns ==
    \A c \in Client : call[c].pc # "idle" ~> call[c].pc = "idle"

================================================================================
