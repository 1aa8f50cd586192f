# Formal models of aws-mock

aws-mock simulates a set of AWS services on a developer's machine. This
directory holds TLA+ models of it, the configurations that check them with TLC,
and theorems about them that TLAPS checks. Everything is translated from the
C++ sources; source paths below are relative to the repository.

## 1. The system

A request enters through the **gateway** (`service/src/gateway`): one session
per connection, a pool of threads. A session finds the **handler** of the
service a request is for (`service/src/*/XHandler.cpp`), which parses it and
calls the **service** (`XService.cpp`). The service calls the **database**
(`db/src/repository/XDatabase.cpp`), which is either MongoDB or, when the
configuration says so, the **in-memory database** (`db/src/memorydb`): maps from
object ids to entities. Each service has a **server** (`XServer.cpp`), a module
that can be started and stopped, and most have a **worker** or a **monitoring**
object, which a `Timer` (`core/src/utils/Timer.cpp`) runs periodically on a
thread of its own. So many gateway threads, a few detached threads (lambda
creation, S3 hashes, KMS keys) and one thread per timer meet in the tables of
the database.

Two facts about the database decide what can go wrong:

- An in-memory call that changes something runs under a recursive mutex, a call
  that only reads mostly takes none. Nothing is locked between two calls, so a
  handler that reads, decides and writes does so in steps.
- The MongoDB calls start sessions and transactions, but the collection
  operations are never given the session. Each operation is atomic on its
  own document, and nothing is rolled back.

### 1.1 Components

Entries with a module name are modelled, the others are in the plan (section 2)
or in the list of what is left out (section 8). Every row names the property that
makes the component correct.

| Component | State | Operations | What is hard | Correct when |
|---|---|---|---|---|
| SQS service (`sqs/SQSService`, `SQSMemoryDb`): `SQS` | queue table, message table, one handler per gateway thread | create, delete, purge a queue; send, receive, change visibility, delete, delete batch | each handler is two to four database calls; long polls; stale receipt handles | a message is lent to one client at a time, is lost only by a delete of its holder or with its queue, and reaches the dead-letter queue only after `maxReceiveCount` receives |
| SQS worker (`SQSWorker`): `SQS` | its list of queue copies | retention, reset, redrive, delay, write-back per queue | runs beside the handlers on old copies | expired messages return, overdue ones leave; nothing on loan is moved |
| SQS queue attributes, tags, counters | queue table | set attributes, tag, untag, the counters of the worker | read, modify, write in three places | no attribute is lost |
| Timer (`core/utils/Timer`): `Modules` | stop source, detached threads | Start, Stop, DoWork | one stop source for all threads of a timer | a stopped timer's threads end |
| Module servers, module service, manager: `Modules` | module table, timers | boot, start, stop, restart, signal | HTTP threads and the main thread use the table at the same time | table and timers agree when nothing is under way |
| S3 service (`s3/S3Service`, `S3MemoryDb`, `FileUtils`): `S3Objects` | bucket table, object table, directory of files | create and delete a bucket; put, copy, move, delete, batch delete, multipart upload | a table and a directory that are changed one after the other; versions; detached hash threads | every row has its own file with the right checksum |
| S3 worker (`S3Worker`): `S3Objects` | list of rows, list of files | erase rows without file, remove files without row | checks and acts in two steps | it cleans and does no harm |
| S3 notifications | notification lists of the bucket | configure, deliver to SQS, SNS, Lambda | read-modify-write of the bucket, a failing target | every event reaches the targets that are configured |
| SNS service and worker | topics with subscriptions, messages | topic and subscription requests, publish with fan-out, deletion of old messages | lost subscriptions, a target that fails half way through the fan-out | a message reaches every subscriber once |
| Lambda service, creator, executor, worker | functions with their instances, containers | create, update, invoke, delete; the worker removes idle instances | detached threads that store whole old copies; invocations that wait under a mutex | an instance runs one invocation at a time; a deleted function stays deleted |
| DynamoDB | own table and a container | every request goes to both | one of the two fails | table and container agree |
| KMS | keys and their state | create (with a detached creator), schedule deletion, encrypt, decrypt | the creator's old copy | a key that is to be deleted is deleted |
| Secrets manager | secrets, versions | create, update, rotate, get | a get writes the secret back | an update is not lost |
| FTP server (`ftpserver/FtpSession`): `Ftp` | per session: user, last command, acceptor, transfers, one output buffer, files, S3 objects | the FTP commands; reads, writes and ends of transfers as jobs of two strands | commands and transfers run at the same time, all transfers share a buffer, connections break | each transfer gets one final reply, downloads and uploads arrive whole, a session ends with its connection |
| Transfer service and server | wanted state in the table, running FTP servers | start, stop, delete a server | monitoring that compares table and list | the servers that run are those that should |
| Cognito | pools, users, groups, clients | create, read, update, delete | check, then act | names are unique |
| Gateway and manager sessions (`gateway/GatewaySession`, the same code in the manager): `Gateway` | response queue of a connection | read, handle, write, close | reads ahead up to a limit, a read and a write at the same time, timers | answers come in order, reading never stops for good, a silent client does not hold a session |
| Memory mapped file | one mapping for all range reads | open, read, close | shared by all requests | a range is read from the file asked for |

Components interact by calls (a handler calls a service, a service its database,
Lambda and DynamoDB the docker daemon), by messages (S3 notifies SQS, SNS and
Lambda; SNS sends to SQS; both through the service objects), and by the tables:
a worker and the handlers share nothing else. There are no callbacks apart from
those of the socket library. A crash needs no recovery in the in-memory
configuration: nothing survives it but the S3 files, which a new process finds as
files without rows.

## 2. Plan

In this order; "done" is what this directory holds.

1. `SQS` with `MessageQueue` and `SQSRefinement` (done). Left: `SQSQueueTable`
   (attributes, tags, counters and duplicate queues), `SQSPurge` (the two mutexes
   of the in-memory tables as state), `SQSMongo` (receive as find and update).
2. `Modules`: timers, servers, manager (done). Left: the gateway as a module,
   which sets its state a second late and does not use a timer.
3. `S3Objects` (done). Left: notifications, switching versions on and off,
   encryption.
4. `Gateway`, one connection (done), and `Ftp`, one FTP session (done). Left:
   directories of the FTP server, and `TransferServers`.
5. `LambdaInstances`: functions, instances, creator, executor, worker, with an
   abstract pool of instances they should implement.
6. `SNSTopics`, then `Fanout`, which composes S3 notifications, SNS and the
   message table of `SQS`; abstractly: every event reaches every target.
7. `KMSKeys`, `Secrets`, `DynamoDbTable`, `MappedFile`.
8. Pure algorithms: the block arithmetic of the AES file functions
   (`core/utils/CryptoUtils`) against its definition.

Every safety and action property of a passing run is a theorem (section 5). Next
come the modules of items 5 to 7, each with its own.

Runs are few and each asks several questions: where the bounds that one question
needs would blow up another, an MC module gives a behaviour a choice of
scenarios (`MCSQSDelivery`, `MCSQSLive`, `MCModulesRequests`, `MCS3Table`,
`MCS3Worker`).

## 3. How code becomes actions

The same conventions hold in all modules.

- **A step is one call that is atomic in the code**: a call of the in-memory
  database, an operation on a file, a start of a thread. Nothing is locked
  between two of them. Calls of the in-memory database that only read mostly
  take no lock, so with a concurrent writer they are data races; the models take
  them as atomic. A race on a `std::map` that is being changed has no outcomes
  one could enumerate.
- **A client is a thread of the gateway** that executes one request at a time.
  Its program counter and its local variables are a record `call[c]`. A request
  that the first check refuses throws and has changed nothing, so it is left out
  (it would be a stuttering step).
- **A worker is a process** of its own with the same kind of record.
- **Dereferencing `end()`** (`SQSMemoryDb::UpdateQueue`, `S3MemoryDb::UpdateObject`)
  is undefined: the write may miss the table or put a row into it; a crash is
  the behaviour that takes no further step, which the specification allows and
  the one with fairness does not (liveness is about a process that lives).
- **Names and contents** are model values. Random names are new ones.

### `SQS`: queues and messages

| State | Code |
|---|---|
| `queues`, `messages` | `SQSMemoryDb::_queues`, `_messages` |
| `call[c]` | the handler in `SQSService` that a thread executes |
| `worker` | `SQSWorker::ResetMessages` |
| `now` | the system clock, in seconds |
| `lease`, `issued`, `home` | history: who got which receipt handle until when, how many a message had, where it was sent |

Each request has one action per database call, named after the call: a receive
is `Receive` (queue exists), `ReceiveGetQueue`, `ReceiveReset`
(`SQSDatabase::ReceiveMessages` resets first), `ReceiveTake`, which takes
messages, polls again or answers. The worker goes queue by queue through
`WorkerRetention`, `WorkerReset`, `WorkerRedrive`, `WorkerDelayed` and
`WorkerUpdateQueue`, which writes the snapshot of the queue back. Receipt handles
are numbers per message, 0 being the empty one that a reset leaves. The
attributes of queues are constants. The code never makes a row DELAYED
(`SendMessage` stores INITIAL), so the functions that look for DELAYED rows find
none; they are modelled all the same, and so is the retention check, which
reduces to them. A send or receive without a queue URL passes the existence check
(`Accepts`) and goes on with an empty copy of the queue.

A visibility change reads the message (`ChangeGet`) and stores the whole copy, with a
new reset time, in another call (`ChangeUpdate`). A handle that has become void in
between the check and the read gives an empty copy, which belongs to no row. The
client gets its answer in any case; what it is lent (`lease`) changes when a copy was
stored.

`MessageQueue` is what users are promised: send, lend, take back, move,
acknowledge, empty. `SQSRefinement` maps the rows to it.

### `Modules`: timers, servers, manager

What the nine servers do in their constructor, `Initialize` and `Shutdown` is
data: scripts of three commands ("start this timer's thread", "set its stop
source", "write the module's row"), in the order of the code. A thread that
executes server code (an HTTP thread of the manager, or its main thread at boot
and after a signal) is an actor with the list of commands it has left. A
timer has a number of threads in each stage of `DoWork`, because every start adds
a detached one: asleep, past the check of the stop source, in its job. The sleep
of a second and the check are one stage. A request asks each module for its state
when its turn comes (`StopModule`, the command "halt"), whereas the manager lists the
running modules once and stops all of the list (`CloseModule`, the command "close").
The main thread is not one of the HTTP threads (`"manager" \notin Client`). A request names modules that exist, and
the main thread is not inside a handler when the signal comes (its
`io_context` runs the handlers on the other threads, too; those finish).
The gateway module is left out.

### `S3Objects`: objects, files, worker

| State | Code |
|---|---|
| `buckets`, `rows` | `S3MemoryDb::_buckets`, `_objects`; ids are random and order the table |
| `disk` | the directory `<data>/s3`; a name is "unused" before and "deleted" after its life |
| `call[c]` | the handler in `S3Service`, with the entity it has in hand |
| `hashing` | the detached `S3HashCreator` threads, each with its copy of a row |
| `uploads` | multipart uploads the clients know and have not completed |
| `worker` | `S3Worker::SyncObjects` |

The handlers share steps, as the code shares functions: `WriteFile`, `SumFile`,
`CreateOrUpdateObject`, `CreateObject`, `UpdateObject`, `FetchObject`, and so on;
the comment over them says in which order each request takes them. A query for
one object answers with the first row of it by id, or an object with empty
fields. Three steps stand for two operations each, because the two commute with all
the others (`CreateBucket`: check and insert; `CopyFile`, `DeleteNext`: a look
at the table, then a file); the comments over them say why. The second copy of a
file that `DeleteObject` unlinks in the directory of the transfer bucket belongs
to the FTP server and is left out. The content of an upload is whatever its parts make, chosen when the
upload is completed, which a client does once per upload. The file of a row
without a name is the directory itself: a copy of it fails, a delete fails
unless the directory is empty, and the worker finds that it exists. There is one
region; notifications and encryption are off; a bucket is versioned or not from
the start. `DeleteObjects` takes its keys in any order. The flags `alone` (in
`call`) and `quiet` (in `worker`) record whether somebody else worked on the
same object, or at all, during the call or pass; only properties read them.

### `Gateway`: one connection

Connections share nothing but the services, so one is modelled. The session runs
on a strand: a callback (`OnRead`, `OnWrite`) is a step, with every call it makes.
Requests are numbered in the order they arrive.

| State | Code |
|---|---|
| `sent`, `finished`, `broken` | the client: its requests so far (kept alive, to close after, or malformed), whether it has closed, whether the connection is lost |
| `handled` | requests read and answered by their handler |
| `reads`, `writes` | calls of `async_read` and `async_write` whose callback has not run |
| `queue` | `_response_queue` |
| `answered` | history: responses written |
| `sending` | the server's sending side: open, closing after the last response, closed |

`OnRead` handles the request in the callback itself (the router and the services
are synchronous), queues the response, starts a write if it is the only one, and
reads on if fewer than `QueueLimit` responses wait (`_queueLimit`; it is configured,
and 0, with which a session would stop after its first response, is excluded by
`GatewayAssumption`). `OnWrite` pops
the front, resumes reading if the queue was at the limit, and writes the next.
A request that is already in the buffer is parsed and executed although the connection
is lost by then; its response fails. `OnEnd`, `OnReadError`, `OnWriteError`, `OnLastWrite` are the early returns of the
two callbacks; `Timeout` is `tcp_stream::expires_after`. The requests are signed,
as those of the AWS clients are: without an Authorization header the session
takes the first element of an empty vector (`GatewaySession.cpp:191`).
The session of the manager's HTTP server is the same code with other handlers.

### `Ftp`: one FTP session

| State | Code |
|---|---|
| `user`, `login`, `last`, `renaming` | `_logged_in_user`, `_usernameForLogin`, `_lastCommand`, `_renameFromPath` |
| `passive`, `accepts` | `data_acceptor_` (closed, open, or listening: `PASV` can fail to open, to bind or to listen), and the accepts that wait on it |
| `transfer` | the data sockets and open files, one record per transfer command |
| `buffer`, `writing` | `data_buffer_`, and the `async_write` of it that is under way |
| `bufferJobs`, `fileJobs` | jobs posted to `data_buffer_strand_` and `file_rw_strand_` |
| `inodes`, `content`, `objects` | the directory of the server, its files, and the S3 objects made from uploads |
| `deleting` | the `DELE` handler between its `unlink` and its S3 request |
| `orderly` | history: the client asked for no transfer before the final reply of the one before |

A server has eight threads by default (`transfer/Transfer.h:117`), so commands and
both strands run at the same time; a command handler is one step, except where it
calls S3, and so is a job of a strand. A file is a sequence of blocks, as many as reads of it: a short
last block and an empty one count as what the code makes of them. Reads of a
download are three at once (`ReadFile`), each puts its block into the buffer by a job
of the other strand, and each completed write asks for another read. A listing
is one block. The client's connection to the acceptor is seen when the accept
completes (`Accepted`); how data moves on a socket is external (`Sending`,
`ReceiveBlock`, `Break`). `last` keeps USER, RNFR and "other", which is all the code
compares with. A rename takes the inode to the other name, an open file keeps
writing to its inode; `renamed` is the history that one took place, after which
`UploadIntact` asks nothing of objects any more, since a rename leaves S3 alone. Commands without effect on this state are `NOOP`.

## 4. Runs

| Run | Asks | Bounds |
|---|---|---|
| `SQS_delivery` | `TypeOK`, `ExclusiveLease`, `DeadLetterOnlyAfterMaxReceives`, `OnlyTheHolderDeletes`, `LeasedStaysInQueue`, and the refinement `ImplementsMessageQueue` | two clients, a queue and its dead-letter queue; two messages and one second, or one message and two seconds (receive, expire, redrive, receive again), or one message and queues that are created, purged and deleted |
| `SQS_live` | `HolderKeepsMessage`; `ExpiredMessageReturns`, `OverdueMessageLeaves`, `EveryRequestReturns` under fairness | one message, three handles of it, wait times 0 and 1, a queue with a delay; one client with all requests, or two that poll for the message |
| `Modules_requests` | `TypeOK`, `BootBringsModulesUp`, `OneThreadWhileUp`, `StoppedModuleIsQuiet`, `HaltStopsEveryTimer` | two modules, two HTTP threads; three requests for SQS with its three timers, or two requests with lists of modules |
| `Modules_live` | `StoppedTimersEnd` under fairness | one module with three timers, two requests |
| `Modules_restart` | refutes `RunningModuleWorks` | |
| `S3_table` | `TypeOK`, `RowHasFile`, `FilesNotShared`, `Md5Matches`, `AloneMeansSequential` | two clients, four requests, two contents; two keys in a bucket, or one key in a versioned and an unversioned bucket that are deleted and created |
| `S3_worker` | `QuietPassCleans`, `QuietPassHarmsNothing`, `OrphansGo` under fairness | two clients, worker; two requests with hash threads, or three without, in one bucket; or three puts and batch deletes, one at a time, in two buckets |
| `S3_sync` | refutes `WorkerSparesObjects` | |
| `S3_version` | refutes `VersionsStay` | |
| `Gateway_session` | `TypeOK`, `OneOfEach`, `AnswersInOrder`, `BackPressure`, `RequestsAreAnswered` and `SessionsEnd` under fairness | one connection, six requests, room for three responses |
| `Ftp_session` | `TypeOK`, `OneReply`, `OneWriter`, `DownloadIntact`, `UploadIntact`, `TransfersEnd` and `SessionEnds` under fairness | one session, one file of four blocks at the start, five commands, two transfers, uploads of two blocks |
| `Ftp_quit` | refutes `UploadsReachS3` | the commands USER, PASS, PASV, STOR and QUIT |

**Why the bounds are enough.** A lease conflict in SQS needs two receivers and a
message; a wrong delete needs the holder, a second receiver and a second of time;
a redrive needs `maxReceiveCount + 1` receives, which the instance sets to 0 and 1
so that two seconds of time pass a message through both queues. Two messages
matter for batches, which is why they have a scenario of their own. In the first
scenario steps stop at `scenario.time`: no receive begins in the last second, so
that every lease the run has made also ends in it. A visibility change in
`SQS_live` is about a message that was sent, received once, or received twice: the
copy it writes back may be older than a reset and a redrive to the dead-letter
queue. The two clients of the other scenario do not change visibilities: a stale copy
over a receive of somebody else does break `HolderKeepsMessage` (section 7). A poll
that another client outruns needs two pollers. For the modules, two
starts or a stop and a start that overlap are the conflict; a third request meets
what they leave. S3 and DynamoDB are in no run: their `Shutdown` forgets the
worker, so that `StoppedModuleIsQuiet` and `HaltStopsEveryTimer` are false of them. For S3, four requests make an object, a second row of it, a
third party's delete, and an overwrite; files and row ids are as many as
requests. The worker meets a second bucket in a scenario of its own, where a row of
one bucket ends the listing of the other. `S3_table` runs without the worker, the hash threads and `DeleteObjects`:
these do break `RowHasFile` (section 7), and what is left holds without them.
For the gateway, a queue at its
limit, a pause of reading and its end need one request more than the limit, and
twice the limit does it again. For FTP, five commands are a login, PASV and two
transfers that overlap or follow one another; four blocks are the three reads a
download starts with and one that a completed write asks for. (The safety
properties were also checked with six commands, 7.7 million states.)
Symmetry is used in runs without liveness, over messages, clients, files and
contents, which are only compared. `S3_worker` takes the file names in order
instead.

**Fairness.** A gateway thread executes its handler to the end, the timer of a
worker calls `Run` again and again, time passes (`SQS!Fairness`,
`S3Objects!Fairness`); for `Modules`, the operating system runs every thread that
can run and every job ends; for `Gateway`, the callbacks run and time passes, so
that the timer of a read or write that waits expires; for `Ftp`, every handler that is
ready runs and the network moves what is sent. These are weak fairness of each process separately:
a process that can go on stays able to. Nothing is assumed of clients, who
need never send a request, connect to an acceptor or close a connection, nor that
a signal comes.

Deadlock is checked in the SQS runs, where time and worker never stop. In the
others it is not, since a process that has left (`Modules`) and a model that has
used up its requests and has no worker (`S3_table`, `S3_version`, `S3_sync`) stop
rightly; `S3_worker` stops when the last bucket is gone,
and a gateway or FTP session ends with its connection.

Each property of a passing run has a mutant: an operator beside the original one,
marked "Mutation", that makes a plausible mistake in the same code. Putting it in
place of the original violates the property.

## 5. What is proved

The theorems are about the specifications, for every value of the constants that
satisfies the named assumptions (`SQSAssumption`, `S3Assumption`,
`ModulesAssumption`, `GatewayAssumption`, `FtpAssumption`); there is no bound on
clients, messages, queues, buckets, files, requests, transfers, blocks or time.
A theorem with a further hypothesis says which part of the system it leaves out,
and below stands why it would be false with it. Every proof has the same
shape: an inductive invariant, one lemma per step or per kind of step, and a
temporal step that puts them together.

### SQS (`SQSProofs`, `SQSRefinementProofs`)

- `TypeCorrect`: `Spec => []TypeOK`. `TypeOK` alone is not inductive, because what a
  thread has in its hands depends on where it is: `TypeInv` adds `CallOK`, which says so
  per label.
- `LeasesAreExclusive`: `Spec => []ExclusiveLease` if no client uses
  `SetVisibilityTimeout`. `ExclusiveLease` is not inductive: nothing in it says
  why the next receive finds all leases of a message over. `LeaseInv` adds the
  reason, which lies in the rows: a row that can be received has no running
  lease, a lease of an INVISIBLE row ends no later than the row's reset time, and
  a message that was not sent has none. Every step but `SendCreate`, `ReceiveTake`
  and `Tick` is shown to leave each row alone, take it out of the table, move it, or
  reset it after its time (`Kept`), and such steps keep `LeaseInv`; the three
  others have a lemma each. The hypothesis is needed: a visibility change writes
  an old copy of a row back, reset time included, and this breaks exactly the part
  about reset times.
- `RedriveIsLate`: `Spec => []DeadLetterOnlyAfterMaxReceives`, with all requests. What
  the invariant (`RedriveInv`) must relate is the retry counter of a row, which a
  redrive sets back and an old copy may restore, to the number of receives:
  as long as the row is where it was sent to, the counter is below that number; once
  it is elsewhere, the number was exceeded, which stays so. The same holds of
  the copies that `SetVisibilityTimeout` will write back.
- `DeletesAreTheHolders`: `Spec => OnlyTheHolderDeletes`, again without
  `SetVisibilityTimeout`. `HandleInv`: a handle in a row or a lease was counted when it
  was given out, no two clients have the same one of a message, and while a lease
  runs the row still has its handle. So a stale handle finds no row.
- `LeasedRowsStay`: `Spec => LeasedStaysInQueue` under the same hypothesis, from
  `LeaseInv`: the worker redrives rows that are visible, and those are not leased.
- `HoldersKeepMessages`: `Spec => []HolderKeepsMessage` if no client uses
  `SetVisibilityTimeout`, or there is one client. `HoldInv` has a part for each place
  the property can be lost: `HeldRow`, a row with the handle of a receive is
  INVISIBLE; `HeldLease`, while a lease runs the row has its handle and a reset time no
  earlier than the end of the lease; `HeldCopy`, the copy a visibility change has in hand
  has the caller's handle and, if that is of a receive, is INVISIBLE, so that storing it
  brings the row back whatever the worker did in between. With changes and two clients it is
  false (section 7).
- `ServiceImplementsQueue`: `Spec => ImplementsMessageQueue`, that is, `SQS` implements
  `MessageQueue` under the mapping of `SQSRefinement`, without `SetVisibilityTimeout`
  and without deletes by an empty handle (which remove expired messages of all
  queues). A step of the abstract queue concerns one message or a set of them, and the
  lemmas show which one each call of the database is: an insert sends, a take lends,
  a reset takes back, and so on, and all other steps map to stutters. The mapping reads
  the history variables, which is why `HandleInv` is part of the invariant, `RefInv`;
  its last part, `PlainInv`, keeps the unreachable labels and states out.

### Modules (`ModulesProofs`)

The scripts of commands are concatenated, so the lemmas first say which
commands are in a concatenation, and what is left of a script after one.

- `TypeCorrect`: `Spec => []TypeOK`, with the addition that every row exists once
  the table has been filled.
- `BootIsComplete`: `Spec => BootBringsModulesUp`. `BootInv`: while the manager boots, a
  module is either to come (its command is in the script once, and none of its timers has
  a thread) or begun (its row is RUNNING or will be, and each of its timers has one
  thread or exactly one command that starts it).
- `StartsDoNotDouble`: `Spec => []OneThreadWhileUp`. `LifeInv`: after the boot a module is
  untouched (RUNNING, one thread per timer, and no actor has a command that would change
  it), or somebody has begun to stop it, and then each timer its `Shutdown` stops is
  stopped or about to be. Requests overlap in all ways, but a start asks for the row
  first, and a stop writes the row first.
- `StoppedModulesAreQuiet` and `LeavingStopsAll`: `Spec => []StoppedModuleIsQuiet` and
  `Spec => []HaltStopsEveryTimer`, for sets of modules without S3 and DynamoDB. Their
  `Shutdown` forgets the worker (section 7), and with them both are false. `LifeInv`
  carries these, too; that the other servers stop all they start is computed from their
  scripts (`ShutdownIsComplete`).

### S3 (`S3Proofs`, `S3FileProofs`)

- `S3Proofs!TypeCorrect`: `Spec => []TypeOK`. Again `CallOK` per program counter
  carries the proof: what a handler stores depends on which request shares the
  step. It shows in particular that the empty entity a failed query returns, into
  which `CompleteMultipartUpload` writes, never leaves the type of a row.
- `QuietPassesClean` and `QuietPassesAreHarmless`: `Spec => QuietPassCleans` and
  `Spec => QuietPassHarmsNothing`, without any hypothesis: whatever requests and hash
  threads have left behind. `PassInv` says what a pass that nobody has disturbed knows:
  the rows it lists are as in the table or gone with their object, every file without a
  row is still on its list or in its hands, and the file it is about to remove has no row.
- `RowsHaveFiles` and `FilesAreNotShared`: `Spec => []RowHasFile` and
  `Spec => []FilesNotShared` under `HandlersOnly`: no worker, no hash threads, no
  `DeleteObjects`. Neither is inductive, because both depend on what calls have
  in their hands. `FileInv` adds two parts per call. `Held`: the file a call has
  written exists, and no row and no other call names it, so that storing the row
  is safe. `Doomed`: a file whose name a delete has read is not one a call is
  about to store, and after the erase no row names it, so that unlinking it is
  safe; that another request replaces or erases the row in between only takes
  names away, and a name once used is never given again. Each hypothesis is
  needed for `RowHasFile`: the worker unlinks a file whose row is still to come, a
  hash thread stores an old row after its file is gone, and `DeleteObjects` removes
  files before rows.
- `SumsAreRight`: `Spec => []Md5Matches` under `HandlersOnly`. `SumInv` adds that a call
  which has summed its file has the right checksum in its row until it stores it. A
  completion stores its checksum into a row it has read before, together with the name
  of the new file; that a file is written before any row names it makes this right.
- `AloneCallsAreSequential`: `Spec => AloneMeansSequential` under `HandlersOnly`, if no
  object has the empty name. `AloneInv`: no other call is about the object of a call
  that runs alone, and what such a call has read of the table is still true. The lemmas
  `OtherObjectsStay` and the like show that a call changes rows of its own object only,
  with the exception of the object without a name, into which a completion writes that
  has lost its row.

### Gateway (`GatewayProofs`)

- `TypeCorrect`, `OneReadOneWrite`, `ReadsHaveRoom`, `AnswersKeepOrder`:
  `Spec => []` of `TypeOK`, `OneOfEach`, `BackPressure` and `AnswersInOrder`, from one
  inductive invariant. That a read has room rests on at most one read being
  outstanding, and that on `OnWrite` seeing the queue at its limit only while no
  read is: the four hold together. Order needs two parts more: `QueueIsTail`, the
  queue is the requests handled last, and `NothingLost`, what is answered and what
  waits make up what is handled as long as the session writes.

### FTP (`FtpProofs`, `FtpDataProofs`)

- `OneWriteAtATime`: `Spec => []OneWriter`. With the fact that strand and
  buffer are sequences it is inductive: a write is started in an empty buffer,
  which by the invariant has no writer, and goes on only from its own completion.
  The lemmas `AppendJob` and `TailJobs` say what a posted and a finished job
  do to the set of writers.
- `OneFinalReply`: `Spec => []OneReply`. Nothing in `OneReply` says
  that a reply is not still to come from somewhere else. Every
  transfer gets a stage: its accept waits, it reads, its end is a job of the file's
  strand, a job of the buffer's strand or an entry of the buffer, or the reply is
  out. `Places` says that each of the four queues holds the end of a transfer at
  most once and only if that is the stage of the transfer, and that a transfer which
  reads, or has its reply, is at that stage. As a transfer has one stage, its
  end is in one place; each step moves it on (`OneMoves`), or leaves all of them
  (`NoneMoves`), and PASV and a hangup move all that wait for an accept to "replied"
  at once. `ReplyInv` adds `Shape`: reads of files are for connected downloads, no
  block of a file is taken for the end of a transmission. The one-writer invariant
  is used too: the job that writes finds the entry it writes.
- `FtpDataProofs!TypeCorrect`: `Spec => []TypeOK`. It needs `ReplyInv` (a job names a
  transfer there is, a write finds something to write) and `WritesData`: what is being
  written is a block and not the end marker, so what arrives at a client is blocks.
- `DownloadsAreIntact`: `Spec => []DownloadIntact`. The invariant is
  `DataInv`: the types, `JobsInv` (which jobs a transfer of a kind can have), and
  `DownInv`, which follows the one transfer an orderly client has under way. What
  this transfer sends is a list of items, the blocks of the file and the end. `Flow`
  says that there are numbers `p` and `k` such that `p` items have left the buffer, the
  buffer holds the following ones in order, the jobs of the strand, apart from the one
  that writes, are those after these, up to `k`; and that `k` is how far the file has
  been read, and `p` (or `p + 1`, when the write is done but its job has not run) what the
  client got. `Course` adds that the file is as it was. Each step has a lemma that moves
  one of the numbers by one (`FlowPost`, `FlowAdd`, `FlowSend`, `FlowSent`,
  `FlowWritten`, `FlowNext`); `FlowEnd` shows that the end meets an empty strand and a
  client that has everything. When the reply is out, nothing is left over
  for the next transfer. The hypothesis of the property, a client that waits for each
  reply, is needed: transfers that overlap share the buffer (section 7). Of a transfer
  whose connection broke nothing is claimed; the items it leaves in the buffer meet no
  other transfer, since such a client waits for a reply that never comes.
- `UploadsAreIntact`: `Spec => []UploadIntact`. The invariant is `DataInv /\ UpInv`.
  `UploadIntact` speaks of answered uploads only, and an upload is answered before its
  object is made, so `UpInv` says what holds on the way. `Filing`: the file of the newest
  upload is what was received, less the block its one write job carries. `Intact`, for
  every answered upload that no later one of the file replaced: the file holds what it
  started with and what was sent (`Filed`), and (`Shelved`) if the head of the file's
  strand is at work on this upload's object, a store it is about to do carries
  that content; otherwise, unless files were renamed or the file is gone, the object has it.
  The two cases exclude each other on purpose: "the object is right or a job
  is at work on it" is not inductive, as a job with an old content could overwrite a
  right object. `LastMade`: no upload was answered after the one whose object is at
  work. `Unlinked`: while DELE is between the unlink and its request, the file has no
  inode. That an upload has one job at a time on the file's strand comes from
  `Places` and from the chain of blocks (`OneEnd`, `NoOtherWrite`, `ReaderHasNoWrite`).
  `QuietUp` disposes of steps that leave uploads, their jobs and their objects
  alone; `StartUp`, `ReceiveUp`, `WriteUp`, `EndUp` and `ObjectUp` treat the others.

## 6. What is only model-checked

Liveness and everything under fairness (`ExpiredMessageReturns`,
`OverdueMessageLeaves`, `EveryRequestReturns`, `StoppedTimersEnd`, `OrphansGo`,
`RequestsAreAnswered`, `SessionsEnd`, `TransfersEnd`, `SessionEnds`), which is out of the
prover's reach. The scripts of `Modules` and
the queues of `Ftp` are taken apart with lemmas about single steps of a sequence,
without induction over their length.

## 7. What the code does differently from what it says

Refuted by a run:

- A restarted module says RUNNING, and its timers end at their first look at the
  stop source, which nothing renews (`Timer.cpp:52`).
- The S3 worker looks up a file in the table and deletes it later; a put writes
  the file before the row, so a new object can lose its file (`S3Worker.cpp:51`).
- The hash thread of a second version updates the row by bucket and key, which is
  the first version's row (`S3MemoryDb.cpp:199`).
- An FTP upload is answered 226 before its object is made, and making it uses the
  logged in user, whom a USER or QUIT sent on the 226 has cleared: the process may
  die, the object is missing (`FtpSession.cpp:1197`; README.md, line 88: "Uploading a
  file to the FTP server will automatically create a S3 object").

Met while modelling, in the models, and not refuted by a run of their own:

- A send between the two deletes of `DeleteQueue` leaves a message without a queue
  (`SQSService.cpp:335`; comment "Delete all resources in queue" at 334).
- `MessageRetention` computes the retention period and does not use it; it deletes
  DELAYED rows whose reset time is over (`SQSMemoryDb.cpp:352`).
- `SendMessage` stores INITIAL whatever the queue's delay, so a message can be
  received at once (`SQSService.cpp:399`).
- `UpdateQueue` dereferences the iterator of a queue that is gone
  (`SQSMemoryDb.cpp:137`).
- Expired messages share the empty receipt handle, and a delete with an empty
  handle removes them all, in every queue (`SQSMemoryDb.cpp:445`).
- A visibility change stores the whole message it read a call earlier. When the
  caller's timeout ran out in between and another client received the message, the
  caller's old handle is back in the row: the other client, in the middle of its
  timeout, can neither delete nor extend it (`SQSService.cpp:285`). So
  `HolderKeepsMessage` fails with visibility changes of two clients.
- A visibility change whose message is gone, or whose handle has become void, is
  answered with success; the write dereferences `end()` (`SQSMemoryDb.cpp:236`).
- A send or receive without a queue URL passes the check that the queue exists
  (`SQSService.cpp:352`, `429`).
- A receive with a wait time of 0 answers without a look at the table
  (`SQSService.cpp:440`).
- `S3Server::Shutdown` does not stop the S3 worker (`S3Server.cpp:52`), nor
  `DynamoDbServer::Shutdown` its worker.
- A timer thread past the check runs its job after the stop (`Timer.cpp:33`), and
  the process destroys timers whose detached threads still run.
- With a fresh database every module is started, whatever the configuration says
  (`Manager.cpp:68`): `ModuleDatabase::Initialize` is never called.
- A copy to an existing key makes a second row (`S3Service.cpp:443`); a move leaves
  the source where it is (`S3Service.cpp:519`).
- The hash thread looks for the file one directory too high and hashes nothing
  (`S3HashCreator.cpp:14`).
- A batch delete removes files before rows and can fail in between
  (`S3Service.cpp:586`).
- The listing of a bucket ends at the first row of another bucket
  (`S3MemoryDb.cpp:94`).
- A put that has found its bucket stores its row after `DeleteBucket` has found the
  bucket empty (`S3Service.cpp:697`).
- A put to a versioned bucket without Content-MD5 during an upload of the same
  key counts as known content, because the upload's placeholder has no checksum
  either; the content is dropped (`S3Service.cpp:1027`).
- When the client closes its side, the session closes its sending side although
  responses still wait (`GatewaySession.cpp:54`); a request pipelined behind a
  "Connection: close" is executed and never answered; a malformed request ends
  the reading without an answer (`GatewaySession.cpp:58`).
- After a failed write of an FTP data socket the rest of the transfer stays in
  `data_buffer_`: the transfer gets no final reply, and no later download of the
  session starts, since a write is started only in an empty buffer
  (`FtpSession.cpp:984`, `1016`).
- Overlapping FTP transfers share `data_buffer_`, and a block is written to the
  socket of the transfer whose data began the writing (`FtpSession.cpp:988`).
- An upload whose connection breaks is stored as complete, with 226
  (`FtpSession.cpp:1051`).
- `STOR` truncates the file before there is a data connection; a 426 leaves an empty
  file and the old object. A rename leaves S3 alone. A `DELE` sent on the 226 can
  remove the object before the upload creates it.
- `LIST` without `PASV` answers 150, then 426 (`FtpSession.cpp:710`).
- `QUIT` makes the handler that closes the control socket and does not post it
  (`FtpSession.cpp:196`): with an accept pending the session stays open.

Met while reading, outside the models:

- `GatewaySession` looks a service up with `operator[]` of a static map, which inserts
  unknown names, on several threads.
- The gateway server says RUNNING a second after it is started, and its `io_context`
  is never stopped (`GatewayServer.cpp:42`).

## 8. What is not modelled

The rest of the components of section 1.1, with their place in the plan. Of the
components that are modelled: of the FTP server the directories (MKD, RMD,
CWD), the output queue of replies and the loop that accepts sessions; of S3 the
notifications and encryption; of SQS the attributes, tags and counters. SNS, Lambda,
DynamoDB, KMS, the secrets manager, Cognito and the Transfer service each keep a table of
their own and meet the others only through it or through calls of the
services; most of what they do is reading a row, changing the copy and writing
it back, and what is lost then is listed per line under "hazards".

Further: handlers (parsing and formatting, no state), the metrics and monitoring
gauges, configuration and logging, the docker client, the connection pool of the
MongoDB driver, the classes of entities and transfer objects with
their conversions, the command line client, and the task pool and domain
sockets, which have no users. `PROJECT.json` lists all of them with the reason, and
under "hazards" what can go wrong in them.
