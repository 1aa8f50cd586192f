----------------------------- MODULE S3Objects -----------------------------
(***************************************************************************)
(* The objects of the S3 service: the object table of the in-memory        *)
(* database, the files in the directory "s3" that hold the contents, and   *)
(* everybody who changes them: the handlers, which run concurrently on the *)
(* gateway's threads, the threads that compute hashes, and the worker that *)
(* synchronises table and directory.                                       *)
(*                                                                         *)
(* A call of the database and an operation on a file are atomic; nothing   *)
(* is locked between two of them.  A handler is a client's call with a     *)
(* program counter.  A request that is refused by its first checks changes *)
(* nothing and is left out.  Buckets carry neither notifications nor       *)
(* encryption here, and there is one region.                               *)
(***************************************************************************)
EXTENDS Naturals, FiniteSets

CONSTANTS
    Bucket,      \* names of buckets
    Key,         \* names of objects
    Client,      \* the threads that execute requests
    Content,     \* what a file can hold; also stands for the checksum of it
    File,        \* names of files: random, never used twice
    Oid,         \* ids of rows: random, the table is ordered by them
    Versioned,   \* the buckets with versioning switched on
    Ops,         \* the requests the clients send
    KeySets,     \* the sets of keys a DeleteObjects may name
    Checksum,    \* may a request ask for a further checksum?
    HasWorker,   \* does the worker run?
    MaxRequests, \* bound: how many requests are sent
    NoFile,      \* an empty file name
    NoSum,       \* an empty checksum
    Empty        \* the checksum of a file that is empty or cannot be read

ASSUME S3Assumption ==
    /\ Oid \subseteq Nat
    /\ NoFile \notin File
    /\ {NoSum, Empty, "unused", "deleted"} \cap Content = {} /\ NoSum # Empty
    /\ Versioned \subseteq Bucket
    /\ KeySets \subseteq SUBSET Key
    /\ {Checksum, HasWorker} \subseteq BOOLEAN
    /\ MaxRequests \in Nat

VARIABLES
    buckets,  \* the bucket table
    rows,     \* the object table: oid -> row, NoObject where there is none
    disk,     \* the directory: file name -> content, "unused" or "deleted"
    call,     \* client -> the request it executes
    hashing,  \* the rows whose hashes a detached thread is computing
    uploads,  \* multipart uploads begun and not yet completed, per object
    worker,   \* the worker's pass
    requests  \* how many requests have been sent

vars == <<buckets, rows, disk, call, hashing, uploads, worker, requests>>

-----------------------------------------------------------------------------
Loc   == Bucket \X Key
NoLoc == <<"", "">>

(* The entity a query returns that finds nothing: an object with empty       *)
(* fields.                                                                   *)
NoObject == [loc |-> NoLoc, file |-> NoFile, md5 |-> NoSum, sha |-> NoSum]

Exists(f) == disk[f] \notin {"unused", "deleted"}

(* Crypto::GetMd5FromFile: a file that cannot be opened counts as empty.     *)
SumOf(f) == IF Exists(f) THEN disk[f] ELSE Empty

Present(o) == rows[o] # NoObject
RowsOf(loc) == {o \in Oid : Present(o) /\ rows[o].loc = loc}

(* ObjectExists by bucket and key, and by the name of the file.              *)
ObjectExists(loc) == RowsOf(loc) # {}
FileHasRow(f) == \E o \in Oid : Present(o) /\ rows[o].file = f

(* find_if on the ordered table: the row with the least id.                  *)
IsFirst(o, loc) == o \in RowsOf(loc) /\ \A p \in RowsOf(loc) : o <= p

(* What GetObject may answer; one value, since ids are ordered.              *)
GetObject(loc) ==
    {rows[o] : o \in {p \in Oid : IsFirst(p, loc)}}
        \cup (IF ObjectExists(loc) THEN {} ELSE {NoObject})

(* GetBucketObjectList stops at the first row of another bucket.             *)
GetBucketObjectList(b) ==
    {o \in Oid : Present(o) /\ \A p \in Oid : Present(p) /\ p <= o => rows[p].loc[1] = b}

-----------------------------------------------------------------------------
NoCall == [op |-> "none", pc |-> "idle", loc |-> NoLoc, keys |-> {}, left |-> {},
           file |-> NoFile, row |-> NoObject, alone |-> TRUE]

NoPass == [pc |-> "idle", todo |-> {}, rows |-> {}, files |-> {}, row |-> NoObject,
           file |-> NoFile, quiet |-> FALSE]

Init ==
    /\ buckets = Bucket
    /\ rows = [o \in Oid |-> NoObject]
    /\ disk = [f \in File |-> "unused"]
    /\ call = [c \in Client |-> NoCall]
    /\ hashing = {}
    /\ uploads = [l \in Loc |-> 0]
    /\ worker = NoPass
    /\ requests = 0

(* Steps of a call: go on at pc, or answer.                                  *)
At(c, pc) == call[c].pc = pc
Goto(c, pc) == call' = [call EXCEPT ![c] = [@ EXCEPT !.pc = pc]]
GotoWith(c, row, pc) == call' = [call EXCEPT ![c] = [@ EXCEPT !.pc = pc, !.row = row]]
Done(c) == call' = [call EXCEPT ![c] = NoCall]

(* The objects a call is about, kept to tell which calls ran alone on theirs. *)
Touches(d) == IF d.pc = "idle" THEN {} ELSE {d.loc} \cup d.keys

Begin(c, op, loc, keys, pc) ==
    LET mine == {loc} \cup keys
        disjoint(d) == Touches(call[d]) \cap mine = {}
    IN /\ op \in Ops /\ At(c, "idle") /\ requests < MaxRequests
       /\ requests' = requests + 1
       /\ call' = [d \in Client |->
             IF d = c
             THEN [NoCall EXCEPT !.op = op, !.pc = pc, !.loc = loc, !.keys = keys, !.left = keys,
                                 !.alone = \A e \in Client \ {c} : disjoint(e)]
             ELSE [call[d] EXCEPT !.alone = @ /\ disjoint(d)]]
       /\ UNCHANGED <<rows, disk, hashing>>

-----------------------------------------------------------------------------
(* Requests.                                                                 *)

(* CreateBucket: the check that the bucket does not exist and the insert are  *)
(* two calls of the code.  The insert tests nothing, and a second row of a    *)
(* bucket goes unnoticed (lookups find one, the removal takes all), so that   *)
(* one step gives the same states.                                            *)
CreateBucket(c) ==
    /\ "createBucket" \in Ops /\ At(c, "idle") /\ requests < MaxRequests
    /\ \E b \in Bucket : buckets' = buckets \cup {b}
    /\ requests' = requests + 1
    /\ UNCHANGED <<rows, disk, call, hashing, uploads>>

HasNoObjects(b) == \A o \in Oid : Present(o) => rows[o].loc[1] # b
BeginDeleteBucket(c) ==
    /\ \E b \in buckets : HasNoObjects(b) /\ Begin(c, "deleteBucket", <<b, "">>, {}, "remove")
    /\ UNCHANGED <<buckets, uploads>>

PutObject(c) ==
    /\ \E l \in Loc : l[1] \in buckets /\ Begin(c, "put", l, {}, "write")
    /\ UNCHANGED <<buckets, uploads>>

(* CopyObject and MoveObject do the same to table and directory.             *)
CopyOrMove(c, op) ==
    /\ \E src, dst \in Loc : /\ {src[1], dst[1]} \subseteq buckets
                             /\ ObjectExists(src)
                             /\ Begin(c, op, dst, {src}, "copy")
    /\ UNCHANGED <<buckets, uploads>>
CopyObject(c) == CopyOrMove(c, "copy")
MoveObject(c) == CopyOrMove(c, "move")

DeleteObject(c) ==
    /\ \E l \in Loc : /\ l[1] \in buckets /\ ObjectExists(l)
                      /\ Begin(c, "delete", l, {}, "fetch")
    /\ UNCHANGED <<buckets, uploads>>

DeleteObjects(c) ==
    /\ \E b \in buckets, ks \in KeySets :
           Begin(c, "deleteObjects", NoLoc, {b} \X ks, "batch")
    /\ UNCHANGED <<buckets, uploads>>

CreateMultipartUpload(c) ==
    /\ \E l \in Loc : l[1] \in buckets /\ Begin(c, "upload", l, {}, "open")
    /\ UNCHANGED <<buckets, uploads>>

(* A client completes each of its uploads once.                              *)
CompleteMultipartUpload(c) ==
    /\ \E l \in Loc : /\ uploads[l] > 0
                      /\ uploads' = [uploads EXCEPT ![l] = @ - 1]
                      /\ Begin(c, "complete", l, {}, "write")
    /\ UNCHANGED buckets

-----------------------------------------------------------------------------
(* The steps of the handlers.  SaveUnversionedObject: write, sum, exists,    *)
(* update or create.  SaveVersionedObject: write, known, then discard, or    *)
(* sum and create.  CompleteMultipartUpload: write, sum, fetch, update.      *)

(* AwsUtils::CreateS3FileName: a random name, new in practice.               *)
(* Mutation: the name may be taken.                                          *)
AnyName(f) == TRUE
IsNewName(f) == disk[f] = "unused"

(* The bucket is versioned; a bucket that is gone by now counts as not.      *)
IsVersioned(c) == call[c].op = "put" /\ call[c].loc[1] \in Versioned \cap buckets

(* A new file receives the stream, or the parts of the upload.  The client   *)
(* may have sent the checksum of the content; only SaveVersionedObject asks. *)
Claims(c, d) == IF IsVersioned(c) THEN {d, NoSum} ELSE {NoSum}
Written(c, f, sum) ==
    [call[c] EXCEPT !.file = f,
                    !.row = [loc |-> call[c].loc, file |-> f, md5 |-> sum, sha |-> NoSum],
                    !.op = IF IsVersioned(c) THEN "putVersion" ELSE @,
                    !.pc = IF IsVersioned(c) THEN "known" ELSE "sum"]
WriteFile(c) ==
    /\ At(c, "write")
    /\ \E f \in File, d \in Content :
           /\ IsNewName(f)
           /\ disk' = [disk EXCEPT ![f] = d]
           /\ \E sum \in Claims(c, d) : call' = [call EXCEPT ![c] = Written(c, f, sum)]
    /\ UNCHANGED <<buckets, rows, hashing, uploads, requests>>

(* GetObjectMd5: is there a version with this checksum?                      *)
IsKnown(c) == \E o \in RowsOf(call[c].loc) : rows[o].md5 = call[c].row.md5
KnownContent(c) ==
    /\ At(c, "known")
    /\ Goto(c, IF IsKnown(c) THEN "discard" ELSE "sum")
    /\ UNCHANGED <<buckets, rows, disk, hashing, uploads, requests>>

(* FileUtils::DeleteFile.                                                    *)
(* Mutation: the file stays and loses its content.                           *)
Truncated(f) == IF f \in File /\ Exists(f) THEN [disk EXCEPT ![f] = Empty] ELSE disk
Deleted(f) == IF f \in File /\ Exists(f) THEN [disk EXCEPT ![f] = "deleted"] ELSE disk

Discard(c) ==
    /\ At(c, "discard")
    /\ disk' = Deleted(call[c].file)
    /\ Done(c)
    /\ UNCHANGED <<buckets, rows, hashing, uploads, requests>>

(* A request that asks for a further checksum has a thread compute it for    *)
(* this row.                                                                 *)
Hashed(row, wanted) == {hashing} \cup (IF Checksum /\ wanted THEN {hashing \cup {row}} ELSE {})

(* The MD5 sum of the file.  SaveUnversionedObject starts the hash thread    *)
(* here, before its row is in the table.                                     *)
(* Mutation: the checksum the client sent, if any, is kept.                  *)
KeepsClaim(c) == call[c].row
Summed(c) == [call[c].row EXCEPT !.md5 = SumOf(call[c].file)]
SumFile(c) ==
    LET summed == Summed(c)
    IN /\ At(c, "sum")
       /\ GotoWith(c, summed, CASE call[c].op = "put"        -> "open"
                                [] call[c].op = "putVersion" -> "create"
                                [] call[c].op = "complete"   -> "fetch")
       /\ hashing' \in Hashed(summed, call[c].op = "put")
       /\ UNCHANGED <<buckets, rows, disk, uploads, requests>>

(* CreateOrUpdateObject: the row to store, that of a multipart upload having *)
(* neither file nor checksum, and the question whether there is one already. *)
(* Mutation: every put creates a row.                                        *)
NeverThere(loc) == FALSE
IsThere(loc) == ObjectExists(loc)
CreateOrUpdateObject(c) ==
    /\ At(c, "open")
    /\ GotoWith(c, [call[c].row EXCEPT !.loc = call[c].loc],
                IF IsThere(call[c].loc) THEN "update" ELSE "create")
    /\ UNCHANGED <<buckets, rows, disk, hashing, uploads, requests>>

(* A CreateMultipartUpload answers with the id of the new upload.            *)
Started(c) ==
    IF call[c].op = "upload" THEN [uploads EXCEPT ![call[c].loc] = @ + 1] ELSE uploads

CreateObject(c) ==
    /\ At(c, "create")
    /\ \E o \in Oid : ~Present(o) /\ rows' = [rows EXCEPT ![o] = call[c].row]
    /\ hashing' \in Hashed(call[c].row, call[c].op = "putVersion")
    /\ uploads' = Started(c)
    /\ Done(c)
    /\ UNCHANGED <<buckets, disk, requests>>

(* UpdateObject replaces the first row of the object.  If there is none it   *)
(* dereferences the end of the table: the process may crash, which is the    *)
(* behaviour that takes no further step, the write may miss the table, or it *)
(* may put the row there under whatever id it finds.                         *)
UpdateRow(row) ==
    \/ \E o \in Oid : IsFirst(o, row.loc) /\ rows' = [rows EXCEPT ![o] = row]
    \/ /\ ~ObjectExists(row.loc)
       /\ \/ UNCHANGED rows
          \/ \E o \in Oid : ~Present(o) /\ rows' = [rows EXCEPT ![o] = row]

UpdateObject(c) ==
    /\ At(c, "update")
    /\ UpdateRow(call[c].row)
    /\ hashing' \in Hashed(call[c].row, call[c].op = "complete")
    /\ uploads' = Started(c)
    /\ Done(c)
    /\ UNCHANGED <<buckets, disk, requests>>

(* GetObject, for the delete and for the completion of an upload, which puts *)
(* its file and checksum into the row it got, found or not.                  *)
FetchObject(c) ==
    /\ At(c, "fetch")
    /\ \E row \in GetObject(call[c].loc) :
           IF call[c].op = "delete"
           THEN GotoWith(c, row, "erase")
           ELSE GotoWith(c, [row EXCEPT !.file = call[c].file, !.md5 = call[c].row.md5], "update")
    /\ UNCHANGED <<buckets, rows, disk, hashing, uploads, requests>>

(* GetObject and CopyTo.  A file that is gone makes the request fail.  A row *)
(* without a file would copy the whole directory into itself: that fails     *)
(* too, and the directories it leaves are not modelled.  The lookup and the   *)
(* copy are one step: a row changed in between can be changed after the copy, *)
(* and when the file goes in between the request fails as without the row.    *)
Copied(c, row, f) ==
    [call[c] EXCEPT !.file = f, !.pc = "create", !.row = [row EXCEPT !.loc = call[c].loc, !.file = f]]
CopyFile(c) ==
    /\ At(c, "copy")
    /\ \E src \in call[c].keys : \E row \in GetObject(src) :
           \/ /\ row.file \in File /\ Exists(row.file)
              /\ \E f \in File :
                     /\ IsNewName(f)
                     /\ disk' = [disk EXCEPT ![f] = disk[row.file]]
                     /\ call' = [call EXCEPT ![c] = Copied(c, row, f)]
           \/ /\ row.file \in File => ~Exists(row.file)
              /\ Done(c)
              /\ UNCHANGED disk
    /\ UNCHANGED <<buckets, rows, hashing, uploads, requests>>

(* The database's DeleteObject and DeleteObjects erase every row of an object. *)
(* Mutation: only the first row of an object is erased.                      *)
ErasesFirst(locs) ==
    [o \in Oid |-> IF rows[o].loc \in locs /\ IsFirst(o, rows[o].loc) THEN NoObject ELSE rows[o]]
Erased(locs) == [o \in Oid |-> IF rows[o].loc \in locs THEN NoObject ELSE rows[o]]

EraseObject(c) ==
    /\ At(c, "erase")
    /\ rows' = Erased({call[c].row.loc})
    /\ Goto(c, "unlink")
    /\ UNCHANGED <<buckets, disk, hashing, uploads, requests>>

(* DeleteObject also removes the namesake of an object of the transfer bucket *)
(* from the directory of the transfer server, which is not modelled.          *)
UnlinkFile(c) ==
    /\ At(c, "unlink")
    /\ disk' = Deleted(call[c].row.file)
    /\ Done(c)
    /\ UNCHANGED <<buckets, rows, hashing, uploads, requests>>

(* The loop of DeleteObjects, one key: the file goes first.  Without a file  *)
(* name it tries to remove the directory itself, and the request fails       *)
(* unless that is empty.  The lookup and the removal are one step: the other  *)
(* steps that touch this row do not touch this file, or remove it too.        *)
DeleteNext(c) ==
    /\ At(c, "batch")
    /\ \E l \in call[c].left : \E row \in GetObject(l) :
           IF row.file = NoFile /\ \E f \in File : Exists(f)
           THEN /\ Done(c)
                /\ UNCHANGED disk
           ELSE /\ disk' = Deleted(row.file)
                /\ call' = [call EXCEPT ![c] = [@ EXCEPT !.left = call[c].left \ {l}]]
    /\ UNCHANGED <<buckets, rows, hashing, uploads, requests>>

DeleteRows(c) ==
    /\ At(c, "batch") /\ call[c].left = {}
    /\ rows' = Erased(call[c].keys)
    /\ Done(c)
    /\ UNCHANGED <<buckets, disk, hashing, uploads, requests>>

RemoveBucket(c) ==
    /\ At(c, "remove")
    /\ buckets' = buckets \ {call[c].loc[1]}
    /\ Done(c)
    /\ UNCHANGED <<rows, disk, hashing, uploads, requests>>

(* S3HashCreator looks for the file in the data directory, one level above   *)
(* the directory "s3" it is in, and hashes nothing; then it stores the row   *)
(* it was started with.                                                      *)
HashOf(row) == Empty
StoreHash(row) ==
    /\ row \in hashing
    /\ UpdateRow([row EXCEPT !.sha = HashOf(row)])
    /\ hashing' = hashing \ {row}
    /\ UNCHANGED <<buckets, disk, call, uploads, requests>>

-----------------------------------------------------------------------------
(* S3Worker::SyncObjects.                                                    *)

untouched == <<buckets, call, hashing, uploads, requests>>

StartPass ==
    /\ worker.pc = "idle" /\ buckets # {}
    /\ worker' = [NoPass EXCEPT !.pc = "rows", !.todo = buckets, !.quiet = TRUE]
    /\ UNCHANGED <<rows, disk>>

ListObjects ==
    /\ worker.pc = "rows" /\ worker.rows = {}
    /\ \E b \in worker.todo :
           worker' = [worker EXCEPT !.todo = @ \ {b},
                                    !.rows = {rows[o] : o \in GetBucketObjectList(b)}]
    /\ UNCHANGED <<rows, disk>>

(* Without a file name it is the directory that is asked for, and it exists. *)
(* Mutation: a row without a file name has no file.                         *)
NeedsName(row) == row.file # NoFile /\ Exists(row.file)
HasFile(row) == row.file = NoFile \/ Exists(row.file)
CheckRow ==
    /\ worker.pc = "rows"
    /\ \E row \in worker.rows :
           worker' = [worker EXCEPT !.rows = @ \ {row}, !.row = row,
                                    !.pc = IF HasFile(row) THEN "rows" ELSE "erase"]
    /\ UNCHANGED <<rows, disk>>

EraseRow ==
    /\ worker.pc = "erase"
    /\ rows' = Erased({worker.row.loc})
    /\ worker' = [worker EXCEPT !.pc = "rows", !.row = NoObject]
    /\ UNCHANGED disk

ScanDirectory ==
    /\ worker.pc = "rows" /\ worker.rows = {} /\ worker.todo = {}
    /\ worker' = [worker EXCEPT !.pc = "files", !.row = NoObject, !.files = {f \in File : Exists(f)}]
    /\ UNCHANGED <<rows, disk>>

(* Mutation: every file counts as referenced.                                *)
KeepsAll(f) == TRUE
IsReferenced(f) == FileHasRow(f)
CheckFile ==
    /\ worker.pc = "files"
    /\ \E f \in worker.files :
           worker' = [worker EXCEPT !.files = @ \ {f},
                                    !.file = IF IsReferenced(f) THEN NoFile ELSE f,
                                    !.pc = IF IsReferenced(f) THEN "files" ELSE "unlink"]
    /\ UNCHANGED <<rows, disk>>

RemoveFile ==
    /\ worker.pc = "unlink"
    /\ disk' = Deleted(worker.file)
    /\ worker' = [worker EXCEPT !.pc = "files", !.file = NoFile]
    /\ UNCHANGED rows

EndPass ==
    /\ worker.pc = "files" /\ worker.files = {}
    /\ worker' = NoPass
    /\ UNCHANGED <<rows, disk>>

-----------------------------------------------------------------------------
Request(c) ==
    \/ CreateBucket(c) \/ BeginDeleteBucket(c)
    \/ PutObject(c) \/ CopyObject(c) \/ MoveObject(c)
    \/ DeleteObject(c) \/ DeleteObjects(c)
    \/ CreateMultipartUpload(c) \/ CompleteMultipartUpload(c)

Handle(c) ==
    \/ WriteFile(c) \/ KnownContent(c) \/ Discard(c) \/ SumFile(c)
    \/ CreateOrUpdateObject(c) \/ CreateObject(c) \/ UpdateObject(c)
    \/ FetchObject(c) \/ CopyFile(c) \/ EraseObject(c) \/ UnlinkFile(c)
    \/ DeleteNext(c) \/ DeleteRows(c) \/ RemoveBucket(c)

Worker ==
    StartPass \/ ListObjects \/ CheckRow \/ EraseRow \/ ScanDirectory \/ CheckFile \/ RemoveFile \/ EndPass

(* The steps of everybody but the worker, who takes note of them.            *)
disturbed == worker' = [worker EXCEPT !.quiet = FALSE]

Next ==
    \/ \E c \in Client : Request(c) /\ disturbed
    \/ \E c \in Client : Handle(c) /\ disturbed
    \/ \E row \in hashing : StoreHash(row) /\ disturbed
    \/ HasWorker /\ Worker /\ UNCHANGED untouched

Spec == Init /\ [][Next]_vars

(* A thread that executes a request goes on with it, and the timer calls the *)
(* worker again and again, as long as the process has not crashed.  No       *)
(* client has to send anything.                                              *)
Fairness ==
    /\ \A c \in Client : WF_vars(Handle(c) /\ disturbed)
    /\ WF_vars(HasWorker /\ Worker /\ UNCHANGED untouched)

FairSpec == Spec /\ Fairness

-----------------------------------------------------------------------------
(* Properties.                                                               *)

Sum == Content \cup {NoSum, Empty}
Row == [loc : Loc \cup {NoLoc}, file : File \cup {NoFile}, md5 : Sum, sha : Sum]
Steps == {"idle", "write", "known", "discard", "sum", "open", "update", "create", "fetch",
          "copy", "erase", "unlink", "batch", "remove"}

Call == [op : Ops \cup {"none", "putVersion"}, pc : Steps,
         loc : Loc \cup {NoLoc} \cup (Bucket \X {""}),
         keys : SUBSET Loc, left : SUBSET Loc,
         file : File \cup {NoFile}, row : Row, alone : BOOLEAN]
Pass == [pc : {"idle", "rows", "erase", "files", "unlink"}, todo : SUBSET Bucket,
         rows : SUBSET Row, files : SUBSET File, row : Row,
         file : File \cup {NoFile}, quiet : BOOLEAN]

TypeOK ==
    /\ buckets \subseteq Bucket
    /\ rows \in [Oid -> Row]
    /\ disk \in [File -> Content \cup {"unused", "deleted"}]
    /\ call \in [Client -> Call]
    /\ hashing \subseteq Row
    /\ uploads \in [Loc -> Nat]
    /\ worker \in Pass
    /\ requests \in 0..MaxRequests

(* Every row that names a file names one that is on disk: a put and a copy   *)
(* write the file before the row, a delete erases the rows before the file,  *)
(* and what a delete read before another call replaced the row is still the  *)
(* name of a file no row will ever name again (SaveUnversionedObject,        *)
(* CopyObject, DeleteObject).                                                *)
RowHasFile == \A o \in Oid : Present(o) /\ rows[o].file # NoFile => Exists(rows[o].file)

(* No two rows name the same file, copies and versions included, so that     *)
(* deleting one object leaves the others readable (CopyObject,               *)
(* SaveVersionedObject).                                                     *)
FilesNotShared ==
    \A o, p \in Oid : o # p /\ Present(o) /\ Present(p) /\ rows[o].file # NoFile
                         => rows[o].file # rows[p].file

(* The MD5 sum of a row is that of its file, which it follows through        *)
(* copies, overwrites and the completion of an upload that puts its sum into *)
(* a row it has just read (CompleteMultipartUpload, CopyObject).             *)
Md5Matches ==
    \A o \in Oid : Present(o) /\ rows[o].file # NoFile => rows[o].md5 = SumOf(rows[o].file)

(* Calls that ran alone on their object behave as if there were no others:   *)
(* after a put to a bucket without versions a GetObject finds what was put,  *)
(* whatever duplicate rows copies and uploads have left; after a delete      *)
(* there is no row and the file of the object is gone; and no such call      *)
(* meets a missing row (CreateOrUpdateObject, DeleteObject).                 *)
AloneMeansSequential ==
    [][\A c \in Client, l \in Loc :
           LET mine == call[c]
               answers(op) == /\ mine.op = op /\ mine.loc = l /\ mine.alone
                              /\ call'[c].pc = "idle"
           IN /\ answers("put") =>
                     /\ mine.pc = "update" => ObjectExists(l)
                     /\ GetObject(l)' = {mine.row}
              /\ answers("delete") =>
                     /\ GetObject(l)' = {NoObject}
                     /\ mine.row.file = NoFile \/ disk'[mine.row.file] = "deleted"]_vars

(* A pass of the worker that nobody disturbs leaves no file without a row,   *)
(* those included whose rows it has erased itself (S3Worker::SyncObjects).   *)
QuietPassCleans ==
    [][worker.pc = "files" /\ worker'.pc = "idle" /\ worker.quiet =>
           \A f \in File : Exists(f) => FileHasRow(f)]_vars

(* A pass of the worker that nobody disturbs does no harm: it erases no row  *)
(* of an object that has its files, and no file that has its row, although   *)
(* it decides on rows it has listed before (S3Worker::SyncObjects).          *)
QuietPassHarmsNothing ==
    [][worker.quiet /\ worker'.quiet =>
           /\ \A o \in Oid : Present(o) /\ (\A p \in RowsOf(rows[o].loc) : rows[p].file = NoFile \/ Exists(rows[p].file))
                             => rows'[o] = rows[o]
           /\ \A f \in File : Exists(f) /\ FileHasRow(f) => disk'[f] = disk[f]]_vars

(* A file without a row is removed in the end, or gets a row, unless the     *)
(* last bucket is deleted: the worker then does nothing (SyncObjects).       *)
OrphansGo ==
    \A f \in File : Exists(f) /\ ~FileHasRow(f) ~> ~Exists(f) \/ FileHasRow(f) \/ buckets = {}

(* What the documentation says and the code does not do.                     *)

(* "deleted S3 objects not existing in the database anymore": the worker     *)
(* removes no file whose object exists in the table.                         *)
WorkerSparesObjects == [][\A f \in File : worker.pc = "unlink" /\ FileHasRow(f) => disk'[f] = disk[f]]_vars

(* "Create new version in database": a version once created stays until it   *)
(* is deleted.                                                               *)
VersionsStay ==
    [][\A o \in Oid : Present(o) /\ rows[o].loc[1] \in Versioned
           /\ (\A c \in Client : call[c].op \in {"none", "put", "putVersion"})
               => rows'[o].file = rows[o].file]_vars
=============================================================================
