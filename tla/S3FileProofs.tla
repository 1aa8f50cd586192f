---------------------------- MODULE S3FileProofs ----------------------------
(***************************************************************************)
(* The files of the rows: without the worker, the hash threads and the     *)
(* request DeleteObjects, every row has its file, no two rows share one,   *)
(* the checksum of a row is that of its file, and a call that ran alone on *)
(* its object found it as it had left it, for any number of requests.      *)
(***************************************************************************)
EXTENDS S3Proofs

(* What a call carries: the file it has written is the file of the row it    *)
(* will store; a delete writes none.                                         *)
FileCallOK(k) ==
    /\ k.pc # "batch"
    /\ k.op = "delete" => k.pc \in {"fetch", "erase", "unlink"} /\ k.file = NoFile
    /\ k.pc \notin {"erase", "unlink"} => k.row.file = k.file

(* The file a call has written is its own until the row is stored.           *)
Held(c) ==
    call[c].file # NoFile =>
        /\ Exists(call[c].file)
        /\ \A o \in Oid : rows[o].file # call[c].file
        /\ \A d \in Client : d # c => call[d].file # call[c].file

(* A delete that has read a row: its file has been written, no call is about *)
(* to store it, and the rows that name it are those the delete erases.       *)
Doomed(c) ==
    call[c].pc \in {"erase", "unlink"} /\ call[c].row.file # NoFile =>
        /\ disk[call[c].row.file] # "unused"
        /\ \A d \in Client : call[d].file # call[c].row.file
        /\ \A o \in Oid : rows[o].file = call[c].row.file =>
                              call[c].pc = "erase" /\ rows[o].loc = call[c].row.loc

FileInv ==
    /\ TypeInv
    /\ hashing = {}
    /\ \A c \in Client : FileCallOK(call[c]) /\ Held(c) /\ Doomed(c)
    /\ RowHasFile
    /\ FilesNotShared

(* Without hash threads, without the worker and without DeleteObjects.       *)
HandlersOnly == Checksum = FALSE /\ HasWorker = FALSE /\ "deleteObjects" \notin Ops

-----------------------------------------------------------------------------
LEMMA NamedIsPresent ==
    ASSUME NEW o, rows[o].file # NoFile
    PROVE  Present(o)
  BY DEF Present, NoObject

LEMMA NoCallFiles == FileCallOK(NoCall) /\ NoCall.file = NoFile /\ NoCall.pc = "idle"
  BY DEF FileCallOK, NoCall, NoObject

LEMMA DeletedDisk ==
    ASSUME TypeInv, NEW f
    PROVE  \A g \in File : /\ g # f => Deleted(f)[g] = disk[g]
                           /\ disk[g] # "unused" => Deleted(f)[g] # "unused"
  BY DEF TypeInv, TypeOK, Deleted

LEMMA HashedNothing ==
    ASSUME HandlersOnly, hashing = {}, NEW row, NEW w, hashing' \in Hashed(row, w)
    PROVE  hashing' = {}
  BY DEF HandlersOnly, Hashed

(* The other calls keep what the invariant is about. *)
Keeps(d) == /\ call'[d].op = call[d].op /\ call'[d].pc = call[d].pc
            /\ call'[d].file = call[d].file /\ call'[d].row = call[d].row

(* A step that changes neither table nor directory and leaves its call with  *)
(* the file it had, or none.                                                 *)
LEMMA QuietStep ==
    ASSUME FileInv, TypeInv', NEW c \in Client, UNCHANGED <<rows, disk>>, hashing' = {},
           \A d \in Client : d # c => Keeps(d),
           FileCallOK(call'[c]), call'[c].file \in {call[c].file, NoFile},
           call'[c].pc \notin {"erase", "unlink"}
    PROVE  FileInv'
<1>1. RowHasFile' /\ FilesNotShared'
  BY DEF FileInv, RowHasFile, FilesNotShared, Present, Exists
<1>2. \A d \in Client : FileCallOK(call[d])'
  BY DEF FileInv, FileCallOK, Keeps
<1>3. ASSUME NEW d \in Client PROVE Held(d)'
  <2>1. call'[d].file # NoFile => call'[d].file = call[d].file
    BY DEF Keeps
  <2>2. \A e \in Client : call'[e].file \in {call[e].file, NoFile}
    BY DEF Keeps
  <2>3. Held(d)
    BY DEF FileInv
  <2> QED
    BY <2>1, <2>2, <2>3 DEF Held, Exists
<1>4. ASSUME NEW d \in Client PROVE Doomed(d)'
  <2>1. CASE d = c
    BY <2>1 DEF Doomed
  <2>2. CASE d # c
    <3>1. \A e \in Client : call'[e].file \in {call[e].file, NoFile}
      BY DEF Keeps
    <3>2. Doomed(d) /\ Keeps(d)
      BY <2>2 DEF FileInv
    <3> QED
      BY <3>1, <3>2 DEF Doomed, Keeps
  <2> QED
    BY <2>1, <2>2
<1> QED
  BY <1>1, <1>2, <1>3, <1>4 DEF FileInv

(* One call changes, the others stay. *)
LEMMA OneCall ==
    ASSUME TypeInv, NEW c \in Client, NEW k, call' = [call EXCEPT ![c] = k]
    PROVE  call'[c] = k /\ \A d \in Client : d # c => call'[d] = call[d] /\ Keeps(d)
  BY DEF TypeInv, TypeOK, Keeps

LEMMA QuietDone ==
    ASSUME FileInv, TypeInv', NEW c \in Client, Done(c), UNCHANGED <<rows, disk, hashing>>
    PROVE  FileInv'
<1>1. call'[c] = NoCall /\ \A d \in Client : d # c => Keeps(d)
  BY OneCall DEF Done, FileInv
<1> QED
  BY <1>1, NoCallFiles, QuietStep DEF FileInv

-----------------------------------------------------------------------------
(* The requests. *)

LEMMA BeginFiles ==
    ASSUME FileInv, TypeInv', NEW c \in Client, NEW op, NEW l, NEW ks, NEW p,
           Begin(c, op, l, ks, p),
           p \notin {"batch", "erase", "unlink"}, op = "delete" => p = "fetch"
    PROVE  FileInv'
<1> DEFINE disjoint(d) == Touches(call[d]) \cap ({l} \cup ks) = {}
           n == \A e \in Client \ {c} : disjoint(e)
           both(d) == call[d].alone /\ disjoint(d)
           k == [NoCall EXCEPT !.op = op, !.pc = p, !.loc = l, !.keys = ks, !.left = ks,
                               !.alone = n]
<1>1. call' = [d \in Client |-> IF d = c THEN k ELSE [call[d] EXCEPT !.alone = both(d)]]
  BY DEF Begin
<1>2. UNCHANGED <<rows, disk, hashing>>
  BY DEF Begin
<1> HIDE DEF n, both
<1>3. call'[c] = k /\ FileCallOK(k) /\ k.file = NoFile /\ k.pc = p
  BY <1>1 DEF FileCallOK, NoCall, NoObject
<1> HIDE DEF k
<1>4. ASSUME NEW d \in Client, d # c PROVE Keeps(d)
  <2>1. call'[d] = [call[d] EXCEPT !.alone = both(d)] /\ call[d] \in Call
    BY <1>1, <1>4 DEF FileInv, TypeInv, TypeOK
  <2> QED
    BY <2>1 DEF Keeps, Call
<1> QED
  BY <1>2, <1>3, <1>4, QuietStep DEF FileInv

LEMMA RequestFiles ==
    ASSUME HandlersOnly, FileInv, NEW c \in Client, Request(c), disturbed
    PROVE  FileInv'
<1>t. TypeInv'
  BY RequestType DEF FileInv
<1>1. CASE CreateBucket(c)
  BY <1>1, <1>t DEF CreateBucket, FileInv, FileCallOK, Held, Doomed, RowHasFile, FilesNotShared,
                    Present, Exists
<1>2. CASE BeginDeleteBucket(c)
  <2>1. \E l : Begin(c, "deleteBucket", l, {}, "remove")
    BY <1>2, Zenon DEF BeginDeleteBucket
  <2> QED
    BY <1>t, <2>1, BeginFiles
<1>3. CASE PutObject(c)
  BY <1>3, <1>t, BeginFiles DEF PutObject
<1>4. CASE CopyObject(c) \/ MoveObject(c)
  <2>1. \E l, ks : Begin(c, "copy", l, ks, "copy") \/ Begin(c, "move", l, ks, "copy")
    BY <1>4, Zenon DEF CopyObject, MoveObject, CopyOrMove
  <2> QED
    BY <1>t, <2>1, BeginFiles
<1>5. CASE DeleteObject(c)
  BY <1>5, <1>t, BeginFiles DEF DeleteObject
<1>6. CASE DeleteObjects(c)
  BY <1>6 DEF DeleteObjects, Begin, HandlersOnly
<1>7. CASE CreateMultipartUpload(c)
  BY <1>7, <1>t, BeginFiles DEF CreateMultipartUpload
<1>8. CASE CompleteMultipartUpload(c)
  BY <1>8, <1>t, BeginFiles DEF CompleteMultipartUpload
<1> QED
  BY <1>1, <1>2, <1>3, <1>4, <1>5, <1>6, <1>7, <1>8 DEF Request
-----------------------------------------------------------------------------
(* The steps of the handlers.                                                *)

(* A step that writes a new file for its call. *)
LEMMA NewFileStep ==
    ASSUME FileInv, TypeInv', NEW c \in Client, NEW f \in File, NEW x, NEW k,
           IsNewName(f), x \notin {"unused", "deleted"},
           disk' = [disk EXCEPT ![f] = x], UNCHANGED rows, hashing' = {},
           call' = [call EXCEPT ![c] = k],
           k.file = f, FileCallOK(k), k.pc \notin {"erase", "unlink"}
    PROVE  FileInv'
<1>1. call'[c] = k /\ \A d \in Client : d # c => call'[d] = call[d]
  BY OneCall DEF FileInv
<1>2. disk[f] = "unused" /\ ~Exists(f)
  BY DEF IsNewName, Exists
<1>3. disk'[f] = x /\ \A g : g # f => disk'[g] = disk[g]
  BY DEF FileInv, TypeInv, TypeOK
<1>4. \A o \in Oid : rows[o].file # f \/ f = NoFile
  BY <1>2, NamedIsPresent DEF FileInv, RowHasFile
<1>5. f # NoFile
  BY S3Assumption DEF S3Assumption
<1>6. RowHasFile'
  BY <1>3, <1>4, <1>5 DEF FileInv, RowHasFile, Exists, Present
<1>7. FilesNotShared'
  BY DEF FileInv, FilesNotShared, Present
<1>8. \A d \in Client : FileCallOK(call[d])'
  BY <1>1 DEF FileInv, FileCallOK
<1>9. \A d \in Client : call[d].file # f
  BY <1>2, <1>5 DEF FileInv, Held
<1>10. ASSUME NEW d \in Client PROVE Held(d)'
  <2>1. CASE d = c
    BY <1>1, <1>3, <1>4, <1>5, <1>9, <2>1 DEF Held, Exists
  <2>2. CASE d # c
    BY <1>1, <1>3, <1>9, <2>2 DEF FileInv, Held, Exists
  <2> QED
    BY <2>1, <2>2
<1>11. ASSUME NEW d \in Client PROVE Doomed(d)'
  <2>1. CASE d = c
    BY <1>1, <2>1 DEF Doomed
  <2>2. CASE d # c
    BY <1>1, <1>2, <1>3, <2>2 DEF FileInv, Doomed
  <2> QED
    BY <2>1, <2>2
<1> QED
  BY <1>6, <1>7, <1>8, <1>10, <1>11 DEF FileInv

LEMMA WriteFileFiles ==
    ASSUME HandlersOnly, FileInv, NEW c \in Client, WriteFile(c), disturbed
    PROVE  FileInv'
<1>1. PICK f \in File, d \in Content :
          /\ IsNewName(f)
          /\ disk' = [disk EXCEPT ![f] = d]
          /\ \E s : call' = [call EXCEPT ![c] = Written(c, f, s)]
  BY DEF WriteFile
<1>s. PICK s : call' = [call EXCEPT ![c] = Written(c, f, s)]
  BY <1>1
<1> DEFINE k == Written(c, f, s)
<1>2. call[c] \in Call /\ call[c].pc = "write" /\ FileCallOK(call[c])
  BY DEF WriteFile, At, FileInv, TypeInv, TypeOK
<1>3. k.file = f /\ k.row.file = f /\ k.pc \in {"known", "sum"}
      /\ k.op \in {call[c].op, "putVersion"}
  BY <1>2 DEF Written, Call
<1>4. d \notin {"unused", "deleted"}
  BY S3Assumption DEF S3Assumption
<1>5. TypeInv'
  BY WriteFileType DEF FileInv
<1>6. UNCHANGED rows /\ hashing' = {}
  BY DEF WriteFile, FileInv
<1>7. FileCallOK(k)
  <2> HIDE DEF k
  <2> QED
    BY <1>2, <1>3 DEF FileCallOK
<1>8. call' = [call EXCEPT ![c] = k]
  BY <1>s
<1> HIDE DEF k
<1> QED
  BY <1>1, <1>3, <1>4, <1>5, <1>6, <1>7, <1>8, NewFileStep

LEMMA CopyFileFiles ==
    ASSUME HandlersOnly, FileInv, NEW c \in Client, CopyFile(c), disturbed
    PROVE  FileInv'
<1>1. TypeInv'
  BY CopyFileType DEF FileInv
<1>2. UNCHANGED <<rows, hashing>>
  BY DEF CopyFile
<1>3. CASE Done(c) /\ UNCHANGED disk
  BY <1>1, <1>2, <1>3, QuietDone
<1>4. ASSUME NEW src \in call[c].keys, NEW row \in GetObject(src), NEW f \in File,
             IsNewName(f), row.file \in File, Exists(row.file),
             disk' = [disk EXCEPT ![f] = disk[row.file]],
             call' = [call EXCEPT ![c] = Copied(c, row, f)]
      PROVE  FileInv'
  <2> DEFINE k == Copied(c, row, f)
  <2>1. call[c] \in Call /\ call[c].pc = "copy" /\ FileCallOK(call[c])
    BY DEF CopyFile, At, FileInv, TypeInv, TypeOK
  <2>2. row \in Row
    BY GetObjectType DEF FileInv, TypeInv
  <2>3. k.file = f /\ k.row.file = f /\ k.pc = "create" /\ k.op = call[c].op
    BY <2>1, <2>2 DEF Copied, Call, Row
  <2>4. disk[row.file] \notin {"unused", "deleted"}
    BY <1>4 DEF Exists
  <2>5. call' = [call EXCEPT ![c] = k] /\ hashing' = {}
    BY <1>2, <1>4 DEF FileInv
  <2> HIDE DEF k
  <2>6. FileCallOK(k)
    BY <2>1, <2>3 DEF FileCallOK
  <2> QED
    BY <1>1, <1>2, <1>4, <2>3, <2>4, <2>5, <2>6, NewFileStep
<1> QED
  BY <1>3, <1>4 DEF CopyFile

(* A step that goes on with another row for the same file. *)
LEMMA GotoWithStep ==
    ASSUME FileInv, TypeInv', NEW c \in Client, NEW row, NEW p, GotoWith(c, row, p),
           UNCHANGED <<rows, disk>>, hashing' = {},
           row.file = call[c].file, call[c].op # "delete", p \notin {"batch", "erase", "unlink"}
    PROVE  FileInv'
<1> DEFINE k == [call[c] EXCEPT !.pc = p, !.row = row]
<1>1. call' = [call EXCEPT ![c] = k]
  BY DEF GotoWith
<1>2. call[c] \in Call
  BY DEF FileInv, TypeInv, TypeOK
<1>3. k.file = call[c].file /\ k.op = call[c].op /\ k.pc = p /\ k.row = row
  BY <1>2 DEF Call
<1> HIDE DEF k
<1>4. FileCallOK(k)
  BY <1>3 DEF FileCallOK
<1>5. call'[c] = k /\ \A d \in Client : d # c => Keeps(d)
  BY <1>1, OneCall DEF FileInv
<1> QED
  BY <1>3, <1>4, <1>5, QuietStep

LEMMA SumFileFiles ==
    ASSUME HandlersOnly, FileInv, NEW c \in Client, SumFile(c), disturbed
    PROVE  FileInv'
<1> DEFINE k == call[c]
           r == Summed(c)
           p == CASE k.op = "put"        -> "open"
                  [] k.op = "putVersion" -> "create"
                  [] k.op = "complete"   -> "fetch"
<1>1. CallOK(k) /\ FileCallOK(k) /\ k.pc = "sum"
  BY DEF SumFile, At, FileInv, TypeInv
<1>2. k.op \in {"put", "putVersion", "complete"} /\ k.row \in Row
  BY <1>1 DEF CallOK, Call
<1>3. r.file = k.file
  BY <1>1, <1>2 DEF Summed, FileCallOK, Row
<1>4. p \notin {"batch", "erase", "unlink"}
  BY <1>2
<1>5. GotoWith(c, r, p) /\ hashing' \in Hashed(r, k.op = "put")
  BY Zenon DEF SumFile
<1> HIDE DEF r, p
<1>6. hashing' = {}
  BY <1>5, HashedNothing DEF FileInv
<1>7. TypeInv' /\ UNCHANGED <<rows, disk>>
  BY SumFileType DEF FileInv, SumFile
<1> QED
  BY <1>2, <1>3, <1>4, <1>5, <1>6, <1>7, GotoWithStep

LEMMA OpenFiles ==
    ASSUME HandlersOnly, FileInv, NEW c \in Client, CreateOrUpdateObject(c), disturbed
    PROVE  FileInv'
<1> DEFINE k == call[c]
           r == [k.row EXCEPT !.loc = k.loc]
           p == IF IsThere(k.loc) THEN "update" ELSE "create"
<1>1. k.pc = "open" /\ FileCallOK(k) /\ k \in Call
  BY DEF CreateOrUpdateObject, At, FileInv, TypeInv, TypeOK
<1>2. r.file = k.file /\ k.op # "delete"
  BY <1>1 DEF FileCallOK, Call, Row
<1>3. GotoWith(c, r, p) /\ p \in {"update", "create"}
  BY DEF CreateOrUpdateObject
<1> HIDE DEF r, p
<1>4. TypeInv' /\ UNCHANGED <<rows, disk>> /\ hashing' = {}
  BY OpenType DEF FileInv, CreateOrUpdateObject
<1> QED
  BY <1>2, <1>3, <1>4, GotoWithStep

(* A delete learns which file it is to remove: the row is in the table, so   *)
(* that the file has been written, no call holds it and no other row has it. *)
LEMMA FetchFiles ==
    ASSUME HandlersOnly, FileInv, NEW c \in Client, FetchObject(c), disturbed
    PROVE  FileInv'
<1> DEFINE k == call[c]
           r(row) == [row EXCEPT !.file = k.file, !.md5 = k.row.md5]
<1>1. k.pc = "fetch" /\ FileCallOK(k) /\ k \in Call
  BY DEF FetchObject, At, FileInv, TypeInv, TypeOK
<1>2. PICK row \in GetObject(k.loc) :
          IF k.op = "delete" THEN GotoWith(c, row, "erase") ELSE GotoWith(c, r(row), "update")
  BY DEF FetchObject
<1>3. TypeInv' /\ UNCHANGED <<rows, disk>> /\ hashing' = {}
  BY FetchType DEF FileInv, FetchObject
<1>4. row \in Row
  BY GetObjectType DEF FileInv, TypeInv
<1>5. CASE k.op # "delete"
  <2>1. r(row).file = k.file
    BY <1>4 DEF Row
  <2>2. GotoWith(c, r(row), "update")
    BY <1>2, <1>5
  <2> HIDE DEF r
  <2> QED
    BY <1>3, <1>5, <2>1, <2>2, GotoWithStep
<1>6. CASE k.op = "delete"
  <2> DEFINE n == [k EXCEPT !.pc = "erase", !.row = row]
  <2>1. call' = [call EXCEPT ![c] = n]
    BY <1>2, <1>6 DEF GotoWith
  <2>2. n.op = "delete" /\ n.pc = "erase" /\ n.file = NoFile /\ n.row = row /\ k.file = NoFile
    BY <1>1, <1>6 DEF Call, FileCallOK
  <2> HIDE DEF n
  <2>3. call'[c] = n /\ \A d \in Client : d # c => call'[d] = call[d]
    BY <2>1, OneCall DEF FileInv
  <2>4. \A d \in Client : call'[d].file = call[d].file
    BY <2>2, <2>3
  <2>5. RowHasFile' /\ FilesNotShared'
    BY <1>3 DEF FileInv, RowHasFile, FilesNotShared, Present, Exists
  <2>6. \A d \in Client : FileCallOK(call[d])' /\ Held(d)'
    BY <1>3, <2>2, <2>3, <2>4 DEF FileInv, FileCallOK, Held, Exists
  <2>7. ASSUME row.file # NoFile
        PROVE  /\ disk[row.file] # "unused"
               /\ \A d \in Client : call[d].file # row.file
               /\ \A o \in Oid : rows[o].file = row.file => rows[o].loc = row.loc
    <3>1. PICK p \in Oid : rows[p] = row /\ Present(p)
      BY <2>7 DEF GetObject, NoObject, IsFirst, RowsOf
    <3>2. Exists(row.file)
      BY <2>7, <3>1 DEF FileInv, RowHasFile
    <3>3. \A d \in Client : call[d].file # row.file
      BY <2>7, <3>1 DEF FileInv, Held
    <3>4. \A o \in Oid : rows[o].file = row.file => o = p
      BY <2>7, <3>1, NamedIsPresent DEF FileInv, FilesNotShared
    <3> QED
      BY <3>1, <3>2, <3>3, <3>4 DEF Exists
  <2>8. ASSUME NEW d \in Client PROVE Doomed(d)'
    <3>1. CASE d = c
      BY <1>3, <2>2, <2>3, <2>4, <2>7, <3>1 DEF Doomed
    <3>2. CASE d # c
      BY <1>3, <2>3, <2>4, <3>2 DEF FileInv, Doomed
    <3> QED
      BY <3>1, <3>2
  <2> QED
    BY <1>3, <2>5, <2>6, <2>8 DEF FileInv
<1> QED
  BY <1>5, <1>6

(* The row of a call enters the table, new or in the place of another one.   *)
LEMMA StoreFiles ==
    ASSUME HandlersOnly, FileInv, NEW c \in Client, CreateObject(c) \/ UpdateObject(c), disturbed
    PROVE  FileInv'
<1> DEFINE k == call[c]
<1>1. k.pc \in {"create", "update"} /\ k.row.file = k.file /\ Held(c)
  BY DEF CreateObject, UpdateObject, At, FileInv, FileCallOK
<1>2. \/ UNCHANGED rows
      \/ \E o \in Oid : rows' = [rows EXCEPT ![o] = k.row]
  BY DEF CreateObject, UpdateObject, UpdateRow
<1>3. TypeInv' /\ UNCHANGED disk
  BY StoreType DEF FileInv, CreateObject, UpdateObject
<1>4. hashing' = {}
  BY HashedNothing DEF FileInv, CreateObject, UpdateObject
<1>5. call'[c] = NoCall /\ \A d \in Client : d # c => call'[d] = call[d] /\ Keeps(d)
  BY OneCall DEF FileInv, CreateObject, UpdateObject, Done
<1>6. CASE UNCHANGED rows
  BY <1>3, <1>4, <1>5, <1>6, NoCallFiles, QuietStep DEF FileInv
<1>7. ASSUME NEW o \in Oid, rows' = [rows EXCEPT ![o] = k.row]
      PROVE  FileInv'
  <2>1. rows'[o] = k.row /\ \A p \in Oid : p # o => rows'[p] = rows[p]
    BY <1>7 DEF FileInv, TypeInv, TypeOK
  <2>2. RowHasFile'
    BY <1>1, <1>3, <2>1 DEF FileInv, RowHasFile, Present, Exists, Held
  <2>3. FilesNotShared'
    BY <1>1, <2>1 DEF FileInv, FilesNotShared, Present, Held
  <2>4. \A d \in Client : FileCallOK(call[d])'
    BY <1>5, NoCallFiles DEF FileInv, FileCallOK
  <2>5. ASSUME NEW d \in Client PROVE Held(d)'
    <3>1. CASE d = c
      BY <1>5, <3>1, NoCallFiles DEF Held
    <3>2. CASE d # c
      BY <1>1, <1>3, <1>5, <2>1, <3>2, NoCallFiles DEF FileInv, Held, Exists
    <3> QED
      BY <3>1, <3>2
  <2>6. ASSUME NEW d \in Client PROVE Doomed(d)'
    <3>1. CASE d = c
      BY <1>5, <3>1, NoCallFiles DEF Doomed
    <3>2. CASE d # c
      BY <1>1, <1>3, <1>5, <2>1, <3>2, NoCallFiles DEF FileInv, Doomed
    <3> QED
      BY <3>1, <3>2
  <2> QED
    BY <1>3, <1>4, <2>2, <2>3, <2>4, <2>5, <2>6 DEF FileInv
<1> QED
  BY <1>2, <1>6, <1>7

(* A call that goes on with what it has. *)
LEMMA GotoKeeps ==
    ASSUME FileInv, NEW c \in Client, NEW p, Goto(c, p)
    PROVE  /\ call'[c].op = call[c].op /\ call'[c].pc = p
           /\ call'[c].file = call[c].file /\ call'[c].row = call[c].row
           /\ \A d \in Client : d # c => call'[d] = call[d] /\ Keeps(d)
<1>1. call[c] \in Call
  BY DEF FileInv, TypeInv, TypeOK
<1>2. \A d \in Client : d # c => call'[d] = call[d] /\ Keeps(d)
  BY OneCall DEF FileInv, Goto
<1>3. call'[c] = [call[c] EXCEPT !.pc = p]
  BY OneCall DEF FileInv, Goto
<1> QED
  BY <1>1, <1>2, <1>3 DEF Call

LEMMA KnownFiles ==
    ASSUME HandlersOnly, FileInv, NEW c \in Client, KnownContent(c), disturbed
    PROVE  FileInv'
<1>1. PICK p \in {"discard", "sum"} : Goto(c, p)
  BY DEF KnownContent
<1>2. call[c].pc = "known" /\ FileCallOK(call[c])
  BY DEF KnownContent, At, FileInv
<1>3. FileCallOK(call'[c]) /\ call'[c].file = call[c].file /\ call'[c].pc \notin {"erase", "unlink"}
  BY <1>1, <1>2, GotoKeeps DEF FileCallOK
<1>4. TypeInv' /\ UNCHANGED <<rows, disk>> /\ hashing' = {}
  BY HandleType DEF FileInv, Handle, KnownContent
<1> QED
  BY <1>1, <1>3, <1>4, GotoKeeps, QuietStep

(* A file is removed that no row and no other call names. *)
LEMMA RemoveStep ==
    ASSUME FileInv, TypeInv', NEW c \in Client, NEW f,
           disk' = Deleted(f), UNCHANGED <<rows, hashing>>, Done(c),
           f # NoFile => /\ \A o \in Oid : rows[o].file # f
                         /\ \A d \in Client : d # c => call[d].file # f
    PROVE  FileInv'
<1>1. call'[c] = NoCall /\ \A d \in Client : d # c => call'[d] = call[d]
  BY OneCall DEF FileInv, Done
<1>2. \A g \in File : /\ g # f => disk'[g] = disk[g]
                      /\ disk[g] # "unused" => disk'[g] # "unused"
  BY DeletedDisk DEF FileInv
<1>3. \A o \in Oid : rows[o].file \in File \cup {NoFile}
  BY DEF FileInv, TypeInv, TypeOK, Row
<1>4. \A d \in Client : call[d].file \in File \cup {NoFile}
                       /\ call[d].row.file \in File \cup {NoFile}
  BY DEF FileInv, TypeInv, TypeOK, Call, Row
<1>5. RowHasFile'
  BY <1>2, <1>3 DEF FileInv, RowHasFile, Present, Exists
<1>6. FilesNotShared'
  BY DEF FileInv, FilesNotShared, Present
<1>7. \A d \in Client : FileCallOK(call[d])'
  BY <1>1, NoCallFiles DEF FileInv, FileCallOK
<1>8. ASSUME NEW d \in Client PROVE Held(d)'
  <2>1. CASE d = c
    BY <1>1, <2>1, NoCallFiles DEF Held
  <2>2. CASE d # c
    BY <1>1, <1>2, <1>4, <2>2, NoCallFiles DEF FileInv, Held, Exists
  <2> QED
    BY <2>1, <2>2
<1>9. ASSUME NEW d \in Client PROVE Doomed(d)'
  <2>1. CASE d = c
    BY <1>1, <2>1, NoCallFiles DEF Doomed
  <2>2. CASE d # c
    BY <1>1, <1>2, <1>4, <2>2, NoCallFiles DEF FileInv, Doomed
  <2> QED
    BY <2>1, <2>2
<1> QED
  BY <1>5, <1>6, <1>7, <1>8, <1>9 DEF FileInv

LEMMA RemoveFiles ==
    ASSUME HandlersOnly, FileInv, NEW c \in Client, Discard(c) \/ UnlinkFile(c), disturbed
    PROVE  FileInv'
<1>1. TypeInv'
  BY HandleType DEF FileInv, Handle
<1>2. Held(c) /\ Doomed(c)
  BY DEF FileInv
<1>3. CASE Discard(c)
  BY <1>1, <1>2, <1>3, RemoveStep DEF Discard, Held
<1>4. CASE UnlinkFile(c)
  BY <1>1, <1>2, <1>4, RemoveStep DEF UnlinkFile, At, Doomed
<1> QED
  BY <1>3, <1>4

LEMMA EraseFiles ==
    ASSUME HandlersOnly, FileInv, NEW c \in Client, EraseObject(c), disturbed
    PROVE  FileInv'
<1>1. call[c].pc = "erase" /\ Goto(c, "unlink")
  BY DEF EraseObject, At
<1>2. TypeInv' /\ UNCHANGED disk /\ hashing' = {}
  BY HandleType DEF FileInv, Handle, EraseObject
<1>3. /\ call'[c].op = call[c].op /\ call'[c].pc = "unlink"
      /\ call'[c].file = call[c].file /\ call'[c].row = call[c].row
      /\ \A d \in Client : d # c => call'[d] = call[d]
  BY <1>1, GotoKeeps
<1>4. \A o \in Oid : rows'[o] = IF rows[o].loc = call[c].row.loc THEN NoObject ELSE rows[o]
  BY DEF EraseObject, Erased
<1>5. NoObject.file = NoFile
  BY DEF NoObject
<1>6. RowHasFile'
  BY <1>2, <1>4, <1>5 DEF FileInv, RowHasFile, Present, Exists
<1>7. FilesNotShared'
  BY <1>4, <1>5 DEF FileInv, FilesNotShared, Present
<1>8. \A d \in Client : FileCallOK(call[d])'
  BY <1>1, <1>3 DEF FileInv, FileCallOK
<1>9. \A d \in Client : call'[d].file = call[d].file /\ call'[d].row = call[d].row
  BY <1>3
<1>10. ASSUME NEW d \in Client PROVE Held(d)'
  BY <1>2, <1>4, <1>5, <1>9 DEF FileInv, Held, Exists
<1>11. ASSUME NEW d \in Client PROVE Doomed(d)'
  <2>1. CASE d = c
    BY <1>1, <1>2, <1>3, <1>4, <1>5, <1>9, <2>1 DEF FileInv, Doomed
  <2>2. CASE d # c
    BY <1>2, <1>3, <1>4, <1>5, <1>9, <2>2 DEF FileInv, Doomed
  <2> QED
    BY <2>1, <2>2
<1> QED
  BY <1>2, <1>6, <1>7, <1>8, <1>10, <1>11 DEF FileInv

LEMMA HandleFiles ==
    ASSUME HandlersOnly, FileInv, NEW c \in Client, Handle(c), disturbed
    PROVE  FileInv'
<1>1. CASE DeleteNext(c) \/ DeleteRows(c)
  BY <1>1 DEF DeleteNext, DeleteRows, At, FileInv, FileCallOK
<1>2. CASE RemoveBucket(c)
  <2>1. TypeInv'
    BY HandleType DEF FileInv
  <2> QED
    BY <1>2, <2>1, QuietDone DEF RemoveBucket
<1> QED
  BY <1>1, <1>2, WriteFileFiles, KnownFiles, RemoveFiles, SumFileFiles, OpenFiles, StoreFiles,
     FetchFiles, CopyFileFiles, EraseFiles DEF Handle

-----------------------------------------------------------------------------
LEMMA InitFiles == Init => FileInv
<1> SUFFICES ASSUME Init PROVE FileInv
  OBVIOUS
<1>1. \A c \in Client : call[c] = NoCall
  BY DEF Init
<1>2. \A o \in Oid : ~Present(o)
  BY DEF Init, Present
<1>3. \A c \in Client : FileCallOK(call[c]) /\ Held(c) /\ Doomed(c)
  BY <1>1, NoCallFiles DEF Held, Doomed
<1> QED
  BY <1>2, <1>3, InitType DEF Init, FileInv, RowHasFile, FilesNotShared

LEMMA NextFiles ==
    ASSUME HandlersOnly
    PROVE  FileInv /\ [Next]_vars => FileInv'
<1> SUFFICES ASSUME FileInv, [Next]_vars PROVE FileInv'
  OBVIOUS
<1>1. CASE UNCHANGED vars
  <2>1. TypeInv'
    BY NextType DEF FileInv
  <2> QED
    BY <1>1, <2>1 DEF vars, FileInv, FileCallOK, Held, Doomed, RowHasFile, FilesNotShared,
                      Present, Exists
<1>2. CASE \E row \in hashing : StoreHash(row) /\ disturbed
  BY <1>2 DEF FileInv
<1>3. CASE HasWorker /\ Worker /\ UNCHANGED untouched
  BY <1>3 DEF HandlersOnly
<1> QED
  BY <1>1, <1>2, <1>3, RequestFiles, HandleFiles DEF Next

(* Every row that names a file names one that is on disk, whatever requests  *)
(* run at the same time, as long as neither the worker nor a hash thread     *)
(* takes part and no DeleteObjects is sent (SaveUnversionedObject,           *)
(* SaveVersionedObject, CopyObject, DeleteObject, CompleteMultipartUpload).  *)
THEOREM RowsHaveFiles ==
    ASSUME HandlersOnly
    PROVE  Spec => []RowHasFile
<1>1. Spec => []FileInv
  BY InitFiles, NextFiles, PTL DEF Spec
<1> QED
  BY <1>1, PTL DEF FileInv

(* No two rows name the same file, so that deleting one object never takes   *)
(* the content of another, under the same assumptions (CopyObject,           *)
(* SaveVersionedObject).                                                     *)
THEOREM FilesAreNotShared ==
    ASSUME HandlersOnly
    PROVE  Spec => []FilesNotShared
<1>1. Spec => []FileInv
  BY InitFiles, NextFiles, PTL DEF Spec
<1> QED
  BY <1>1, PTL DEF FileInv

-----------------------------------------------------------------------------
(* The checksums of the rows.                                                *)

(* From the sum on a call has the checksum of the file it has written.       *)
SumCallOK(k) ==
    k.pc \in {"open", "update", "create", "fetch"} /\ k.file # NoFile
        => k.row.md5 = SumOf(k.file)

SumInv == Md5Matches /\ \A c \in Client : SumCallOK(call[c])

(* What a request begins with, and what it leaves of the other calls. *)
LEMMA BeginEffect ==
    ASSUME TypeInv, NEW c \in Client, NEW op, NEW l, NEW ks, NEW p, Begin(c, op, l, ks, p)
    PROVE  /\ UNCHANGED <<rows, disk, hashing>>
           /\ call'[c].op = op /\ call'[c].pc = p /\ call'[c].loc = l /\ call'[c].keys = ks
           /\ call'[c].file = NoFile /\ call'[c].row = NoObject
           /\ call'[c].alone => \A d \in Client \ {c} : Touches(call[d]) \cap ({l} \cup ks) = {}
           /\ \A d \in Client : d # c =>
                 /\ Keeps(d)
                 /\ call'[d].loc = call[d].loc /\ call'[d].keys = call[d].keys
                 /\ call'[d].alone => /\ call[d].alone
                                     /\ Touches(call[d]) \cap ({l} \cup ks) = {}
<1> DEFINE disjoint(d) == Touches(call[d]) \cap ({l} \cup ks) = {}
           n == \A e \in Client \ {c} : disjoint(e)
           both(d) == call[d].alone /\ disjoint(d)
           k == [NoCall EXCEPT !.op = op, !.pc = p, !.loc = l, !.keys = ks, !.left = ks,
                               !.alone = n]
<1>1. call' = [d \in Client |-> IF d = c THEN k ELSE [call[d] EXCEPT !.alone = both(d)]]
  BY DEF Begin
<1>2. UNCHANGED <<rows, disk, hashing>>
  BY DEF Begin
<1>3. n => \A d \in Client \ {c} : Touches(call[d]) \cap ({l} \cup ks) = {}
  OBVIOUS
<1>4. \A d \in Client : both(d) => call[d].alone /\ Touches(call[d]) \cap ({l} \cup ks) = {}
  OBVIOUS
<1> HIDE DEF n, both
<1>5. /\ k.op = op /\ k.pc = p /\ k.loc = l /\ k.keys = ks
      /\ k.file = NoFile /\ k.row = NoObject /\ k.alone = n
  BY DEF NoCall
<1>6. call'[c] = k
  BY <1>1
<1> HIDE DEF k
<1>7. ASSUME NEW d \in Client, d # c
      PROVE  /\ Keeps(d) /\ call'[d].loc = call[d].loc /\ call'[d].keys = call[d].keys
             /\ call'[d].alone = both(d)
  <2>1. call'[d] = [call[d] EXCEPT !.alone = both(d)] /\ call[d] \in Call
    BY <1>1, <1>7 DEF TypeInv, TypeOK
  <2> QED
    BY <2>1 DEF Keeps, Call
<1> QED
  BY <1>2, <1>3, <1>4, <1>5, <1>6, <1>7

(* A request that is accepted begins a call in one of these ways. *)
Beginning(c, op, l, ks, p) ==
    /\ Begin(c, op, l, ks, p)
    /\ \/ op \in {"put", "complete"} /\ p = "write" /\ ks = {} /\ l \in Loc
       \/ op \in {"copy", "move"} /\ p = "copy"
       \/ op = "delete" /\ p = "fetch" /\ ks = {} /\ l \in Loc
       \/ op = "upload" /\ p = "open"
       \/ op = "deleteBucket" /\ p = "remove"

LEMMA RequestBegins ==
    ASSUME HandlersOnly, TypeInv, NEW c \in Client, Request(c)
    PROVE  \/ UNCHANGED <<rows, disk, hashing, call>>
           \/ \E op, l, ks, p : Beginning(c, op, l, ks, p)
<1>1. CASE CreateBucket(c)
  BY <1>1 DEF CreateBucket
<1>2. CASE BeginDeleteBucket(c)
  BY <1>2, Zenon DEF BeginDeleteBucket, Beginning
<1>3. CASE PutObject(c)
  BY <1>3, Zenon DEF PutObject, Beginning
<1>4. CASE CopyObject(c) \/ MoveObject(c)
  BY <1>4, Zenon DEF CopyObject, MoveObject, CopyOrMove, Beginning
<1>5. CASE DeleteObject(c)
  BY <1>5, Zenon DEF DeleteObject, Beginning
<1>6. CASE DeleteObjects(c)
  BY <1>6 DEF DeleteObjects, Begin, HandlersOnly
<1>7. CASE CreateMultipartUpload(c)
  BY <1>7, Zenon DEF CreateMultipartUpload, Beginning
<1>8. CASE CompleteMultipartUpload(c)
  <2>1. PICK l \in Loc : Begin(c, "complete", l, {}, "write")
    BY <1>8, Zenon DEF CompleteMultipartUpload
  <2>2. Beginning(c, "complete", l, {}, "write")
    BY <2>1 DEF Beginning
  <2> QED
    BY <2>2
<1> QED
  BY <1>1, <1>2, <1>3, <1>4, <1>5, <1>6, <1>7, <1>8 DEF Request

(* A file keeps its content as long as it exists. *)
LEMMA FileStays ==
    ASSUME TypeInv, NEW c \in Client, Handle(c), NEW f \in File, Exists(f), Exists(f)'
    PROVE  SumOf(f)' = SumOf(f)
<1>1. \/ UNCHANGED disk
      \/ \E g \in File : \E x : IsNewName(g) /\ disk' = [disk EXCEPT ![g] = x]
      \/ \E g : disk' = Deleted(g)
  <2>1. WriteFile(c) => \E g \in File : \E x : IsNewName(g) /\ disk' = [disk EXCEPT ![g] = x]
    BY DEF WriteFile
  <2>2. CopyFile(c) => \/ UNCHANGED disk
                       \/ \E g \in File : \E x : IsNewName(g) /\ disk' = [disk EXCEPT ![g] = x]
    BY Zenon DEF CopyFile
  <2>3. DeleteNext(c) => UNCHANGED disk \/ \E g : disk' = Deleted(g)
    BY Zenon DEF DeleteNext
  <2>4. Discard(c) \/ UnlinkFile(c) => \E g : disk' = Deleted(g)
    BY DEF Discard, UnlinkFile
  <2> QED
    BY <2>1, <2>2, <2>3, <2>4
       DEF Handle, KnownContent, SumFile, CreateOrUpdateObject, CreateObject, UpdateObject,
           FetchObject, EraseObject, DeleteRows, RemoveBucket
<1>2. disk'[f] = disk[f]
  <2>1. CASE \E g : disk' = Deleted(g)
    BY <2>1 DEF Deleted, Exists, TypeInv, TypeOK
  <2>2. CASE \E g \in File : \E x : IsNewName(g) /\ disk' = [disk EXCEPT ![g] = x]
    BY <2>2 DEF IsNewName, Exists, TypeInv, TypeOK
  <2> QED
    BY <1>1, <2>1, <2>2
<1> QED
  BY <1>2 DEF SumOf, Exists

(* What a step of a handler does to the table. *)
LEMMA RowSteps ==
    ASSUME HandlersOnly, FileInv, NEW c \in Client, Handle(c), NEW o \in Oid
    PROVE  \/ rows'[o] = rows[o]
           \/ rows'[o] = NoObject
           \/ /\ call[c].pc \in {"create", "update"} /\ rows'[o] = call[c].row /\ UNCHANGED disk
<1>1. rows \in [Oid -> Row]
  BY DEF FileInv, TypeInv, TypeOK
<1>2. CreateObject(c) => \/ rows'[o] = rows[o]
                         \/ /\ call[c].pc \in {"create", "update"} /\ rows'[o] = call[c].row
                            /\ UNCHANGED disk
  BY <1>1 DEF CreateObject, At
<1>3. UpdateObject(c) => \/ rows'[o] = rows[o]
                         \/ /\ call[c].pc \in {"create", "update"} /\ rows'[o] = call[c].row
                            /\ UNCHANGED disk
  BY <1>1 DEF UpdateObject, UpdateRow, At
<1>4. EraseObject(c) \/ DeleteRows(c) => rows'[o] = rows[o] \/ rows'[o] = NoObject
  BY DEF EraseObject, DeleteRows, Erased
<1> QED
  BY <1>2, <1>3, <1>4
     DEF Handle, WriteFile, KnownContent, Discard, SumFile, CreateOrUpdateObject, FetchObject,
         CopyFile, UnlinkFile, DeleteNext, RemoveBucket

(* A step of a handler changes its own call only. *)
LEMMA OtherCalls ==
    ASSUME TypeInv, NEW c \in Client, Handle(c), NEW d \in Client, d # c
    PROVE  call'[d] = call[d]
<1>1. \E k : call' = [call EXCEPT ![c] = k]
  <2>1. Done(c) \/ (\E p : Goto(c, p)) \/ (\E row, p : GotoWith(c, row, p))
            => \E k : call' = [call EXCEPT ![c] = k]
    BY DEF Done, Goto, GotoWith
  <2>2. WriteFile(c) => \E k : call' = [call EXCEPT ![c] = k]
    BY DEF WriteFile
  <2>3. CopyFile(c) => \E k : call' = [call EXCEPT ![c] = k]
    BY <2>1, Zenon DEF CopyFile
  <2>4. FetchObject(c) => \E row, p : GotoWith(c, row, p)
    BY DEF FetchObject
  <2>5. DeleteNext(c) => \E k : call' = [call EXCEPT ![c] = k]
    BY <2>1, Zenon DEF DeleteNext
  <2>6. SumFile(c) => \E row, p : GotoWith(c, row, p)
    BY Zenon DEF SumFile
  <2> QED
    BY <2>1, <2>2, <2>3, <2>4, <2>5, <2>6
       DEF Handle, KnownContent, Discard, CreateOrUpdateObject, CreateObject, UpdateObject,
           EraseObject, UnlinkFile, DeleteRows, RemoveBucket
<1> QED
  BY <1>1 DEF TypeInv, TypeOK

LEMMA SumCallStep ==
    ASSUME HandlersOnly, FileInv, SumInv, NEW c \in Client, Handle(c)
    PROVE  SumCallOK(call[c])'
<1> DEFINE k == call[c]
<1>1. k \in Call /\ CallOK(k) /\ FileCallOK(k) /\ SumCallOK(k) /\ k.row \in Row
  BY DEF FileInv, TypeInv, TypeOK, SumInv, Call
<1>2. CASE Done(c)
  <2>1. call'[c].pc = "idle"
    BY <1>2, OneCall, NoCallFiles DEF Done, FileInv
  <2> QED
    BY <2>1 DEF SumCallOK
<1>3. CASE \E p \in {"discard", "sum", "unlink"} : Goto(c, p)
  BY <1>3, GotoKeeps DEF SumCallOK
<1>4. ASSUME NEW row, NEW p, GotoWith(c, row, p), UNCHANGED disk,
             p \in {"open", "update", "create", "fetch"} /\ k.file # NoFile
                 => row.md5 = SumOf(k.file)
      PROVE  SumCallOK(call[c])'
  <2>1. call'[c] = [k EXCEPT !.pc = p, !.row = row]
    BY <1>4, OneCall DEF GotoWith, FileInv
  <2>2. call'[c].pc = p /\ call'[c].row = row /\ call'[c].file = k.file
    BY <1>1, <2>1 DEF Call
  <2> QED
    BY <1>4, <2>2 DEF SumCallOK, SumOf, Exists
<1>5. CASE WriteFile(c)
  <2>1. PICK f, s : call' = [call EXCEPT ![c] = Written(c, f, s)]
    BY <1>5 DEF WriteFile
  <2>2. Written(c, f, s).pc \in {"known", "sum"}
    BY <1>1 DEF Written, Call
  <2>3. call'[c] = Written(c, f, s)
    BY <2>1, OneCall DEF FileInv
  <2> QED
    BY <2>2, <2>3 DEF SumCallOK
<1>6. CASE SumFile(c)
  <2>1. PICK p : GotoWith(c, Summed(c), p)
    BY <1>6, Zenon DEF SumFile
  <2>2. Summed(c).md5 = SumOf(k.file) /\ UNCHANGED disk
    BY <1>1, <1>6 DEF Summed, Row, SumFile
  <2> QED
    BY <2>1, <2>2, <1>4
<1>7. CASE CreateOrUpdateObject(c)
  <2> DEFINE r == [k.row EXCEPT !.loc = k.loc]
             p == IF IsThere(k.loc) THEN "update" ELSE "create"
  <2>1. GotoWith(c, r, p) /\ UNCHANGED disk /\ k.pc = "open"
    BY <1>7 DEF CreateOrUpdateObject, At
  <2>2. r.md5 = k.row.md5
    BY <1>1 DEF Row
  <2> HIDE DEF r, p
  <2>3. k.file # NoFile => r.md5 = SumOf(k.file)
    BY <1>1, <2>1, <2>2 DEF SumCallOK
  <2> QED
    BY <2>1, <2>3, <1>4
<1>8. CASE FetchObject(c)
  <2> DEFINE r(row) == [row EXCEPT !.file = k.file, !.md5 = k.row.md5]
  <2>1. PICK row \in GetObject(k.loc) :
            IF k.op = "delete" THEN GotoWith(c, row, "erase") ELSE GotoWith(c, r(row), "update")
    BY <1>8 DEF FetchObject
  <2>2. UNCHANGED disk /\ k.pc = "fetch" /\ row \in Row
    BY <1>8, GetObjectType DEF FetchObject, At, FileInv, TypeInv
  <2>3. r(row).md5 = k.row.md5
    BY <2>2 DEF Row
  <2> HIDE DEF r
  <2>4. k.file # NoFile => r(row).md5 = SumOf(k.file)
    BY <1>1, <2>2, <2>3 DEF SumCallOK
  <2> QED
    BY <2>1, <2>2, <2>4, <1>4
<1>9. ASSUME NEW src \in k.keys, NEW row \in GetObject(src), NEW f \in File,
             IsNewName(f), row.file \in File, Exists(row.file),
             disk' = [disk EXCEPT ![f] = disk[row.file]],
             call' = [call EXCEPT ![c] = Copied(c, row, f)]
      PROVE  SumCallOK(call[c])'
  <2>1. row \in Row /\ row # NoObject
    BY <1>9, S3Assumption, GetObjectType DEF FileInv, TypeInv, NoObject, S3Assumption
  <2>2. PICK o \in Oid : rows[o] = row /\ Present(o)
    BY <2>1 DEF GetObject, IsFirst, RowsOf
  <2>3. row.md5 = disk[row.file]
    BY <1>9, <2>2, S3Assumption DEF SumInv, Md5Matches, SumOf, S3Assumption
  <2>4. disk'[f] = disk[row.file] /\ disk'[f] \notin {"unused", "deleted"}
    BY <1>9 DEF FileInv, TypeInv, TypeOK, Exists
  <2>5. call'[c] = Copied(c, row, f)
    BY <1>9, OneCall DEF FileInv
  <2>6. Copied(c, row, f).file = f /\ Copied(c, row, f).row.md5 = row.md5
    BY <1>1, <2>1 DEF Copied, Call, Row
  <2> QED
    BY <2>3, <2>4, <2>5, <2>6 DEF SumCallOK, SumOf, Exists
<1>10. CopyFile(c) => Done(c) \/ SumCallOK(call[c])'
  BY <1>9 DEF CopyFile
<1>11. ~DeleteNext(c) /\ ~DeleteRows(c)
  BY <1>1 DEF DeleteNext, DeleteRows, At, FileCallOK
<1> QED
  BY <1>2, <1>3, <1>5, <1>6, <1>7, <1>8, <1>10, <1>11
     DEF Handle, KnownContent, Discard, CreateObject, UpdateObject, EraseObject, UnlinkFile,
         RemoveBucket

LEMMA HandleSums ==
    ASSUME HandlersOnly, FileInv, FileInv', SumInv, NEW c \in Client, Handle(c)
    PROVE  SumInv'
<1>1. TypeInv
  BY DEF FileInv
<1>2. ASSUME NEW o \in Oid, Present(o)', rows'[o].file # NoFile
      PROVE  rows'[o].md5 = SumOf(rows[o].file)'
  <2>1. CASE rows'[o] = rows[o]
    <3>1. Present(o) /\ rows[o].file # NoFile
      BY <1>2, <2>1 DEF Present
    <3>2. Exists(rows[o].file) /\ Exists(rows[o].file)'
      BY <1>2, <3>1 DEF FileInv, RowHasFile
    <3>3. rows[o].file \in File
      BY <1>1, <3>1 DEF TypeInv, TypeOK, Row
    <3> DEFINE f == rows[o].file
    <3>4. Exists(f) /\ rows'[o].file = f /\ f \in File
      BY <2>1, <3>2, <3>3
    <3>5. disk'[f] = disk[f] \/ ~(disk'[f] \notin {"unused", "deleted"})
      <4>1. PICK g : g = f
        OBVIOUS
      <4>2. g \in File /\ Exists(g) /\ (Exists(g)' => SumOf(g)' = SumOf(g))
        BY <1>1, <3>4, <4>1, FileStays
      <4> QED
        BY <4>1, <4>2 DEF Exists, SumOf
    <3>6. disk'[rows'[o].file] \notin {"unused", "deleted"}
      BY <1>2 DEF FileInv, RowHasFile, Exists
    <3>7. rows[o].md5 = disk[f]
      BY <3>1, <3>4 DEF SumInv, Md5Matches, SumOf
    <3> QED
      BY <2>1, <3>4, <3>5, <3>6, <3>7 DEF SumOf, Exists
  <2>2. CASE rows'[o] = NoObject
    BY <1>2, <2>2 DEF Present
  <2>3. CASE /\ call[c].pc \in {"create", "update"} /\ rows'[o] = call[c].row /\ UNCHANGED disk
    <3>1. SumCallOK(call[c]) /\ call[c].row.file = call[c].file
      BY <2>3 DEF SumInv, FileInv, FileCallOK
    <3> QED
      BY <1>2, <2>3, <3>1 DEF SumCallOK, SumOf, Exists
  <2> QED
    BY <2>1, <2>2, <2>3, RowSteps
<1>3. ASSUME NEW d \in Client, d # c
      PROVE  SumCallOK(call[d])'
  <2>1. call'[d] = call[d]
    BY <1>1, <1>3, OtherCalls
  <2>2. SumCallOK(call[d]) /\ Held(d) /\ Held(d)'
    BY DEF SumInv, FileInv
  <2>3. PICK f : f = call[d].file
    OBVIOUS
  <2>4. f # NoFile => f \in File /\ Exists(f) /\ Exists(f)'
    BY <1>1, <2>1, <2>2, <2>3 DEF Held, Exists, TypeInv, TypeOK, Call
  <2>5. f # NoFile => SumOf(f)' = SumOf(f)
    BY <1>1, <2>4, FileStays
  <2> QED
    BY <2>1, <2>2, <2>3, <2>5 DEF SumCallOK, SumOf, Exists
<1>4. SumCallOK(call[c])'
  BY SumCallStep
<1> QED
  BY <1>2, <1>3, <1>4 DEF SumInv, Md5Matches

LEMMA NextSums ==
    ASSUME HandlersOnly, FileInv, FileInv', SumInv, [Next]_vars
    PROVE  SumInv'
<1>1. CASE UNCHANGED <<rows, disk, call>>
  BY <1>1 DEF SumInv, Md5Matches, SumCallOK, SumOf, Exists, Present
<1>2. ASSUME NEW c \in Client, Request(c)
      PROVE  SumInv'
  <2>1. ASSUME NEW op, NEW l, NEW ks, NEW p, Begin(c, op, l, ks, p)
        PROVE  SumInv'
    <3>1. UNCHANGED <<rows, disk>> /\ call'[c].file = NoFile /\ \A d \in Client : d # c => Keeps(d)
      BY <2>1, BeginEffect DEF FileInv
    <3>2. ASSUME NEW d \in Client
          PROVE  SumCallOK(call[d])'
      <4>1. CASE d = c
        BY <3>1, <4>1 DEF SumCallOK
      <4>2. CASE d # c
        BY <3>1, <4>2 DEF SumInv, SumCallOK, Keeps, SumOf, Exists
      <4> QED
        BY <4>1, <4>2
    <3> QED
      BY <3>1, <3>2 DEF SumInv, Md5Matches, SumOf, Exists, Present
  <2> QED
    BY <1>1, <1>2, <2>1, RequestBegins DEF Beginning, FileInv
<1>3. CASE \E row \in hashing : StoreHash(row) /\ disturbed
  BY <1>3 DEF FileInv
<1>4. CASE HasWorker /\ Worker /\ UNCHANGED untouched
  BY <1>4 DEF HandlersOnly
<1> QED
  BY <1>1, <1>2, <1>3, <1>4, HandleSums DEF Next, vars

LEMMA InitSums == Init => SumInv
  BY NoCallFiles DEF Init, SumInv, Md5Matches, SumCallOK, Present

(* The checksum of every row is that of its file, through overwrites, copies *)
(* and the completion of an upload that puts its sum into a row it has read  *)
(* before, under the same assumptions (CompleteMultipartUpload, CopyObject). *)
THEOREM SumsAreRight ==
    ASSUME HandlersOnly
    PROVE  Spec => []Md5Matches
<1>1. Spec => []FileInv
  BY InitFiles, NextFiles, PTL DEF Spec
<1>2. FileInv /\ FileInv' /\ SumInv /\ [Next]_vars => SumInv'
  BY NextSums
<1>3. SumInv => Md5Matches
  BY DEF SumInv
<1> QED
  BY <1>1, <1>2, <1>3, InitSums, PTL DEF Spec

-----------------------------------------------------------------------------
(* Calls that run alone on their object.                                     *)

(* No bucket and no object has an empty name. *)
LocIsNamed == NoLoc \notin Loc

(* The object of the row a call has.  The completion of an upload and a      *)
(* delete that find no row go on with an empty one.                          *)
LocCallOK(k) ==
    /\ k.pc = "idle" => k.op = "none"
    /\ k.op = "put" => k.pc \in {"write", "sum", "open", "update", "create"}
    /\ k.pc \in {"known", "discard", "sum", "create"} => k.row.loc = k.loc
    /\ k.pc \in {"update", "erase"} => k.row.loc \in {k.loc, NoLoc}
    /\ k.pc = "update" /\ k.op = "put" => k.row.loc = k.loc

(* What a call that runs alone has read is still true. *)
StillTrue(k) ==
    k.alone /\ k.loc \in Loc =>
        /\ k.op = "put" /\ k.pc = "update" => ObjectExists(k.loc)
        /\ k.op = "put" /\ k.pc = "create" => ~ObjectExists(k.loc)
        /\ k.pc = "erase" => k.row.loc = k.loc \/ ~ObjectExists(k.loc)
        /\ k.pc = "unlink" => ~ObjectExists(k.loc)

(* No other call is about the object of a call that runs alone. *)
Apart(c, d) ==
    c # d /\ call[c].alone /\ call[c].pc # "idle" /\ call[d].pc # "idle"
        => call[c].loc # call[d].loc

AloneInv ==
    \A c \in Client : /\ LocCallOK(call[c]) /\ StillTrue(call[c])
                      /\ \A d \in Client : Apart(c, d)

(* Whoever stores or erases rows does so for the object of its call, or for  *)
(* none: the rows of other objects stay.                                     *)
LEMMA OtherObjectsStay ==
    ASSUME HandlersOnly, FileInv, NEW c \in Client, Handle(c), LocCallOK(call[c]),
           NEW l, l # call[c].loc, l # NoLoc
    PROVE  /\ RowsOf(l)' = RowsOf(l)
           /\ ObjectExists(l)' = ObjectExists(l)
<1> DEFINE k == call[c]
<1>1. rows \in [Oid -> Row]
  BY DEF FileInv, TypeInv, TypeOK
<1>2. CreateObject(c) => RowsOf(l)' = RowsOf(l)
  <2> SUFFICES ASSUME CreateObject(c) PROVE RowsOf(l)' = RowsOf(l)
    OBVIOUS
  <2>1. PICK o \in Oid : ~Present(o) /\ rows' = [rows EXCEPT ![o] = k.row]
    BY DEF CreateObject
  <2>2. k.row.loc # l
    BY DEF CreateObject, At, LocCallOK
  <2> QED
    BY <1>1, <2>1, <2>2 DEF RowsOf, Present
<1>3. UpdateObject(c) => RowsOf(l)' = RowsOf(l)
  <2> SUFFICES ASSUME UpdateObject(c) PROVE RowsOf(l)' = RowsOf(l)
    OBVIOUS
  <2>1. k.row.loc # l
    BY DEF UpdateObject, At, LocCallOK
  <2>2. \/ UNCHANGED rows
        \/ \E o \in Oid : /\ ~Present(o) \/ rows[o].loc # l
                          /\ rows' = [rows EXCEPT ![o] = k.row]
    BY <2>1 DEF UpdateObject, UpdateRow, IsFirst, RowsOf
  <2> QED
    BY <1>1, <2>1, <2>2 DEF RowsOf, Present
<1>4. EraseObject(c) => RowsOf(l)' = RowsOf(l)
  <2> SUFFICES ASSUME EraseObject(c) PROVE RowsOf(l)' = RowsOf(l)
    OBVIOUS
  <2>1. k.row.loc # l /\ rows' = Erased({k.row.loc})
    BY DEF EraseObject, At, LocCallOK
  <2> QED
    BY <1>1, <2>1 DEF RowsOf, Present, Erased, NoObject
<1>5. ~DeleteRows(c)
  BY DEF DeleteRows, At, FileInv, FileCallOK
<1>6. UNCHANGED rows => RowsOf(l)' = RowsOf(l)
  BY DEF RowsOf, Present
<1>7. RowsOf(l)' = RowsOf(l)
  BY <1>2, <1>3, <1>4, <1>5, <1>6
     DEF Handle, WriteFile, KnownContent, Discard, SumFile, CreateOrUpdateObject, FetchObject,
         CopyFile, UnlinkFile, DeleteNext, RemoveBucket
<1> QED
  BY <1>7 DEF ObjectExists

(* What GetObject answers is about the object asked for, or there is none. *)
LEMMA GetObjectLoc ==
    ASSUME NEW l, NEW row \in GetObject(l)
    PROVE  row.loc = l \/ (row.loc = NoLoc /\ ~ObjectExists(l))
  BY DEF GetObject, IsFirst, RowsOf, NoObject

(* What a call is about, and whether it runs alone, stays until it answers. *)
LEMMA OwnCall ==
    ASSUME HandlersOnly, FileInv, AloneInv, NEW c \in Client, Handle(c)
    PROVE  /\ call[c].pc # "idle"
           /\ LocCallOK(call[c])'
           /\ StillTrue(call[c])'
           /\ \/ call'[c] = NoCall
              \/ call'[c].loc = call[c].loc /\ call'[c].alone = call[c].alone
<1> DEFINE k == call[c]
           Good == /\ call[c].pc # "idle"
                      /\ LocCallOK(call[c])'
                      /\ StillTrue(call[c])'
                      /\ \/ call'[c] = NoCall
                         \/ call'[c].loc = call[c].loc /\ call'[c].alone = call[c].alone
<1>1. k \in Call /\ CallOK(k) /\ FileCallOK(k) /\ LocCallOK(k) /\ StillTrue(k) /\ k.row \in Row
  BY DEF FileInv, TypeInv, TypeOK, AloneInv, Call
<1>2. CASE Done(c) /\ k.pc # "idle"
  <2>1. call'[c] = NoCall
    BY <1>2, OneCall DEF Done, FileInv
  <2>2. LocCallOK(NoCall) /\ NoCall.pc = "idle" /\ NoCall.op = "none"
    BY DEF LocCallOK, NoCall
  <2> QED
    BY <1>2, <2>1, <2>2 DEF LocCallOK, StillTrue
<1>3. CASE WriteFile(c)
  <2>1. PICK f, s : call' = [call EXCEPT ![c] = Written(c, f, s)]
    BY <1>3 DEF WriteFile
  <2>2. call'[c] = Written(c, f, s) /\ k.pc = "write"
    BY <1>3, <2>1, OneCall DEF FileInv, WriteFile, At
  <2>3. /\ Written(c, f, s).pc \in {"known", "sum"} /\ Written(c, f, s).loc = k.loc
        /\ Written(c, f, s).alone = k.alone /\ Written(c, f, s).row.loc = k.loc
        /\ Written(c, f, s).op = "put" => Written(c, f, s).pc = "sum"
    BY <1>1 DEF Written, Call
  <2> QED
    BY <2>2, <2>3 DEF LocCallOK, StillTrue
<1>4. CASE KnownContent(c)
  <2>1. PICK p \in {"discard", "sum"} : Goto(c, p)
    BY <1>4 DEF KnownContent
  <2>2. call'[c] = [k EXCEPT !.pc = p] /\ k.pc = "known"
    BY <1>4, <2>1, OneCall DEF FileInv, KnownContent, At, Goto
  <2>3. call'[c].pc = p /\ call'[c].op = k.op /\ call'[c].row = k.row /\ call'[c].loc = k.loc
        /\ call'[c].alone = k.alone
    BY <1>1, <2>2 DEF Call
  <2> QED
    BY <1>1, <2>2, <2>3 DEF LocCallOK, StillTrue
<1>5. ASSUME NEW row, NEW p, GotoWith(c, row, p)
      PROVE  /\ call'[c].pc = p /\ call'[c].op = k.op /\ call'[c].row = row
             /\ call'[c].loc = k.loc /\ call'[c].alone = k.alone
  <2>1. call'[c] = [k EXCEPT !.pc = p, !.row = row]
    BY <1>5, OneCall DEF FileInv, GotoWith
  <2> QED
    BY <1>1, <2>1 DEF Call
<1>6. CASE SumFile(c)
  <2>1. PICK p : /\ GotoWith(c, Summed(c), p)
                 /\ p = CASE k.op = "put"        -> "open"
                          [] k.op = "putVersion" -> "create"
                          [] k.op = "complete"   -> "fetch"
    BY <1>6, Zenon DEF SumFile
  <2>2. k.pc = "sum" /\ Summed(c).loc = k.loc
    BY <1>1, <1>6 DEF SumFile, At, Summed, Row, LocCallOK
  <2>3. /\ p = "open" \/ (p = "create" /\ k.op # "put") \/ (p = "fetch" /\ k.op # "put")
    BY <1>1, <2>1, <2>2 DEF CallOK
  <2>4. /\ call'[c].pc = p /\ call'[c].op = k.op /\ call'[c].row = Summed(c)
        /\ call'[c].loc = k.loc /\ call'[c].alone = k.alone
    BY <1>5, <2>1
  <2> QED
    BY <2>2, <2>3, <2>4 DEF LocCallOK, StillTrue
<1>7. CASE CreateOrUpdateObject(c)
  <2> DEFINE r == [k.row EXCEPT !.loc = k.loc]
             p == IF ObjectExists(k.loc) THEN "update" ELSE "create"
  <2>1. GotoWith(c, r, p) /\ k.pc = "open" /\ UNCHANGED rows
    BY <1>7 DEF CreateOrUpdateObject, At, IsThere
  <2>2. r.loc = k.loc /\ p \in {"update", "create"} /\ (p = "update" <=> ObjectExists(k.loc))
    BY <1>1 DEF Row
  <2> HIDE DEF r, p
  <2>3. /\ call'[c].pc = p /\ call'[c].op = k.op /\ call'[c].row = r
        /\ call'[c].loc = k.loc /\ call'[c].alone = k.alone
    BY <1>5, <2>1
  <2>4. ObjectExists(k.loc) <=> ObjectExists(call[c].loc)'
    BY <2>1, <2>3 DEF ObjectExists, RowsOf, Present
  <2> QED
    BY <2>1, <2>2, <2>3, <2>4 DEF LocCallOK, StillTrue
<1>8. CASE FetchObject(c)
  <2> DEFINE r(row) == [row EXCEPT !.file = k.file, !.md5 = k.row.md5]
  <2>1. PICK row \in GetObject(k.loc) :
            IF k.op = "delete" THEN GotoWith(c, row, "erase") ELSE GotoWith(c, r(row), "update")
    BY <1>8 DEF FetchObject
  <2>2. k.pc = "fetch" /\ k.op # "put" /\ UNCHANGED rows /\ row \in Row
    BY <1>1, <1>8, GetObjectType DEF FetchObject, At, LocCallOK, FileInv, TypeInv
  <2>3. r(row).loc = row.loc
    BY <2>2 DEF Row
  <2>4. row.loc = k.loc \/ (row.loc = NoLoc /\ ~ObjectExists(k.loc))
    BY <2>1, GetObjectLoc
  <2>5. /\ call'[c].pc \in {"erase", "update"} /\ call'[c].op = k.op
        /\ call'[c].row.loc = row.loc /\ call'[c].loc = k.loc /\ call'[c].alone = k.alone
    <3> HIDE DEF r
    <3> QED
      BY <1>5, <2>1, <2>3
  <2>6. ObjectExists(k.loc) <=> ObjectExists(call[c].loc)'
    BY <2>2, <2>5 DEF ObjectExists, RowsOf, Present
  <2> QED
    BY <2>2, <2>4, <2>5, <2>6 DEF LocCallOK, StillTrue
<1>9. ASSUME CopyFile(c), ~Done(c)
      PROVE  Good
  <2>1. PICK src \in k.keys : \E row \in GetObject(src), f \in File :
                 call' = [call EXCEPT ![c] = Copied(c, row, f)]
    BY <1>9, Zenon DEF CopyFile
  <2>2. PICK row \in GetObject(src), f \in File : call' = [call EXCEPT ![c] = Copied(c, row, f)]
    BY <2>1
  <2>3. row \in Row
    BY GetObjectType DEF FileInv, TypeInv
  <2>4. call'[c] = Copied(c, row, f) /\ k.pc = "copy"
    BY <1>9, <2>2, OneCall DEF FileInv, CopyFile, At
  <2>5. /\ Copied(c, row, f).pc = "create" /\ Copied(c, row, f).loc = k.loc
        /\ Copied(c, row, f).alone = k.alone /\ Copied(c, row, f).row.loc = k.loc
        /\ Copied(c, row, f).op = k.op
    BY <1>1, <2>3 DEF Copied, Call, Row
  <2>6. k.op # "put"
    BY <1>1, <2>4 DEF LocCallOK
  <2> QED
    BY <2>4, <2>5, <2>6 DEF LocCallOK, StillTrue
<1>10. CASE EraseObject(c)
  <2>1. k.pc = "erase" /\ rows' = Erased({k.row.loc}) /\ k.op = "delete"
    BY <1>1, <1>10 DEF EraseObject, At, CallOK
  <2>2. /\ call'[c].op = k.op /\ call'[c].pc = "unlink" /\ call'[c].row = k.row
        /\ call'[c].loc = k.loc /\ call'[c].alone = k.alone
    <3>1. call'[c] = [k EXCEPT !.pc = "unlink"]
      BY <1>10, OneCall DEF FileInv, EraseObject, Goto
    <3> QED
      BY <1>1, <3>1 DEF Call
  <2>3. RowsOf(k.loc)' \subseteq RowsOf(k.loc) /\ (k.row.loc = k.loc => RowsOf(k.loc)' = {})
    BY <2>1, <2>2 DEF RowsOf, Erased, Present, NoObject
  <2>4. k.row.loc = k.loc \/ ~ObjectExists(k.loc) => ~ObjectExists(call[c].loc)'
    BY <2>2, <2>3 DEF ObjectExists
  <2> QED
    BY <1>1, <2>1, <2>2, <2>4 DEF LocCallOK, StillTrue
<1>11. ~DeleteNext(c) /\ ~DeleteRows(c)
  BY <1>1 DEF DeleteNext, DeleteRows, At, FileCallOK
<1>12. Discard(c) \/ CreateObject(c) \/ UpdateObject(c) \/ UnlinkFile(c) \/ RemoveBucket(c)
           \/ (CopyFile(c) /\ Done(c))
       => Done(c) /\ k.pc # "idle"
  BY DEF Discard, CreateObject, UpdateObject, UnlinkFile, RemoveBucket, CopyFile, At
<1> QED
  BY <1>2, <1>3, <1>4, <1>6, <1>7, <1>8, <1>9, <1>10, <1>11, <1>12 DEF Handle

LEMMA NextAlone ==
    ASSUME HandlersOnly, LocIsNamed, FileInv, AloneInv, [Next]_vars
    PROVE  AloneInv'
<1>1. CASE UNCHANGED <<rows, call>>
  <2>1. \A l : ObjectExists(l)' = ObjectExists(l)
    BY <1>1 DEF ObjectExists, RowsOf, Present
  <2> QED
    BY <1>1, <2>1 DEF AloneInv, LocCallOK, StillTrue, Apart
<1>2. ASSUME NEW c \in Client, NEW op, NEW l, NEW ks, NEW p, Beginning(c, op, l, ks, p)
      PROVE  AloneInv'
  <2>1. /\ UNCHANGED rows
        /\ call'[c].op = op /\ call'[c].pc = p /\ call'[c].loc = l
        /\ call'[c].alone => \A d \in Client \ {c} : Touches(call[d]) \cap ({l} \cup ks) = {}
        /\ \A d \in Client : d # c =>
              /\ Keeps(d) /\ call'[d].loc = call[d].loc
              /\ call'[d].alone => call[d].alone /\ Touches(call[d]) \cap ({l} \cup ks) = {}
    BY <1>2, BeginEffect DEF Beginning, FileInv
  <2>2. p \in {"write", "copy", "fetch", "open", "remove"} /\ (op = "put" => p = "write")
    BY <1>2 DEF Beginning
  <2>3. \A x : ObjectExists(x)' = ObjectExists(x)
    BY <2>1 DEF ObjectExists, RowsOf, Present
  <2>4. ASSUME NEW d \in Client
        PROVE  LocCallOK(call[d])' /\ StillTrue(call[d])'
    <3>1. CASE d = c
      BY <2>1, <2>2, <3>1 DEF LocCallOK, StillTrue
    <3>2. CASE d # c
      <4>1. LocCallOK(call[d]) /\ StillTrue(call[d])
        BY DEF AloneInv
      <4>2. Keeps(d) /\ call'[d].loc = call[d].loc /\ (call'[d].alone => call[d].alone)
        BY <2>1, <3>2
      <4>3. ObjectExists(call[d].loc)' = ObjectExists(call[d].loc)
        <5>1. PICK x : x = call[d].loc
          OBVIOUS
        <5> QED
          BY <2>3, <4>2, <5>1
      <4> QED
        BY <4>1, <4>2, <4>3 DEF Keeps, LocCallOK, StillTrue
    <3> QED
      BY <3>1, <3>2
  <2>5. ASSUME NEW d \in Client, NEW e \in Client
        PROVE  Apart(d, e)'
    <3>1. Apart(d, e)
      BY DEF AloneInv
    <3>2. \A x \in Client : call[x].pc # "idle" => call[x].loc \in Touches(call[x])
      BY DEF Touches
    <3>3. CASE d # c /\ e # c
      BY <2>1, <3>1, <3>3 DEF Apart, Keeps
    <3>4. CASE d = c /\ e # c
      BY <2>1, <3>2, <3>4 DEF Apart, Keeps
    <3>5. CASE d # c /\ e = c
      BY <2>1, <3>2, <3>5 DEF Apart, Keeps
    <3>6. CASE d = e
      BY <3>6 DEF Apart
    <3> QED
      BY <3>3, <3>4, <3>5, <3>6
  <2> QED
    BY <2>4, <2>5 DEF AloneInv
<1>3. ASSUME NEW c \in Client, Handle(c)
      PROVE  AloneInv'
  <2>1. /\ call[c].pc # "idle" /\ LocCallOK(call[c])' /\ StillTrue(call[c])'
        /\ \/ call'[c] = NoCall
           \/ call'[c].loc = call[c].loc /\ call'[c].alone = call[c].alone
    BY <1>3, OwnCall
  <2>2. \A d \in Client : d # c => call'[d] = call[d]
    BY <1>3, OtherCalls DEF FileInv
  <2>3. ASSUME NEW d \in Client, d # c
        PROVE  LocCallOK(call[d])' /\ StillTrue(call[d])'
    <3>1. LocCallOK(call[d]) /\ StillTrue(call[d]) /\ Apart(d, c) /\ LocCallOK(call[c])
      BY DEF AloneInv
    <3>2. CASE call[d].alone /\ call[d].loc \in Loc /\ call[d].loc # NoLoc /\ call[d].pc # "idle"
      <4>1. PICK l : l = call[d].loc
        OBVIOUS
      <4>2. l # call[c].loc
        BY <2>1, <2>3, <3>1, <3>2, <4>1 DEF Apart
      <4>3. ObjectExists(l)' = ObjectExists(l)
        BY <1>3, <3>1, <3>2, <4>1, <4>2, OtherObjectsStay
      <4> QED
        BY <2>2, <2>3, <3>1, <4>1, <4>3 DEF LocCallOK, StillTrue
    <3>3. CASE ~(call[d].alone /\ call[d].loc \in Loc /\ call[d].pc # "idle")
      BY <2>2, <2>3, <3>1, <3>3 DEF LocCallOK, StillTrue
    <3> QED
      BY <3>2, <3>3 DEF LocIsNamed
  <2>4. ASSUME NEW d \in Client, NEW e \in Client
        PROVE  Apart(d, e)'
    <3>1. Apart(d, e)
      BY DEF AloneInv
    <3>2. NoCall.pc = "idle"
      BY DEF NoCall
    <3> QED
      BY <2>1, <2>2, <3>1, <3>2 DEF Apart
  <2> QED
    BY <2>1, <2>3, <2>4 DEF AloneInv
<1>4. CASE \E row \in hashing : StoreHash(row) /\ disturbed
  BY <1>4 DEF FileInv
<1>5. CASE HasWorker /\ Worker /\ UNCHANGED untouched
  BY <1>5 DEF HandlersOnly
<1>6. ASSUME NEW c \in Client, Request(c)
      PROVE  AloneInv'
  BY <1>1, <1>2, <1>6, RequestBegins DEF FileInv
<1> QED
  BY <1>1, <1>3, <1>4, <1>5, <1>6 DEF Next, vars

LEMMA InitAlone == Init => AloneInv
  BY DEF Init, AloneInv, LocCallOK, StillTrue, Apart, NoCall

(* A put that runs alone leaves its row as the first of its object. *)
LEMMA PutEnds ==
    ASSUME HandlersOnly, LocIsNamed, FileInv, AloneInv, NEW c \in Client, NEW l \in Loc,
           CreateObject(c) \/ UpdateObject(c),
           call[c].op = "put", call[c].loc = l, call[c].alone
    PROVE  /\ call[c].pc = "update" => ObjectExists(l)
           /\ GetObject(l)' = {call[c].row}
<1> DEFINE k == call[c]
           row == call[c].row
<1>1. rows \in [Oid -> Row] /\ k \in Call /\ Oid \subseteq Nat
  BY S3Assumption DEF FileInv, TypeInv, TypeOK, S3Assumption
<1>2. LocCallOK(k) /\ StillTrue(k)
  BY DEF AloneInv
<1>3. k.pc \in {"create", "update"} /\ row.loc = l
  BY <1>2 DEF CreateObject, UpdateObject, At, LocCallOK
<1>4. row # NoObject
  BY <1>3 DEF LocIsNamed, NoObject
<1>5. k.pc = "update" => ObjectExists(l)
  BY <1>2 DEF StillTrue
<1>6. k.pc = "create" => ~ObjectExists(l)
  BY <1>2 DEF StillTrue
<1>7. \E o \in Oid : IsFirst(o, l)' /\ rows'[o] = row
  <2>1. CASE CreateObject(c)
    <3>1. PICK o \in Oid : ~Present(o) /\ rows' = [rows EXCEPT ![o] = row]
      BY <2>1 DEF CreateObject
    <3>2. RowsOf(l) = {}
      BY <1>6, <2>1 DEF CreateObject, At, ObjectExists
    <3>3. RowsOf(l)' = {o}
      BY <1>1, <1>3, <1>4, <3>1, <3>2 DEF RowsOf, Present
    <3>4. IsFirst(o, l)'
      BY <1>1, <3>3 DEF IsFirst
    <3> QED
      BY <1>1, <3>1, <3>4
  <2>2. CASE UpdateObject(c)
    <3>1. UpdateRow(row) /\ ObjectExists(l)
      BY <1>5, <2>2 DEF UpdateObject, At
    <3>2. PICK o \in Oid : IsFirst(o, l) /\ rows' = [rows EXCEPT ![o] = row]
      BY <1>3, <3>1 DEF UpdateRow
    <3>3. RowsOf(l)' = RowsOf(l)
      BY <1>1, <1>3, <1>4, <3>2 DEF RowsOf, Present, IsFirst
    <3>4. IsFirst(o, l)'
      BY <3>2, <3>3 DEF IsFirst
    <3> QED
      BY <1>1, <3>2, <3>4
  <2> QED
    BY <2>1, <2>2
<1>8. PICK o \in Oid : IsFirst(o, l)' /\ rows'[o] = row
  BY <1>7
<1>9. \A p \in Oid : IsFirst(p, l)' => p = o
  BY <1>1, <1>8 DEF IsFirst
<1>10. ObjectExists(l)'
  BY <1>8 DEF IsFirst, ObjectExists
<1> QED
  BY <1>5, <1>8, <1>9, <1>10 DEF GetObject

(* A delete that runs alone leaves no row, and the file is gone. *)
LEMMA DeleteEnds ==
    ASSUME FileInv, AloneInv, NEW c \in Client, NEW l \in Loc, UnlinkFile(c),
           call[c].op = "delete", call[c].loc = l, call[c].alone
    PROVE  /\ GetObject(l)' = {NoObject}
           /\ call[c].row.file = NoFile \/ disk'[call[c].row.file] = "deleted"
<1>1. call[c].pc = "unlink" /\ UNCHANGED rows /\ disk' = Deleted(call[c].row.file)
  BY DEF UnlinkFile, At
<1>2. RowsOf(l)' = {}
  <2>1. ~ObjectExists(l)
    BY <1>1 DEF AloneInv, StillTrue
  <2> QED
    BY <1>1, <2>1 DEF ObjectExists, RowsOf, Present
<1>3. GetObject(l)' = {NoObject}
  <2>1. \A p : ~IsFirst(p, l)'
    BY <1>2 DEF IsFirst
  <2>2. ~ObjectExists(l)'
    BY <1>2 DEF ObjectExists
  <2> QED
    BY <2>1, <2>2 DEF GetObject
<1>4. ASSUME call[c].row.file # NoFile
      PROVE  disk'[call[c].row.file] = "deleted"
  <2>1. PICK f : f = call[c].row.file
    OBVIOUS
  <2>2. disk[f] # "unused"
    BY <1>1, <1>4, <2>1 DEF FileInv, Doomed
  <2>3. f \in File /\ disk \in [File -> Content \cup {"unused", "deleted"}]
    BY <1>4, <2>1 DEF FileInv, TypeInv, TypeOK, Call, Row
  <2> QED
    BY <1>1, <2>1, <2>2, <2>3 DEF Deleted, Exists
<1> QED
  BY <1>3, <1>4

(* A put or a delete that ran alone on its object leaves table and directory *)
(* as if there were no other requests, although nothing is locked between    *)
(* the question whether there is a row and the write of one, and however     *)
(* many requests for other objects come in between, the completion of an     *)
(* upload that has lost its row included (CreateOrUpdateObject,              *)
(* UpdateObject, DeleteObject); under the same assumptions as above.         *)
THEOREM AloneCallsAreSequential ==
    ASSUME HandlersOnly, LocIsNamed
    PROVE  Spec => AloneMeansSequential
<1> DEFINE Sequential(c, l) ==
               LET mine == call[c]
                   answers(op) == /\ mine.op = op /\ mine.loc = l /\ mine.alone
                                  /\ call'[c].pc = "idle"
               IN /\ answers("put") =>
                         /\ mine.pc = "update" => ObjectExists(l)
                         /\ GetObject(l)' = {mine.row}
                  /\ answers("delete") =>
                         /\ GetObject(l)' = {NoObject}
                         /\ mine.row.file = NoFile \/ disk'[mine.row.file] = "deleted"
           A == \A c \in Client, l \in Loc : Sequential(c, l)
<1>1. Spec => [](FileInv /\ AloneInv)
  BY InitFiles, NextFiles, InitAlone, NextAlone, PTL DEF Spec
<1>2. ASSUME FileInv, AloneInv, [Next]_vars, NEW c \in Client, NEW l \in Loc
      PROVE  Sequential(c, l)
  <2>1. call[c] \in Call /\ CallOK(call[c]) /\ FileCallOK(call[c]) /\ LocCallOK(call[c])
    BY <1>2 DEF FileInv, TypeInv, TypeOK, AloneInv
  <2>g. ASSUME NEW row, NEW q, GotoWith(c, row, q)
        PROVE  call'[c].pc = q
    <3>1. call'[c] = [call[c] EXCEPT !.pc = q, !.row = row]
      BY <1>2, <2>g, OneCall DEF FileInv, GotoWith
    <3> QED
      BY <2>1, <3>1 DEF Call
  <2>2. CASE call'[c].pc = call[c].pc
    BY <2>1, <2>2 DEF LocCallOK
  <2>3. CASE call'[c].pc # "idle"
    BY <2>3
  <2>4. CASE Handle(c) /\ call'[c].pc = "idle" /\ call[c].op = "put"
    <3>1. CreateObject(c) \/ UpdateObject(c)
      <4>1. ~WriteFile(c)
        <5>1. ASSUME NEW f, NEW x PROVE Written(c, f, x).pc # "idle"
          BY <2>1 DEF Written, Call
        <5>2. WriteFile(c) => \E f, x : call' = [call EXCEPT ![c] = Written(c, f, x)]
          BY DEF WriteFile
        <5> QED
          BY <1>2, <2>4, <5>1, <5>2, OneCall DEF FileInv
      <4>2. ~SumFile(c) /\ ~CreateOrUpdateObject(c)
        <5>1. SumFile(c) => \E row : GotoWith(c, row, "open")
          BY <2>4 DEF SumFile
        <5>2. CreateOrUpdateObject(c) => \E row, q : GotoWith(c, row, q) /\ q # "idle"
          BY DEF CreateOrUpdateObject
        <5> QED
          BY <2>4, <5>1, <5>2, <2>g
      <4> QED
        BY <2>1, <2>4, <4>1, <4>2
           DEF Handle, LocCallOK, At, KnownContent, Discard, FetchObject, CopyFile, EraseObject,
               UnlinkFile, DeleteNext, DeleteRows, RemoveBucket
    <3> QED
      BY <1>2, <2>4, <3>1, PutEnds
  <2>5. CASE Handle(c) /\ call'[c].pc = "idle" /\ call[c].op = "delete"
    <3>1. UnlinkFile(c)
      <4>1. FetchObject(c) => \E row : GotoWith(c, row, "erase")
        BY <2>5 DEF FetchObject
      <4>2. EraseObject(c) => call'[c].pc = "unlink"
        BY <1>2, GotoKeeps DEF EraseObject
      <4> QED
        BY <2>1, <2>5, <4>1, <4>2, <2>g
           DEF Handle, FileCallOK, At, WriteFile, KnownContent, Discard, SumFile,
               CreateOrUpdateObject, CreateObject, UpdateObject, CopyFile, DeleteNext, DeleteRows,
               RemoveBucket
    <3> QED
      BY <1>2, <2>5, <3>1, DeleteEnds
  <2>6. ASSUME NEW d \in Client, Handle(d), d # c
        PROVE  call'[c].pc = call[c].pc
    BY <1>2, <2>6, OtherCalls DEF FileInv
  <2>7. ASSUME NEW d \in Client, Request(d)
        PROVE  call'[c].pc = call[c].pc \/ call'[c].pc # "idle"
    <3>1. ASSUME NEW op, NEW x, NEW ks, NEW p, Beginning(d, op, x, ks, p)
          PROVE  call'[c].pc = call[c].pc \/ call'[c].pc # "idle"
      <4>1. p # "idle" /\ Begin(d, op, x, ks, p)
        BY <3>1 DEF Beginning
      <4>2. call'[d].pc = p /\ \A e \in Client : e # d => Keeps(e)
        BY <1>2, <4>1, BeginEffect DEF FileInv
      <4> QED
        BY <4>1, <4>2 DEF Keeps
    <3> QED
      BY <1>2, <2>7, <3>1, RequestBegins DEF FileInv
  <2>8. CASE \E row \in hashing : StoreHash(row) /\ disturbed
    BY <1>2, <2>8 DEF FileInv
  <2>9. CASE HasWorker /\ Worker /\ UNCHANGED untouched
    BY <2>9 DEF HandlersOnly
  <2>10. CASE UNCHANGED vars
    BY <2>2, <2>10 DEF vars
  <2> QED
    BY <1>2, <2>2, <2>3, <2>4, <2>5, <2>6, <2>7, <2>8, <2>9, <2>10 DEF Next
<1>3. [][A]_vars => AloneMeansSequential
  BY DEF AloneMeansSequential
<1>4. FileInv /\ AloneInv /\ [Next]_vars => [A]_vars
  BY <1>2
<1> HIDE DEF A
<1> QED
  BY <1>1, <1>3, <1>4, PTL DEF Spec
=============================================================================
