------------------------------ MODULE S3Proofs ------------------------------
(***************************************************************************)
(* Theorems about the objects of the S3 service, for any sets of buckets,  *)
(* keys, clients, files and row ids.                                       *)
(***************************************************************************)
EXTENDS S3Objects, TLAPS

(* What the program counter says about a call: it works on an object except  *)
(* in the loops over keys and buckets, and which request it is where the     *)
(* handlers share their steps.                                               *)
CallOK(k) ==
    /\ k \in Call
    /\ k.pc \notin {"idle", "batch", "remove"} => k.loc \in Loc
    /\ k.pc = "write" => k.op \in {"put", "complete"}
    /\ k.pc \in {"known", "sum"} => k.file \in File
    /\ k.pc \in {"known", "discard"} => k.op = "putVersion"
    /\ k.pc = "sum" => k.op \in {"put", "putVersion", "complete"}
    /\ k.pc \in {"erase", "unlink"} => k.op = "delete"

TypeInv == TypeOK /\ \A c \in Client : CallOK(call[c])

-----------------------------------------------------------------------------
LEMMA NoObjectType == NoObject \in Row
  BY DEF NoObject, Row, Sum

LEMMA NoCallOK == CallOK(NoCall)
  BY NoObjectType DEF NoCall, CallOK, Call, Steps

LEMMA GetObjectType ==
    ASSUME TypeOK, NEW l, NEW r \in GetObject(l)
    PROVE  r \in Row
  BY NoObjectType DEF TypeOK, GetObject

LEMMA SumOfType ==
    ASSUME TypeOK, NEW f \in File
    PROVE  SumOf(f) \in Sum
  BY DEF TypeOK, SumOf, Exists, Sum

LEMMA DeletedType ==
    ASSUME TypeOK, NEW f
    PROVE  Deleted(f) \in [File -> Content \cup {"unused", "deleted"}]
  BY DEF TypeOK, Deleted

LEMMA ErasedType ==
    ASSUME TypeOK, NEW L
    PROVE  Erased(L) \in [Oid -> Row]
  BY NoObjectType DEF TypeOK, Erased

LEMMA UpdateRowType ==
    ASSUME TypeOK, NEW r \in Row, UpdateRow(r)
    PROVE  rows' \in [Oid -> Row]
  BY DEF TypeOK, UpdateRow

LEMMA HashedType ==
    ASSUME TypeOK, NEW r \in Row, NEW w
    PROVE  \A h \in Hashed(r, w) : h \subseteq Row
  BY DEF TypeOK, Hashed

LEMMA StartedType ==
    ASSUME TypeOK, NEW c, call[c].loc \in Loc
    PROVE  Started(c) \in [Loc -> Nat]
<1> DEFINE l == call[c].loc
<1>1. l \in Loc /\ uploads[l] + 1 \in Nat
  BY DEF TypeOK
<1> HIDE DEF l
<1> QED
  BY <1>1 DEF TypeOK, Started, l

(* A step that changes one call. *)
LEMMA CallStep ==
    ASSUME TypeInv, NEW c \in Client, NEW k, CallOK(k),
           call' = [call EXCEPT ![c] = k]
    PROVE  call' \in [Client -> Call] /\ \A d \in Client : CallOK(call'[d])
  BY DEF TypeInv, TypeOK, CallOK

LEMMA DoneStep ==
    ASSUME TypeInv, NEW c \in Client, Done(c)
    PROVE  call' \in [Client -> Call] /\ \A d \in Client : CallOK(call'[d])
  BY CallStep, NoCallOK DEF Done

LEMMA DisturbedType ==
    ASSUME TypeOK, disturbed
    PROVE  worker' \in Pass
  BY DEF TypeOK, disturbed, Pass

(* The history flag and the counter say nothing about what a call does. *)
LEMMA AloneOK ==
    ASSUME NEW k, CallOK(k), NEW b \in BOOLEAN
    PROVE  CallOK([k EXCEPT !.alone = b])
  BY DEF CallOK, Call

LEMMA RequestCount ==
    ASSUME requests \in 0..MaxRequests, requests < MaxRequests, requests' = requests + 1
    PROVE  requests' \in 0..MaxRequests
  BY S3Assumption DEF S3Assumption

-----------------------------------------------------------------------------
(* The requests. *)

LEMMA BeginType ==
    ASSUME TypeInv, NEW c \in Client, NEW op, NEW l, NEW ks, NEW p, Begin(c, op, l, ks, p),
           CallOK([NoCall EXCEPT !.op = op, !.pc = p, !.loc = l, !.keys = ks, !.left = ks])
    PROVE  /\ call' \in [Client -> Call] /\ \A d \in Client : CallOK(call'[d])
           /\ requests' \in 0..MaxRequests
<1> DEFINE k == [NoCall EXCEPT !.op = op, !.pc = p, !.loc = l, !.keys = ks, !.left = ks]
           disjoint(d) == Touches(call[d]) \cap ({l} \cup ks) = {}
           n == \A e \in Client \ {c} : disjoint(e)
           mine == [NoCall EXCEPT !.op = op, !.pc = p, !.loc = l, !.keys = ks, !.left = ks,
                                  !.alone = n]
           both(d) == call[d].alone /\ disjoint(d)
<1>1. call' = [d \in Client |-> IF d = c THEN mine ELSE [call[d] EXCEPT !.alone = both(d)]]
  BY DEF Begin
<1>2. mine = [k EXCEPT !.alone = n]
  BY DEF NoCall
<1>3. CallOK(mine)
  <2>1. n \in BOOLEAN /\ CallOK(k)
    OBVIOUS
  <2> HIDE DEF n, mine, k
  <2> QED
    BY <1>2, <2>1, AloneOK
<1>4. ASSUME NEW d \in Client
      PROVE  CallOK([call[d] EXCEPT !.alone = both(d)])
  <2>1. CallOK(call[d]) /\ both(d) \in BOOLEAN
    BY DEF TypeInv
  <2> HIDE DEF both
  <2> QED
    BY <2>1, AloneOK
<1>5. requests' \in 0..MaxRequests
  BY RequestCount DEF Begin, TypeInv, TypeOK
<1> HIDE DEF mine, both
<1>6. \A d \in Client : CallOK(call'[d])
  BY <1>1, <1>3, <1>4
<1> QED
  BY <1>1, <1>5, <1>6 DEF CallOK

LEMMA RequestType ==
    ASSUME TypeInv, NEW c \in Client, Request(c), disturbed
    PROVE  TypeInv'
<1> DEFINE K(op, p, l, ks) ==
               [NoCall EXCEPT !.op = op, !.pc = p, !.loc = l, !.keys = ks, !.left = ks]
<1>w. worker' \in Pass
  BY DisturbedType DEF TypeInv
<1>1. ASSUME NEW op \in Ops \cap {"put", "complete"}, NEW l \in Loc
      PROVE  CallOK(K(op, "write", l, {}))
  BY NoObjectType DEF NoCall, CallOK, Call, Steps
<1>2. ASSUME NEW op \in Ops, NEW l \in Loc, NEW ks \in SUBSET Loc,
             NEW p \in {"copy", "fetch", "open"}
      PROVE  CallOK(K(op, p, l, ks))
  BY NoObjectType DEF NoCall, CallOK, Call, Steps
<1>3. ASSUME NEW op \in Ops, NEW l \in {NoLoc} \cup (Bucket \X {""}), NEW ks \in SUBSET Loc,
             NEW p \in {"batch", "remove"}
      PROVE  CallOK(K(op, p, l, ks))
  BY NoObjectType DEF NoCall, CallOK, Call, Steps
<1>4. ASSUME NEW op, NEW p, NEW l, NEW ks, Begin(c, op, l, ks, p), CallOK(K(op, p, l, ks)),
             buckets' = buckets, uploads' \in [Loc -> Nat]
      PROVE  TypeInv'
  <2>1. call' \in [Client -> Call] /\ (\A d \in Client : CallOK(call'[d]))
        /\ requests' \in 0..MaxRequests
    BY <1>4, BeginType
  <2>2. UNCHANGED <<rows, disk, hashing>>
    BY <1>4 DEF Begin
  <2> QED
    BY <1>4, <1>w, <2>1, <2>2 DEF TypeInv, TypeOK
<1> HIDE DEF K
<1>5. CASE CreateBucket(c)
  <2>1. requests' \in 0..MaxRequests
    BY <1>5, RequestCount DEF CreateBucket, TypeInv, TypeOK
  <2> QED
    BY <1>5, <1>w, <2>1 DEF CreateBucket, TypeInv, TypeOK
<1>6. CASE BeginDeleteBucket(c)
  <2>1. PICK b \in buckets : Begin(c, "deleteBucket", <<b, "">>, {}, "remove")
    BY <1>6 DEF BeginDeleteBucket
  <2>2. <<b, "">> \in Bucket \X {""} /\ "deleteBucket" \in Ops
    BY <2>1 DEF Begin, TypeInv, TypeOK
  <2>3. CallOK(K("deleteBucket", "remove", <<b, "">>, {}))
    <3> DEFINE l == <<b, "">>
    <3>1. l \in {NoLoc} \cup (Bucket \X {""})
      BY <2>2
    <3> HIDE DEF l
    <3>2. CallOK(K("deleteBucket", "remove", l, {}))
      BY <1>3, <2>2, <3>1
    <3> QED
      BY <3>2 DEF l
  <2>4. buckets' = buckets /\ uploads' \in [Loc -> Nat]
    BY <1>6 DEF BeginDeleteBucket, TypeInv, TypeOK
  <2> QED
    BY <1>4, <2>1, <2>3, <2>4
<1>7. CASE PutObject(c)
  <2>1. PICK l \in Loc : Begin(c, "put", l, {}, "write")
    BY <1>7 DEF PutObject
  <2>2. "put" \in Ops
    BY <2>1 DEF Begin
  <2> QED
    BY <1>1, <1>4, <1>7, <2>1, <2>2 DEF PutObject, TypeInv, TypeOK
<1>8. ASSUME NEW op, CopyOrMove(c, op)
      PROVE  TypeInv'
  <2>1. PICK src \in Loc, dst \in Loc : Begin(c, op, dst, {src}, "copy")
    BY <1>8 DEF CopyOrMove
  <2>2. op \in Ops
    BY <2>1 DEF Begin
  <2> QED
    BY <1>2, <1>4, <1>8, <2>1, <2>2 DEF CopyOrMove, TypeInv, TypeOK
<1>9. CASE DeleteObject(c)
  <2>1. PICK l \in Loc : Begin(c, "delete", l, {}, "fetch")
    BY <1>9 DEF DeleteObject
  <2>2. "delete" \in Ops
    BY <2>1 DEF Begin
  <2> QED
    BY <1>2, <1>4, <1>9, <2>1, <2>2 DEF DeleteObject, TypeInv, TypeOK
<1>10. CASE DeleteObjects(c)
  <2>1. PICK b \in buckets, ks \in KeySets : Begin(c, "deleteObjects", NoLoc, {b} \X ks, "batch")
    BY <1>10 DEF DeleteObjects
  <2>2. "deleteObjects" \in Ops /\ {b} \X ks \in SUBSET Loc
    BY <2>1, S3Assumption DEF Begin, TypeInv, TypeOK, Loc
  <2> QED
    BY <1>3, <1>4, <1>10, <2>1, <2>2 DEF DeleteObjects, TypeInv, TypeOK
<1>11. CASE CreateMultipartUpload(c)
  <2>1. PICK l \in Loc : Begin(c, "upload", l, {}, "open")
    BY <1>11 DEF CreateMultipartUpload
  <2>2. "upload" \in Ops
    BY <2>1 DEF Begin
  <2> QED
    BY <1>2, <1>4, <1>11, <2>1, <2>2 DEF CreateMultipartUpload, TypeInv, TypeOK
<1>12. CASE CompleteMultipartUpload(c)
  <2>1. PICK l \in Loc : /\ uploads[l] > 0
                         /\ uploads' = [uploads EXCEPT ![l] = @ - 1]
                         /\ Begin(c, "complete", l, {}, "write")
    BY <1>12 DEF CompleteMultipartUpload
  <2>2. "complete" \in Ops
    BY <2>1 DEF Begin
  <2>3. uploads \in [Loc -> Nat] /\ uploads[l] - 1 \in Nat
    BY <2>1 DEF TypeInv, TypeOK
  <2>4. uploads' \in [Loc -> Nat]
    BY <2>1, <2>3
  <2> QED
    BY <1>1, <1>4, <1>12, <2>1, <2>2, <2>4 DEF CompleteMultipartUpload
<1> QED
  BY <1>5, <1>6, <1>7, <1>8, <1>9, <1>10, <1>11, <1>12 DEF Request, CopyObject, MoveObject

-----------------------------------------------------------------------------
(* The steps of the handlers. *)

LEMMA GotoType ==
    ASSUME TypeInv, NEW c \in Client, NEW p, Goto(c, p), CallOK([call[c] EXCEPT !.pc = p])
    PROVE  call' \in [Client -> Call] /\ \A d \in Client : CallOK(call'[d])
  BY CallStep DEF Goto

LEMMA GotoWithType ==
    ASSUME TypeInv, NEW c \in Client, NEW p, NEW r, GotoWith(c, r, p),
           CallOK([call[c] EXCEPT !.pc = p, !.row = r])
    PROVE  call' \in [Client -> Call] /\ \A d \in Client : CallOK(call'[d])
  BY CallStep DEF GotoWith

LEMMA WriteFileType ==
    ASSUME TypeInv, NEW c \in Client, WriteFile(c), disturbed
    PROVE  TypeInv'
<1>1. PICK f \in File, d \in Content :
          /\ disk' = [disk EXCEPT ![f] = d]
          /\ \E s \in Claims(c, d) : call' = [call EXCEPT ![c] = Written(c, f, s)]
  BY DEF WriteFile
<1>2. PICK s \in Sum : call' = [call EXCEPT ![c] = Written(c, f, s)]
  BY <1>1 DEF Claims, Sum
<1> DEFINE k == call[c]
           r == [loc |-> k.loc, file |-> f, md5 |-> s, sha |-> NoSum]
<1>3. CallOK(k) /\ k.pc = "write"
  BY DEF WriteFile, At, TypeInv
<1>4. k.loc \in Loc
  BY <1>3 DEF CallOK
<1>5. r \in Row
  <2> HIDE DEF k
  <2> QED
    BY <1>4 DEF Row, Sum
<1>6. CallOK(Written(c, f, s))
  <2>1. Written(c, f, s) = [k EXCEPT !.file = f, !.row = r,
                                     !.op = IF IsVersioned(c) THEN "putVersion" ELSE @,
                                     !.pc = IF IsVersioned(c) THEN "known" ELSE "sum"]
    BY Zenon DEF Written
  <2> HIDE DEF k, r
  <2> QED
    BY <1>3, <1>4, <1>5, <2>1 DEF CallOK, Call, Steps
<1>7. call' \in [Client -> Call] /\ \A e \in Client : CallOK(call'[e])
  BY <1>2, <1>6, CallStep
<1>8. disk' \in [File -> Content \cup {"unused", "deleted"}]
  BY <1>1 DEF TypeInv, TypeOK
<1>9. worker' \in Pass /\ UNCHANGED <<buckets, rows, hashing, uploads, requests>>
  BY DisturbedType DEF TypeInv, WriteFile
<1> QED
  BY <1>7, <1>8, <1>9 DEF TypeInv, TypeOK

LEMMA CopyFileType ==
    ASSUME TypeInv, NEW c \in Client, CopyFile(c), disturbed
    PROVE  TypeInv'
<1>1. worker' \in Pass /\ UNCHANGED <<buckets, rows, hashing, uploads, requests>>
  BY DisturbedType DEF TypeInv, CopyFile
<1>2. CASE Done(c) /\ UNCHANGED disk
  BY <1>1, <1>2, DoneStep DEF TypeInv, TypeOK
<1>3. ASSUME NEW src \in call[c].keys, NEW row \in GetObject(src), NEW f \in File,
             row.file \in File, Exists(row.file),
             disk' = [disk EXCEPT ![f] = disk[row.file]],
             call' = [call EXCEPT ![c] = Copied(c, row, f)]
      PROVE  TypeInv'
  <2> DEFINE k == call[c]
             r == [row EXCEPT !.loc = k.loc, !.file = f]
  <2>1. CallOK(k) /\ k.pc = "copy"
    BY DEF CopyFile, At, TypeInv
  <2>2. k.loc \in Loc
    BY <2>1 DEF CallOK
  <2>3. row \in Row
    BY GetObjectType DEF TypeInv
  <2>4. r \in Row
    <3> HIDE DEF k
    <3> QED
      BY <2>2, <2>3 DEF Row
  <2>5. CallOK(Copied(c, row, f))
    <3>1. Copied(c, row, f) = [k EXCEPT !.file = f, !.pc = "create", !.row = r]
      BY DEF Copied
    <3> HIDE DEF k, r
    <3> QED
      BY <2>1, <2>2, <2>4, <3>1 DEF CallOK, Call, Steps
  <2>6. call' \in [Client -> Call] /\ \A d \in Client : CallOK(call'[d])
    BY <1>3, <2>5, CallStep
  <2>7. disk' \in [File -> Content \cup {"unused", "deleted"}]
    BY <1>3 DEF TypeInv, TypeOK
  <2> QED
    BY <1>1, <2>6, <2>7 DEF TypeInv, TypeOK
<1> QED
  BY <1>2, <1>3 DEF CopyFile

LEMMA SumFileType ==
    ASSUME TypeInv, NEW c \in Client, SumFile(c), disturbed
    PROVE  TypeInv'
<1> DEFINE k == call[c]
           r == Summed(c)
           p == CASE k.op = "put"        -> "open"
                  [] k.op = "putVersion" -> "create"
                  [] k.op = "complete"   -> "fetch"
<1>1. CallOK(k) /\ k.pc = "sum"
  BY DEF SumFile, At, TypeInv
<1>2. k.loc \in Loc /\ k.file \in File /\ k.row \in Row
  BY <1>1 DEF CallOK, Call
<1>3. r \in Row
  <2>1. SumOf(k.file) \in Sum
    BY <1>2, SumOfType DEF TypeInv
  <2>2. r = [k.row EXCEPT !.md5 = SumOf(k.file)]
    BY DEF Summed
  <2> HIDE DEF k, r
  <2> QED
    BY <1>2, <2>1, <2>2 DEF Row
<1>4. p \in {"open", "create", "fetch"}
  BY <1>1 DEF CallOK
<1>5. GotoWith(c, r, p) /\ hashing' \in Hashed(r, k.op = "put")
  BY Zenon DEF SumFile
<1> HIDE DEF r, p
<1>6. CallOK([k EXCEPT !.pc = p, !.row = r])
  BY <1>1, <1>2, <1>3, <1>4 DEF CallOK, Call, Steps
<1>7. call' \in [Client -> Call] /\ \A d \in Client : CallOK(call'[d])
  BY <1>5, <1>6, GotoWithType
<1>8. hashing' \subseteq Row
  BY <1>3, <1>5, HashedType DEF TypeInv
<1>9. worker' \in Pass /\ UNCHANGED <<buckets, rows, disk, uploads, requests>>
  BY DisturbedType DEF TypeInv, SumFile
<1> QED
  BY <1>7, <1>8, <1>9 DEF TypeInv, TypeOK

LEMMA OpenType ==
    ASSUME TypeInv, NEW c \in Client, CreateOrUpdateObject(c), disturbed
    PROVE  TypeInv'
<1> DEFINE k == call[c]
           r == [k.row EXCEPT !.loc = k.loc]
           p == IF IsThere(k.loc) THEN "update" ELSE "create"
<1>1. CallOK(k) /\ k.pc = "open"
  BY DEF CreateOrUpdateObject, At, TypeInv
<1>2. k.loc \in Loc /\ k.row \in Row
  BY <1>1 DEF CallOK, Call
<1>3. r \in Row
  BY <1>2 DEF Row
<1>4. p \in {"update", "create"} /\ GotoWith(c, r, p)
  BY DEF CreateOrUpdateObject
<1> HIDE DEF r, p
<1>5. CallOK([k EXCEPT !.pc = p, !.row = r])
  BY <1>1, <1>2, <1>3, <1>4 DEF CallOK, Call, Steps
<1>6. call' \in [Client -> Call] /\ \A d \in Client : CallOK(call'[d])
  BY <1>4, <1>5, GotoWithType
<1>7. worker' \in Pass /\ UNCHANGED <<buckets, rows, disk, hashing, uploads, requests>>
  BY DisturbedType DEF TypeInv, CreateOrUpdateObject
<1> QED
  BY <1>6, <1>7 DEF TypeInv, TypeOK

LEMMA FetchType ==
    ASSUME TypeInv, NEW c \in Client, FetchObject(c), disturbed
    PROVE  TypeInv'
<1> DEFINE k == call[c]
           r(row) == [row EXCEPT !.file = k.file, !.md5 = k.row.md5]
<1>1. CallOK(k) /\ k.pc = "fetch"
  BY DEF FetchObject, At, TypeInv
<1>2. k.loc \in Loc /\ k.row \in Row /\ k.file \in File \cup {NoFile}
  BY <1>1 DEF CallOK, Call
<1>3. PICK row \in GetObject(k.loc) :
          IF k.op = "delete" THEN GotoWith(c, row, "erase") ELSE GotoWith(c, r(row), "update")
  BY DEF FetchObject
<1>4. row \in Row
  BY GetObjectType DEF TypeInv
<1>5. r(row) \in Row
  <2> HIDE DEF k
  <2> QED
    BY <1>2, <1>4 DEF Row
<1>6. k.op = "delete" => CallOK([k EXCEPT !.pc = "erase", !.row = row])
  <2> HIDE DEF k
  <2> QED
    BY <1>1, <1>2, <1>4 DEF CallOK, Call, Steps
<1> HIDE DEF r
<1>7. CallOK([k EXCEPT !.pc = "update", !.row = r(row)])
  <2> HIDE DEF k
  <2> QED
    BY <1>1, <1>2, <1>5 DEF CallOK, Call, Steps
<1>8. call' \in [Client -> Call] /\ \A d \in Client : CallOK(call'[d])
  BY <1>3, <1>6, <1>7, GotoWithType
<1>9. worker' \in Pass /\ UNCHANGED <<buckets, rows, disk, hashing, uploads, requests>>
  BY DisturbedType DEF TypeInv, FetchObject
<1> QED
  BY <1>8, <1>9 DEF TypeInv, TypeOK

LEMMA StoreType ==
    ASSUME TypeInv, NEW c \in Client, CreateObject(c) \/ UpdateObject(c), disturbed
    PROVE  TypeInv'
<1> DEFINE k == call[c]
<1>1. CallOK(k) /\ k.pc \in {"create", "update"} /\ Done(c)
  BY DEF CreateObject, UpdateObject, At, TypeInv
<1>2. k.loc \in Loc /\ k.row \in Row
  BY <1>1 DEF CallOK, Call
<1>3. rows' \in [Oid -> Row]
  BY <1>2, UpdateRowType DEF CreateObject, UpdateObject, TypeInv, TypeOK
<1>4. hashing' \subseteq Row
  BY <1>2, HashedType DEF CreateObject, UpdateObject, TypeInv
<1>5. uploads' \in [Loc -> Nat]
  BY <1>2, StartedType DEF CreateObject, UpdateObject, TypeInv
<1>6. call' \in [Client -> Call] /\ \A d \in Client : CallOK(call'[d])
  BY <1>1, DoneStep
<1>7. worker' \in Pass /\ UNCHANGED <<buckets, disk, requests>>
  BY DisturbedType DEF TypeInv, CreateObject, UpdateObject
<1> QED
  BY <1>3, <1>4, <1>5, <1>6, <1>7 DEF TypeInv, TypeOK

LEMMA HandleType ==
    ASSUME TypeInv, NEW c \in Client, Handle(c), disturbed
    PROVE  TypeInv'
<1> DEFINE k == call[c]
<1>k. CallOK(k)
  BY DEF TypeInv
<1>w. worker' \in Pass
  BY DisturbedType DEF TypeInv
<1>1. CASE KnownContent(c)
  <2>1. k.pc = "known" /\ Goto(c, IF IsKnown(c) THEN "discard" ELSE "sum")
    BY <1>1 DEF KnownContent, At
  <2>2. k.file \in File
    BY <1>k, <2>1 DEF CallOK
  <2>3. \A p \in {"discard", "sum"} : CallOK([k EXCEPT !.pc = p])
    <3> HIDE DEF k
    <3> QED
      BY <1>k, <2>1, <2>2 DEF CallOK, Call, Steps
  <2>4. call' \in [Client -> Call] /\ \A d \in Client : CallOK(call'[d])
    BY <2>1, <2>3, GotoType
  <2> QED
    BY <1>1, <1>w, <2>4 DEF KnownContent, TypeInv, TypeOK
<1>2. CASE Discard(c)
  <2>1. call' \in [Client -> Call] /\ \A d \in Client : CallOK(call'[d])
    BY <1>2, DoneStep DEF Discard
  <2> QED
    BY <1>2, <1>w, <2>1, DeletedType DEF Discard, TypeInv, TypeOK
<1>3. CASE EraseObject(c)
  <2>1. k.pc = "erase" /\ Goto(c, "unlink")
    BY <1>3 DEF EraseObject, At
  <2>2. CallOK([k EXCEPT !.pc = "unlink"])
    <3> HIDE DEF k
    <3> QED
      BY <1>k, <2>1 DEF CallOK, Call, Steps
  <2>3. call' \in [Client -> Call] /\ \A d \in Client : CallOK(call'[d])
    BY <2>1, <2>2, GotoType
  <2> QED
    BY <1>3, <1>w, <2>3, ErasedType DEF EraseObject, TypeInv, TypeOK
<1>4. CASE UnlinkFile(c)
  <2>1. call' \in [Client -> Call] /\ \A d \in Client : CallOK(call'[d])
    BY <1>4, DoneStep DEF UnlinkFile
  <2> QED
    BY <1>4, <1>w, <2>1, DeletedType DEF UnlinkFile, TypeInv, TypeOK
<1>5. CASE DeleteNext(c)
  <2>1. UNCHANGED <<buckets, rows, hashing, uploads, requests>>
    BY <1>5 DEF DeleteNext
  <2>2. CASE Done(c) /\ UNCHANGED disk
    BY <1>w, <2>1, <2>2, DoneStep DEF TypeInv, TypeOK
  <2>3. ASSUME NEW l, NEW row, disk' = Deleted(row.file),
               call' = [call EXCEPT ![c] = [@ EXCEPT !.left = call[c].left \ {l}]]
        PROVE  TypeInv'
    <3> DEFINE rest == k.left \ {l}
    <3>1. k.pc = "batch"
      BY <1>5 DEF DeleteNext, At
    <3>2. rest \subseteq Loc
      BY <1>k DEF CallOK, Call
    <3>3. call' = [call EXCEPT ![c] = [k EXCEPT !.left = rest]]
      BY <2>3
    <3>4. CallOK([k EXCEPT !.left = rest])
      <4> HIDE DEF k, rest
      <4> QED
        BY <1>k, <3>1, <3>2 DEF CallOK, Call, Steps
    <3>5. call' \in [Client -> Call] /\ \A d \in Client : CallOK(call'[d])
      BY <3>3, <3>4, CallStep
    <3> QED
      BY <1>w, <2>1, <2>3, <3>5, DeletedType DEF TypeInv, TypeOK
  <2> QED
    BY <1>5, <2>2, <2>3 DEF DeleteNext
<1>6. CASE DeleteRows(c)
  <2>1. call' \in [Client -> Call] /\ \A d \in Client : CallOK(call'[d])
    BY <1>6, DoneStep DEF DeleteRows
  <2> QED
    BY <1>6, <1>w, <2>1, ErasedType DEF DeleteRows, TypeInv, TypeOK
<1>7. CASE RemoveBucket(c)
  <2>1. call' \in [Client -> Call] /\ \A d \in Client : CallOK(call'[d])
    BY <1>7, DoneStep DEF RemoveBucket
  <2> QED
    BY <1>7, <1>w, <2>1 DEF RemoveBucket, TypeInv, TypeOK
<1> QED
  BY <1>1, <1>2, <1>3, <1>4, <1>5, <1>6, <1>7, WriteFileType, CopyFileType, SumFileType,
     OpenType, FetchType, StoreType DEF Handle

LEMMA StoreHashType ==
    ASSUME TypeInv, NEW row \in hashing, StoreHash(row), disturbed
    PROVE  TypeInv'
<1> DEFINE r == [row EXCEPT !.sha = HashOf(row)]
<1>1. r \in Row
  BY DEF TypeInv, TypeOK, Row, HashOf, Sum
<1>2. rows' \in [Oid -> Row]
  BY <1>1, UpdateRowType DEF StoreHash, TypeInv
<1>3. worker' \in Pass
  BY DisturbedType DEF TypeInv
<1> QED
  BY <1>2, <1>3 DEF StoreHash, TypeInv, TypeOK

-----------------------------------------------------------------------------
(* The worker. *)

LEMMA WorkerType ==
    ASSUME TypeInv, Worker, UNCHANGED untouched
    PROVE  TypeInv'
<1> USE DEF TypeInv, TypeOK, untouched
<1>p. NoPass \in Pass
  BY NoObjectType DEF NoPass, Pass
<1>1. CASE StartPass
  <2>1. worker' \in Pass
    BY <1>1, <1>p DEF StartPass, Pass
  <2> QED
    BY <1>1, <2>1 DEF StartPass
<1>2. CASE ListObjects
  <2>1. \A b : {rows[o] : o \in GetBucketObjectList(b)} \subseteq Row
    BY DEF GetBucketObjectList
  <2>2. PICK b : worker' = [worker EXCEPT !.todo = @ \ {b},
                                          !.rows = {rows[o] : o \in GetBucketObjectList(b)}]
    BY <1>2 DEF ListObjects
  <2> DEFINE rest == worker.todo \ {b}
             list == {rows[o] : o \in GetBucketObjectList(b)}
  <2>3. rest \subseteq Bucket /\ list \subseteq Row
    BY <2>1 DEF Pass
  <2>4. worker' = [worker EXCEPT !.todo = rest, !.rows = list]
    BY <2>2
  <2> HIDE DEF rest, list
  <2>5. worker' \in Pass
    BY <2>3, <2>4 DEF Pass
  <2> QED
    BY <1>2, <2>5 DEF ListObjects
<1>3. CASE CheckRow
  <2> DEFINE p(row) == IF HasFile(row) THEN "rows" ELSE "erase"
             rest(row) == worker.rows \ {row}
  <2>1. PICK row \in worker.rows :
            worker' = [worker EXCEPT !.rows = rest(row), !.row = row, !.pc = p(row)]
    BY <1>3, Zenon DEF CheckRow
  <2>2. row \in Row /\ rest(row) \subseteq Row /\ p(row) \in {"rows", "erase"}
    BY DEF Pass
  <2> HIDE DEF p, rest
  <2>3. worker' \in Pass
    BY <2>1, <2>2 DEF Pass
  <2> QED
    BY <1>3, <2>3 DEF CheckRow
<1>4. CASE EraseRow
  <2>1. worker' \in Pass
    BY <1>4, NoObjectType DEF EraseRow, Pass
  <2> QED
    BY <1>4, <2>1, ErasedType DEF EraseRow
<1>5. CASE ScanDirectory
  <2>1. worker' \in Pass
    BY <1>5, NoObjectType DEF ScanDirectory, Pass
  <2> QED
    BY <1>5, <2>1 DEF ScanDirectory
<1>6. CASE CheckFile
  <2> DEFINE n(f) == IF IsReferenced(f) THEN NoFile ELSE f
             p(f) == IF IsReferenced(f) THEN "files" ELSE "unlink"
             rest(f) == worker.files \ {f}
  <2>1. PICK f \in worker.files :
            worker' = [worker EXCEPT !.files = rest(f), !.file = n(f), !.pc = p(f)]
    BY <1>6, Zenon DEF CheckFile
  <2>2. rest(f) \subseteq File /\ n(f) \in File \cup {NoFile} /\ p(f) \in {"files", "unlink"}
    BY DEF Pass
  <2> HIDE DEF n, p, rest
  <2>3. worker' \in Pass
    BY <2>1, <2>2 DEF Pass
  <2> QED
    BY <1>6, <2>3 DEF CheckFile
<1>7. CASE RemoveFile
  <2>1. worker' \in Pass
    BY <1>7 DEF RemoveFile, Pass
  <2> QED
    BY <1>7, <2>1, DeletedType DEF RemoveFile
<1>8. CASE EndPass
  BY <1>8, <1>p DEF EndPass
<1> QED
  BY <1>1, <1>2, <1>3, <1>4, <1>5, <1>6, <1>7, <1>8 DEF Worker

-----------------------------------------------------------------------------
LEMMA InitType == Init => TypeInv
<1> SUFFICES ASSUME Init PROVE TypeInv
  OBVIOUS
<1>1. \A c \in Client : call[c] = NoCall /\ CallOK(call[c])
  BY NoCallOK DEF Init
<1>2. call \in [Client -> Call]
  BY NoCallOK DEF Init, CallOK
<1>3. worker \in Pass
  BY NoObjectType DEF Init, NoPass, Pass
<1>4. requests \in 0..MaxRequests
  BY S3Assumption DEF Init
<1> QED
  BY <1>1, <1>2, <1>3, <1>4, NoObjectType DEF Init, TypeInv, TypeOK

LEMMA NextType == TypeInv /\ [Next]_vars => TypeInv'
<1> SUFFICES ASSUME TypeInv, [Next]_vars PROVE TypeInv'
  OBVIOUS
<1>1. ASSUME NEW c \in Client, Request(c) /\ disturbed PROVE TypeInv'
  BY <1>1, RequestType
<1>2. ASSUME NEW c \in Client, Handle(c) /\ disturbed PROVE TypeInv'
  BY <1>2, HandleType
<1>3. ASSUME NEW row \in hashing, StoreHash(row) /\ disturbed PROVE TypeInv'
  BY <1>3, StoreHashType
<1>4. CASE HasWorker /\ Worker /\ UNCHANGED untouched
  BY <1>4, WorkerType
<1>5. CASE UNCHANGED vars
  BY <1>5 DEF vars, TypeInv, TypeOK
<1> QED
  BY <1>1, <1>2, <1>3, <1>4, <1>5 DEF Next

(* In every behaviour the tables, the directory, the calls and the worker    *)
(* hold what they are meant to hold: rows, files and requests in a step of   *)
(* their handler (the whole of S3Service and S3Worker as modelled).          *)
THEOREM TypeCorrect == Spec => []TypeOK
<1>1. Spec => []TypeInv
  BY InitType, NextType, PTL DEF Spec
<1> QED
  BY <1>1, PTL DEF TypeInv

-----------------------------------------------------------------------------
(* The passes of the worker.                                                 *)

(* What the worker has listed is still in the table, or the object of it has *)
(* no row left.                                                              *)
Listed(r) == (\E o \in Oid : rows[o] = r) \/ (\A o \in Oid : Present(o) => rows[o].loc # r.loc)

Unreferenced(f) == Exists(f) /\ ~FileHasRow(f)

(* During a pass that nobody has disturbed yet.  QuietPassCleans needs the   *)
(* third part, QuietPassHarmsNothing the others.                             *)
PassInv ==
    worker.quiet =>
        /\ \A r \in worker.rows : Listed(r)
        /\ worker.pc = "erase" => /\ Listed(worker.row) /\ worker.row.file # NoFile
                                 /\ ~Exists(worker.row.file)
        /\ worker.pc \in {"files", "unlink"} =>
               \A f \in File : Unreferenced(f) =>
                   f \in worker.files \/ (worker.pc = "unlink" /\ f = worker.file)
        /\ worker.pc = "unlink" => ~FileHasRow(worker.file)

LEMMA NoPassInv ==
    ASSUME worker' = NoPass
    PROVE  PassInv'
  BY DEF PassInv, NoPass

LEMMA ListPass ==
    ASSUME TypeInv, PassInv, StartPass \/ ListObjects
    PROVE  PassInv'
<1>1. UNCHANGED <<rows, disk>> /\ worker \in Pass
  BY DEF StartPass, ListObjects, TypeInv, TypeOK
<1>2. CASE StartPass
  <2>1. worker'.rows = {} /\ worker'.pc = "rows"
    BY <1>2 DEF StartPass, NoPass
  <2> QED
    BY <2>1 DEF PassInv
<1>3. ASSUME NEW b, worker.pc = "rows",
             worker' = [worker EXCEPT !.todo = @ \ {b},
                                      !.rows = {rows[o] : o \in GetBucketObjectList(b)}]
      PROVE  PassInv'
  <2> DEFINE list == {rows[o] : o \in GetBucketObjectList(b)}
             rest == worker.todo \ {b}
  <2>1. \A r \in list : \E o \in Oid : rows[o] = r
    BY DEF GetBucketObjectList
  <2>2. worker' = [worker EXCEPT !.todo = rest, !.rows = list]
    BY <1>3
  <2> HIDE DEF list, rest
  <2>3. worker'.rows = list /\ worker'.pc = "rows"
    BY <1>1, <1>3, <2>2 DEF Pass
  <2> QED
    BY <1>1, <2>1, <2>3 DEF PassInv, Listed
<1> QED
  BY <1>2, <1>3 DEF ListObjects

LEMMA CheckRowPass ==
    ASSUME TypeInv, PassInv, CheckRow
    PROVE  PassInv'
<1> DEFINE p(row) == IF HasFile(row) THEN "rows" ELSE "erase"
           rest(row) == worker.rows \ {row}
<1>1. PICK row \in worker.rows :
          worker' = [worker EXCEPT !.rows = rest(row), !.row = row, !.pc = p(row)]
  BY Zenon DEF CheckRow
<1>2. /\ rest(row) \subseteq worker.rows /\ p(row) \in {"rows", "erase"}
      /\ p(row) = "erase" => row.file # NoFile /\ ~Exists(row.file)
  BY DEF HasFile
<1>3. UNCHANGED <<rows, disk>> /\ worker \in Pass
  BY DEF CheckRow, TypeInv, TypeOK
<1> HIDE DEF p, rest
<1>4. /\ worker'.rows = rest(row) /\ worker'.row = row /\ worker'.pc = p(row)
      /\ worker'.quiet = worker.quiet
  BY <1>1, <1>3 DEF Pass
<1> QED
  BY <1>2, <1>3, <1>4 DEF PassInv, Listed, Present, Exists

LEMMA EraseRowPass ==
    ASSUME TypeInv, PassInv, EraseRow
    PROVE  PassInv'
<1> DEFINE l == worker.row.loc
<1>1. /\ worker'.rows = worker.rows /\ worker'.pc = "rows" /\ worker'.quiet = worker.quiet
  BY DEF EraseRow, TypeInv, TypeOK, Pass
<1>2. \A o \in Oid : rows'[o] = IF rows[o].loc = l THEN NoObject ELSE rows[o]
  BY DEF EraseRow, Erased
<1> HIDE DEF l
<1>3. ASSUME NEW r, Listed(r)
      PROVE  Listed(r)'
  <2>1. CASE r.loc = l
    <3>1. \A o \in Oid : Present(o)' => rows'[o].loc # r.loc
      BY <1>2, <2>1 DEF Present
    <3> QED
      BY <3>1 DEF Listed
  <2>2. CASE r.loc # l
    <3>1. CASE \E o \in Oid : rows[o] = r
      BY <1>2, <2>2, <3>1 DEF Listed
    <3>2. CASE \A o \in Oid : Present(o) => rows[o].loc # r.loc
      BY <1>2, <3>2 DEF Listed, Present
    <3> QED
      BY <1>3, <3>1, <3>2 DEF Listed
  <2> QED
    BY <2>1, <2>2
<1> QED
  BY <1>1, <1>3 DEF PassInv

LEMMA ScanPass ==
    ASSUME TypeInv, PassInv, ScanDirectory
    PROVE  PassInv'
<1> DEFINE found == {f \in File : Exists(f)}
<1>1. worker' = [worker EXCEPT !.pc = "files", !.row = NoObject, !.files = found]
  BY DEF ScanDirectory
<1>2. UNCHANGED <<rows, disk>> /\ worker \in Pass
  BY DEF ScanDirectory, TypeInv, TypeOK
<1>3. \A f \in File : Unreferenced(f) => f \in found
  BY DEF Unreferenced
<1> HIDE DEF found
<1>4. /\ worker'.rows = worker.rows /\ worker'.pc = "files" /\ worker'.quiet = worker.quiet
      /\ worker'.files = found
  BY <1>1, <1>2 DEF Pass
<1>5. \A f : Unreferenced(f)' <=> Unreferenced(f)
  BY <1>2 DEF Unreferenced, Exists, FileHasRow, Present
<1>6. \A r : Listed(r)' <=> Listed(r)
  BY <1>2 DEF Listed, Present
<1> QED
  BY <1>3, <1>4, <1>5, <1>6 DEF PassInv

LEMMA CheckFilePass ==
    ASSUME TypeInv, PassInv, CheckFile
    PROVE  PassInv'
<1> DEFINE n(f) == IF IsReferenced(f) THEN NoFile ELSE f
           p(f) == IF IsReferenced(f) THEN "files" ELSE "unlink"
           rest(f) == worker.files \ {f}
<1>1. PICK f \in worker.files :
          worker' = [worker EXCEPT !.files = rest(f), !.file = n(f), !.pc = p(f)]
  BY Zenon DEF CheckFile
<1>2. UNCHANGED <<rows, disk>> /\ worker \in Pass /\ worker.pc = "files"
  BY DEF CheckFile, TypeInv, TypeOK
<1>3. /\ rest(f) = worker.files \ {f}
      /\ \/ FileHasRow(f) /\ p(f) = "files"
         \/ ~FileHasRow(f) /\ p(f) = "unlink" /\ n(f) = f
  BY DEF IsReferenced
<1> HIDE DEF n, p, rest
<1>4. /\ worker'.rows = worker.rows /\ worker'.pc = p(f) /\ worker'.quiet = worker.quiet
      /\ worker'.files = rest(f) /\ worker'.file = n(f)
  BY <1>1, <1>2 DEF Pass
<1>5. \A g : /\ Unreferenced(g)' <=> Unreferenced(g)
             /\ FileHasRow(g)' <=> FileHasRow(g)
  BY <1>2 DEF Unreferenced, Exists, FileHasRow, Present
<1>6. \A r : Listed(r)' <=> Listed(r)
  BY <1>2 DEF Listed, Present
<1>7. FileHasRow(f) => ~Unreferenced(f)
  BY DEF Unreferenced
<1> QED
  BY <1>2, <1>3, <1>4, <1>5, <1>6, <1>7 DEF PassInv

LEMMA RemoveFilePass ==
    ASSUME TypeInv, PassInv, RemoveFile
    PROVE  PassInv'
<1>1. /\ worker.pc = "unlink" /\ UNCHANGED rows
      /\ worker'.rows = worker.rows /\ worker'.pc = "files" /\ worker'.quiet = worker.quiet
      /\ worker'.files = worker.files
  BY DEF RemoveFile, TypeInv, TypeOK, Pass
<1>2. \A f \in File : Exists(f)' => Exists(f) /\ f # worker.file
  BY DEF RemoveFile, Deleted, Exists, TypeInv, TypeOK
<1>3. \A f \in File : Unreferenced(f)' => Unreferenced(f) /\ f # worker.file
  BY <1>1, <1>2 DEF Unreferenced, FileHasRow, Present
<1>4. \A r : Listed(r)' <=> Listed(r)
  BY <1>1 DEF Listed, Present
<1> QED
  BY <1>1, <1>3, <1>4 DEF PassInv

LEMMA PassNext == TypeInv /\ PassInv /\ [Next]_vars => PassInv'
<1> SUFFICES ASSUME TypeInv, PassInv, [Next]_vars PROVE PassInv'
  OBVIOUS
<1>1. CASE disturbed
  <2>1. worker'.quiet = FALSE
    BY <1>1 DEF disturbed, TypeInv, TypeOK, Pass
  <2> QED
    BY <2>1 DEF PassInv
<1>2. CASE Worker
  BY <1>2, ListPass, CheckRowPass, EraseRowPass, ScanPass, CheckFilePass, RemoveFilePass,
     NoPassInv DEF Worker, EndPass
<1>3. CASE UNCHANGED vars
  BY <1>3 DEF vars, PassInv, Listed, Unreferenced, Exists, FileHasRow, Present
<1> QED
  BY <1>1, <1>2, <1>3 DEF Next

LEMMA PassInit == Init => PassInv
  BY DEF Init, PassInv, NoPass

LEMMA PassInvariant == Spec => [](TypeInv /\ PassInv)
  BY InitType, NextType, PassInit, PassNext, PTL DEF Spec

(* A pass of the worker that nobody disturbs leaves no file without a row    *)
(* (S3Worker::SyncObjects), whatever the requests, hash threads and earlier  *)
(* passes have left behind: any number of buckets, objects and files.        *)
THEOREM QuietPassesClean == Spec => QuietPassCleans
<1> DEFINE A == worker.pc = "files" /\ worker'.pc = "idle" /\ worker.quiet =>
                    \A f \in File : Exists(f) => FileHasRow(f)
<1>1. ASSUME TypeInv, PassInv, Next, worker.pc = "files", worker'.pc = "idle", worker.quiet
      PROVE  \A f \in File : Exists(f) => FileHasRow(f)
  <2>1. ~disturbed /\ worker \in Pass
    BY <1>1 DEF disturbed, TypeInv, TypeOK, Pass
  <2>2. ~CheckFile
    <3> DEFINE n(f) == IF IsReferenced(f) THEN NoFile ELSE f
               p(f) == IF IsReferenced(f) THEN "files" ELSE "unlink"
               rest(f) == worker.files \ {f}
    <3> SUFFICES ASSUME CheckFile PROVE FALSE
      OBVIOUS
    <3>1. PICK f : worker' = [worker EXCEPT !.files = rest(f), !.file = n(f), !.pc = p(f)]
      BY Zenon DEF CheckFile
    <3>2. p(f) # "idle"
      OBVIOUS
    <3> HIDE DEF n, p, rest
    <3>3. worker'.pc = p(f)
      BY <2>1, <3>1 DEF Pass
    <3> QED
      BY <1>1, <3>2, <3>3
  <2>3. worker.files = {}
    BY <1>1, <2>1, <2>2 DEF Next, Worker, StartPass, ListObjects, CheckRow, EraseRow,
       ScanDirectory, RemoveFile, EndPass
  <2> QED
    BY <1>1, <2>3 DEF PassInv, Unreferenced
<1>2. TypeInv /\ PassInv /\ [Next]_vars => [A]_vars
  BY <1>1
<1>3. [][A]_vars => QuietPassCleans
  BY DEF QuietPassCleans
<1> HIDE DEF A
<1> QED
  BY <1>2, <1>3, PassInvariant, PTL DEF Spec

(* What the worker erases or removes while nobody disturbs it.               *)
LEMMA QuietStepHarmless ==
    ASSUME TypeInv, PassInv, Next, worker.quiet, worker'.quiet
    PROVE  /\ \A o \in Oid : Present(o) /\ (\A p \in RowsOf(rows[o].loc) : rows[p].file = NoFile \/ Exists(rows[p].file))
                             => rows'[o] = rows[o]
           /\ \A f \in File : Exists(f) /\ FileHasRow(f) => disk'[f] = disk[f]
<1>1. ~disturbed
  BY DEF disturbed, TypeInv, TypeOK, Pass
<1>2. CASE UNCHANGED <<rows, disk>>
  BY <1>2
<1>3. CASE EraseRow
  <2> DEFINE r == worker.row
  <2>1. /\ UNCHANGED disk
        /\ \A o \in Oid : rows'[o] = IF rows[o].loc = r.loc THEN NoObject ELSE rows[o]
    BY <1>3 DEF EraseRow, Erased
  <2>2. Listed(r) /\ r.file # NoFile /\ ~Exists(r.file)
    BY <1>3 DEF EraseRow, PassInv
  <2> HIDE DEF r
  <2>3. ASSUME NEW o \in Oid, Present(o), rows[o].loc = r.loc
        PROVE  \E p \in RowsOf(rows[o].loc) : rows[p].file # NoFile /\ ~Exists(rows[p].file)
    <3>1. PICK p \in Oid : rows[p] = r
      BY <2>2, <2>3 DEF Listed
    <3>2. Present(p)
      BY <2>2, <3>1 DEF Present, NoObject
    <3> QED
      BY <2>2, <2>3, <3>1, <3>2 DEF RowsOf
  <2> QED
    BY <2>1, <2>3
<1>4. CASE RemoveFile
  <2>1. UNCHANGED rows /\ ~FileHasRow(worker.file) /\ disk' = Deleted(worker.file)
    BY <1>4 DEF RemoveFile, PassInv
  <2>2. \A f \in File : f # worker.file => disk'[f] = disk[f]
    BY <2>1 DEF Deleted, TypeInv, TypeOK
  <2> QED
    BY <2>1, <2>2
<1> QED
  BY <1>1, <1>2, <1>3, <1>4 DEF Next, Worker, StartPass, ListObjects, CheckRow,
     ScanDirectory, CheckFile, EndPass

(* A pass of the worker that nobody disturbs erases no row of an object that *)
(* has its files and removes no file that has a row, although it decides on  *)
(* rows and files it has listed before (S3Worker::SyncObjects).              *)
THEOREM QuietPassesAreHarmless == Spec => QuietPassHarmsNothing
<1> DEFINE A == worker.quiet /\ worker'.quiet =>
           /\ \A o \in Oid : Present(o) /\ (\A p \in RowsOf(rows[o].loc) : rows[p].file = NoFile \/ Exists(rows[p].file))
                             => rows'[o] = rows[o]
           /\ \A f \in File : Exists(f) /\ FileHasRow(f) => disk'[f] = disk[f]
<1>1. TypeInv /\ PassInv /\ [Next]_vars => [A]_vars
  BY QuietStepHarmless
<1>2. [][A]_vars => QuietPassHarmsNothing
  BY DEF QuietPassHarmsNothing
<1> HIDE DEF A
<1> QED
  BY <1>1, <1>2, PassInvariant, PTL DEF Spec
=============================================================================
