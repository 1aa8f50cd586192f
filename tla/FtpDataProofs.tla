----------------------------- MODULE FtpDataProofs -----------------------------
(***************************************************************************)
(* What an FTP session moves, for any client, any number of transfers and  *)
(* files of any length: the types of its state, and what downloads and     *)
(* uploads of an orderly client carry.                                     *)
(***************************************************************************)
EXTENDS FtpProofs

-----------------------------------------------------------------------------
(* Types.                                                                    *)

Scalars ==
    /\ up \in BOOLEAN /\ control \in {"open", "quit", "lost"} /\ commands \in 0..MaxCommands
    /\ user \in User \cup {NoUser} /\ login \in User \cup {NoUser}
    /\ last \in {"USER", "RNFR", "other"}
    /\ renaming \in File \cup {NoFile} /\ deleting \in File \cup {NoFile}
    /\ passive \in Acceptor
    /\ orderly \in BOOLEAN /\ renamed \in BOOLEAN
Files ==
    /\ inodes \in [File -> Inode \cup {NoFile}]
    /\ content \in [Inode -> Bytes]
    /\ objects \in [File -> Bytes \cup {NoObject}]
Queues ==
    /\ accepts \in Seq(Transfer)
    /\ buffer \in Seq([t : Transfer, block : Data])
    /\ writing \in {NoWrite} \cup [t : Transfer, more : BOOLEAN]
    /\ bufferJobs \in Seq(BufferJobs) /\ fileJobs \in Seq(FileJobs)
Moved == transfer \in Seq(Transfers) /\ Count <= MaxTransfers

LEMMA TypeParts == TypeOK <=> Scalars /\ Files /\ Queues /\ Moved
BY DEF TypeOK, Scalars, Files, Queues, Moved

(* A write under way has data to write.                                      *)
WritesData == writing # NoWrite => Head(buffer).block # End

TypeInv ==
    /\ ReplyInv
    /\ TypeOK
    /\ WritesData

LEMMA Sequences ==
    ASSUME NEW S, NEW s \in Seq(S)
    PROVE  /\ \A x \in S : Append(s, x) \in Seq(S) /\ s \o <<x>> \in Seq(S)
           /\ s \o <<>> \in Seq(S)
           /\ s # <<>> => /\ Head(s) \in S /\ Tail(s) \in Seq(S)
                          /\ \A x \in S : <<x>> \o Tail(s) \in Seq(S)
<1>1. \A x \in S : <<x>> \in Seq(S)
  OBVIOUS
<1>2. <<>> \in Seq(S)
  OBVIOUS
<1>3. s # <<>> => Head(s) \in S /\ Tail(s) \in Seq(S)
  BY HeadTailProperties
<1>4. \A u, v \in Seq(S) : u \o v \in Seq(S)
  BY ConcatProperties
<1> QED
  BY <1>1, <1>2, <1>3, <1>4, AppendProperties

(* A record of a transfer keeps its type when a field changes.               *)
LEMMA FieldsTyped ==
    ASSUME NEW r \in Transfers
    PROVE  /\ \A v \in BOOLEAN : [r EXCEPT !.reading = v] \in Transfers
           /\ \A v \in BOOLEAN : [r EXCEPT !.eof = v] \in Transfers
           /\ \A v \in {"new", "open", "gone", "closed"} : [r EXCEPT !.socket = v] \in Transfers
           /\ \A v \in Nat : [r EXCEPT !.at = v] \in Transfers
           /\ \A v \in Nat : [r EXCEPT !.replies = v] \in Transfers
           /\ \A v \in Bytes : [r EXCEPT !.moved = v] \in Transfers
<1>1. \A v \in BOOLEAN : [r EXCEPT !.reading = v] \in Transfers
  BY DEF Transfers
<1>2. \A v \in BOOLEAN : [r EXCEPT !.eof = v] \in Transfers
  BY DEF Transfers
<1>3. \A v \in {"new", "open", "gone", "closed"} : [r EXCEPT !.socket = v] \in Transfers
  BY DEF Transfers
<1>4. \A v \in Nat : [r EXCEPT !.at = v] \in Transfers
  BY DEF Transfers
<1>5. \A v \in Nat : [r EXCEPT !.replies = v] \in Transfers
  BY DEF Transfers
<1>6. \A v \in Bytes : [r EXCEPT !.moved = v] \in Transfers
  BY DEF Transfers
<1> QED
  BY <1>1, <1>2, <1>3, <1>4, <1>5, <1>6

(* Transfers change one by one, without a new one.                           *)
LEMMA MovedChanges ==
    ASSUME Moved, NEW us, us = [t \in DOMAIN transfer |-> us[t]],
           \A t \in DOMAIN transfer : us[t] \in Transfers
    PROVE  us \in Seq(Transfers) /\ Len(us) = Count
<1>1. PICK n \in Nat : n = Len(transfer) /\ DOMAIN transfer = 1..n
  BY DEF Moved
<1>2. us = [t \in 1..n |-> us[t]] /\ \A t \in 1..n : us[t] \in Transfers
  BY <1>1
<1>3. us \in Seq(Transfers) /\ DOMAIN us = 1..n
  BY <1>2
<1>4. Len(us) = n
  BY <1>1, <1>3
<1> QED
  BY <1>1, <1>3, <1>4 DEF Count

LEMMA MovedOne ==
    ASSUME Moved, NEW t, NEW r, t \in DOMAIN transfer => r \in Transfers,
           transfer' = [transfer EXCEPT ![t] = r]
    PROVE  Moved'
<1>1. \A u \in DOMAIN transfer : transfer[u] \in Transfers
  BY DEF Moved
<1>2. PICK us : us = [transfer EXCEPT ![t] = r]
  OBVIOUS
<1>3. us = [u \in DOMAIN transfer |-> us[u]] /\ \A u \in DOMAIN transfer : us[u] \in Transfers
  BY <1>1, <1>2
<1>4. us \in Seq(Transfers) /\ Len(us) = Count
  BY <1>3, MovedChanges
<1>5. transfer' = us
  BY <1>2
<1> QED
  BY <1>4, <1>5 DEF Moved, Count, Transfers, Bytes, Block, Inode

LEMMA ScalarsStep ==
    ASSUME Scalars, [Next]_vars
    PROVE  Scalars'
<1> USE DEF Scalars
<1>1. CASE UNCHANGED vars
  BY <1>1 DEF vars, process, account, data, history
<1>2. CASE Command
  <2>1. \A c : Handle(c) => commands' \in 0..MaxCommands /\ last' \in {"USER", "RNFR", "other"}
    BY FtpAssumption DEF Handle
  <2>2. CASE (\E u \in User : USER(u)) \/ PASS \/ QUIT \/ PASV \/ NOOP
    BY <2>1, <2>2 DEF USER, PASS, QUIT, PASV, NOOP, data, history
  <2>3. CASE LIST \/ \E f \in File : RETR(f) \/ STOR(f) \/ APPE(f)
    BY <2>1, <2>3 DEF LIST, RETR, STOR, APPE, Start, data
  <2>4. CASE \E f \in File : RNFR(f) \/ RNTO(f) \/ DELE(f)
    BY <2>1, <2>4 DEF RNFR, RNTO, DELE, data, history
  <2> QED
    BY <1>2, <2>2, <2>3, <2>4 DEF Command
<1>3. CASE SendDeleteObjectRequest \/ Hangup \/ Accepted \/ Sending
  BY <1>3 DEF Acceptor, SendDeleteObjectRequest, Hangup, Accepted, Sending, process, account, data, history
<1>4. CASE Strands
  <2>1. CASE ReadFile \/ ReadEnds \/ writeDataToFile \/ endDataReceiving
    BY <2>1 DEF ReadFile, ReadEnds, writeDataToFile, endDataReceiving, LoggedIn, process, account, data, history
  <2>2. CASE LoadObject \/ StoreObject
    BY <2>2 DEF LoadObject, StoreObject, LoggedIn, process, account, data, history
  <2>3. CASE addDataToBufferAndSend \/ writeDataToSocket \/ Written
    BY <2>3 DEF addDataToBufferAndSend, writeDataToSocket, Written, process, account, data, history
  <2> QED
    BY <1>4, <2>1, <2>2, <2>3 DEF Strands
<1>5. CASE \E t \in DOMAIN transfer :
               ListEnds(t) \/ ReceiveBlock(t) \/ ReceiveLast(t) \/ ReceiveFails(t) \/ Break(t)
  BY <1>5 DEF ListEnds, ReceiveBlock, ReceiveLast, ReceiveFails, Break, process, account, data, history
<1> QED
  BY <1>1, <1>2, <1>3, <1>4, <1>5 DEF Next

LEMMA Numbers ==
    ASSUME Moved
    PROVE  /\ Count \in Nat /\ DOMAIN transfer = 1..Count /\ DOMAIN transfer \subseteq Transfer
           /\ \A t \in DOMAIN transfer : transfer[t] \in Transfers
           /\ Count < MaxTransfers => Count + 1 \in Transfer
<1>1. Count \in Nat /\ DOMAIN transfer = 1..Count /\ Count <= MaxTransfers
  BY DEF Moved, Count
<1>2. \A t \in DOMAIN transfer : transfer[t] \in Transfers
  BY DEF Moved
<1> QED
  BY <1>1, <1>2, FtpAssumption DEF Transfer

LEMMA JobsTyped ==
    ASSUME NEW t \in Transfer
    PROVE  /\ ReadData(t) \in FileJobs /\ PostEnd(t) \in FileJobs /\ EndReceiving(t) \in FileJobs
           /\ Load(t) \in FileJobs
           /\ \A b \in Block, more \in BOOLEAN : WriteFile(t, b, more) \in FileJobs
           /\ \A c \in Bytes : Store(t, c) \in FileJobs
           /\ \A b \in Data, more \in BOOLEAN : AddData(t, b, more) \in BufferJobs
           /\ \A more \in BOOLEAN : WriteData(t, more) \in BufferJobs
           /\ \A more, ok \in BOOLEAN : Sent(t, more, ok) \in BufferJobs
BY DEF FileJobs, BufferJobs, ReadData, PostEnd, EndReceiving, Load, WriteFile, Store, AddData, WriteData, Sent

LEMMA FileJobTyped ==
    ASSUME NEW j \in FileJobs
    PROVE  /\ j.t \in Transfer
           /\ j.op = "write" => j.block \in Block /\ j.more \in BOOLEAN
           /\ j.op = "store" => j.content \in Bytes
BY DEF FileJobs

LEMMA BufferJobTyped ==
    ASSUME NEW j \in BufferJobs
    PROVE  /\ j.t \in Transfer /\ j.more \in BOOLEAN
           /\ j.op = "add" => j.block \in Data
           /\ j.op = "sent" => j.ok \in BOOLEAN
BY DEF BufferJobs

(* What a step does to the typed state, the scalars left out.                *)
Typed == Files' /\ Queues' /\ Moved' /\ WritesData'

LEMMA SameQueues ==
    ASSUME TypeInv, UNCHANGED <<accepts, strands>> PROVE Queues' /\ WritesData'
<1>1. UNCHANGED <<accepts, buffer, writing, bufferJobs, fileJobs>>
  BY DEF strands
<1>2. Queues /\ WritesData
  BY TypeParts DEF TypeInv
<1> QED
  BY <1>1, <1>2 DEF Queues, WritesData, Data, BufferJobs, FileJobs, Block, Bytes, Inode, NoWrite, Transfer

LEMMA SameFiles ==
    ASSUME TypeInv, UNCHANGED disk PROVE Files'
<1>1. Files
  BY TypeParts DEF TypeInv
<1> QED
  BY <1>1 DEF Files, disk, Bytes, Block, Inode

LEMMA SameTransfers ==
    ASSUME TypeInv, UNCHANGED transfer PROVE Moved'
<1>1. Moved
  BY TypeParts DEF TypeInv
<1> QED
  BY <1>1 DEF Moved, Count, Transfers, Bytes, Block, Inode

(* Replies, and the closing of a data socket.                                *)
LEMMA RepliesTyped ==
    ASSUME Moved, NEW ts
    PROVE  LET us == ReplyTo(ts) IN
           /\ us \in Seq(Transfers) /\ Len(us) = Count
           /\ CloseData(us) \in Seq(Transfers) /\ Len(CloseData(us)) = Count
<1>1. PICK us : us = ReplyTo(ts)
  OBVIOUS
<1>2. \A t \in DOMAIN transfer : transfer[t] \in Transfers /\ transfer[t].replies \in Nat
  BY Numbers DEF Transfers
<1>3. us = [t \in DOMAIN transfer |-> us[t]]
  BY <1>1 DEF ReplyTo
<1>4. \A t \in DOMAIN transfer : us[t] \in Transfers
  <2> SUFFICES ASSUME NEW t \in DOMAIN transfer PROVE us[t] \in Transfers
    OBVIOUS
  <2>1. PICK r : r = transfer[t]
    OBVIOUS
  <2>2. PICK n \in Nat : n = r.replies + 1
    BY <1>2, <2>1
  <2>3. [r EXCEPT !.replies = n] \in Transfers
    BY <1>2, <2>1, FieldsTyped
  <2>4. us[t] = IF t \in ts THEN [r EXCEPT !.replies = n] ELSE r
    BY <1>1, <2>1, <2>2 DEF ReplyTo
  <2> QED
    BY <1>2, <2>1, <2>3, <2>4
<1>5. us \in Seq(Transfers) /\ Len(us) = Count
  BY <1>3, <1>4, MovedChanges
<1>6. PICK ws : ws = CloseData(us)
  OBVIOUS
<1>7. DOMAIN us = DOMAIN transfer
  BY <1>3
<1>8. ws = [t \in DOMAIN transfer |-> ws[t]]
  BY <1>6, <1>7 DEF CloseData
<1>9. \A t \in DOMAIN transfer : ws[t] \in Transfers
  <2> SUFFICES ASSUME NEW t \in DOMAIN transfer PROVE ws[t] \in Transfers
    OBVIOUS
  <2>1. PICK r : r = us[t]
    OBVIOUS
  <2>2. [r EXCEPT !.socket = "closed"] \in Transfers
    BY <1>4, <2>1, FieldsTyped
  <2>3. ws[t] = IF t = Count /\ r.socket = "open" THEN [r EXCEPT !.socket = "closed"] ELSE r
    BY <1>6, <1>7, <2>1 DEF CloseData
  <2> QED
    BY <1>4, <2>1, <2>2, <2>3
<1>10. ws \in Seq(Transfers) /\ Len(ws) = Count
  BY <1>8, <1>9, MovedChanges
<1> QED
  BY <1>1, <1>5, <1>6, <1>10

LEMMA StartTyped ==
    ASSUME TypeInv, NEW kind \in {"send", "list", "receive"}, NEW f \in File, NEW i \in Inode,
           Start(kind, f, i), Files'
    PROVE  Typed
<1>1. Moved /\ Queues /\ WritesData
  BY TypeParts DEF TypeInv
<1>2. Count < MaxTransfers /\ Count \in Nat /\ UNCHANGED strands
  BY <1>1, Numbers DEF Start
<1>3. PICK c \in Bytes : c = content'[i]
  BY DEF Files, Bytes, Block, Inode
<1>4. <<>> \in Bytes
  BY DEF Bytes
<1>5. PICK r \in Transfers : r = Opened(kind, f, i)
  <2> DEFINE x == [kind |-> kind, file |-> f, inode |-> i, at |-> 0, eof |-> FALSE, reading |-> FALSE,
                   socket |-> "new", start |-> c, moved |-> <<>>, replies |-> 0]
  <2>1. x \in Transfers
    BY <1>4 DEF Transfers
  <2>2. x = Opened(kind, f, i)
    BY <1>3 DEF Opened
  <2> QED
    BY <2>1, <2>2
<1>6. PICK q \in Transfers : q = [r EXCEPT !.replies = 1]
  BY FieldsTyped
<1>7. /\ transfer' = Append(transfer, r) \/ transfer' = Append(transfer, q)
      /\ accepts' = accepts \/ accepts' = Append(accepts, Count + 1)
  BY <1>5, <1>6 DEF Start
<1>8. transfer' \in Seq(Transfers) /\ Len(transfer') = Count + 1
  BY <1>1, <1>7 DEF Moved, Count
<1>9. Moved'
  BY <1>2, <1>8, FtpAssumption DEF Moved, Count, Transfers, Bytes, Block, Inode
<1>10. accepts' \in Seq(Transfer)
  <2>1. accepts \in Seq(Transfer)
    BY <1>1 DEF Queues
  <2>2. PICK x \in Transfer : x = Count + 1
    BY <1>1, <1>2, Numbers
  <2> QED
    BY <1>7, <2>1, <2>2
<1>11. UNCHANGED <<buffer, writing, bufferJobs, fileJobs>>
  BY <1>2 DEF strands
<1>12. Queues' /\ WritesData'
  BY <1>1, <1>10, <1>11 DEF Queues, WritesData, Data, BufferJobs, FileJobs, Block, Bytes, Inode, NoWrite, Transfer
<1> QED
  BY <1>9, <1>12 DEF Typed

LEMMA CommandTyped ==
    ASSUME TypeInv, Command
    PROVE  Typed
<1>1. /\ Moved /\ Queues /\ WritesData /\ inodes \in [File -> Inode \cup {NoFile}]
      /\ content \in [Inode -> Bytes] /\ objects \in [File -> Bytes \cup {NoObject}]
  BY TypeParts DEF TypeInv, Files
<1>2. <<>> \in Bytes /\ File \subseteq Inode /\ Bytes' = Bytes /\ (Inode \cup {NoFile})' = Inode \cup {NoFile}
  BY DEF Bytes, Block, Inode
<1>3. CASE UNCHANGED <<accepts, transfer, strands, disk>>
  BY <1>3, SameQueues, SameFiles, SameTransfers DEF Typed
<1>4. CASE PASV
  <2>1. transfer' = ReplyTo(Range(accepts)) /\ accepts' = <<>> /\ UNCHANGED <<strands, disk>>
    BY <1>4 DEF PASV, AbortAccepts
  <2>2. UNCHANGED <<buffer, writing, bufferJobs, fileJobs>>
    BY <2>1 DEF strands
  <2>3. Queues' /\ WritesData'
    BY <1>1, <2>1, <2>2 DEF Queues, WritesData, Data, BufferJobs, FileJobs, Block, Bytes, Inode, NoWrite, Transfer
  <2>4. PICK us : us = ReplyTo(Range(accepts)) /\ us \in Seq(Transfers) /\ Len(us) = Count
    BY <1>1, RepliesTyped
  <2>5. Moved'
    BY <1>1, <2>1, <2>4 DEF Moved, Count, Transfers, Bytes, Block, Inode
  <2> QED
    BY <2>1, <2>3, <2>5, SameFiles DEF Typed
<1>5. CASE LIST
  <2>1. PICK f \in File : Start("list", f, f)
    BY <1>5, FtpAssumption DEF LIST
  <2>2. UNCHANGED disk
    BY <1>5 DEF LIST, Start, disk
  <2> QED
    BY <1>2, <2>1, <2>2, SameFiles, StartTyped
<1>6. ASSUME NEW f \in File, RETR(f) PROVE Typed
  <2>1. PICK i \in Inode : i = inodes[f]
    BY <1>1, <1>6 DEF RETR
  <2>2. Start("send", f, i) /\ UNCHANGED disk
    BY <1>6, <2>1 DEF RETR, Start, Opened, disk
  <2> QED
    BY <2>2, SameFiles, StartTyped
<1>7. ASSUME NEW f \in File, APPE(f) PROVE Typed
  <2>1. PICK i \in Inode : i = inodes[f]
    BY <1>1, <1>7 DEF APPE
  <2>2. Start("receive", f, i) /\ UNCHANGED disk
    BY <1>7, <2>1 DEF APPE, Start, Opened, disk
  <2> QED
    BY <2>2, SameFiles, StartTyped
<1>8. ASSUME NEW f \in File, STOR(f) PROVE Typed
  <2>1. PICK i : /\ i = IF inodes[f] = NoFile THEN Count + 1 ELSE inodes[f]
                 /\ inodes' = [inodes EXCEPT ![f] = i]
                 /\ content' = [content EXCEPT ![i] = <<>>]
                 /\ Start("receive", f, i) /\ Count < MaxTransfers
    BY <1>8 DEF STOR
  <2>2. i \in Inode
    BY <1>1, <2>1, Numbers DEF Inode
  <2>3. objects' = objects
    BY <2>1 DEF Start
  <2>4. Files'
    BY <1>1, <1>2, <2>1, <2>2, <2>3 DEF Files
  <2> QED
    BY <2>1, <2>2, <2>4, StartTyped
<1>9. ASSUME NEW f \in File, RNTO(f) PROVE Typed
  <2>1. /\ inodes' = [inodes EXCEPT ![f] = inodes[renaming], ![renaming] = NoFile]
        /\ UNCHANGED <<accepts, transfer, strands, content, objects>>
    BY <1>9 DEF RNTO, data
  <2>2. renaming \in File
    BY <1>9, TypeParts DEF TypeInv, Scalars, RNTO
  <2>3. Files'
    BY <1>1, <1>2, <2>1, <2>2 DEF Files
  <2> QED
    BY <2>1, <2>3, SameQueues, SameTransfers DEF Typed
<1>10. ASSUME NEW f \in File, DELE(f) PROVE Typed
  <2>1. inodes' = [inodes EXCEPT ![f] = NoFile] /\ UNCHANGED <<accepts, transfer, strands, content, objects>>
    BY <1>10 DEF DELE, data
  <2>2. Files'
    BY <1>1, <1>2, <2>1 DEF Files
  <2> QED
    BY <2>1, <2>2, SameQueues, SameTransfers DEF Typed
<1>11. CASE (\E u \in User : USER(u)) \/ PASS \/ QUIT \/ NOOP \/ \E f \in File : RNFR(f)
  <2>1. UNCHANGED <<accepts, transfer, strands, disk>>
    BY <1>11 DEF USER, PASS, QUIT, NOOP, RNFR, data
  <2> QED
    BY <1>3, <2>1
<1> QED
  BY <1>4, <1>5, <1>6, <1>7, <1>8, <1>9, <1>10, <1>11 DEF Command

(* The steps of the connections, and of the server between them.             *)
LEMMA ConnectionTyped ==
    ASSUME TypeInv,
           \/ SendDeleteObjectRequest \/ Hangup \/ Accepted \/ Sending \/ UNCHANGED vars
           \/ \E t \in DOMAIN transfer : ListEnds(t) \/ Break(t)
    PROVE  Typed
<1>1. /\ Moved /\ Queues /\ WritesData /\ Files
      /\ objects \in [File -> Bytes \cup {NoObject}] /\ deleting \in File \cup {NoFile}
  BY TypeParts DEF TypeInv, Files, Scalars
<1>2. <<>> \in Bytes /\ Bytes' = Bytes
  BY DEF Bytes, Block, Inode
<1>3. CASE UNCHANGED vars
  <2>1. UNCHANGED <<accepts, transfer, strands, disk>>
    BY <1>3 DEF vars, data
  <2> QED
    BY <2>1, SameQueues, SameFiles, SameTransfers DEF Typed
<1>4. CASE SendDeleteObjectRequest
  <2>1. /\ objects' = [objects EXCEPT ![deleting] = NoObject]
        /\ UNCHANGED <<accepts, transfer, strands, inodes, content>>
    BY <1>4 DEF SendDeleteObjectRequest, data
  <2>2. Files'
    BY <1>1, <2>1 DEF Files, Bytes, Block, Inode
  <2> QED
    BY <2>1, <2>2, SameQueues, SameTransfers DEF Typed
<1>5. CASE Hangup
  <2>1. PICK us : us = CloseData(ReplyTo(Range(accepts))) /\ us \in Seq(Transfers) /\ Len(us) = Count
    BY <1>1, RepliesTyped
  <2>2. transfer' = us /\ accepts' = <<>> /\ UNCHANGED <<strands, disk>>
    BY <1>5, <2>1 DEF Hangup, AbortAccepts
  <2>3. UNCHANGED <<buffer, writing, bufferJobs, fileJobs>>
    BY <2>2 DEF strands
  <2>4. Queues' /\ WritesData'
    BY <1>1, <2>2, <2>3 DEF Queues, WritesData, Data, BufferJobs, FileJobs, Block, Bytes, Inode, NoWrite, Transfer
  <2>5. Moved'
    BY <1>1, <2>1, <2>2 DEF Moved, Count, Transfers, Bytes, Block, Inode
  <2> QED
    BY <2>2, <2>4, <2>5, SameFiles DEF Typed
<1>6. CASE Accepted
  <2>1. PICK t : t = Head(accepts)
    OBVIOUS
  <2>2. accepts # <<>> /\ accepts' = Tail(accepts) /\ UNCHANGED <<buffer, writing, disk>>
    BY <1>6 DEF Accepted
  <2>3. t \in Transfer /\ accepts' \in Seq(Transfer)
    BY <1>1, <2>1, <2>2, Sequences DEF Queues
  <2>4. PICK r : r = [transfer[t] EXCEPT !.socket = "open"]
    OBVIOUS
  <2>5. PICK q : q = [r EXCEPT !.reading = TRUE]
    OBVIOUS
  <2>6. t \in DOMAIN transfer => r \in Transfers /\ q \in Transfers
    BY <1>1, <2>4, <2>5, Numbers, FieldsTyped
  <2>7. transfer' = [transfer EXCEPT ![t] = r] \/ transfer' = [transfer EXCEPT ![t] = q]
    BY <1>6, <2>1, <2>4, <2>5 DEF Accepted
  <2>8. Moved'
    BY <1>1, <2>6, <2>7, MovedOne
  <2>9. PICK rd : rd = ReadData(t) /\ rd \in FileJobs
    BY <2>3, JobsTyped
  <2>10. <<rd, rd, rd>> \in Seq(FileJobs)
    BY <2>9
  <2>11. PICK ad : ad = AddData(t, <<0, 1>>, FALSE) /\ ad \in BufferJobs
    <3>1. <<0, 1>> \in Data
      BY DEF Data, Block
    <3> QED
      BY <2>3, <3>1, JobsTyped
  <2>12. /\ fileJobs' = fileJobs \/ fileJobs' = fileJobs \o <<rd, rd, rd>>
         /\ bufferJobs' = bufferJobs \/ bufferJobs' = Append(bufferJobs, ad)
    BY <1>6, <2>1, <2>9, <2>11 DEF Accepted
  <2>13. fileJobs' \in Seq(FileJobs) /\ bufferJobs' \in Seq(BufferJobs)
    <3>1. fileJobs \in Seq(FileJobs) /\ bufferJobs \in Seq(BufferJobs)
      BY <1>1 DEF Queues
    <3>2. PICK more \in Seq(FileJobs) : more = <<rd, rd, rd>>
      BY <2>10
    <3>3. fileJobs \o more \in Seq(FileJobs)
      BY <3>1, ConcatProperties
    <3>4. Append(bufferJobs, ad) \in Seq(BufferJobs)
      BY <2>11, <3>1, Sequences
    <3> QED
      BY <2>12, <3>1, <3>2, <3>3, <3>4
  <2>14. Queues' /\ WritesData'
    BY <1>1, <2>2, <2>3, <2>13 DEF Queues, WritesData, Data, BufferJobs, FileJobs, Block, Bytes, Inode, NoWrite, Transfer
  <2> QED
    BY <2>2, <2>8, <2>14, SameFiles DEF Typed
<1>7. CASE Sending
  <2>1. PICK t : t = writing.t
    OBVIOUS
  <2>2. PICK ok \in BOOLEAN : ok = (transfer[t].socket = "open")
    OBVIOUS
  <2>3. PICK b : b = Head(buffer).block
    OBVIOUS
  <2>4. PICK r : r = [transfer[t] EXCEPT !.moved = Append(@, b)]
    OBVIOUS
  <2>5. /\ writing # NoWrite /\ writing' = NoWrite /\ UNCHANGED <<accepts, buffer, fileJobs, disk>>
        /\ bufferJobs' = Append(bufferJobs, Sent(t, writing.more, ok))
        /\ transfer' = transfer \/ (b # Empty /\ transfer' = [transfer EXCEPT ![t] = r])
    BY <1>7, <2>1, <2>2, <2>3, <2>4 DEF Sending, data
  <2>6. t \in Transfer /\ writing.more \in BOOLEAN
    BY <1>1, <2>1, <2>5 DEF Queues
  <2>7. bufferJobs' \in Seq(BufferJobs)
    BY <1>1, <2>2, <2>5, <2>6, JobsTyped, Sequences DEF Queues
  <2>8. b \in Block \cup {Empty}
    <3>1. buffer # <<>>
      BY <2>5 DEF TypeInv, ReplyInv, Inv, OneWriter
    <3>2. Head(buffer) \in [t : Transfer, block : Data]
      BY <1>1, <3>1, Sequences DEF Queues
    <3> QED
      BY <1>1, <2>3, <2>5, <3>2 DEF WritesData, Data
  <2>9. t \in DOMAIN transfer /\ b # Empty => r \in Transfers
    <3> SUFFICES ASSUME t \in DOMAIN transfer, b # Empty PROVE r \in Transfers
      OBVIOUS
    <3>1. PICK q \in Transfers : q = transfer[t]
      BY <1>1, Numbers
    <3>2. q.moved \in Bytes /\ b \in Block
      BY <2>8 DEF Transfers
    <3>3. PICK m \in Bytes : m = Append(q.moved, b)
      <4>1. PICK c \in Seq(Block) : c = q.moved
        BY <3>2 DEF Bytes
      <4>2. Append(c, b) \in Seq(Block)
        BY <3>2, Sequences
      <4> QED
        BY <4>1, <4>2 DEF Bytes
    <3>4. [q EXCEPT !.moved = m] \in Transfers
      BY FieldsTyped
    <3> QED
      BY <2>4, <3>1, <3>3, <3>4
  <2>10. Moved'
    BY <1>1, <2>5, <2>9, MovedOne, SameTransfers
  <2>11. Queues' /\ WritesData'
    BY <1>1, <2>5, <2>7 DEF Queues, WritesData, Data, BufferJobs, FileJobs, Block, Bytes, Inode, NoWrite, Transfer
  <2> QED
    BY <2>5, <2>10, <2>11, SameFiles DEF Typed
<1>8. ASSUME NEW t \in DOMAIN transfer, ListEnds(t) PROVE Typed
  <2>1. PICK q \in Transfers : q = transfer[t]
    BY <1>1, Numbers
  <2>2. PICK r \in Transfers : r = [q EXCEPT !.reading = FALSE]
    BY FieldsTyped
  <2>3. /\ transfer' = [transfer EXCEPT ![t] = r] /\ bufferJobs' = Append(bufferJobs, AddData(t, End, FALSE))
        /\ UNCHANGED <<accepts, buffer, writing, fileJobs, disk>>
    BY <1>8, <2>1, <2>2 DEF ListEnds, data
  <2>4. bufferJobs' \in Seq(BufferJobs)
    <3>1. End \in Data /\ t \in Transfer
      BY <1>1, Numbers DEF Data
    <3> QED
      BY <1>1, <2>3, <3>1, JobsTyped, Sequences DEF Queues
  <2>5. Queues' /\ WritesData'
    BY <1>1, <2>3, <2>4 DEF Queues, WritesData, Data, BufferJobs, FileJobs, Block, Bytes, Inode, NoWrite, Transfer
  <2> QED
    BY <1>1, <2>3, <2>5, MovedOne, SameFiles DEF Typed
<1>9. ASSUME NEW t \in DOMAIN transfer, Break(t) PROVE Typed
  <2>1. PICK q \in Transfers : q = transfer[t]
    BY <1>1, Numbers
  <2>2. PICK r \in Transfers : r = [q EXCEPT !.socket = "gone"]
    BY FieldsTyped
  <2>3. transfer' = [transfer EXCEPT ![t] = r] /\ UNCHANGED <<accepts, strands, disk>>
    BY <1>9, <2>1, <2>2 DEF Break, data
  <2> QED
    BY <1>1, <2>3, MovedOne, SameQueues, SameFiles DEF Typed
<1> QED
  BY <1>3, <1>4, <1>5, <1>6, <1>7, <1>8, <1>9

(* The file strand.                                                          *)
LEMMA FileStrandTyped ==
    ASSUME TypeInv, ReadFile \/ ReadEnds \/ writeDataToFile \/ endDataReceiving \/ LoadObject \/ StoreObject
    PROVE  Typed
<1>1. /\ Moved /\ Queues /\ WritesData /\ Files /\ Shape
      /\ content \in [Inode -> Bytes] /\ objects \in [File -> Bytes \cup {NoObject}]
      /\ inodes \in [File -> Inode \cup {NoFile}]
  BY TypeParts DEF TypeInv, Files, ReplyInv
<1>2. PICK h : h = Head(fileJobs)
  OBVIOUS
<1>3. fileJobs # <<>> /\ UNCHANGED <<accepts, buffer, writing>>
  BY DEF ReadFile, ReadEnds, writeDataToFile, endDataReceiving, LoadObject, StoreObject, FileJob, data
<1>4. /\ h \in FileJobs /\ Tail(fileJobs) \in Seq(FileJobs)
      /\ \A x \in FileJobs : <<x>> \o Tail(fileJobs) \in Seq(FileJobs)
  BY <1>1, <1>2, <1>3, Sequences DEF Queues
<1>5. PICK t \in Transfer : t = h.t /\ t \in DOMAIN transfer
  BY <1>1, <1>2, <1>3, <1>4, FileJobTyped, FileHead
<1>6. PICK q \in Transfers : q = transfer[t]
  BY <1>1, <1>5, Numbers
<1>7. q.inode \in Inode /\ q.at \in Nat /\ q.file \in File
  BY <1>6 DEF Transfers
<1>8. <<>> \in Bytes /\ Bytes' = Bytes
  BY DEF Bytes, Block, Inode
<1>9. ASSUME fileJobs' \in Seq(FileJobs), bufferJobs' \in Seq(BufferJobs), Moved', Files'
      PROVE  Typed
  BY <1>1, <1>3, <1>9 DEF Typed, Queues, WritesData, Data, BufferJobs, FileJobs, Block, Bytes, Inode, NoWrite, Transfer
<1>10. bufferJobs \in Seq(BufferJobs)
  BY <1>1 DEF Queues
<1>11. CASE ReadFile
  <2>1. PICK c \in Seq(Block) : c = content[q.inode]
    BY <1>1, <1>7 DEF Bytes
  <2>2. PICK n \in Nat : n = q.at + 1
    BY <1>7
  <2>3. PICK b \in Data : b = IF n <= Len(c) THEN c[n] ELSE Empty
    <3>1. n >= 1
      BY <1>7, <2>2
    <3>2. n <= Len(c) => c[n] \in Block
      BY <2>1, <3>1
    <3> QED
      BY <3>2 DEF Data
  <2>4. PICK r \in Transfers : r = [q EXCEPT !.at = n]
    BY FieldsTyped
  <2>5. PICK e \in Transfers : e = [r EXCEPT !.eof = TRUE]
    BY FieldsTyped
  <2>6. /\ transfer' = transfer \/ transfer' = [transfer EXCEPT ![t] = r] \/ transfer' = [transfer EXCEPT ![t] = e]
        /\ \/ bufferJobs' = bufferJobs
           \/ bufferJobs' = Append(bufferJobs, AddData(t, b, TRUE))
           \/ bufferJobs' = Append(bufferJobs, AddData(t, b, FALSE))
        /\ fileJobs' = Tail(fileJobs) \/ fileJobs' = <<PostEnd(t)>> \o Tail(fileJobs)
        /\ UNCHANGED disk
    BY <1>2, <1>5, <1>6, <1>11, <2>1, <2>2, <2>3, <2>4, <2>5 DEF ReadFile
  <2>7. bufferJobs' \in Seq(BufferJobs) /\ fileJobs' \in Seq(FileJobs)
    <3>1. PICK x \in BufferJobs : x = AddData(t, b, TRUE)
      BY JobsTyped
    <3>2. PICK y \in BufferJobs : y = AddData(t, b, FALSE)
      BY JobsTyped
    <3>3. PICK e1 \in FileJobs : e1 = PostEnd(t)
      BY JobsTyped
    <3>4. Append(bufferJobs, x) \in Seq(BufferJobs) /\ Append(bufferJobs, y) \in Seq(BufferJobs)
      BY <1>10, Sequences
    <3> QED
      BY <1>4, <1>10, <2>6, <3>1, <3>2, <3>3, <3>4
  <2>8. Moved'
    BY <1>1, <2>6, MovedOne, SameTransfers
  <2> QED
    BY <1>9, <2>6, <2>7, <2>8, SameFiles
<1>12. CASE ReadEnds
  <2>1. /\ bufferJobs' = Append(bufferJobs, AddData(t, End, FALSE)) /\ fileJobs' = Tail(fileJobs)
        /\ UNCHANGED <<transfer, disk>>
    BY <1>2, <1>5, <1>12 DEF ReadEnds
  <2>2. End \in Data
    BY DEF Data
  <2>3. bufferJobs' \in Seq(BufferJobs)
    BY <1>10, <2>1, <2>2, JobsTyped, Sequences
  <2> QED
    BY <1>4, <1>9, <2>1, <2>3, SameFiles, SameTransfers
<1>13. CASE writeDataToFile
  <2>1. PICK more, b : more = h.more /\ b = h.block
    OBVIOUS
  <2>2. more \in BOOLEAN /\ b \in Block
    BY <1>2, <1>4, <1>13, <2>1, FileJobTyped DEF writeDataToFile, FileJob
  <2>3. PICK r \in Transfers : r = [q EXCEPT !.reading = more]
    BY <2>2, FieldsTyped
  <2>4. PICK i \in Inode : i = q.inode
    BY <1>7
  <2>5. PICK c \in Bytes : c = Append(content[i], b)
    <3>1. PICK d \in Seq(Block) : d = content[i]
      BY <1>1 DEF Bytes
    <3>2. Append(d, b) \in Seq(Block)
      BY <2>2, Sequences
    <3> QED
      BY <3>1, <3>2 DEF Bytes
  <2>6. /\ transfer' = [transfer EXCEPT ![t] = r] /\ content' = [content EXCEPT ![i] = c]
        /\ fileJobs' = Tail(fileJobs) /\ UNCHANGED <<bufferJobs, inodes, objects>>
    BY <1>2, <1>5, <1>6, <1>13, <2>1, <2>3, <2>4, <2>5 DEF writeDataToFile
  <2>7. Files'
    BY <1>1, <1>8, <2>6 DEF Files, Bytes, Block, Inode
  <2> QED
    BY <1>1, <1>4, <1>9, <1>10, <2>6, <2>7, MovedOne
<1>14. CASE endDataReceiving
  <2>1. transfer' = ReplyTo({t}) /\ fileJobs' = <<Load(t)>> \o Tail(fileJobs) /\ UNCHANGED <<bufferJobs, disk>>
    BY <1>2, <1>5, <1>14 DEF endDataReceiving
  <2>2. PICK us : us = ReplyTo({t}) /\ us \in Seq(Transfers) /\ Len(us) = Count
    BY <1>1, RepliesTyped
  <2>3. Moved'
    BY <1>1, <2>1, <2>2 DEF Moved, Count, Transfers, Bytes, Block, Inode
  <2> QED
    BY <1>4, <1>9, <1>10, <2>1, <2>3, JobsTyped, SameFiles
<1>15. CASE LoadObject
  <2>1. PICK c \in Bytes : fileJobs' = <<Store(t, c)>> \o Tail(fileJobs)
    <3>1. PICK f \in File : f = q.file
      BY <1>7
    <3>2. inodes[f] # NoFile => content[inodes[f]] \in Bytes
      BY <1>1
    <3>3. fileJobs' = <<Store(t, IF inodes[f] = NoFile THEN <<>> ELSE content[inodes[f]])>> \o Tail(fileJobs)
      BY <1>2, <1>5, <1>6, <1>15, <3>1 DEF LoadObject
    <3> QED
      BY <1>8, <3>2, <3>3
  <2>2. UNCHANGED <<transfer, bufferJobs, disk>>
    BY <1>15 DEF LoadObject
  <2> QED
    BY <1>4, <1>9, <1>10, <2>1, <2>2, JobsTyped, SameFiles, SameTransfers
<1>16. CASE StoreObject
  <2>1. PICK f \in File : f = q.file
    BY <1>7
  <2>2. PICK c \in Bytes : c = h.content
    BY <1>2, <1>4, <1>16, FileJobTyped DEF StoreObject, FileJob
  <2>3. /\ objects' = [objects EXCEPT ![f] = c]
        /\ fileJobs' = Tail(fileJobs) /\ UNCHANGED <<transfer, bufferJobs, inodes, content>>
    BY <1>2, <1>5, <1>6, <1>16, <2>1, <2>2 DEF StoreObject
  <2>4. Files'
    BY <1>1, <1>8, <2>3 DEF Files, Bytes, Block, Inode
  <2> QED
    BY <1>4, <1>9, <1>10, <2>3, <2>4, SameTransfers
<1> QED
  BY <1>11, <1>12, <1>13, <1>14, <1>15, <1>16

(* The strand of the buffer.                                                 *)
LEMMA BufferStrandTyped ==
    ASSUME TypeInv, addDataToBufferAndSend \/ writeDataToSocket \/ Written
    PROVE  Typed
<1>1. Moved /\ Queues /\ WritesData /\ Files /\ Inv
  BY TypeParts DEF TypeInv, ReplyInv
<1>2. PICK h : h = Head(bufferJobs)
  OBVIOUS
<1>3. bufferJobs # <<>> /\ UNCHANGED <<accepts, disk>>
  BY DEF addDataToBufferAndSend, writeDataToSocket, Written, BufferJob, data
<1>4. /\ bufferJobs \in Seq(BufferJobs) /\ buffer \in Seq([t : Transfer, block : Data])
      /\ fileJobs \in Seq(FileJobs)
      /\ h \in BufferJobs /\ Tail(bufferJobs) \in Seq(BufferJobs)
      /\ buffer # <<>> => Head(buffer) \in [t : Transfer, block : Data] /\ Tail(buffer) \in Seq([t : Transfer, block : Data])
  BY <1>1, <1>2, <1>3, Sequences DEF Queues
<1>5. h.t \in Transfer /\ h.more \in BOOLEAN
  BY <1>4, BufferJobTyped
<1>6. PICK w \in BufferJobs : w = WriteData(h.t, h.more)
  BY <1>5, JobsTyped
<1>7. Tail(bufferJobs) \o <<>> \in Seq(BufferJobs) /\ Tail(bufferJobs) \o <<w>> \in Seq(BufferJobs)
  BY <1>4, Sequences
<1>8. ASSUME buffer' \in Seq([t : Transfer, block : Data]), writing' \in {NoWrite} \cup [t : Transfer, more : BOOLEAN],
             bufferJobs' \in Seq(BufferJobs), fileJobs' \in Seq(FileJobs), Moved', WritesData'
      PROVE  Typed
  <2>1. Queues'
    BY <1>1, <1>3, <1>8 DEF Queues, Data, BufferJobs, FileJobs, Block, Bytes, Inode, NoWrite, Transfer
  <2> QED
    BY <1>3, <1>8, <2>1, SameFiles DEF Typed
<1>9. CASE addDataToBufferAndSend
  <2>1. /\ buffer' = Append(buffer, [t |-> h.t, block |-> h.block])
        /\ \/ bufferJobs' = Tail(bufferJobs) \o <<>>
           \/ bufferJobs' = Tail(bufferJobs) \o <<w>>
        /\ UNCHANGED <<transfer, writing, fileJobs>>
    BY <1>2, <1>6, <1>9 DEF addDataToBufferAndSend, Pushed
  <2>2. h.block \in Data
    BY <1>2, <1>4, <1>9, BufferJobTyped DEF addDataToBufferAndSend, BufferJob
  <2>3. PICK x \in [t : Transfer, block : Data] : x = [t |-> h.t, block |-> h.block]
    BY <1>5, <2>2
  <2>4. buffer' \in Seq([t : Transfer, block : Data])
    BY <1>4, <2>1, <2>3, Sequences
  <2>5. WritesData'
    <3>1. buffer # <<>> => Head(buffer') = Head(buffer)
      <4> DEFINE S == [t : Transfer, block : Data]
      <4>1. buffer \in Seq(S) /\ x \in S
        BY <1>4
      <4> HIDE DEF S
      <4>2. ASSUME buffer # <<>> PROVE Head(Append(buffer, x)) = Head(buffer)
        <5>1. Len(buffer) >= 1 /\ \A i \in 1..Len(buffer) : Append(buffer, x)[i] = buffer[i]
          BY <4>1, <4>2, AppendProperties
        <5>2. Head(buffer) = buffer[1] /\ Head(Append(buffer, x)) = Append(buffer, x)[1]
          OBVIOUS
        <5> QED
          BY <5>1, <5>2
      <4> QED
        BY <2>1, <2>3, <4>2
    <3>2. writing # NoWrite => buffer # <<>>
      BY <1>1 DEF Inv, OneWriter
    <3> QED
      BY <1>1, <2>1, <3>1, <3>2 DEF WritesData, NoWrite
  <2>6. writing' \in {NoWrite} \cup [t : Transfer, more : BOOLEAN]
    BY <1>1, <2>1 DEF Queues
  <2> QED
    BY <1>4, <1>7, <1>8, <2>1, <2>4, <2>5, <2>6, SameTransfers
<1>10. CASE writeDataToSocket
  <2>1. buffer # <<>> /\ writing = NoWrite
    BY <1>1, <1>10, LastWriter DEF writeDataToSocket, BufferJob, WriteOps
  <2>2. bufferJobs' \in Seq(BufferJobs) /\ fileJobs' \in Seq(FileJobs)
    BY <1>4, <1>10 DEF writeDataToSocket
  <2>3. CASE Head(buffer).block # End
    <3>1. writing' = [t |-> h.t, more |-> h.more] /\ UNCHANGED <<buffer, transfer>>
      BY <1>2, <1>10, <2>3 DEF writeDataToSocket, IsEnd
    <3>2. WritesData'
      BY <2>3, <3>1 DEF WritesData, End
    <3> QED
      BY <1>4, <1>5, <1>8, <2>2, <3>1, <3>2, SameTransfers
  <2>4. CASE Head(buffer).block = End
    <3>1. PICK us : us = ReplyTo({Head(buffer).t}) /\ us \in Seq(Transfers) /\ Len(us) = Count
      BY <1>1, RepliesTyped
    <3>2. buffer' = Tail(buffer) /\ transfer' = us /\ writing' = NoWrite
      BY <1>10, <2>1, <2>4, <3>1 DEF writeDataToSocket, IsEnd
    <3>3. Moved'
      BY <1>1, <3>1, <3>2 DEF Moved, Count, Transfers, Bytes, Block, Inode
    <3>4. WritesData'
      BY <3>2 DEF WritesData, NoWrite
    <3> QED
      BY <1>4, <1>8, <2>1, <2>2, <3>2, <3>3, <3>4
  <2> QED
    BY <2>3, <2>4
<1>11. CASE Written
  <2>1. buffer # <<>> /\ writing = NoWrite
    BY <1>1, <1>11, LastWriter DEF Written, BufferJob, WriteOps
  <2>2. /\ buffer' = Tail(buffer)
        /\ fileJobs' = fileJobs \/ fileJobs' = Append(fileJobs, ReadData(h.t))
        /\ \/ bufferJobs' = Tail(bufferJobs) \o <<>>
           \/ bufferJobs' = Tail(bufferJobs) \o <<w>>
        /\ UNCHANGED <<transfer, writing>>
    BY <1>2, <1>6, <1>11 DEF Written, NextWrite
  <2>3. fileJobs' \in Seq(FileJobs)
    <3>1. PICK rd \in FileJobs : rd = ReadData(h.t)
      BY <1>5, JobsTyped
    <3> QED
      BY <1>4, <2>2, <3>1, Sequences
  <2>4. WritesData'
    BY <2>1, <2>2 DEF WritesData, NoWrite
  <2> QED
    BY <1>4, <1>7, <1>8, <2>1, <2>2, <2>3, <2>4, SameTransfers
<1> QED
  BY <1>9, <1>10, <1>11

(* What is read from the data connection of an upload.                       *)
LEMMA ReceivingTyped ==
    ASSUME TypeInv, NEW t \in DOMAIN transfer, ReceiveBlock(t) \/ ReceiveLast(t) \/ ReceiveFails(t)
    PROVE  Typed
<1>1. Moved /\ Queues /\ WritesData /\ Files /\ fileJobs \in Seq(FileJobs) /\ t \in Transfer
  BY TypeParts, Numbers DEF TypeInv, Queues
<1>2. PICK q \in Transfers : q = transfer[t]
  BY <1>1, Numbers
<1>3. PICK b \in Block : b = <<t, Len(q.moved) + 1>>
  <2>1. PICK m \in Seq(Block) : m = q.moved
    BY DEF Transfers, Bytes
  <2>2. Len(m) + 1 \in Nat \ {0}
    OBVIOUS
  <2> QED
    BY <1>1, <2>1, <2>2 DEF Block, Inode
<1>4. PICK m \in Bytes : m = Append(q.moved, b)
  <2>1. PICK c \in Seq(Block) : c = q.moved
    BY DEF Transfers, Bytes
  <2>2. Append(c, b) \in Seq(Block)
    BY Sequences
  <2> QED
    BY <2>1, <2>2 DEF Bytes
<1>5. PICK r \in Transfers : r = [q EXCEPT !.reading = FALSE]
  BY FieldsTyped
<1>6. PICK p \in Transfers : p = [q EXCEPT !.moved = m]
  BY FieldsTyped
<1>7. PICK o \in Transfers : o = [p EXCEPT !.reading = FALSE]
  BY FieldsTyped
<1>8. PICK g \in Transfers : g = [o EXCEPT !.socket = "gone"]
  BY FieldsTyped
<1>9. PICK w1, w2, e \in FileJobs : w1 = WriteFile(t, b, TRUE) /\ w2 = WriteFile(t, b, FALSE) /\ e = EndReceiving(t)
  BY <1>1, JobsTyped
<1>10. /\ \E u \in {r, o, g} : transfer' = [transfer EXCEPT ![t] = u]
       /\ \/ fileJobs' = Append(fileJobs, w1) \/ fileJobs' = Append(fileJobs, e)
          \/ fileJobs' = fileJobs \o <<w2, e>>
       /\ UNCHANGED <<accepts, buffer, writing, bufferJobs, disk>>
  <2>1. CASE ReceiveBlock(t)
    BY <1>2, <1>3, <1>4, <1>6, <1>7, <1>9, <2>1 DEF ReceiveBlock, data
  <2>2. CASE ReceiveLast(t)
    BY <1>2, <1>3, <1>4, <1>6, <1>7, <1>8, <1>9, <2>2 DEF ReceiveLast, LastJobs, data
  <2>3. CASE ReceiveFails(t)
    BY <1>2, <1>5, <1>9, <2>3 DEF ReceiveFails, data
  <2> QED
    BY <2>1, <2>2, <2>3
<1>11. fileJobs' \in Seq(FileJobs)
  <2>1. w2 \in FileJobs /\ e \in FileJobs /\ w1 \in FileJobs
    OBVIOUS
  <2>2. fileJobs \o <<w2, e>> = Append(Append(fileJobs, w2), e)
    BY <1>1, TwoMore DEF IsSequence
  <2>3. PICK l \in Seq(FileJobs) : l = Append(fileJobs, w2)
    BY <1>1, <2>1, Sequences
  <2>4. Append(fileJobs, w1) \in Seq(FileJobs) /\ Append(fileJobs, e) \in Seq(FileJobs) /\ Append(l, e) \in Seq(FileJobs)
    BY <1>1, <2>1, Sequences
  <2> QED
    BY <1>10, <2>2, <2>3, <2>4
<1>12. Moved'
  BY <1>1, <1>10, MovedOne
<1>13. Queues' /\ WritesData'
  BY <1>1, <1>10, <1>11 DEF Queues, WritesData, Data, BufferJobs, FileJobs, Block, Bytes, Inode, NoWrite, Transfer
<1> QED
  BY <1>10, <1>12, <1>13, SameFiles DEF Typed

LEMMA InitTyped == Init => TypeInv
<1> SUFFICES ASSUME Init PROVE TypeInv
  OBVIOUS
<1>1. Scalars
  <2>1. /\ up = TRUE /\ control = "open" /\ commands = 0 /\ user = NoUser /\ login = NoUser
        /\ last = "other" /\ renaming = NoFile /\ deleting = NoFile /\ passive = "closed"
        /\ orderly = TRUE /\ renamed = FALSE
    BY DEF Init
  <2>2. 0 \in 0..MaxCommands
    BY FtpAssumption
  <2> QED
    BY <2>1, <2>2 DEF Scalars, Acceptor
<1>2. <<>> \in Bytes /\ Stored \subseteq Inode
  BY FtpAssumption DEF Bytes, Inode
<1>3. ASSUME NEW i \in Inode PROVE content[i] \in Bytes
  <2>1. CASE i \in Stored
    <3> DEFINE c == [n \in 1..StoredBlocks |-> <<i, n>>]
    <3>1. StoredBlocks \in Nat /\ \A n \in 1..StoredBlocks : <<i, n>> \in Block
      BY FtpAssumption DEF Block
    <3>2. c \in Seq(Block)
      BY <3>1
    <3>3. content[i] = c
      BY <2>1 DEF Init
    <3> QED
      BY <3>2, <3>3 DEF Bytes
  <2>2. CASE i \notin Stored
    BY <1>2, <2>2 DEF Init
  <2> QED
    BY <2>1, <2>2
<1>4. content \in [Inode -> Bytes]
  BY <1>3 DEF Init
<1>5. Files
  BY <1>2, <1>4, FtpAssumption DEF Files, Init
<1>6. Queues /\ Moved /\ WritesData
  <2>1. /\ accepts = <<>> /\ transfer = <<>> /\ buffer = <<>> /\ bufferJobs = <<>> /\ fileJobs = <<>>
        /\ writing = NoWrite
    BY DEF Init
  <2>2. \A S : <<>> \in Seq(S) /\ Len(<<>>) = 0
    OBVIOUS
  <2> QED
    BY <2>1, <2>2, FtpAssumption DEF Queues, Moved, WritesData, Count
<1> QED
  BY <1>1, <1>5, <1>6, TypeParts, InitReplies DEF TypeInv

LEMMA NextTyped ==
    ASSUME TypeInv, [Next]_vars
    PROVE  TypeInv'
<1>1. ReplyInv' /\ Scalars'
  BY NextReplies, ScalarsStep, TypeParts DEF TypeInv
<1>2. Typed
  BY CommandTyped, ConnectionTyped, FileStrandTyped, BufferStrandTyped, ReceivingTyped DEF Next, Strands
<1>3. TypeOK'
  BY <1>1, <1>2 DEF Typed, TypeOK, Scalars, Files, Queues, Moved
<1> QED
  BY <1>1, <1>2, <1>3 DEF TypeInv, Typed

LEMMA SpecTyped == Spec => []TypeInv
BY InitTyped, NextTyped, PTL DEF Spec

(* Whatever a session is asked, and however its connections break, its state *)
(* keeps its types: no null pointer, the end of a transmission, is ever      *)
(* written as data (writeDataToSocket), no job refers to a transfer there is *)
(* not, and blocks of files stay blocks of files or of uploads.              *)
THEOREM TypeCorrect == Spec => []TypeOK
<1>1. TypeInv => TypeOK
  BY DEF TypeInv
<1> QED
  BY <1>1, SpecTyped, PTL

-----------------------------------------------------------------------------
(* Sequences, element by element.                                            *)

LEMMA AppendAt ==
    ASSUME NEW s, NEW x, IsSequence(s)
    PROVE  /\ IsSequence(Append(s, x))
           /\ Len(s) \in Nat /\ DOMAIN s = 1..Len(s)
           /\ Len(Append(s, x)) = Len(s) + 1 /\ DOMAIN Append(s, x) = 1..(Len(s) + 1)
           /\ \A i \in 1..Len(s) : Append(s, x)[i] = s[i]
           /\ Append(s, x)[Len(s) + 1] = x
<1>1. PICK S : s \in Seq(S)
  BY DEF IsSequence
<1> DEFINE T == S \cup {x}
           a == Append(s, x)
<1>2. s \in Seq(T) /\ x \in T
  <2>1. \A i \in 1..Len(s) : s[i] \in T
    BY <1>1
  <2>2. s = [i \in 1..Len(s) |-> s[i]] /\ Len(s) \in Nat
    BY <1>1
  <2> QED
    BY <2>1, <2>2
<1> HIDE DEF T
<1>3. /\ a \in Seq(T) /\ Len(a) = Len(s) + 1
      /\ \A i \in 1..Len(s) : a[i] = s[i]
      /\ a[Len(s) + 1] = x
  BY <1>2, AppendProperties
<1>4. Len(s) \in Nat /\ DOMAIN s = 1..Len(s)
  BY <1>1
<1> HIDE DEF a
<1>5. DOMAIN a = 1..(Len(s) + 1) /\ IsSequence(a)
  BY <1>3 DEF IsSequence
<1> QED
  BY <1>3, <1>4, <1>5 DEF a

LEMMA TailAt ==
    ASSUME NEW s, IsSequence(s), s # <<>>
    PROVE  /\ IsSequence(Tail(s))
           /\ Len(s) \in Nat \ {0} /\ DOMAIN s = 1..Len(s) /\ Head(s) = s[1]
           /\ Len(Tail(s)) = Len(s) - 1 /\ DOMAIN Tail(s) = 1..(Len(s) - 1)
           /\ \A i \in 1..(Len(s) - 1) : Tail(s)[i] = s[i + 1]
<1>1. PICK S : s \in Seq(S)
  BY DEF IsSequence
<1> DEFINE u == Tail(s)
<1>2. u \in Seq(S) /\ Len(u) = Len(s) - 1 /\ \A i \in 1..(Len(s) - 1) : u[i] = s[i + 1]
  BY <1>1, HeadTailProperties
<1>3. Len(s) \in Nat \ {0} /\ DOMAIN s = 1..Len(s) /\ Head(s) = s[1]
  BY <1>1
<1> HIDE DEF u
<1>4. DOMAIN u = 1..(Len(s) - 1) /\ IsSequence(u)
  BY <1>2 DEF IsSequence
<1> QED
  BY <1>2, <1>3, <1>4 DEF u

LEMMA FirstAt ==
    ASSUME NEW s, NEW x, IsSequence(s), s # <<>>
    PROVE  LET r == <<x>> \o Tail(s) IN
           /\ IsSequence(r)
           /\ Len(s) \in Nat \ {0} /\ Len(r) = Len(s) /\ DOMAIN r = 1..Len(s) /\ DOMAIN s = 1..Len(s)
           /\ r[1] = x
           /\ \A i \in 2..Len(s) : r[i] = s[i]
<1> DEFINE u == Tail(s)
           r == <<x>> \o u
<1>1. /\ IsSequence(u) /\ Len(s) \in Nat \ {0} /\ Len(u) = Len(s) - 1 /\ DOMAIN s = 1..Len(s)
      /\ \A i \in 1..(Len(s) - 1) : u[i] = s[i + 1]
  BY TailAt
<1>2. PICK S : u \in Seq(S)
  BY <1>1 DEF IsSequence
<1> HIDE DEF u
<1> DEFINE T == S \cup {x}
<1>3. u \in Seq(T) /\ x \in T
  <2>1. \A i \in 1..Len(u) : u[i] \in T
    BY <1>2
  <2>2. u = [i \in 1..Len(u) |-> u[i]] /\ Len(u) \in Nat
    BY <1>2
  <2> QED
    BY <2>1, <2>2
<1> HIDE DEF T
<1>4. <<x>> \in Seq(T) /\ Len(<<x>>) = 1 /\ <<x>>[1] = x
  BY <1>3
<1>5. /\ r \in Seq(T) /\ Len(r) = 1 + Len(u)
      /\ \A i \in 1..(1 + Len(u)) : r[i] = IF i <= 1 THEN <<x>>[i] ELSE u[i - 1]
  BY <1>3, <1>4, ConcatProperties
<1> HIDE DEF r
<1>6. Len(r) = Len(s) /\ DOMAIN r = 1..Len(s) /\ IsSequence(r)
  BY <1>1, <1>5 DEF IsSequence
<1>7. r[1] = x
  BY <1>1, <1>4, <1>5
<1>8. ASSUME NEW i \in 2..Len(s) PROVE r[i] = s[i]
  <2>1. r[i] = u[i - 1]
    BY <1>1, <1>5, <1>8
  <2>2. i - 1 \in 1..(Len(s) - 1)
    BY <1>1, <1>8
  <2>3. u[i - 1] = s[(i - 1) + 1] /\ (i - 1) + 1 = i
    BY <1>1, <1>8, <2>2
  <2> QED
    BY <2>1, <2>3
<1> QED
  BY <1>1, <1>6, <1>7, <1>8 DEF r, u

LEMMA EmptyAt ==
    /\ IsSequence(<<>>) /\ Len(<<>>) = 0
    /\ \A s : IsSequence(s) /\ Len(s) = 0 => s = <<>>
<1>1. <<>> \in Seq({}) /\ Len(<<>>) = 0
  OBVIOUS
<1>2. ASSUME NEW s, IsSequence(s), Len(s) = 0 PROVE s = <<>>
  <2>1. PICK S : s \in Seq(S)
    BY <1>2 DEF IsSequence
  <2> QED
    BY <1>2, <2>1
<1> QED
  BY <1>1, <1>2 DEF IsSequence

-----------------------------------------------------------------------------
(***************************************************************************)
(* Downloads.  What a transfer sends is a list of items: the blocks of a   *)
(* file, or one empty block for an empty file, or a listing, and the end.  *)
(***************************************************************************)

Items(r) ==
    CASE r.kind = "send"    -> IF r.start = <<>> THEN 1 ELSE Len(r.start)
      [] r.kind = "list"    -> 1
      [] r.kind = "receive" -> 0
Total(r) == IF r.kind = "receive" THEN 0 ELSE Items(r) + 1
Item(r, i) ==
    IF i = Items(r) + 1 THEN End
    ELSE IF r.kind = "list" THEN <<0, 1>>
    ELSE IF r.start = <<>> THEN Empty ELSE r.start[i]

(* The buffer holds the items of transfer c from p + 1 on.                   *)
Queued(bo, r, c, p) ==
    /\ IsSequence(bo)
    /\ \A i \in 1..Len(bo) : bo[i].t = c /\ bo[i].block = Item(r, p + i)

(* The jobs of its strand are posted items of c, from q + 1 to k, and the    *)
(* job w that writes, if there is one.                                       *)
Ahead(w, i) == IF w # 0 /\ i > w THEN i - 1 ELSE i
Lined(bj, r, c, q, w, k) ==
    /\ IsSequence(bj)
    /\ \A i \in 1..Len(bj) :
        /\ bj[i].t = c
        /\ i = w => bj[i].op \in WriteOps
        /\ i # w => bj[i].op = "add" /\ bj[i].block = Item(r, q + Ahead(w, i))
    /\ w <= Len(bj)
    /\ k = q + (IF w = 0 THEN Len(bj) ELSE Len(bj) - 1)

(* The job that writes is at v in z where it was at w in s.                  *)
Writes(z, v, y) == v # 0 /\ z[v] = y
Follows(s, w, z, v) == (v # 0 <=> w # 0) /\ (w # 0 => z[v] = s[w])

LEMMA QueueMore ==
    ASSUME NEW bo, NEW r, NEW c, NEW p \in Nat, NEW x, Queued(bo, r, c, p),
           x.t = c, x.block = Item(r, p + Len(bo) + 1)
    PROVE  Queued(Append(bo, x), r, c, p) /\ Len(Append(bo, x)) = Len(bo) + 1 /\ Len(bo) \in Nat
<1> DEFINE a == Append(bo, x)
<1>1. /\ IsSequence(a) /\ Len(bo) \in Nat /\ Len(a) = Len(bo) + 1 /\ a[Len(bo) + 1] = x
      /\ \A i \in 1..Len(bo) : a[i] = bo[i]
  BY AppendAt DEF Queued
<1> HIDE DEF a
<1>2. ASSUME NEW i \in 1..Len(a) PROVE a[i].t = c /\ a[i].block = Item(r, p + i)
  <2>1. CASE i \in 1..Len(bo)
    BY <1>1, <2>1 DEF Queued
  <2>2. CASE i = Len(bo) + 1
    <3>1. p + i = p + Len(bo) + 1
      BY <1>1, <2>2
    <3> QED
      BY <1>1, <2>2, <3>1
  <2> QED
    BY <1>1, <1>2, <2>1, <2>2
<1> QED
  BY <1>1, <1>2 DEF Queued, a

LEMMA QueueLess ==
    ASSUME NEW bo, NEW r, NEW c, NEW p \in Nat, Queued(bo, r, c, p), bo # <<>>
    PROVE  /\ Head(bo).t = c /\ Head(bo).block = Item(r, p + 1)
           /\ Queued(Tail(bo), r, c, p + 1) /\ Len(Tail(bo)) = Len(bo) - 1 /\ Len(bo) \in Nat \ {0}
<1> DEFINE a == Tail(bo)
<1>1. /\ IsSequence(a) /\ Len(bo) \in Nat \ {0} /\ Len(a) = Len(bo) - 1 /\ Head(bo) = bo[1]
      /\ \A i \in 1..(Len(bo) - 1) : a[i] = bo[i + 1]
  BY TailAt DEF Queued
<1> HIDE DEF a
<1>2. ASSUME NEW i \in 1..Len(a) PROVE a[i].t = c /\ a[i].block = Item(r, (p + 1) + i)
  <2>1. a[i] = bo[i + 1] /\ i + 1 \in 1..Len(bo) /\ p + (i + 1) = (p + 1) + i
    BY <1>1, <1>2
  <2> QED
    BY <2>1 DEF Queued
<1>3. Head(bo).t = c /\ Head(bo).block = Item(r, p + 1)
  BY <1>1 DEF Queued
<1> QED
  BY <1>1, <1>2, <1>3 DEF Queued, a

(* Another item is posted.                                                   *)
LEMMA LineMore ==
    ASSUME NEW bj, NEW r, NEW c, NEW q \in Nat, NEW w \in Nat, NEW k \in Nat, NEW x,
           Lined(bj, r, c, q, w, k), x.t = c, x.op = "add", x.block = Item(r, k + 1)
    PROVE  /\ Lined(Append(bj, x), r, c, q, w, k + 1)
           /\ Follows(bj, w, Append(bj, x), w)
<1> DEFINE a == Append(bj, x)
<1>1. /\ IsSequence(a) /\ Len(bj) \in Nat /\ Len(a) = Len(bj) + 1 /\ a[Len(bj) + 1] = x
      /\ \A i \in 1..Len(bj) : a[i] = bj[i]
  BY AppendAt DEF Lined
<1> HIDE DEF a
<1>2. w <= Len(bj) /\ k = q + (IF w = 0 THEN Len(bj) ELSE Len(bj) - 1)
  BY DEF Lined
<1>3. w # 0 => a[w] = bj[w]
  BY <1>1, <1>2
<1>4. Lined(a, r, c, q, w, k + 1)
  <2>1. ASSUME NEW i \in 1..Len(a)
        PROVE  /\ a[i].t = c
               /\ i = w => a[i].op \in WriteOps
               /\ i # w => a[i].op = "add" /\ a[i].block = Item(r, q + Ahead(w, i))
    <3>1. CASE i \in 1..Len(bj)
      BY <1>1, <3>1 DEF Lined
    <3>2. CASE i = Len(bj) + 1
      <4>1. i # w /\ q + Ahead(w, i) = k + 1
        BY <1>1, <1>2, <3>2 DEF Ahead
      <4> QED
        BY <1>1, <3>2, <4>1
    <3> QED
      BY <1>1, <2>1, <3>1, <3>2
  <2>2. w <= Len(a) /\ k + 1 = q + (IF w = 0 THEN Len(a) ELSE Len(a) - 1)
    BY <1>1, <1>2
  <2> QED
    BY <1>1, <2>1, <2>2 DEF Lined
<1> QED
  BY <1>3, <1>4 DEF a, Follows

(* A job that writes is posted.                                              *)
LEMMA LineWrites ==
    ASSUME NEW bj, NEW r, NEW c, NEW q \in Nat, NEW k \in Nat, NEW x,
           Lined(bj, r, c, q, 0, k), x.t = c, x.op \in WriteOps
    PROVE  \E v \in Nat : Lined(Append(bj, x), r, c, q, v, k) /\ Writes(Append(bj, x), v, x)
<1> DEFINE a == Append(bj, x)
<1>1. /\ IsSequence(a) /\ Len(bj) \in Nat /\ Len(a) = Len(bj) + 1 /\ a[Len(bj) + 1] = x
      /\ \A i \in 1..Len(bj) : a[i] = bj[i]
  BY AppendAt DEF Lined
<1> HIDE DEF a
<1>2. k = q + Len(bj)
  BY DEF Lined
<1>3. PICK v \in Nat : v = Len(bj) + 1
  BY <1>1
<1>4. ASSUME NEW i \in 1..Len(a)
      PROVE  /\ a[i].t = c
             /\ i = v => a[i].op \in WriteOps
             /\ i # v => a[i].op = "add" /\ a[i].block = Item(r, q + Ahead(v, i))
  <2>1. CASE i \in 1..Len(bj)
    <3>1. i # 0 /\ i # v /\ Ahead(v, i) = i /\ Ahead(0, i) = i
      BY <1>1, <1>3, <2>1 DEF Ahead
    <3>2. a[i] = bj[i]
      BY <1>1, <2>1
    <3> QED
      BY <2>1, <3>1, <3>2 DEF Lined
  <2>2. CASE i = v
    BY <1>1, <1>3, <2>2
  <2> QED
    BY <1>1, <1>3, <1>4, <2>1, <2>2
<1>5. v <= Len(a) /\ v # 0 /\ k = q + (IF v = 0 THEN Len(a) ELSE Len(a) - 1)
  BY <1>1, <1>2, <1>3
<1>6. Lined(a, r, c, q, v, k)
  BY <1>1, <1>4, <1>5 DEF Lined
<1>7. v # 0 /\ a[v] = x
  BY <1>1, <1>3
<1> QED
  BY <1>6, <1>7 DEF a, Writes

(* The first job is an item.                                                 *)
LEMMA LineLess ==
    ASSUME NEW bj, NEW r, NEW c, NEW q \in Nat, NEW w \in Nat, NEW k \in Nat,
           Lined(bj, r, c, q, w, k), bj # <<>>, Head(bj).op = "add"
    PROVE  /\ Head(bj).t = c /\ Head(bj).block = Item(r, q + 1)
           /\ \E v \in Nat : Lined(Tail(bj), r, c, q + 1, v, k) /\ Follows(bj, w, Tail(bj), v)
<1> DEFINE a == Tail(bj)
<1>1. /\ IsSequence(a) /\ Len(bj) \in Nat \ {0} /\ Len(a) = Len(bj) - 1 /\ Head(bj) = bj[1]
      /\ \A i \in 1..(Len(bj) - 1) : a[i] = bj[i + 1]
  BY TailAt DEF Lined
<1> HIDE DEF a
<1>2. w <= Len(bj) /\ k = q + (IF w = 0 THEN Len(bj) ELSE Len(bj) - 1)
  BY DEF Lined
<1>3. /\ Head(bj).t = c
      /\ 1 = w => Head(bj).op \in WriteOps
      /\ 1 # w => Head(bj).op = "add" /\ Head(bj).block = Item(r, q + Ahead(w, 1))
  BY <1>1 DEF Lined
<1>4. ASSUME NEW i \in 1..Len(a)
      PROVE  /\ i + 1 \in 1..Len(bj) /\ a[i] = bj[i + 1] /\ a[i].t = c
             /\ i + 1 = w => a[i].op \in WriteOps
             /\ i + 1 # w => a[i].op = "add" /\ a[i].block = Item(r, q + Ahead(w, i + 1))
  <2>1. i + 1 \in 1..Len(bj) /\ a[i] = bj[i + 1]
    BY <1>1, <1>4
  <2> QED
    BY <2>1 DEF Lined
<1>5. /\ Head(bj).block = Item(r, q + 1)
      /\ \E v \in Nat : Lined(a, r, c, q + 1, v, k) /\ Follows(bj, w, a, v)
  <2>1. w # 1
    BY <1>3 DEF WriteOps
  <2>2. q + Ahead(w, 1) = q + 1
    BY <2>1 DEF Ahead
  <2>3. PICK v \in Nat : v = IF w = 0 THEN 0 ELSE w - 1
    OBVIOUS
  <2>4. ASSUME NEW i \in 1..Len(a)
        PROVE  /\ a[i].t = c
               /\ i = v => a[i].op \in WriteOps
               /\ i # v => a[i].op = "add" /\ a[i].block = Item(r, (q + 1) + Ahead(v, i))
    <3>1. i \in Nat /\ i # 0
      BY <1>1, <2>4
    <3>2. i = v => i + 1 = w
      BY <2>3, <3>1
    <3>3. i # v => i + 1 # w /\ q + Ahead(w, i + 1) = (q + 1) + Ahead(v, i)
      BY <2>1, <2>3, <3>1 DEF Ahead
    <3> QED
      BY <1>4, <3>2, <3>3
  <2>5. v <= Len(a) /\ k = (q + 1) + (IF v = 0 THEN Len(a) ELSE Len(a) - 1)
    <3>1. CASE w = 0
      BY <1>1, <1>2, <2>3, <3>1
    <3>2. CASE w # 0
      <4>1. v = w - 1 /\ v # 0
        BY <2>1, <2>3, <3>2
      <4> QED
        BY <1>1, <1>2, <3>2, <4>1
    <3> QED
      BY <3>1, <3>2
  <2>6. Lined(a, r, c, q + 1, v, k)
    BY <1>1, <2>4, <2>5 DEF Lined
  <2>7. v # 0 <=> w # 0
    BY <2>1, <2>3
  <2>8. w # 0 => a[v] = bj[w]
    <3>1. w # 0 => v = w - 1 /\ w - 1 \in 1..(Len(bj) - 1) /\ (w - 1) + 1 = w
      BY <1>1, <1>2, <2>1, <2>3
    <3> QED
      BY <1>1, <3>1
  <2>9. Head(bj).block = Item(r, q + 1)
    BY <1>3, <2>1, <2>2
  <2> QED
    BY <2>6, <2>7, <2>8, <2>9 DEF Follows
<1> QED
  BY <1>3, <1>5 DEF a

(* The first job writes.                                                     *)
LEMMA LineWrote ==
    ASSUME NEW bj, NEW r, NEW c, NEW q \in Nat, NEW w \in Nat, NEW k \in Nat,
           Lined(bj, r, c, q, w, k), bj # <<>>, Head(bj).op \in WriteOps
    PROVE  Head(bj).t = c /\ w = 1 /\ Head(bj) = bj[w] /\ Lined(Tail(bj), r, c, q, 0, k)
<1> DEFINE a == Tail(bj)
<1>1. /\ IsSequence(a) /\ Len(bj) \in Nat \ {0} /\ Len(a) = Len(bj) - 1 /\ Head(bj) = bj[1]
      /\ \A i \in 1..(Len(bj) - 1) : a[i] = bj[i + 1]
  BY TailAt DEF Lined
<1> HIDE DEF a
<1>2. w <= Len(bj) /\ k = q + (IF w = 0 THEN Len(bj) ELSE Len(bj) - 1)
  BY DEF Lined
<1>3. /\ Head(bj).t = c
      /\ 1 = w => Head(bj).op \in WriteOps
      /\ 1 # w => Head(bj).op = "add" /\ Head(bj).block = Item(r, q + Ahead(w, 1))
  BY <1>1 DEF Lined
<1>4. ASSUME NEW i \in 1..Len(a)
      PROVE  /\ i + 1 \in 1..Len(bj) /\ a[i] = bj[i + 1] /\ a[i].t = c
             /\ i + 1 = w => a[i].op \in WriteOps
             /\ i + 1 # w => a[i].op = "add" /\ a[i].block = Item(r, q + Ahead(w, i + 1))
  <2>1. i + 1 \in 1..Len(bj) /\ a[i] = bj[i + 1]
    BY <1>1, <1>4
  <2> QED
    BY <2>1 DEF Lined
<1>5. w = 1 /\ Head(bj) = bj[w] /\ Lined(a, r, c, q, 0, k)
  <2>1. w = 1
    BY <1>3 DEF WriteOps
  <2>2. ASSUME NEW i \in 1..Len(a)
        PROVE  a[i].t = c /\ i # 0 /\ a[i].op = "add" /\ a[i].block = Item(r, q + Ahead(0, i))
    <3>1. i \in Nat /\ i # 0
      BY <1>1, <2>2
    <3>2. i + 1 # w /\ Ahead(w, i + 1) = Ahead(0, i)
      BY <2>1, <3>1 DEF Ahead
    <3> QED
      BY <1>4, <3>1, <3>2
  <2>3. 0 <= Len(a) /\ k = q + Len(a)
    BY <1>1, <1>2, <2>1
  <2>4. Lined(a, r, c, q, 0, k)
    BY <1>1, <2>2, <2>3 DEF Lined
  <2> QED
    BY <1>1, <2>1, <2>4
<1> QED
  BY <1>3, <1>5 DEF a

-----------------------------------------------------------------------------
(* What no step changes of a transfer.                                       *)

Fixed(r, u) == u.kind = r.kind /\ u.file = r.file /\ u.inode = r.inode /\ u.start = r.start

(* The record u of a transfer is r with another value of field x.           *)
Differs(r, u, x) ==
    /\ Fixed(r, u)
    /\ x # "reading" => u.reading = r.reading
    /\ x # "socket" => u.socket = r.socket
    /\ x # "at" => u.at = r.at
    /\ x # "eof" => u.eof = r.eof
    /\ x # "moved" => u.moved = r.moved
    /\ x # "replies" => u.replies = r.replies

LEMMA OtherReading ==
    ASSUME NEW r \in Transfers, NEW v, NEW u, u = [r EXCEPT !.reading = v]
    PROVE  Differs(r, u, "reading") /\ u.reading = v
<1>1. DOMAIN r = Fields
  BY DEF Transfers, Fields
<1> QED
  BY <1>1 DEF Fields, Fixed, Differs

LEMMA OtherSocket ==
    ASSUME NEW r \in Transfers, NEW v, NEW u, u = [r EXCEPT !.socket = v]
    PROVE  Differs(r, u, "socket") /\ u.socket = v
<1>1. DOMAIN r = Fields
  BY DEF Transfers, Fields
<1> QED
  BY <1>1 DEF Fields, Fixed, Differs

LEMMA OtherAt ==
    ASSUME NEW r \in Transfers, NEW v, NEW u, u = [r EXCEPT !.at = v]
    PROVE  Differs(r, u, "at") /\ u.at = v
<1>1. DOMAIN r = Fields
  BY DEF Transfers, Fields
<1> QED
  BY <1>1 DEF Fields, Fixed, Differs

LEMMA OtherEof ==
    ASSUME NEW r \in Transfers, NEW v, NEW u, u = [r EXCEPT !.eof = v]
    PROVE  Differs(r, u, "eof") /\ u.eof = v
<1>1. DOMAIN r = Fields
  BY DEF Transfers, Fields
<1> QED
  BY <1>1 DEF Fields, Fixed, Differs

LEMMA OtherMoved ==
    ASSUME NEW r \in Transfers, NEW v, NEW u, u = [r EXCEPT !.moved = v]
    PROVE  Differs(r, u, "moved") /\ u.moved = v
<1>1. DOMAIN r = Fields
  BY DEF Transfers, Fields
<1> QED
  BY <1>1 DEF Fields, Fixed, Differs

LEMMA OtherReplies ==
    ASSUME NEW r \in Transfers, NEW v, NEW u, u = [r EXCEPT !.replies = v]
    PROVE  Differs(r, u, "replies") /\ u.replies = v
<1>1. DOMAIN r = Fields
  BY DEF Transfers, Fields
<1> QED
  BY <1>1 DEF Fields, Fixed, Differs

(* A step that changes the record of one transfer.                           *)
Only(t, r) ==
    /\ DOMAIN transfer' = DOMAIN transfer /\ Count' = Count
    /\ transfer'[t] = r
    /\ \A u \in DOMAIN transfer : u # t => transfer'[u] = transfer[u]

LEMMA OnlyOne ==
    ASSUME Moved, NEW t \in DOMAIN transfer, NEW r, transfer' = [transfer EXCEPT ![t] = r]
    PROVE  Only(t, r)
<1>1. PICK n \in Nat : n = Len(transfer) /\ DOMAIN transfer = 1..n
  BY DEF Moved
<1>2. PICK us : us = [transfer EXCEPT ![t] = r]
  OBVIOUS
<1>3. DOMAIN us = DOMAIN transfer /\ us[t] = r /\ \A u \in DOMAIN transfer : u # t => us[u] = transfer[u]
  BY <1>2
<1>4. transfer \in Seq(Transfers)
  BY DEF Moved
<1>5. us = [u \in 1..n |-> us[u]]
  BY <1>1, <1>2
<1>6. us \in Seq({us[u] : u \in 1..n})
  BY <1>5
<1>7. Len(us) = n
  BY <1>1, <1>3, <1>6
<1> QED
  BY <1>1, <1>2, <1>3, <1>7 DEF Only, Count

LEMMA OnlyReplies ==
    ASSUME TypeInv, NEW t \in DOMAIN transfer, transfer' = ReplyTo({t})
    PROVE  \E r : /\ Only(t, r) /\ Fixed(transfer[t], r) /\ r.replies > 0
                  /\ r.socket = transfer[t].socket /\ r.moved = transfer[t].moved
<1>1. Moved
  BY TypeParts DEF TypeInv
<1>2. PICK q \in Transfers : q = transfer[t]
  BY <1>1, Numbers
<1>3. q.replies \in Nat
  BY DEF Transfers
<1>4. PICK n \in Nat : n = q.replies + 1 /\ n > 0
  BY <1>3
<1>5. PICK r : r = [q EXCEPT !.replies = n]
  OBVIOUS
<1>6. Fixed(q, r) /\ r.replies = n /\ r.socket = q.socket /\ r.moved = q.moved
  BY <1>5, OtherReplies DEF Differs
<1>7. transfer' = [transfer EXCEPT ![t] = r]
  BY <1>2, <1>4, <1>5 DEF ReplyTo
<1>8. Only(t, r)
  BY <1>1, <1>7, OnlyOne
<1> QED
  BY <1>2, <1>4, <1>6, <1>8

LEMMA AcceptedOnly ==
    ASSUME TypeInv, Accepted, NEW t, t = Head(accepts)
    PROVE  /\ t \in DOMAIN transfer /\ t \in Range(accepts)
           /\ \E r : /\ Only(t, r) /\ Fixed(transfer[t], r)
                     /\ r.socket = "open" /\ r.replies = transfer[t].replies /\ r.moved = transfer[t].moved
                     /\ r.at = transfer[t].at /\ r.eof = transfer[t].eof
                     /\ transfer[t].kind = "send" => r.reading = transfer[t].reading
                     /\ transfer[t].kind # "send" => r.reading = TRUE
<1>1. Moved /\ Shape /\ accepts # <<>>
  BY TypeParts DEF TypeInv, ReplyInv, Accepted
<1>2. t \in Range(accepts) /\ t \in DOMAIN transfer
  BY <1>1, RangeTail DEF Shape
<1>3. PICK q \in Transfers : q = transfer[t]
  BY <1>1, <1>2, Numbers
<1>4. PICK o \in Transfers : o = [q EXCEPT !.socket = "open"]
  BY FieldsTyped
<1>5. PICK o2 : o2 = [o EXCEPT !.reading = TRUE]
  OBVIOUS
<1>6. /\ Fixed(q, o) /\ o.socket = "open" /\ o.replies = q.replies /\ o.moved = q.moved
      /\ o.at = q.at /\ o.eof = q.eof /\ o.reading = q.reading
  BY <1>4, OtherSocket DEF Differs
<1>7. /\ Fixed(o, o2) /\ o2.socket = o.socket /\ o2.replies = o.replies /\ o2.moved = o.moved
      /\ o2.at = o.at /\ o2.eof = o.eof /\ o2.reading = TRUE
  BY <1>5, OtherReading DEF Differs
<1>8. CASE q.kind = "send"
  <2>1. transfer' = [transfer EXCEPT ![t] = o]
    BY <1>3, <1>4, <1>8 DEF Accepted
  <2> QED
    BY <1>1, <1>2, <1>3, <1>6, <1>8, <2>1, OnlyOne
<1>9. CASE q.kind # "send"
  <2>1. transfer' = [transfer EXCEPT ![t] = o2]
    BY <1>3, <1>4, <1>5, <1>9 DEF Accepted
  <2>2. Fixed(q, o2)
    BY <1>6, <1>7 DEF Fixed
  <2> QED
    BY <1>1, <1>2, <1>3, <1>6, <1>7, <1>9, <2>1, <2>2, OnlyOne
<1> QED
  BY <1>8, <1>9

(* The read of a client's data, and the write of it to the file.             *)
LEMMA ReceivingOnly ==
    ASSUME TypeInv, NEW t \in DOMAIN transfer, ReceiveBlock(t) \/ ReceiveLast(t) \/ ReceiveFails(t)
    PROVE  \E r : /\ Only(t, r) /\ Fixed(transfer[t], r) /\ r.replies = transfer[t].replies
                  /\ r.socket = transfer[t].socket \/ (transfer[t].socket = "open" /\ r.socket = "gone")
                  /\ r.moved = IF ReceiveFails(t) THEN transfer[t].moved
                               ELSE Append(transfer[t].moved, <<t, Len(transfer[t].moved) + 1>>)
<1>1. Moved
  BY TypeParts DEF TypeInv
<1>2. PICK q \in Transfers : q = transfer[t]
  BY <1>1, Numbers
<1>3. PICK m : m = Append(q.moved, <<t, Len(q.moved) + 1>>)
  OBVIOUS
<1>4. m \in Bytes
  <2>1. PICK c \in Seq(Block) : c = q.moved
    BY DEF Transfers, Bytes
  <2>2. PICK b : b = <<t, Len(c) + 1>>
    OBVIOUS
  <2>3. t \in Inode /\ Len(c) + 1 \in Nat \ {0}
    BY <1>1, Numbers DEF Inode
  <2>4. b \in Block
    BY <2>2, <2>3 DEF Block
  <2>5. Append(c, b) \in Seq(Block)
    BY <2>4, Sequences
  <2> QED
    BY <1>3, <2>1, <2>2, <2>5 DEF Bytes
<1>5. PICK r \in Transfers : r = [q EXCEPT !.reading = FALSE]
  BY FieldsTyped
<1>6. PICK p \in Transfers : p = [q EXCEPT !.moved = m]
  BY <1>4, FieldsTyped
<1>7. PICK o \in Transfers : o = [p EXCEPT !.reading = FALSE]
  BY FieldsTyped
<1>8. PICK g \in Transfers : g = [o EXCEPT !.socket = "gone"]
  BY FieldsTyped
<1>9. /\ Fixed(q, r) /\ r.replies = q.replies /\ r.socket = q.socket /\ r.moved = q.moved
      /\ Fixed(q, p) /\ p.replies = q.replies /\ p.socket = q.socket /\ p.moved = m
  <2>1. Differs(q, r, "reading")
    BY <1>5, OtherReading
  <2>2. Differs(q, p, "moved") /\ p.moved = m
    BY <1>6, OtherMoved
  <2> QED
    BY <2>1, <2>2 DEF Differs
<1>10. /\ Fixed(p, o) /\ o.replies = p.replies /\ o.socket = p.socket /\ o.moved = p.moved
       /\ Fixed(o, g) /\ g.replies = o.replies /\ g.socket = "gone" /\ g.moved = o.moved
  <2>1. Differs(p, o, "reading")
    BY <1>7, OtherReading
  <2>2. Differs(o, g, "socket") /\ g.socket = "gone"
    BY <1>8, OtherSocket
  <2> QED
    BY <2>1, <2>2 DEF Differs
<1>11. Fixed(q, o) /\ Fixed(q, g)
  BY <1>9, <1>10 DEF Fixed
<1>12. CASE ReceiveFails(t)
  <2>1. transfer' = [transfer EXCEPT ![t] = r]
    BY <1>2, <1>5, <1>12 DEF ReceiveFails
  <2> QED
    BY <1>1, <1>2, <1>9, <1>12, <2>1, OnlyOne
<1>13. CASE ReceiveBlock(t)
  <2>1. transfer' = [transfer EXCEPT ![t] = o]
    BY <1>2, <1>3, <1>6, <1>7, <1>13 DEF ReceiveBlock
  <2>2. ~ReceiveFails(t)
    BY <1>13 DEF ReceiveBlock, ReceiveFails
  <2> QED
    BY <1>1, <1>2, <1>3, <1>9, <1>10, <1>11, <2>1, <2>2, OnlyOne
<1>14. CASE ReceiveLast(t)
  <2>1. transfer' = [transfer EXCEPT ![t] = g]
    BY <1>2, <1>3, <1>6, <1>7, <1>8, <1>14 DEF ReceiveLast
  <2>2. ~ReceiveFails(t) /\ q.socket = "open"
    BY <1>2, <1>14 DEF ReceiveLast, ReceiveFails
  <2> QED
    BY <1>1, <1>2, <1>3, <1>9, <1>10, <1>11, <2>1, <2>2, OnlyOne
<1> QED
  BY <1>12, <1>13, <1>14

LEMMA WriteFileOnly ==
    ASSUME TypeInv, writeDataToFile, NEW t, t = Head(fileJobs).t
    PROVE  /\ t \in DOMAIN transfer /\ transfer[t].kind = "receive"
           /\ \E r : /\ Only(t, r) /\ Fixed(transfer[t], r) /\ r.replies = transfer[t].replies
                     /\ r.socket = transfer[t].socket /\ r.moved = transfer[t].moved
                     /\ r.reading = Head(fileJobs).more
<1>1. Moved /\ Shape /\ fileJobs # <<>> /\ Head(fileJobs).op = "write"
  BY TypeParts DEF TypeInv, ReplyInv, writeDataToFile, FileJob
<1>2. t \in DOMAIN transfer /\ transfer[t].kind = "receive"
  BY <1>1, RangeTail DEF Shape, JobOK
<1>3. PICK q \in Transfers : q = transfer[t]
  BY <1>1, <1>2, Numbers
<1>4. PICK more : more = Head(fileJobs).more
  OBVIOUS
<1>5. PICK r : r = [q EXCEPT !.reading = more]
  OBVIOUS
<1>6. Fixed(q, r) /\ r.replies = q.replies /\ r.socket = q.socket /\ r.moved = q.moved /\ r.reading = more
  BY <1>5, OtherReading DEF Differs
<1>7. transfer' = [transfer EXCEPT ![t] = r]
  BY <1>3, <1>4, <1>5 DEF writeDataToFile
<1> QED
  BY <1>1, <1>2, <1>3, <1>4, <1>6, <1>7, OnlyOne

(* The client breaks the connection.                                         *)
LEMMA BreakOnly ==
    ASSUME TypeInv, NEW t \in DOMAIN transfer, Break(t)
    PROVE  /\ transfer[t].socket = "open"
           /\ \E r : /\ Only(t, r) /\ Fixed(transfer[t], r) /\ r.replies = transfer[t].replies
                     /\ r.socket = "gone" /\ r.moved = transfer[t].moved /\ r.reading = transfer[t].reading
                     /\ r.at = transfer[t].at /\ r.eof = transfer[t].eof
<1>1. Moved
  BY TypeParts DEF TypeInv
<1>2. PICK q \in Transfers : q = transfer[t]
  BY <1>1, Numbers
<1>3. PICK r : r = [q EXCEPT !.socket = "gone"]
  OBVIOUS
<1>4. /\ Fixed(q, r) /\ r.replies = q.replies /\ r.socket = "gone" /\ r.moved = q.moved
      /\ r.reading = q.reading /\ r.at = q.at /\ r.eof = q.eof
  BY <1>3, OtherSocket DEF Differs
<1>5. transfer' = [transfer EXCEPT ![t] = r] /\ q.socket = "open"
  BY <1>2, <1>3 DEF Break
<1> QED
  BY <1>1, <1>2, <1>4, <1>5, OnlyOne

LEMMA ListEndsOnly ==
    ASSUME TypeInv, NEW t \in DOMAIN transfer, ListEnds(t)
    PROVE  /\ transfer[t].kind = "list" /\ transfer[t].reading
           /\ \E r : /\ Only(t, r) /\ Fixed(transfer[t], r) /\ r.replies = transfer[t].replies
                     /\ r.socket = transfer[t].socket /\ r.moved = transfer[t].moved /\ r.reading = FALSE
<1>1. Moved
  BY TypeParts DEF TypeInv
<1>2. PICK q \in Transfers : q = transfer[t]
  BY <1>1, Numbers
<1>3. PICK r : r = [q EXCEPT !.reading = FALSE]
  OBVIOUS
<1>4. /\ Fixed(q, r) /\ r.replies = q.replies /\ r.socket = q.socket /\ r.moved = q.moved /\ r.reading = FALSE
  BY <1>3, OtherReading DEF Differs
<1>5. transfer' = [transfer EXCEPT ![t] = r] /\ q.kind = "list" /\ q.reading
  BY <1>2, <1>3 DEF ListEnds
<1> QED
  BY <1>1, <1>2, <1>4, <1>5, OnlyOne

(* A read of the file that is not after its end.                             *)
LEMMA ReadFileOnly ==
    ASSUME TypeInv, ReadFile, NEW t, t = Head(fileJobs).t, ~transfer[t].eof
    PROVE  /\ t \in DOMAIN transfer /\ Downloading(t, transfer)
           /\ \E r : /\ Only(t, r) /\ Fixed(transfer[t], r) /\ r.replies = transfer[t].replies
                     /\ r.socket = transfer[t].socket /\ r.moved = transfer[t].moved
                     /\ r.reading = transfer[t].reading /\ r.at = transfer[t].at + 1
                     /\ r.eof = (transfer[t].at + 1 >= Len(content[transfer[t].inode]))
<1>1. Moved /\ Shape /\ Files /\ fileJobs # <<>> /\ Head(fileJobs).op = "read"
  BY TypeParts DEF TypeInv, ReplyInv, ReadFile, FileJob
<1>2. t \in DOMAIN transfer /\ Downloading(t, transfer)
  BY <1>1, RangeTail DEF Shape, JobOK
<1>3. PICK q \in Transfers : q = transfer[t]
  BY <1>1, <1>2, Numbers
<1>4. PICK n \in Nat : n = q.at + 1
  BY DEF Transfers
<1>5. PICK r \in Transfers : r = [q EXCEPT !.at = n]
  BY FieldsTyped
<1>6. PICK e : e = [r EXCEPT !.eof = TRUE]
  OBVIOUS
<1>7. /\ Fixed(q, r) /\ r.replies = q.replies /\ r.socket = q.socket /\ r.moved = q.moved
      /\ r.reading = q.reading /\ r.at = n /\ r.eof = q.eof
  BY <1>5, OtherAt DEF Differs
<1>8. /\ Fixed(r, e) /\ e.replies = r.replies /\ e.socket = r.socket /\ e.moved = r.moved
      /\ e.reading = r.reading /\ e.at = n /\ e.eof = TRUE
  BY <1>6, <1>7, OtherEof DEF Differs
<1>9. Fixed(q, e) /\ ~q.eof /\ q.eof \in BOOLEAN
  BY <1>3, <1>7, <1>8 DEF Fixed, Transfers
<1>10. PICK l \in Nat : l = Len(content[q.inode])
  <2>1. content[q.inode] \in Seq(Block)
    BY <1>1 DEF Files, Bytes, Transfers
  <2> QED
    BY <2>1
<1>11. CASE n < l
  <2>3. ~(n >= l)
    BY <1>11
  <2>4. transfer' = [transfer EXCEPT ![t].at = n]
    BY <1>3, <1>4, <1>9, <1>10, <2>3 DEF ReadFile, AtEnd
  <2>1. transfer' = [transfer EXCEPT ![t] = r]
    BY <1>3, <1>5, <2>4
  <2>2. r.eof = (n >= l)
    BY <1>7, <1>9, <1>11
  <2> QED
    BY <1>1, <1>2, <1>3, <1>4, <1>7, <1>10, <2>1, <2>2, OnlyOne
<1>12. CASE n >= l
  <2>3. ~(n < l)
    BY <1>12
  <2>4. transfer' = [transfer EXCEPT ![t].at = n, ![t].eof = TRUE]
    BY <1>3, <1>4, <1>9, <1>10, <2>3 DEF ReadFile, AtEnd
  <2>1. transfer' = [transfer EXCEPT ![t] = e]
    BY <1>3, <1>5, <1>6, <2>4
  <2>2. e.eof = (n >= l)
    BY <1>8, <1>12
  <2> QED
    BY <1>1, <1>2, <1>3, <1>4, <1>7, <1>8, <1>9, <1>10, <2>1, <2>2, OnlyOne
<1> QED
  BY <1>11, <1>12

-----------------------------------------------------------------------------
(* The jobs of the file strand.  The last block of an upload is followed by  *)
(* its end, and the object is made by the job at the front.                  *)

LastBlock(j) == j.op = "write" /\ ~j.more
Objects(j) == j.op \in {"load", "store"}
Chain(jobs) ==
    \A i \in DOMAIN jobs :
        /\ LastBlock(jobs[i]) =>
               i + 1 \in DOMAIN jobs /\ jobs[i + 1].op = "end" /\ jobs[i + 1].t = jobs[i].t
        /\ Objects(jobs[i]) => i = 1

LEMMA ChainAppend ==
    ASSUME NEW jobs, NEW x, IsSequence(jobs), Chain(jobs), ~LastBlock(x), ~Objects(x)
    PROVE  Chain(Append(jobs, x))
<1> DEFINE a == Append(jobs, x)
<1>1. /\ Len(jobs) \in Nat /\ DOMAIN jobs = 1..Len(jobs) /\ DOMAIN a = 1..(Len(jobs) + 1)
      /\ a[Len(jobs) + 1] = x /\ \A i \in 1..Len(jobs) : a[i] = jobs[i]
  BY AppendAt
<1> HIDE DEF a
<1>2. ASSUME NEW i \in DOMAIN a
      PROVE  /\ LastBlock(a[i]) => i + 1 \in DOMAIN a /\ a[i + 1].op = "end" /\ a[i + 1].t = a[i].t
             /\ Objects(a[i]) => i = 1
  <2>1. CASE i = Len(jobs) + 1
    BY <1>1, <2>1
  <2>2. CASE i # Len(jobs) + 1
    <3>1. i \in DOMAIN jobs /\ a[i] = jobs[i] /\ i + 1 \in DOMAIN a
      BY <1>1, <1>2, <2>2
    <3>2. i + 1 \in DOMAIN jobs => a[i + 1] = jobs[i + 1]
      BY <1>1
    <3> QED
      BY <3>1, <3>2 DEF Chain
  <2> QED
    BY <2>1, <2>2
<1> QED
  BY <1>2 DEF Chain, a

LEMMA ChainTwo ==
    ASSUME NEW jobs, NEW x, NEW y, IsSequence(jobs), Chain(jobs),
           LastBlock(x), y.op = "end", y.t = x.t
    PROVE  Chain(Append(Append(jobs, x), y))
<1> DEFINE a == Append(jobs, x)
           b == Append(a, y)
<1>1. /\ IsSequence(a) /\ Len(jobs) \in Nat /\ DOMAIN jobs = 1..Len(jobs)
      /\ Len(a) = Len(jobs) + 1 /\ DOMAIN a = 1..(Len(jobs) + 1)
      /\ a[Len(jobs) + 1] = x /\ \A i \in 1..Len(jobs) : a[i] = jobs[i]
  BY AppendAt
<1> HIDE DEF a
<1>2. /\ DOMAIN b = 1..(Len(a) + 1) /\ b[Len(a) + 1] = y /\ \A i \in 1..Len(a) : b[i] = a[i]
  BY <1>1, AppendAt
<1> HIDE DEF b
<1>3. PICK n \in Nat : n = Len(jobs)
  BY <1>1
<1>4. ASSUME NEW i \in DOMAIN b
      PROVE  /\ LastBlock(b[i]) => i + 1 \in DOMAIN b /\ b[i + 1].op = "end" /\ b[i + 1].t = b[i].t
             /\ Objects(b[i]) => i = 1
  <2>1. CASE i = n + 2
    <3>1. b[i] = y
      BY <1>1, <1>2, <1>3, <2>1
    <3> QED
      BY <3>1 DEF LastBlock, Objects
  <2>2. CASE i = n + 1
    <3>1. b[i] = x /\ b[i + 1] = y /\ i + 1 \in DOMAIN b
      BY <1>1, <1>2, <1>3, <2>2
    <3> QED
      BY <3>1 DEF LastBlock, Objects
  <2>3. CASE i \in 1..n
    <3>1. i \in DOMAIN jobs /\ b[i] = jobs[i] /\ i + 1 \in DOMAIN b
      BY <1>1, <1>2, <1>3, <2>3
    <3>2. i + 1 \in DOMAIN jobs => b[i + 1] = jobs[i + 1]
      BY <1>1, <1>2
    <3> QED
      BY <3>1, <3>2 DEF Chain
  <2> QED
    BY <1>1, <1>2, <1>3, <1>4, <2>1, <2>2, <2>3
<1> QED
  BY <1>4 DEF Chain, a, b

LEMMA ChainTail ==
    ASSUME NEW jobs, IsSequence(jobs), Chain(jobs), jobs # <<>>
    PROVE  /\ Chain(Tail(jobs))
           /\ \A j \in Range(Tail(jobs)) : ~Objects(j)
           /\ LastBlock(Head(jobs)) =>
                  /\ Tail(jobs) # <<>> /\ Head(Tail(jobs)) \in Range(jobs)
                  /\ Head(Tail(jobs)).op = "end" /\ Head(Tail(jobs)).t = Head(jobs).t
<1> DEFINE a == Tail(jobs)
<1>1. /\ IsSequence(a) /\ Len(jobs) \in Nat \ {0} /\ DOMAIN jobs = 1..Len(jobs) /\ Head(jobs) = jobs[1]
      /\ Len(a) = Len(jobs) - 1 /\ DOMAIN a = 1..(Len(jobs) - 1)
      /\ \A i \in 1..(Len(jobs) - 1) : a[i] = jobs[i + 1]
  BY TailAt
<1> HIDE DEF a
<1>2. PICK n \in Nat : n = Len(jobs)
  BY <1>1
<1>3. ASSUME NEW i \in DOMAIN a
      PROVE  /\ LastBlock(a[i]) => i + 1 \in DOMAIN a /\ a[i + 1].op = "end" /\ a[i + 1].t = a[i].t
             /\ ~Objects(a[i])
  <2>1. i \in 1..(n - 1) /\ i + 1 \in DOMAIN jobs /\ a[i] = jobs[i + 1] /\ i + 1 # 1
    BY <1>1, <1>2, <1>3
  <2>2. (i + 1) + 1 \in DOMAIN jobs => i + 1 \in DOMAIN a /\ a[i + 1] = jobs[(i + 1) + 1]
    BY <1>1, <1>2, <2>1
  <2> QED
    BY <2>1, <2>2 DEF Chain
<1>4. Chain(a)
  BY <1>3 DEF Chain
<1>5. \A j \in Range(a) : ~Objects(j)
  BY <1>3 DEF Range
<1>6. ASSUME LastBlock(Head(jobs))
      PROVE  a # <<>> /\ Head(a) \in Range(jobs) /\ Head(a).op = "end" /\ Head(a).t = Head(jobs).t
  <2>1. 1 + 1 \in DOMAIN jobs /\ jobs[1 + 1].op = "end" /\ jobs[1 + 1].t = jobs[1].t
    BY <1>1, <1>6 DEF Chain
  <2>2. Len(a) # 0 /\ a[1] = jobs[2] /\ 2 \in DOMAIN jobs
    BY <1>1, <2>1
  <2>3. a # <<>>
    BY <2>2, EmptyAt
  <2>4. Head(a) = a[1]
    BY <1>1, <2>3, TailAt
  <2> QED
    BY <1>1, <2>1, <2>2, <2>3, <2>4 DEF Range
<1> QED
  BY <1>4, <1>5, <1>6 DEF a

LEMMA ChainFirst ==
    ASSUME NEW jobs, NEW x, IsSequence(jobs), Chain(jobs), jobs # <<>>, ~LastBlock(x)
    PROVE  Chain(<<x>> \o Tail(jobs))
<1> DEFINE a == <<x>> \o Tail(jobs)
<1>1. /\ Len(jobs) \in Nat \ {0} /\ DOMAIN jobs = 1..Len(jobs) /\ DOMAIN a = 1..Len(jobs)
      /\ a[1] = x /\ \A i \in 2..Len(jobs) : a[i] = jobs[i]
  BY FirstAt
<1> HIDE DEF a
<1>2. PICK n \in Nat : n = Len(jobs)
  BY <1>1
<1>3. ASSUME NEW i \in DOMAIN a
      PROVE  /\ LastBlock(a[i]) => i + 1 \in DOMAIN a /\ a[i + 1].op = "end" /\ a[i + 1].t = a[i].t
             /\ Objects(a[i]) => i = 1
  <2>1. CASE i = 1
    BY <1>1, <2>1
  <2>2. CASE i # 1
    <3>1. i \in DOMAIN jobs /\ a[i] = jobs[i]
      BY <1>1, <1>2, <1>3, <2>2
    <3>2. i + 1 \in DOMAIN jobs => i + 1 \in DOMAIN a /\ a[i + 1] = jobs[i + 1]
      BY <1>1, <1>2, <1>3, <2>2
    <3> QED
      BY <3>1, <3>2 DEF Chain
  <2> QED
    BY <2>1, <2>2
<1> QED
  BY <1>3 DEF Chain, a

-----------------------------------------------------------------------------
(* A transfer that still has something to do has no reply.                   *)

Ends(t, place, s) == \E x \in Range(s) : Owner(place, x) = t
Pending(t) ==
    \/ Reads(transfer[t])
    \/ t \in Range(accepts)
    \/ Ends(t, "file", fileJobs)
    \/ Ends(t, "strand", bufferJobs)
    \/ Ends(t, "buffer", buffer)

LEMMA HeldBy ==
    ASSUME NEW st, NEW p, NEW s, NEW t \in Nat \ {0}, Held(View(p, s), st, p), Ends(t, p, s)
    PROVE  st[t] = p
<1>1. PICK i \in DOMAIN s : Owner(p, s[i]) = t
  BY DEF Ends, Range
<1> DEFINE v == View(p, s)
<1>2. DOMAIN v = DOMAIN s /\ v[i] = t
  BY <1>1 DEF View
<1>3. v \in Seq(Nat) /\ \A j \in 1..Len(v) : v[j] # 0 => st[v[j]] = p
  BY DEF Held
<1> HIDE DEF v
<1>4. i \in 1..Len(v)
  BY <1>2, <1>3
<1> QED
  BY <1>2, <1>3, <1>4

LEMMA PendingUnanswered ==
    ReplyInv => \A t \in DOMAIN transfer :
        /\ Pending(t) => ~Answered(t)
        /\ ~(Ends(t, "file", fileJobs) /\ Ends(t, "strand", bufferJobs))
<1> SUFFICES ASSUME ReplyInv, NEW t \in DOMAIN transfer
             PROVE  /\ Pending(t) => ~Answered(t)
                    /\ ~(Ends(t, "file", fileJobs) /\ Ends(t, "strand", bufferJobs))
  OBVIOUS
<1>1. PICK st : Places(st)
  BY DEF ReplyInv
<1>2. t \in Nat \ {0}
  BY TransferNumbers DEF ReplyInv
<1>3. t \in Range(accepts) => Ends(t, "accept", accepts)
  BY DEF Ends, Owner
<1>4. /\ Ends(t, "accept", accepts) => st[t] = "accept"
      /\ Ends(t, "file", fileJobs) => st[t] = "file"
      /\ Ends(t, "strand", bufferJobs) => st[t] = "strand"
      /\ Ends(t, "buffer", buffer) => st[t] = "buffer"
  BY <1>1, <1>2, HeldBy DEF Places
<1>5. Reads(transfer[t]) => st[t] = "reads"
  BY <1>1 DEF Places
<1>6. transfer[t].replies > 0 => st[t] = "replied"
  <2>1. transfer[t].replies \in {0, 1} /\ (transfer[t].replies = 1 => st[t] = "replied")
    BY <1>1 DEF Places
  <2> QED
    BY <2>1
<1>7. Pending(t) => st[t] # "replied"
  BY <1>3, <1>4, <1>5 DEF Pending
<1> QED
  BY <1>4, <1>6, <1>7 DEF Answered

-----------------------------------------------------------------------------
(* What every step keeps of the transfers.                                   *)

Keeps ==
    /\ DOMAIN transfer \subseteq DOMAIN transfer'
    /\ \A t \in DOMAIN transfer :
        /\ Fixed(transfer[t], transfer'[t])
        /\ transfer[t].socket = "new" /\ transfer'[t].socket # "new" => Accepted

LEMMA KeepsOnly ==
    ASSUME NEW t \in DOMAIN transfer, NEW r, Only(t, r), Fixed(transfer[t], r),
           transfer[t].socket = "new" /\ r.socket # "new" => Accepted
    PROVE  Keeps
BY DEF Keeps, Only, Fixed

LEMMA KeepsAll ==
    ASSUME UNCHANGED transfer
    PROVE  Keeps
BY DEF Keeps, Fixed

(* Replies, and the closing of the newest socket.                            *)
LEMMA RepliesDo ==
    ASSUME Moved, NEW ts
    PROVE  /\ DOMAIN ReplyTo(ts) = DOMAIN transfer /\ DOMAIN CloseData(ReplyTo(ts)) = DOMAIN transfer
           /\ \A t \in DOMAIN transfer :
               /\ Differs(transfer[t], ReplyTo(ts)[t], "replies")
               /\ ReplyTo(ts)[t].replies = IF t \in ts THEN transfer[t].replies + 1 ELSE transfer[t].replies
               /\ t \notin ts => ReplyTo(ts)[t] = transfer[t]
               /\ Differs(ReplyTo(ts)[t], CloseData(ReplyTo(ts))[t], "socket")
               /\ \/ CloseData(ReplyTo(ts))[t] = ReplyTo(ts)[t]
                  \/ /\ t = Count /\ transfer[t].socket = "open"
                     /\ CloseData(ReplyTo(ts))[t].socket = "closed"
<1>1. PICK us : us = ReplyTo(ts)
  OBVIOUS
<1>2. PICK ws : ws = CloseData(us)
  OBVIOUS
<1>3. us = [t \in DOMAIN transfer |-> us[t]] /\ DOMAIN us = DOMAIN transfer
  BY <1>1 DEF ReplyTo
<1>4. DOMAIN ws = DOMAIN transfer
  BY <1>2, <1>3 DEF CloseData
<1>5. ASSUME NEW t \in DOMAIN transfer
      PROVE  /\ Differs(transfer[t], us[t], "replies")
             /\ us[t].replies = IF t \in ts THEN transfer[t].replies + 1 ELSE transfer[t].replies
             /\ t \notin ts => us[t] = transfer[t]
             /\ Differs(us[t], ws[t], "socket")
             /\ \/ ws[t] = us[t]
                \/ t = Count /\ transfer[t].socket = "open" /\ ws[t].socket = "closed"
  <2>1. PICK q \in Transfers : q = transfer[t]
    BY Numbers
  <2>2. PICK n \in Nat : n = q.replies + 1
    BY DEF Transfers
  <2>3. PICK r \in Transfers : r = [q EXCEPT !.replies = n]
    BY FieldsTyped
  <2>4. us[t] = IF t \in ts THEN r ELSE q
    BY <1>1, <2>1, <2>2, <2>3 DEF ReplyTo
  <2>5. Differs(q, r, "replies") /\ r.replies = n
    BY <2>3, OtherReplies
  <2>6. Differs(q, us[t], "replies") /\ us[t].replies = IF t \in ts THEN q.replies + 1 ELSE q.replies
    <3>1. Differs(q, q, "replies")
      BY DEF Differs, Fixed
    <3> QED
      BY <2>2, <2>4, <2>5, <3>1
  <2>7. PICK p \in Transfers : p = us[t]
    BY <2>4
  <2>8. PICK w : w = [p EXCEPT !.socket = "closed"]
    OBVIOUS
  <2>9. Differs(p, w, "socket") /\ w.socket = "closed"
    BY <2>8, OtherSocket
  <2>10. ws[t] = IF t = Count /\ p.socket = "open" THEN w ELSE p
    BY <1>2, <1>3, <2>7, <2>8 DEF CloseData
  <2>11. Differs(p, p, "socket")
    BY DEF Differs, Fixed
  <2>12. p.socket = q.socket
    BY <2>6, <2>7 DEF Differs
  <2>13. Differs(p, ws[t], "socket")
    BY <2>9, <2>10, <2>11
  <2>14. ws[t] = p \/ (t = Count /\ q.socket = "open" /\ ws[t].socket = "closed")
    BY <2>9, <2>10, <2>12
  <2> QED
    BY <2>1, <2>4, <2>6, <2>7, <2>13, <2>14
<1> QED
  BY <1>1, <1>2, <1>3, <1>4, <1>5

LEMMA KeepsReplies ==
    ASSUME TypeInv, NEW ts, transfer' = ReplyTo(ts) \/ transfer' = CloseData(ReplyTo(ts))
    PROVE  Keeps
<1>1. Moved
  BY TypeParts DEF TypeInv
<1>2. PICK us : us = ReplyTo(ts)
  OBVIOUS
<1>3. PICK ws : ws = CloseData(us)
  OBVIOUS
<1>4. DOMAIN us = DOMAIN transfer /\ DOMAIN ws = DOMAIN transfer
  BY <1>1, <1>2, <1>3, RepliesDo
<1>5. ASSUME NEW t \in DOMAIN transfer
      PROVE  /\ Fixed(transfer[t], us[t]) /\ Fixed(transfer[t], ws[t])
             /\ us[t].socket = transfer[t].socket
             /\ ws[t].socket = transfer[t].socket \/ transfer[t].socket = "open"
  <2>1. Differs(transfer[t], us[t], "replies") /\ Differs(us[t], ws[t], "socket")
    BY <1>1, <1>2, <1>3, RepliesDo
  <2>2. ws[t] = us[t] \/ transfer[t].socket = "open"
    BY <1>1, <1>2, <1>3, RepliesDo
  <2> QED
    BY <2>1, <2>2 DEF Differs, Fixed
<1>6. transfer' = us \/ transfer' = ws
  BY <1>2, <1>3
<1> QED
  BY <1>4, <1>5, <1>6 DEF Keeps

(* Another transfer.                                                         *)
LEMMA Another ==
    ASSUME Moved, NEW r, transfer' = Append(transfer, r)
    PROVE  /\ Count' = Count + 1 /\ Count \in Nat
           /\ DOMAIN transfer = 1..Count /\ DOMAIN transfer' = 1..(Count + 1)
           /\ transfer'[Count + 1] = r
           /\ \A t \in DOMAIN transfer : transfer'[t] = transfer[t]
<1>1. IsSequence(transfer)
  BY DEF Moved, IsSequence
<1> QED
  BY <1>1, AppendAt DEF Count

IsOpened(r, kind, i, b) ==
    /\ r.kind = kind /\ r.inode = i /\ r.at = 0 /\ r.eof = FALSE
    /\ r.reading = FALSE /\ r.start = b /\ r.moved = <<>>

LEMMA StartAppends ==
    ASSUME NEW kind, NEW f, NEW i, Start(kind, f, i)
    PROVE  \E r : transfer' = Append(transfer, r) /\ IsOpened(r, kind, i, content'[i])
                  /\ r.socket = "new" /\ r.file = f
<1>1. PICK c : c = content'[i]
  OBVIOUS
<1>2. PICK o : o = [kind |-> kind, file |-> f, inode |-> i, at |-> 0, eof |-> FALSE, reading |-> FALSE,
                    socket |-> "new", start |-> c, moved |-> <<>>, replies |-> 0]
  OBVIOUS
<1>3. o = Opened(kind, f, i)
  BY <1>1, <1>2 DEF Opened
<1>4. PICK n : n = [o EXCEPT !.replies = 1]
  OBVIOUS
<1>5. /\ n.kind = kind /\ n.file = f /\ n.inode = i /\ n.at = 0 /\ n.eof = FALSE
      /\ n.reading = FALSE /\ n.socket = "new" /\ n.start = c /\ n.moved = <<>> /\ n.replies = 1
  BY <1>2, <1>4
<1>6. /\ o.kind = kind /\ o.file = f /\ o.inode = i /\ o.at = 0 /\ o.eof = FALSE
      /\ o.reading = FALSE /\ o.socket = "new" /\ o.start = c /\ o.moved = <<>> /\ o.replies = 0
  BY <1>2
<1>7. transfer' = Append(transfer, IF passive = "listening" THEN o ELSE n)
  BY <1>3, <1>4 DEF Start
<1>8. IsOpened(o, kind, i, c) /\ IsOpened(n, kind, i, c)
  BY <1>5, <1>6 DEF IsOpened
<1>9. IF passive = "listening" THEN transfer' = Append(transfer, o) ELSE transfer' = Append(transfer, n)
  BY <1>7
<1> QED
  BY <1>1, <1>5, <1>6, <1>8, <1>9

LEMMA KeepsStart ==
    ASSUME TypeInv, NEW kind, NEW f, NEW i, Start(kind, f, i)
    PROVE  Keeps
<1>1. Moved
  BY TypeParts DEF TypeInv
<1>2. PICK r : transfer' = Append(transfer, r)
  BY StartAppends
<1>3. DOMAIN transfer \subseteq DOMAIN transfer' /\ \A t \in DOMAIN transfer : transfer'[t] = transfer[t]
  BY <1>1, <1>2, Another
<1> QED
  BY <1>3 DEF Keeps, Fixed

(* A block is sent, or not.                                                  *)
LEMMA SendingOnly ==
    ASSUME TypeInv, Sending, NEW t, t = writing.t
    PROVE  IF t \in DOMAIN transfer /\ transfer[t].socket = "open" /\ Head(buffer).block # Empty
           THEN \E r : /\ Only(t, r) /\ Differs(transfer[t], r, "moved")
                       /\ r.moved = Append(transfer[t].moved, Head(buffer).block)
           ELSE UNCHANGED transfer
<1>1. Moved
  BY TypeParts DEF TypeInv
<1>2. CASE t \in DOMAIN transfer /\ transfer[t].socket = "open" /\ Head(buffer).block # Empty
  <2>1. PICK q \in Transfers : q = transfer[t]
    BY <1>1, <1>2, Numbers
  <2>2. PICK m : m = Append(q.moved, Head(buffer).block)
    OBVIOUS
  <2>3. PICK r : r = [q EXCEPT !.moved = m]
    OBVIOUS
  <2>4. Differs(q, r, "moved") /\ r.moved = m
    BY <2>3, OtherMoved
  <2>5. transfer' = [transfer EXCEPT ![t] = r]
    BY <1>2, <2>1, <2>2, <2>3 DEF Sending
  <2> QED
    BY <1>1, <1>2, <2>1, <2>2, <2>4, <2>5, OnlyOne
<1>3. CASE ~(t \in DOMAIN transfer /\ transfer[t].socket = "open" /\ Head(buffer).block # Empty)
  <2>1. CASE t \notin DOMAIN transfer
    <3>1. \A m : [transfer EXCEPT ![t].moved = m] = transfer
      BY <2>1, <1>1 DEF Moved
    <3>2. \/ transfer' = transfer
          \/ \E m : transfer' = [transfer EXCEPT ![t].moved = m]
      BY DEF Sending
    <3> QED
      BY <1>3, <3>1, <3>2
  <2>2. CASE t \in DOMAIN transfer
    BY <1>3, <2>2 DEF Sending
  <2> QED
    BY <2>1, <2>2
<1> QED
  BY <1>2, <1>3

LEMMA TransfersKeep ==
    ASSUME TypeInv, [Next]_vars
    PROVE  Keeps
<1>1. CASE UNCHANGED transfer
  BY <1>1, KeepsAll
<1>2. CASE Command
  <2>1. CASE PASV
    BY <2>1, KeepsReplies DEF PASV, AbortAccepts
  <2>2. CASE LIST \/ \E f \in File : RETR(f) \/ STOR(f) \/ APPE(f)
    <3>1. PICK kind, f, i : Start(kind, f, i)
      BY <2>2 DEF LIST, RETR, STOR, APPE
    <3> QED
      BY <3>1, KeepsStart
  <2>3. CASE (\E u \in User : USER(u)) \/ PASS \/ QUIT \/ NOOP \/ \E f \in File : RNFR(f) \/ RNTO(f) \/ DELE(f)
    BY <1>1, <2>3 DEF USER, PASS, QUIT, NOOP, RNFR, RNTO, DELE
  <2> QED
    BY <1>2, <2>1, <2>2, <2>3 DEF Command
<1>3. CASE Hangup
  BY <1>3, KeepsReplies DEF Hangup, AbortAccepts
<1>4. CASE Accepted
  <2>1. PICK t : t = Head(accepts)
    OBVIOUS
  <2>2. t \in DOMAIN transfer
    BY <1>4, <2>1, AcceptedOnly
  <2>3. PICK r : Only(t, r) /\ Fixed(transfer[t], r)
    BY <1>4, <2>1, AcceptedOnly
  <2> QED
    BY <1>4, <2>2, <2>3, KeepsOnly
<1>5. CASE Sending
  <2>1. PICK t : t = writing.t
    OBVIOUS
  <2>2. CASE t \in DOMAIN transfer /\ transfer[t].socket = "open" /\ Head(buffer).block # Empty
    <3>1. PICK r : Only(t, r) /\ Differs(transfer[t], r, "moved")
      BY <1>5, <2>1, <2>2, SendingOnly
    <3> QED
      BY <2>2, <3>1, KeepsOnly DEF Differs
  <2>3. CASE ~(t \in DOMAIN transfer /\ transfer[t].socket = "open" /\ Head(buffer).block # Empty)
    <3>1. UNCHANGED transfer
      BY <1>5, <2>1, <2>3, SendingOnly
    <3> QED
      BY <3>1, KeepsAll
  <2> QED
    BY <2>2, <2>3
<1>6. CASE ReadFile
  <2>1. PICK t : t = Head(fileJobs).t
    OBVIOUS
  <2>2. CASE transfer[t].eof
    <3>1. UNCHANGED transfer
      BY <1>6, <2>1, <2>2 DEF ReadFile, AtEnd
    <3> QED
      BY <3>1, KeepsAll
  <2>3. CASE ~transfer[t].eof
    <3>1. t \in DOMAIN transfer
      BY <1>6, <2>1, <2>3, ReadFileOnly
    <3>2. PICK r : Only(t, r) /\ Fixed(transfer[t], r) /\ r.socket = transfer[t].socket
      BY <1>6, <2>1, <2>3, ReadFileOnly
    <3> QED
      BY <3>1, <3>2, KeepsOnly
  <2> QED
    BY <2>2, <2>3
<1>7. CASE writeDataToFile
  <2>1. PICK t : t = Head(fileJobs).t
    OBVIOUS
  <2>2. t \in DOMAIN transfer
    BY <1>7, <2>1, WriteFileOnly
  <2>3. PICK r : Only(t, r) /\ Fixed(transfer[t], r) /\ r.socket = transfer[t].socket
    BY <1>7, <2>1, WriteFileOnly
  <2> QED
    BY <2>2, <2>3, KeepsOnly
<1>8. CASE endDataReceiving \/ writeDataToSocket
  <2>1. \/ \E ts : transfer' = ReplyTo(ts)
        \/ UNCHANGED transfer
    BY <1>8 DEF endDataReceiving, writeDataToSocket
  <2> QED
    BY <2>1, KeepsReplies, KeepsAll
<1>9. CASE SendDeleteObjectRequest \/ ReadEnds \/ LoadObject \/ StoreObject \/ addDataToBufferAndSend \/ Written
  BY <1>1, <1>9 DEF SendDeleteObjectRequest, ReadEnds, LoadObject, StoreObject, addDataToBufferAndSend, Written
<1>10. ASSUME NEW t \in DOMAIN transfer, ReceiveBlock(t) \/ ReceiveLast(t) \/ ReceiveFails(t)
       PROVE  Keeps
  <2>1. PICK r : /\ Only(t, r) /\ Fixed(transfer[t], r)
                 /\ r.socket = transfer[t].socket \/ (transfer[t].socket = "open" /\ r.socket = "gone")
    BY <1>10, ReceivingOnly
  <2> QED
    BY <2>1, KeepsOnly
<1>11. ASSUME NEW t \in DOMAIN transfer, Break(t) PROVE Keeps
  <2>1. PICK r : Only(t, r) /\ Fixed(transfer[t], r) /\ transfer[t].socket = "open"
    BY <1>11, BreakOnly
  <2> QED
    BY <2>1, KeepsOnly
<1>12. ASSUME NEW t \in DOMAIN transfer, ListEnds(t) PROVE Keeps
  <2>1. PICK r : Only(t, r) /\ Fixed(transfer[t], r) /\ r.socket = transfer[t].socket
    BY <1>12, ListEndsOnly
  <2> QED
    BY <2>1, KeepsOnly
<1>13. UNCHANGED vars => UNCHANGED transfer
  BY DEF vars
<1> QED
  BY <1>1, <1>2, <1>3, <1>4, <1>5, <1>6, <1>7, <1>8, <1>9, <1>10, <1>11, <1>12, <1>13 DEF Next, Strands

-----------------------------------------------------------------------------
(* Accepts are for new transfers, and ends and objects are for uploads.      *)

JobKind(j, ts) ==
    /\ j.op \in {"end", "load", "store"} => ts[j.t].kind = "receive"
    /\ j.op = "null" => ts[j.t].kind = "send"
JobsInv ==
    /\ \A t \in Range(accepts) : transfer[t].socket = "new"
    /\ \A j \in Range(fileJobs) : JobKind(j, transfer)
    /\ Chain(fileJobs)

LEMMA AcceptsStay ==
    ASSUME TypeInv, JobsInv, Keeps, ~Accepted, Range(accepts') \subseteq Range(accepts)
    PROVE  \A t \in Range(accepts') : transfer'[t].socket = "new"
BY DEF TypeInv, ReplyInv, Shape, JobsInv, Keeps

LEMMA KindsStay ==
    ASSUME TypeInv, JobsInv, Keeps,
           \A j \in Range(fileJobs') : j \in Range(fileJobs) \/ (j.t \in DOMAIN transfer /\ JobKind(j, transfer))
    PROVE  \A j \in Range(fileJobs') : JobKind(j, transfer')
<1>1. \A j \in Range(fileJobs) : j.t \in DOMAIN transfer /\ JobKind(j, transfer)
  BY DEF TypeInv, ReplyInv, Shape, JobOK, JobsInv
<1>2. \A j : j.t \in DOMAIN transfer /\ JobKind(j, transfer) => JobKind(j, transfer')
  BY DEF Keeps, Fixed, JobKind
<1> QED
  BY <1>1, <1>2

LEMMA JobsParts ==
    ASSUME \A t \in Range(accepts') : transfer'[t].socket = "new",
           \A j \in Range(fileJobs') : JobKind(j, transfer'), Chain(fileJobs')
    PROVE  JobsInv'
BY DEF JobsInv, JobKind, Chain, LastBlock, Objects, Range

LEMMA JobsSame ==
    ASSUME TypeInv, JobsInv, Keeps, ~Accepted, UNCHANGED fileJobs, accepts' = accepts \/ accepts' = <<>>
    PROVE  JobsInv'
<1>1. Range(accepts') \subseteq Range(accepts)
  BY DEF Range
<1>2. \A j \in Range(fileJobs') : j \in Range(fileJobs)
  BY DEF Range
<1>3. Chain(fileJobs')
  BY DEF JobsInv, Chain
<1> QED
  BY <1>1, <1>2, <1>3, AcceptsStay, KindsStay, JobsParts

LEMMA JobsChange ==
    ASSUME TypeInv, JobsInv, Keeps, ~Accepted, UNCHANGED accepts, Chain(fileJobs'),
           \A j \in Range(fileJobs') : j \in Range(fileJobs) \/ (j.t \in DOMAIN transfer /\ JobKind(j, transfer))
    PROVE  JobsInv'
<1>1. Range(accepts') \subseteq Range(accepts)
  BY DEF Range
<1> QED
  BY <1>1, AcceptsStay, KindsStay, JobsParts

LEMMA StartJobs ==
    ASSUME TypeInv, JobsInv, NEW kind, NEW f, NEW i, Start(kind, f, i)
    PROVE  JobsInv'
<1>1. Moved /\ Keeps /\ Shape
  BY KeepsStart, TypeParts DEF TypeInv, ReplyInv
<1>2. PICK r : transfer' = Append(transfer, r) /\ r.socket = "new"
  BY StartAppends
<1>3. transfer'[Count + 1].socket = "new" /\ \A t \in DOMAIN transfer : transfer'[t] = transfer[t]
  BY <1>1, <1>2, Another
<1>4. Range(accepts') \subseteq Range(accepts) \cup {Count + 1}
  <2>1. CASE accepts' = accepts
    BY <2>1 DEF Range
  <2>2. CASE accepts' = Append(accepts, Count + 1)
    BY <1>1, <2>2, RangeAppend DEF Shape
  <2> QED
    BY <2>1, <2>2 DEF Start
<1>5. \A t \in Range(accepts') : transfer'[t].socket = "new"
  BY <1>1, <1>3, <1>4 DEF Shape, JobsInv
<1>6. UNCHANGED fileJobs
  BY DEF Start, strands
<1>7. \A j \in Range(fileJobs') : j \in Range(fileJobs)
  BY <1>6 DEF Range
<1>8. Chain(fileJobs')
  BY <1>6 DEF JobsInv, Chain
<1> QED
  BY <1>1, <1>5, <1>7, <1>8, KindsStay, JobsParts

(* The accept that completes is the only one of its transfer.                *)
LEMMA AcceptedJobs ==
    ASSUME TypeInv, JobsInv, Accepted
    PROVE  JobsInv'
<1>1. Shape /\ accepts # <<>> /\ IsSequence(accepts) /\ accepts' = Tail(accepts) /\ IsSequence(fileJobs)
  BY DEF TypeInv, ReplyInv, Accepted, Shape
<1>2. PICK t : t = Head(accepts)
  OBVIOUS
<1>3. t \in DOMAIN transfer /\ t \in Range(accepts)
  BY <1>2, AcceptedOnly
<1>4. PICK r : Only(t, r) /\ Fixed(transfer[t], r)
  BY <1>2, AcceptedOnly
<1>5. Keeps
  BY <1>3, <1>4, KeepsOnly
<1>6. t \notin Range(Tail(accepts))
  <2> DEFINE u == Tail(accepts)
  <2>1. PICK st : Places(st)
    BY DEF TypeInv, ReplyInv
  <2>2. t \in Nat \ {0}
    BY <1>1, <1>3, TransferNumbers
  <2>3. st \in [Nat -> Stage] /\ Held(View("accept", accepts), st, "accept") /\ "accept" \in Stage /\ "reads" \in Stage
    BY <2>1 DEF Places, Stage
  <2>4. Owner("accept", Head(accepts)) = t
    BY <1>2 DEF Owner
  <2>5. Held(View("accept", u), [st EXCEPT ![t] = "reads"], "accept")
    BY <1>1, <2>2, <2>3, <2>4, TailHeld
  <2>6. [st EXCEPT ![t] = "reads"][t] # "accept"
    BY <2>2, <2>3
  <2> HIDE DEF u
  <2>7. PICK st2 : st2 = [st EXCEPT ![t] = "reads"]
    OBVIOUS
  <2>8. ~Ends(t, "accept", u)
    BY <2>2, <2>5, <2>6, <2>7, HeldBy
  <2> QED
    BY <2>8 DEF Ends, Owner, u
<1>7. \A u \in Range(accepts') : transfer'[u].socket = "new"
  <2>1. Range(accepts') \subseteq Range(accepts) /\ t \notin Range(accepts')
    BY <1>1, <1>6, RangeTail
  <2> QED
    BY <1>1, <1>4, <2>1 DEF Only, Shape, JobsInv
<1>8. PICK x : x = ReadData(t)
  OBVIOUS
<1>9. x.op = "read" /\ x.t = t
  BY <1>8 DEF ReadData
<1>10. fileJobs' = fileJobs \/ fileJobs' = Append(Append(Append(fileJobs, x), x), x)
  <2>1. fileJobs' = fileJobs \/ fileJobs' = fileJobs \o <<x, x, x>>
    BY <1>2, <1>8 DEF Accepted
  <2> QED
    BY <1>1, <2>1, ThreeMore
<1>11. PICK l1 : l1 = Append(fileJobs, x)
  OBVIOUS
<1>12. PICK l2 : l2 = Append(l1, x)
  OBVIOUS
<1>13. PICK l3 : l3 = Append(l2, x)
  OBVIOUS
<1>14. ~LastBlock(x) /\ ~Objects(x) /\ JobKind(x, transfer) /\ Chain(fileJobs)
  BY <1>9 DEF LastBlock, Objects, JobKind, JobsInv
<1>15. IsSequence(l1) /\ Range(l1) \subseteq Range(fileJobs) \cup {x} /\ Chain(l1)
  BY <1>1, <1>11, <1>14, RangeAppend, ChainAppend
<1>16. IsSequence(l2) /\ Range(l2) \subseteq Range(l1) \cup {x} /\ Chain(l2)
  BY <1>12, <1>14, <1>15, RangeAppend, ChainAppend
<1>17. IsSequence(l3) /\ Range(l3) \subseteq Range(l2) \cup {x} /\ Chain(l3)
  BY <1>13, <1>14, <1>16, RangeAppend, ChainAppend
<1>18. fileJobs' = fileJobs \/ fileJobs' = l3
  BY <1>10, <1>11, <1>12, <1>13
<1>19. Range(fileJobs') \subseteq Range(fileJobs) \cup {x} /\ Chain(fileJobs')
  <2>1. CASE fileJobs' = fileJobs
    BY <1>14, <2>1 DEF Range, Chain
  <2>2. CASE fileJobs' = l3
    BY <1>15, <1>16, <1>17, <2>2
  <2> QED
    BY <1>18, <2>1, <2>2
<1>20. \A j \in Range(fileJobs') : j \in Range(fileJobs) \/ (j.t \in DOMAIN transfer /\ JobKind(j, transfer))
  BY <1>3, <1>9, <1>14, <1>19
<1> QED
  BY <1>5, <1>7, <1>19, <1>20, KindsStay, JobsParts

LEMMA FileStrandJobs ==
    ASSUME TypeInv, JobsInv, Keeps, ~Accepted,
           ReadFile \/ ReadEnds \/ writeDataToFile \/ endDataReceiving \/ LoadObject \/ StoreObject
    PROVE  JobsInv'
<1>1. fileJobs # <<>> /\ IsSequence(fileJobs) /\ UNCHANGED accepts /\ Chain(fileJobs)
  BY DEF ReadFile, ReadEnds, writeDataToFile, endDataReceiving, LoadObject, StoreObject, FileJob, data,
     TypeInv, ReplyInv, Shape, JobsInv
<1>2. PICK h : h = Head(fileJobs)
  OBVIOUS
<1>3. /\ h \in Range(fileJobs) /\ Range(Tail(fileJobs)) \subseteq Range(fileJobs)
      /\ h.t \in DOMAIN transfer /\ JobKind(h, transfer) /\ JobOK(h, transfer)
  BY <1>1, <1>2, RangeTail DEF TypeInv, ReplyInv, Shape, JobOK, JobsInv
<1>4. CASE fileJobs' = Tail(fileJobs)
  <2>1. Chain(fileJobs')
    BY <1>1, <1>4, ChainTail
  <2> QED
    BY <1>1, <1>3, <1>4, <2>1, JobsChange
<1>5. ASSUME NEW x, fileJobs' = <<x>> \o Tail(fileJobs), ~LastBlock(x), x.t = h.t, JobKind(x, transfer)
      PROVE  JobsInv'
  <2>1. Chain(fileJobs') /\ Range(fileJobs') \subseteq Range(fileJobs) \cup {x}
    BY <1>1, <1>5, ChainFirst, RangeFirst
  <2> QED
    BY <1>1, <1>3, <1>5, <2>1, JobsChange
<1>6. CASE ReadFile
  <2>1. PICK x : x = PostEnd(h.t)
    OBVIOUS
  <2>2. fileJobs' = Tail(fileJobs) \/ fileJobs' = <<x>> \o Tail(fileJobs)
    BY <1>2, <1>6, <2>1 DEF ReadFile
  <2>3. h.op = "read" /\ transfer[h.t].kind = "send"
    BY <1>2, <1>3, <1>6 DEF ReadFile, FileJob, JobOK, Downloading
  <2>4. ~LastBlock(x) /\ x.t = h.t /\ JobKind(x, transfer)
    BY <2>1, <2>3 DEF PostEnd, LastBlock, JobKind
  <2> QED
    BY <1>4, <1>5, <2>2, <2>4
<1>7. CASE ReadEnds \/ writeDataToFile \/ StoreObject
  BY <1>4, <1>7 DEF ReadEnds, writeDataToFile, StoreObject
<1>8. CASE endDataReceiving
  <2>1. PICK x : x = Load(h.t)
    OBVIOUS
  <2>2. fileJobs' = <<x>> \o Tail(fileJobs)
    BY <1>2, <1>8, <2>1 DEF endDataReceiving
  <2>3. transfer[h.t].kind = "receive"
    BY <1>2, <1>3, <1>8 DEF endDataReceiving, FileJob, JobKind
  <2>4. ~LastBlock(x) /\ x.t = h.t /\ JobKind(x, transfer)
    BY <2>1, <2>3 DEF Load, LastBlock, JobKind
  <2> QED
    BY <1>5, <2>2, <2>4
<1>9. CASE LoadObject
  <2>1. PICK c : fileJobs' = <<Store(h.t, c)>> \o Tail(fileJobs)
    BY <1>2, <1>9 DEF LoadObject
  <2>2. PICK x : x = Store(h.t, c)
    OBVIOUS
  <2>3. transfer[h.t].kind = "receive"
    BY <1>2, <1>3, <1>9 DEF LoadObject, FileJob, JobKind
  <2>4. ~LastBlock(x) /\ x.t = h.t /\ JobKind(x, transfer)
    BY <2>2, <2>3 DEF Store, LastBlock, JobKind
  <2> QED
    BY <1>5, <2>1, <2>2, <2>4
<1> QED
  BY <1>6, <1>7, <1>8, <1>9

LEMMA ReceivingJobs ==
    ASSUME TypeInv, JobsInv, Keeps, ~Accepted, NEW t \in DOMAIN transfer,
           ReceiveBlock(t) \/ ReceiveLast(t) \/ ReceiveFails(t)
    PROVE  JobsInv'
<1>1. /\ IsSequence(fileJobs) /\ UNCHANGED accepts /\ Chain(fileJobs)
      /\ transfer[t].kind = "receive"
  BY DEF ReceiveBlock, ReceiveLast, ReceiveFails, data, TypeInv, ReplyInv, Shape, JobsInv
<1>2. PICK b : b = <<t, Len(transfer[t].moved) + 1>>
  OBVIOUS
<1>3. PICK x, y, e : x = WriteFile(t, b, TRUE) /\ y = WriteFile(t, b, FALSE) /\ e = EndReceiving(t)
  OBVIOUS
<1>4. /\ ~LastBlock(x) /\ ~Objects(x) /\ x.t = t /\ JobKind(x, transfer)
      /\ LastBlock(y) /\ ~Objects(y) /\ y.t = t /\ JobKind(y, transfer)
      /\ ~LastBlock(e) /\ ~Objects(e) /\ e.t = t /\ JobKind(e, transfer) /\ e.op = "end"
  BY <1>1, <1>3 DEF WriteFile, EndReceiving, LastBlock, Objects, JobKind
<1>5. \/ fileJobs' = Append(fileJobs, x) \/ fileJobs' = Append(fileJobs, e)
      \/ fileJobs' = Append(Append(fileJobs, y), e)
  <2>1. fileJobs' = Append(fileJobs, x) \/ fileJobs' = Append(fileJobs, e) \/ fileJobs' = fileJobs \o <<y, e>>
    BY <1>2, <1>3 DEF ReceiveBlock, ReceiveLast, ReceiveFails, LastJobs
  <2> QED
    BY <1>1, <2>1, TwoMore
<1>6. PICK l : l = Append(fileJobs, y)
  OBVIOUS
<1>7. IsSequence(l) /\ Range(l) \subseteq Range(fileJobs) \cup {y}
  BY <1>1, <1>6, RangeAppend
<1>8. Chain(fileJobs') /\ Range(fileJobs') \subseteq Range(fileJobs) \cup {x, y, e}
  <2>1. CASE fileJobs' = Append(fileJobs, x)
    BY <1>1, <1>4, <2>1, ChainAppend, RangeAppend
  <2>2. CASE fileJobs' = Append(fileJobs, e)
    BY <1>1, <1>4, <2>2, ChainAppend, RangeAppend
  <2>3. CASE fileJobs' = Append(Append(fileJobs, y), e)
    <3>1. Chain(fileJobs')
      BY <1>1, <1>4, <2>3, ChainTwo
    <3>2. Range(Append(l, e)) \subseteq Range(l) \cup {e}
      BY <1>7, RangeAppend
    <3> QED
      BY <1>6, <1>7, <2>3, <3>1, <3>2
  <2> QED
    BY <1>5, <2>1, <2>2, <2>3
<1>9. \A j \in Range(fileJobs') : j \in Range(fileJobs) \/ (j.t \in DOMAIN transfer /\ JobKind(j, transfer))
  BY <1>4, <1>8
<1> QED
  BY <1>1, <1>8, <1>9, JobsChange

LEMMA WrittenJobs ==
    ASSUME TypeInv, JobsInv, Keeps, ~Accepted, Written
    PROVE  JobsInv'
<1>1. IsSequence(fileJobs) /\ UNCHANGED accepts /\ Chain(fileJobs) /\ bufferJobs # <<>>
  BY DEF Written, BufferJob, data, TypeInv, ReplyInv, Shape, JobsInv
<1>2. CASE UNCHANGED fileJobs
  BY <1>1, <1>2, JobsSame
<1>3. CASE ~UNCHANGED fileJobs
  <2>1. PICK h : h = Head(bufferJobs)
    OBVIOUS
  <2>2. h.more /\ fileJobs' = Append(fileJobs, ReadData(h.t))
    BY <1>3, <2>1 DEF Written
  <2>3. h.t \in DOMAIN transfer
    <3>1. h \in Range(bufferJobs)
      BY <1>1, <2>1, RangeTail DEF TypeInv, ReplyInv, Inv
    <3> QED
      BY <2>2, <3>1 DEF TypeInv, ReplyInv, Shape, MoreOK, Downloading
  <2>4. PICK x : x = ReadData(h.t)
    OBVIOUS
  <2>5. ~LastBlock(x) /\ ~Objects(x) /\ x.t = h.t /\ JobKind(x, transfer)
    BY <2>4 DEF ReadData, LastBlock, Objects, JobKind
  <2>6. Chain(fileJobs') /\ Range(fileJobs') \subseteq Range(fileJobs) \cup {x}
    BY <1>1, <2>2, <2>4, <2>5, ChainAppend, RangeAppend
  <2>7. \A j \in Range(fileJobs') : j \in Range(fileJobs) \/ (j.t \in DOMAIN transfer /\ JobKind(j, transfer))
    BY <2>3, <2>5, <2>6
  <2> QED
    BY <1>1, <2>6, <2>7, JobsChange
<1> QED
  BY <1>2, <1>3

LEMMA JobsStep ==
    ASSUME TypeInv, JobsInv, [Next]_vars
    PROVE  JobsInv'
<1>1. Keeps
  BY TransfersKeep
<1>2. CASE Accepted
  BY <1>2, AcceptedJobs
<1>3. CASE ~Accepted /\ UNCHANGED fileJobs /\ (accepts' = accepts \/ accepts' = <<>>)
  BY <1>1, <1>3, JobsSame
<1>4. CASE LIST \/ \E f \in File : RETR(f) \/ STOR(f) \/ APPE(f)
  <2>1. PICK kind, f, i : Start(kind, f, i)
    BY <1>4 DEF LIST, RETR, STOR, APPE
  <2> QED
    BY <2>1, StartJobs
<1>5. CASE ~Accepted /\ (PASV \/ (\E u \in User : USER(u)) \/ PASS \/ QUIT \/ NOOP
                         \/ \E f \in File : RNFR(f) \/ RNTO(f) \/ DELE(f))
  BY <1>3, <1>5 DEF PASV, USER, PASS, QUIT, NOOP, RNFR, RNTO, DELE, data, strands
<1>6. CASE ~Accepted /\ (SendDeleteObjectRequest \/ Hangup \/ Sending \/ addDataToBufferAndSend \/ writeDataToSocket)
  BY <1>3, <1>6 DEF SendDeleteObjectRequest, Hangup, Sending, addDataToBufferAndSend, writeDataToSocket, data, strands
<1>7. CASE ~Accepted /\ \E t \in DOMAIN transfer : ListEnds(t) \/ Break(t)
  BY <1>3, <1>7 DEF ListEnds, Break, data, strands
<1>8. CASE ~Accepted /\ UNCHANGED vars
  BY <1>3, <1>8 DEF vars, data, strands
<1>9. CASE ~Accepted /\ \E t \in DOMAIN transfer : ReceiveBlock(t) \/ ReceiveLast(t) \/ ReceiveFails(t)
  BY <1>1, <1>9, ReceivingJobs
<1>10. CASE ~Accepted /\ (ReadFile \/ ReadEnds \/ writeDataToFile \/ endDataReceiving \/ LoadObject \/ StoreObject)
  BY <1>1, <1>10, FileStrandJobs
<1>11. CASE ~Accepted /\ Written
  BY <1>1, <1>11, WrittenJobs
<1> QED
  BY <1>2, <1>4, <1>5, <1>6, <1>7, <1>8, <1>9, <1>10, <1>11 DEF Next, Command, Strands

LEMMA InitJobs == Init => JobsInv
<1> SUFFICES ASSUME Init PROVE JobsInv
  OBVIOUS
<1>1. accepts = <<>> /\ fileJobs = <<>>
  BY DEF Init
<1>2. Range(<<>>) = {} /\ DOMAIN <<>> = {}
  BY DEF Range
<1> QED
  BY <1>1, <1>2 DEF JobsInv, Chain

-----------------------------------------------------------------------------
(* The flow of transfer c to its client.  What is posted is what was read.   *)

Fetched(r, k) ==
    /\ r.kind = "send" => IF r.eof THEN r.at = Items(r) /\ k >= Items(r)
                                   ELSE r.at = k /\ k < Items(r)
    /\ r.kind = "list" /\ r.reading => k = 1
    /\ r.socket = "new" => k = 0

(* The client got the first n items.                                         *)
Carried(r, n) ==
    IF r.start = <<>> THEN r.moved = <<>>
    ELSE Len(r.moved) = n /\ \A i \in 1..n : r.moved[i] = r.start[i]
Carries(r, bj, p, w) ==
    r.kind = "send" /\ r.socket \in {"new", "open"}
        => Carried(r, IF w # 0 /\ bj[w].op = "sent" THEN p + 1 ELSE p)

(* Of its items k were posted and p have left the buffer.                    *)
Flow(r, c, bo, bj, p, w, k) ==
    /\ k <= Total(r)
    /\ Queued(bo, r, c, p)
    /\ Lined(bj, r, c, p + Len(bo), w, k)
    /\ w # 0 => bo # <<>>
    /\ Fetched(r, k)
    /\ Carries(r, bj, p, w)

LEMMA BlockIsSome ==
    ASSUME NEW b \in Block
    PROVE  b # End /\ b # Empty
<1>1. PICK i, n : b = <<i, n>>
  BY DEF Block
<1>2. b # End
  BY <1>1, BlockIsNoEnd
<1>3. Len(<<i, n>>) = 2 /\ Len(Empty) = 0
  BY DEF Empty
<1> QED
  BY <1>1, <1>2, <1>3

LEMMA ItemsCounted ==
    ASSUME NEW r \in Transfers
    PROVE  /\ Items(r) \in Nat /\ Total(r) \in Nat
           /\ r.kind # "receive" => Items(r) >= 1 /\ Total(r) = Items(r) + 1
           /\ r.kind = "receive" => Total(r) = 0
<1>1. r.kind \in {"send", "list", "receive"} /\ r.start \in Seq(Block)
  BY DEF Transfers, Bytes
<1>2. CASE r.kind = "send"
  <2>1. PICK s \in Seq(Block) : s = r.start
    BY <1>1
  <2>2. Items(r) = IF s = <<>> THEN 1 ELSE Len(s)
    BY <1>2, <2>1 DEF Items
  <2>3. s # <<>> => Len(s) >= 1
    OBVIOUS
  <2>4. Len(s) \in Nat
    OBVIOUS
  <2>5. Items(r) \in Nat /\ Items(r) >= 1
    BY <2>2, <2>3, <2>4
  <2> QED
    BY <1>2, <2>5 DEF Total
<1>3. CASE r.kind = "list"
  BY <1>3 DEF Items, Total
<1>4. CASE r.kind = "receive"
  BY <1>4 DEF Items, Total
<1> QED
  BY <1>1, <1>2, <1>3, <1>4

LEMMA ItemsAlike ==
    ASSUME NEW r, NEW u, u.kind = r.kind, u.start = r.start
    PROVE  Items(u) = Items(r) /\ Total(u) = Total(r) /\ \A i : Item(u, i) = Item(r, i)
<1>1. Items(u) = Items(r)
  BY DEF Items
<1> QED
  BY <1>1 DEF Total, Item

(* Only the last item is the end.                                            *)
LEMMA LastItem ==
    ASSUME NEW r \in Transfers, NEW i \in Nat, 1 <= i, i <= Total(r), Item(r, i) = End
    PROVE  i = Total(r)
<1>1. /\ r.kind \in {"send", "list", "receive"} /\ r.start \in Seq(Block) /\ i \in Nat
      /\ Items(r) \in Nat /\ Total(r) = Items(r) + 1
  BY ItemsCounted DEF Transfers, Bytes
<1>2. SUFFICES ASSUME i <= Items(r) PROVE FALSE
  BY <1>1
<1>3. i # Items(r) + 1
  BY <1>1, <1>2
<1>4. CASE r.kind = "list"
  <2>1. Item(r, i) = <<0, 1>>
    BY <1>3, <1>4 DEF Item
  <2> QED
    BY <2>1, BlockIsNoEnd
<1>5. CASE r.kind = "send" /\ r.start = <<>>
  <2>1. Item(r, i) = Empty
    BY <1>3, <1>5 DEF Item
  <2> QED
    BY <2>1 DEF Empty, End
<1>6. CASE r.kind = "send" /\ r.start # <<>>
  <2>1. PICK s \in Seq(Block) : s = r.start
    BY <1>1
  <2>2. Item(r, i) = s[i] /\ Items(r) = Len(s)
    BY <1>3, <1>6, <2>1 DEF Item, Items
  <2>3. s[i] \in Block
    BY <1>2, <2>2
  <2> QED
    BY <2>2, <2>3, BlockIsSome
<1>7. CASE r.kind = "receive"
  BY <1>7, ItemsCounted
<1> QED
  BY <1>1, <1>4, <1>5, <1>6, <1>7

Counts(bo, bj, p, w, k) ==
    /\ Len(bo) \in Nat /\ Len(bj) \in Nat /\ w <= Len(bj)
    /\ k = p + Len(bo) + (IF w = 0 THEN Len(bj) ELSE Len(bj) - 1)
    /\ Len(bo) = 0 => bo = <<>>
    /\ Len(bj) = 0 => bj = <<>>
    /\ bo = <<>> => w = 0 /\ Len(bo) = 0
    /\ k = 0 => bo = <<>> /\ bj = <<>>
    /\ IsSequence(bo) /\ IsSequence(bj)

LEMMA FlowNumbers ==
    ASSUME NEW r, NEW c, NEW bo, NEW bj, NEW p \in Nat, NEW w \in Nat, NEW k \in Nat,
           Flow(r, c, bo, bj, p, w, k)
    PROVE  Counts(bo, bj, p, w, k)
<1>1. IsSequence(bo) /\ IsSequence(bj)
  BY DEF Flow, Queued, Lined
<1>2. Len(bo) \in Nat /\ Len(bj) \in Nat
  BY <1>1 DEF IsSequence
<1>3. (Len(bo) = 0 => bo = <<>>) /\ (Len(bj) = 0 => bj = <<>>) /\ Len(<<>>) = 0
  BY <1>1, EmptyAt
<1>4. w <= Len(bj) /\ k = p + Len(bo) + (IF w = 0 THEN Len(bj) ELSE Len(bj) - 1) /\ (w # 0 => bo # <<>>)
  BY DEF Flow, Lined
<1>5. ASSUME k = 0 PROVE bo = <<>> /\ bj = <<>>
  <2>1. CASE w = 0
    BY <1>2, <1>3, <1>4, <1>5, <2>1
  <2>2. CASE w # 0
    <3>1. Len(bo) # 0 /\ Len(bj) >= 1
      BY <1>2, <1>3, <1>4, <2>2
    <3> QED
      BY <1>2, <1>4, <1>5, <2>2, <3>1
  <2> QED
    BY <2>1, <2>2
<1> QED
  BY <1>1, <1>2, <1>3, <1>4, <1>5 DEF Counts

(* The record of the transfer changes.                                       *)
LEMMA FlowAs ==
    ASSUME NEW r, NEW u, NEW c, NEW bo, NEW bj, NEW p \in Nat, NEW w \in Nat, NEW k \in Nat,
           Flow(r, c, bo, bj, p, w, k), u.kind = r.kind, u.start = r.start,
           Fetched(u, k), Carries(u, bj, p, w)
    PROVE  Flow(u, c, bo, bj, p, w, k)
<1>1. Total(u) = Total(r) /\ \A i : Item(u, i) = Item(r, i)
  BY ItemsAlike
<1>2. Queued(bo, u, c, p)
  BY <1>1 DEF Flow, Queued
<1>3. Lined(bj, u, c, p + Len(bo), w, k)
  BY <1>1 DEF Flow, Lined
<1> QED
  BY <1>1, <1>2, <1>3 DEF Flow

(* A new transfer.                                                           *)
LEMMA FlowNew ==
    ASSUME NEW r \in Transfers, NEW c, r.at = 0, r.eof = FALSE, r.reading = FALSE, r.moved = <<>>
    PROVE  Flow(r, c, <<>>, <<>>, 0, 0, 0)
<1>1. Items(r) \in Nat /\ Total(r) \in Nat /\ (r.kind # "receive" => Items(r) >= 1)
  BY ItemsCounted
<1>2. IsSequence(<<>>) /\ Len(<<>>) = 0
  BY EmptyAt
<1>3. Queued(<<>>, r, c, 0)
  BY <1>2 DEF Queued
<1>4. Lined(<<>>, r, c, 0 + Len(<<>>), 0, 0)
  BY <1>2 DEF Lined
<1>5. Fetched(r, 0)
  BY <1>1 DEF Fetched
<1>6. Carried(r, 0)
  <2>1. Len(r.moved) = 0
    BY <1>2
  <2> QED
    BY <2>1 DEF Carried
<1>7. Carries(r, <<>>, 0, 0)
  BY <1>6 DEF Carries
<1> QED
  BY <1>1, <1>3, <1>4, <1>5, <1>7 DEF Flow

(* An item is posted.                                                        *)
LEMMA FlowPost ==
    ASSUME NEW r, NEW c, NEW bo, NEW bj, NEW p \in Nat, NEW w \in Nat, NEW k \in Nat,
           Flow(r, c, bo, bj, p, w, k), NEW x, x.t = c, x.op = "add", x.block = Item(r, k + 1),
           k + 1 <= Total(r), NEW u, u.kind = r.kind, u.start = r.start, u.moved = r.moved,
           u.socket = "open" => r.socket \in {"new", "open"}, u.socket # "new",
           Fetched(u, k + 1)
    PROVE  Flow(u, c, bo, Append(bj, x), p, w, k + 1)
<1>1. Total(u) = Total(r) /\ \A i : Item(u, i) = Item(r, i)
  BY ItemsAlike
<1>2. Len(bo) \in Nat /\ Len(bj) \in Nat /\ w <= Len(bj)
  BY FlowNumbers DEF Counts
<1>3. PICK q \in Nat : q = p + Len(bo)
  BY <1>2
<1>4. Lined(bj, r, c, q, w, k)
  BY <1>3 DEF Flow
<1>5. Lined(Append(bj, x), r, c, q, w, k + 1)
  BY <1>4, LineMore
<1>6. Follows(bj, w, Append(bj, x), w)
  BY <1>4, LineMore
<1>7. PICK a : a = Append(bj, x)
  OBVIOUS
<1>8. Queued(bo, u, c, p)
  BY <1>1 DEF Flow, Queued
<1>9. Lined(a, u, c, q, w, k + 1)
  BY <1>1, <1>5, <1>7 DEF Lined
<1>10. Carries(u, a, p, w)
  <2>1. ASSUME u.kind = "send", u.socket = "open" PROVE Carried(u, IF w # 0 /\ a[w].op = "sent" THEN p + 1 ELSE p)
    <3>1. Carried(r, IF w # 0 /\ bj[w].op = "sent" THEN p + 1 ELSE p)
      BY <2>1 DEF Flow, Carries
    <3>2. Carried(r, IF w # 0 /\ a[w].op = "sent" THEN p + 1 ELSE p)
      BY <1>6, <1>7, <3>1 DEF Follows
    <3> QED
      BY <3>2 DEF Carried
  <2> QED
    BY <2>1 DEF Carries
<1> QED
  BY <1>1, <1>3, <1>7, <1>8, <1>9, <1>10 DEF Flow

(* addDataToBufferAndSend                                                    *)
LEMMA FlowAdd ==
    ASSUME NEW r, NEW c, NEW bo, NEW bj, NEW p \in Nat, NEW w \in Nat, NEW k \in Nat,
           Flow(r, c, bo, bj, p, w, k), bj # <<>>, Head(bj).op = "add",
           NEW x, x.t = Head(bj).t, x.block = Head(bj).block, NEW y, y.t = c, y.op = "send"
    PROVE  /\ bo # <<>> => \E v \in Nat : Flow(r, c, Append(bo, x), Tail(bj), p, v, k)
           /\ bo = <<>> => \E v \in Nat : Flow(r, c, Append(bo, x), Append(Tail(bj), y), p, v, k)
<1>1. /\ Len(bo) \in Nat /\ Len(bj) \in Nat /\ w <= Len(bj) /\ IsSequence(bo)
      /\ bo = <<>> => w = 0
  <2>1. Counts(bo, bj, p, w, k)
    BY FlowNumbers
  <2> QED
    BY <2>1 DEF Counts
<1>2. PICK q \in Nat : q = p + Len(bo)
  BY <1>1
<1>3. Lined(bj, r, c, q, w, k) /\ Queued(bo, r, c, p)
  BY <1>2 DEF Flow
<1>4. Head(bj).t = c /\ Head(bj).block = Item(r, q + 1)
  BY <1>3, LineLess
<1>5. PICK tl : tl = Tail(bj)
  OBVIOUS
<1>6. PICK bu : bu = Append(bo, x)
  OBVIOUS
<1>7. PICK v \in Nat : Lined(tl, r, c, q + 1, v, k) /\ Follows(bj, w, tl, v)
  BY <1>3, <1>5, LineLess
<1>8. Queued(bu, r, c, p) /\ Len(bu) = Len(bo) + 1
  BY <1>2, <1>3, <1>4, <1>6, QueueMore
<1>9. bu # <<>>
  BY <1>1, <1>8, EmptyAt
<1>10. q + 1 = p + Len(bu)
  BY <1>1, <1>2, <1>8
<1>11. ASSUME bo # <<>> PROVE Flow(r, c, bu, tl, p, v, k)
  <2>1. Carries(r, tl, p, v)
    <3>1. (w # 0 /\ bj[w].op = "sent") <=> (v # 0 /\ tl[v].op = "sent")
      BY <1>7 DEF Follows
    <3> QED
      BY <3>1 DEF Flow, Carries
  <2> QED
    BY <1>7, <1>8, <1>9, <1>10, <2>1 DEF Flow
<1>12. ASSUME bo = <<>> PROVE \E z \in Nat : Flow(r, c, bu, Append(tl, y), p, z, k)
  <2>1. w = 0 /\ v = 0
    BY <1>1, <1>7, <1>12 DEF Follows
  <2>2. PICK n \in Nat : n = q + 1
    OBVIOUS
  <2>3. Lined(tl, r, c, n, 0, k) /\ y.op \in WriteOps
    BY <1>7, <2>1, <2>2 DEF WriteOps
  <2>4. PICK a : a = Append(tl, y)
    OBVIOUS
  <2>5. PICK z \in Nat : Lined(a, r, c, n, z, k) /\ Writes(a, z, y)
    BY <2>3, <2>4, LineWrites
  <2>6. Carries(r, a, p, z)
    <3>1. a[z].op # "sent"
      BY <2>5 DEF Writes
    <3> QED
      BY <2>1, <3>1 DEF Flow, Carries
  <2>7. Flow(r, c, bu, a, p, z, k)
    BY <1>8, <1>9, <1>10, <2>2, <2>5, <2>6, <1>3 DEF Flow
  <2> QED
    BY <2>4, <2>7
<1> QED
  BY <1>5, <1>6, <1>11, <1>12

(* writeDataToSocket starts a write.                                         *)
LEMMA FlowSend ==
    ASSUME NEW r, NEW c, NEW bo, NEW bj, NEW p \in Nat, NEW w \in Nat, NEW k \in Nat,
           Flow(r, c, bo, bj, p, w, k), bj # <<>>, Head(bj).op = "send"
    PROVE  w = 1 /\ bo # <<>> /\ Head(bj).t = c /\ Flow(r, c, bo, Tail(bj), p, 0, k)
<1>1. Len(bo) \in Nat
  BY FlowNumbers DEF Counts
<1>2. PICK q \in Nat : q = p + Len(bo)
  BY <1>1
<1>3. Lined(bj, r, c, q, w, k)
  BY <1>2 DEF Flow
<1>4. Head(bj).t = c /\ w = 1 /\ Head(bj) = bj[w] /\ Lined(Tail(bj), r, c, q, 0, k)
  BY <1>3, LineWrote DEF WriteOps
<1>5. PICK tl : tl = Tail(bj)
  OBVIOUS
<1>6. Carries(r, tl, p, 0)
  <2>1. bj[w].op # "sent"
    BY <1>4
  <2> QED
    BY <2>1 DEF Flow, Carries
<1> QED
  BY <1>2, <1>4, <1>5, <1>6 DEF Flow

(* ... or meets the end, and then all has been sent.                         *)
LEMMA FlowEnd ==
    ASSUME NEW r \in Transfers, NEW c, NEW bo, NEW bj, NEW p \in Nat, NEW w \in Nat, NEW k \in Nat,
           Flow(r, c, bo, bj, p, w, k), bj # <<>>, Head(bj).op = "send", Head(bo).block = End
    PROVE  /\ Head(bo).t = c /\ Tail(bo) = <<>> /\ Tail(bj) = <<>>
           /\ r.kind = "send" /\ r.socket = "open" => r.moved = r.start
<1>1. w = 1 /\ bo # <<>> /\ Flow(r, c, bo, Tail(bj), p, 0, k)
  BY FlowSend
<1> Queued(bo, r, c, p)
  BY DEF Flow
<1>2. PICK tb : tb = Tail(bo)
  OBVIOUS
<1>10. /\ Head(bo).t = c /\ Head(bo).block = Item(r, p + 1)
       /\ Len(tb) = Len(bo) - 1 /\ Len(bo) \in Nat \ {0}
  BY <1>1, <1>2, QueueLess
<1>11. IsSequence(tb)
  BY <1>1, <1>2, TailAt DEF Queued
<1>3. PICK tl : tl = Tail(bj)
  OBVIOUS
<1>4. Len(tl) \in Nat /\ k = p + Len(bo) + Len(tl) /\ (Len(tl) = 0 => tl = <<>>)
  <2>1. PICK z \in Nat : z = 0
    OBVIOUS
  <2>2. Flow(r, c, bo, tl, p, z, k)
    BY <1>1, <1>3, <2>1
  <2>3. /\ Len(tl) \in Nat /\ (Len(tl) = 0 => tl = <<>>)
        /\ k = p + Len(bo) + (IF z = 0 THEN Len(tl) ELSE Len(tl) - 1)
    <3>1. Counts(bo, tl, p, z, k)
      BY <2>2, FlowNumbers
    <3> QED
      BY <3>1 DEF Counts
  <2> QED
    BY <2>1, <2>3
<1>5. k <= Total(r) /\ Total(r) \in Nat
  BY ItemsCounted DEF Flow
<1>6. p + 1 = Total(r)
  <2>1. p + 1 \in Nat /\ 1 <= p + 1 /\ p + 1 <= Total(r)
    BY <1>10, <1>4, <1>5
  <2> QED
    BY <1>10, <2>1, LastItem
<1>7. Len(bo) = 1 /\ Len(tl) = 0
  BY <1>10, <1>4, <1>5, <1>6
<1>8. tb = <<>>
  BY <1>10, <1>11, <1>7, EmptyAt
<1>9. ASSUME r.kind = "send", r.socket = "open" PROVE r.moved = r.start
  <2>1. Carried(r, p)
    BY <1>1, <1>9 DEF Flow, Carries
  <2>2. p = Items(r)
    BY <1>6, <1>9, ItemsCounted
  <2>3. PICK s \in Seq(Block) : s = r.start
    BY DEF Transfers, Bytes
  <2>4. PICK m \in Seq(Block) : m = r.moved
    BY DEF Transfers, Bytes
  <2>5. CASE s = <<>>
    BY <2>1, <2>3, <2>4, <2>5 DEF Carried
  <2>6. CASE s # <<>>
    <3>1. p = Len(s)
      BY <1>9, <2>2, <2>3, <2>6 DEF Items
    <3>2. Len(m) = Len(s) /\ \A i \in 1..Len(s) : m[i] = s[i]
      BY <2>1, <2>3, <2>4, <2>6, <3>1 DEF Carried
    <3>3. m = s
      BY <3>2
    <3> QED
      BY <2>3, <2>4, <3>3
  <2> QED
    BY <2>5, <2>6
<1> QED
  BY <1>2, <1>3, <1>4, <1>7, <1>8, <1>9, <1>10

(* The first block of the buffer is on its way to the client.                *)
LEMMA FlowSent ==
    ASSUME NEW r \in Transfers, NEW c, NEW bo, NEW bj, NEW p \in Nat, NEW k \in Nat,
           Flow(r, c, bo, bj, p, 0, k), bo # <<>>, Head(bo).block # End,
           NEW u, Differs(r, u, "moved"),
           u.moved = IF r.socket = "open" /\ Head(bo).block # Empty
                     THEN Append(r.moved, Head(bo).block) ELSE r.moved,
           NEW y, y.t = c, y.op = "sent"
    PROVE  \E v \in Nat : Flow(u, c, bo, Append(bj, y), p, v, k)
<1>1. /\ Len(bo) \in Nat /\ Len(bj) \in Nat /\ k = p + Len(bo) + Len(bj)
      /\ k <= Total(r) /\ Queued(bo, r, c, p)
  <2>1. PICK z \in Nat : z = 0
    OBVIOUS
  <2>2. Flow(r, c, bo, bj, p, z, k)
    BY <2>1
  <2>3. /\ Len(bo) \in Nat /\ Len(bj) \in Nat
        /\ k = p + Len(bo) + (IF z = 0 THEN Len(bj) ELSE Len(bj) - 1)
    <3>1. Counts(bo, bj, p, z, k)
      BY <2>2, FlowNumbers
    <3> QED
      BY <3>1 DEF Counts
  <2>4. k <= Total(r) /\ Queued(bo, r, c, p)
    BY DEF Flow
  <2> QED
    BY <2>1, <2>3, <2>4
<1>2. Head(bo).block = Item(r, p + 1) /\ Len(bo) \in Nat \ {0}
  BY <1>1, QueueLess
<1>3. p + 1 <= Total(r) /\ p + 1 # Items(r) + 1 /\ k # 0
  BY <1>1, <1>2, ItemsCounted DEF Item
<1>4. PICK q \in Nat : q = p + Len(bo)
  BY <1>1
<1>5. Lined(bj, r, c, q, 0, k)
  BY <1>4 DEF Flow
<1>6. y.op \in WriteOps
  BY DEF WriteOps
<1>7. PICK a : a = Append(bj, y)
  OBVIOUS
<1>8. PICK v \in Nat : Lined(a, r, c, q, v, k) /\ Writes(a, v, y)
  BY <1>5, <1>6, <1>7, LineWrites
<1>9. /\ u.kind = r.kind /\ u.start = r.start /\ u.socket = r.socket
      /\ u.eof = r.eof /\ u.at = r.at /\ u.reading = r.reading
  BY DEF Differs, Fixed
<1>10. Total(u) = Total(r) /\ Items(u) = Items(r) /\ \A i : Item(u, i) = Item(r, i)
  BY <1>9, ItemsAlike
<1>11. Fetched(u, k)
  BY <1>9, <1>10 DEF Flow, Fetched
<1>12. Carries(u, a, p, v)
  <2>1. SUFFICES ASSUME r.kind = "send", r.socket \in {"new", "open"} PROVE Carried(u, p + 1)
    BY <1>8, <1>9 DEF Carries, Writes
  <2>2. r.socket = "open"
    BY <1>3, <2>1 DEF Flow, Fetched
  <2>3. Carried(r, p)
    BY <2>1 DEF Flow, Carries
  <2>4. PICK b : b = Head(bo).block
    OBVIOUS
  <2>5. PICK s \in Seq(Block) : s = r.start
    BY DEF Transfers, Bytes
  <2>6. PICK m \in Seq(Block) : m = r.moved
    BY DEF Transfers, Bytes
  <2>7. CASE s = <<>>
    <3>1. b = Empty
      BY <1>2, <1>3, <2>1, <2>4, <2>5, <2>7 DEF Item
    <3> QED
      BY <1>9, <2>3, <2>4, <2>5, <2>7, <3>1 DEF Carried
  <2>8. CASE s # <<>>
    <3>1. b = s[p + 1] /\ Items(r) = Len(s) /\ Total(r) = Len(s) + 1
      BY <1>2, <1>3, <2>1, <2>4, <2>5, <2>8 DEF Item, Items, Total
    <3>2. b \in Block
      BY <1>3, <3>1
    <3>3. b # Empty
      BY <3>2, BlockIsSome
    <3>4. u.moved = Append(m, b)
      BY <2>2, <2>4, <2>6, <3>3
    <3>5. Len(m) = p /\ \A i \in 1..p : m[i] = s[i]
      BY <2>3, <2>5, <2>6, <2>8 DEF Carried
    <3>6. PICK n \in Seq(Block) : n = Append(m, b)
      BY <3>2, Sequences
    <3>7. Len(n) = p + 1 /\ \A i \in 1..(p + 1) : n[i] = s[i]
      BY <3>1, <3>2, <3>5, <3>6
    <3> QED
      BY <1>9, <2>5, <2>8, <3>4, <3>6, <3>7 DEF Carried
  <2> QED
    BY <2>7, <2>8
<1>13. Queued(bo, u, c, p) /\ Lined(a, u, c, q, v, k)
  BY <1>1, <1>8, <1>10 DEF Queued, Lined
<1>14. Flow(u, c, bo, a, p, v, k)
  BY <1>1, <1>4, <1>10, <1>11, <1>12, <1>13 DEF Flow
<1> QED
  BY <1>7, <1>14

(* The write is done.                                                        *)
Removes(bo, bj, p, bu, tl, n, z) ==
    /\ bj # <<>> /\ Head(bj).op = "sent"
    /\ bu = Tail(bo) /\ tl = Tail(bj)
    /\ n \in Nat /\ n = p + 1 /\ z = 0

LEMMA FlowWritten ==
    ASSUME NEW r, NEW c, NEW bo, NEW bj, NEW p \in Nat, NEW w \in Nat, NEW k \in Nat,
           Flow(r, c, bo, bj, p, w, k), NEW bu, NEW tl, NEW n, NEW z,
           Removes(bo, bj, p, bu, tl, n, z)
    PROVE  Head(bj).t = c /\ Flow(r, c, bu, tl, n, z, k)
<1>0. /\ bj # <<>> /\ Head(bj).op = "sent"
      /\ bu = Tail(bo) /\ tl = Tail(bj)
      /\ n \in Nat /\ n = p + 1 /\ z = 0
  BY DEF Removes
<1>1. Len(bo) \in Nat
  BY FlowNumbers DEF Counts
<1>2. PICK q \in Nat : q = p + Len(bo)
  BY <1>1
<1>3. Lined(bj, r, c, q, w, k)
  BY <1>2 DEF Flow
<1>4. Head(bj).t = c /\ w = 1 /\ Head(bj) = bj[w] /\ Lined(Tail(bj), r, c, q, 0, k)
  BY <1>0, <1>3, LineWrote DEF WriteOps
<1>5. bo # <<>> /\ Queued(bo, r, c, p)
  BY <1>4 DEF Flow
<1>8. Queued(bu, r, c, p + 1) /\ Len(bu) = Len(bo) - 1 /\ Len(bo) \in Nat \ {0}
  BY <1>0, <1>5, QueueLess
<1>9. q = n + Len(bu)
  BY <1>0, <1>2, <1>8
<1>10. r.kind = "send" /\ r.socket \in {"new", "open"} => Carried(r, n)
  BY <1>0, <1>4 DEF Flow, Carries
<1>11. Carries(r, tl, n, z)
  BY <1>0, <1>10 DEF Carries
<1>12. k <= Total(r) /\ Fetched(r, k)
  BY DEF Flow
<1> QED
  BY <1>0, <1>4, <1>8, <1>9, <1>11, <1>12 DEF Flow

(* ... and the next begins.                                                  *)
LEMMA FlowNext ==
    ASSUME NEW r, NEW c, NEW bo, NEW bj, NEW p \in Nat, NEW z \in Nat, NEW k \in Nat,
           z = 0, Flow(r, c, bo, bj, p, z, k), bo # <<>>, NEW y, y.t = c, y.op = "send"
    PROVE  \E v \in Nat : Flow(r, c, bo, Append(bj, y), p, v, k)
<1>1. Len(bo) \in Nat
  BY FlowNumbers DEF Counts
<1>2. PICK q \in Nat : q = p + Len(bo)
  BY <1>1
<1>3. Lined(bj, r, c, q, 0, k)
  BY <1>2 DEF Flow
<1>4. y.op \in WriteOps
  BY DEF WriteOps
<1>5. PICK a : a = Append(bj, y)
  OBVIOUS
<1>6. PICK v \in Nat : Lined(a, r, c, q, v, k) /\ Writes(a, v, y)
  BY <1>3, <1>4, <1>5, LineWrites
<1>7. Carries(r, a, p, v)
  <2>1. a[v].op # "sent"
    BY <1>6 DEF Writes
  <2>2. r.kind = "send" /\ r.socket \in {"new", "open"} => Carried(r, p)
    BY DEF Flow, Carries
  <2> QED
    BY <2>1, <2>2 DEF Carries
<1>8. k <= Total(r) /\ Fetched(r, k) /\ Queued(bo, r, c, p)
  BY DEF Flow
<1>9. Flow(r, c, bo, a, p, v, k)
  BY <1>2, <1>6, <1>7, <1>8 DEF Flow
<1> QED
  BY <1>5, <1>9

-----------------------------------------------------------------------------
(* One transfer at a time, and nothing left of the ones before.              *)

Silent(bo, bj) == bo = <<>> /\ bj = <<>>
Posted(fj, r, k) == \A j \in Range(fj) : j.op = "null" => r.kind = "send" /\ k = Items(r)
Course(r, c, bo, bj, fj, ct) ==
    /\ \E p, w, k \in Nat : Flow(r, c, bo, bj, p, w, k) /\ Posted(fj, r, k)
    /\ r.kind = "send" => ct[r.inode] = r.start
Whole(r) == r.replies > 0 /\ r.kind = "send" /\ r.socket = "open" => r.moved = r.start

DownInv ==
    orderly =>
        /\ \A t \in DOMAIN transfer : Whole(transfer[t]) /\ (t # Count => transfer[t].replies > 0)
        /\ writing # NoWrite => writing.t = Count
        /\ Count = 0 => Silent(buffer, bufferJobs)
        /\ Count # 0 =>
               IF transfer[Count].replies > 0 THEN Silent(buffer, bufferJobs)
               ELSE Course(transfer[Count], Count, buffer, bufferJobs, fileJobs, content)

(* A transfer that waits, or an upload, has nothing to send.                 *)
LEMMA CourseQuiet ==
    ASSUME NEW r, NEW c, NEW bo, NEW bj, NEW fj, NEW ct, Course(r, c, bo, bj, fj, ct),
           r.socket = "new" \/ r.kind = "receive"
    PROVE  Silent(bo, bj)
<1>1. PICK p, w, k \in Nat : Flow(r, c, bo, bj, p, w, k)
  BY DEF Course
<1>2. k = 0
  <2>1. CASE r.socket = "new"
    BY <1>1, <2>1 DEF Flow, Fetched
  <2>2. CASE r.kind = "receive"
    <3>1. Total(r) = 0 /\ k <= Total(r)
      BY <1>1, <2>2 DEF Flow, Total
    <3> QED
      BY <3>1
  <2> QED
    BY <2>1, <2>2
<1>3. Counts(bo, bj, p, w, k)
  BY <1>1, FlowNumbers
<1> QED
  BY <1>2, <1>3 DEF Counts, Silent

(* The record changes, but not what there is to send.                        *)
Refetches(r, u) == \A k \in Nat : Fetched(r, k) => Fetched(u, k)
LEMMA CourseAs ==
    ASSUME NEW r, NEW c, NEW bo, NEW bj, NEW fj, NEW ct, Course(r, c, bo, bj, fj, ct),
           NEW u, Fixed(r, u), Refetches(r, u),
           r.kind = "send" /\ u.socket \in {"new", "open"} => r.socket \in {"new", "open"} /\ u.moved = r.moved,
           NEW fk, \A j \in Range(fk) : j.op = "null" => j \in Range(fj),
           NEW cu, r.kind = "send" => cu[r.inode] = ct[r.inode]
    PROVE  Course(u, c, bo, bj, fk, cu)
<1>1. PICK p, w, k \in Nat : Flow(r, c, bo, bj, p, w, k) /\ Posted(fj, r, k)
  BY DEF Course
<1>2. u.kind = r.kind /\ u.start = r.start /\ u.inode = r.inode
  BY DEF Fixed
<1>3. Fetched(u, k)
  BY <1>1 DEF Flow, Refetches
<1>4. Carries(u, bj, p, w)
  BY <1>1, <1>2 DEF Flow, Carries, Carried
<1>5. Flow(u, c, bo, bj, p, w, k)
  BY <1>1, <1>2, <1>3, <1>4, FlowAs
<1>6. Posted(fk, u, k)
  <2>1. Items(u) = Items(r)
    BY <1>2, ItemsAlike
  <2> QED
    BY <1>1, <1>2, <2>1 DEF Posted
<1> QED
  BY <1>2, <1>5, <1>6 DEF Course

LEMMA SameFetches ==
    ASSUME NEW r, NEW u, Fixed(r, u), u.at = r.at, u.eof = r.eof,
           u.reading => r.reading, u.socket = "new" => r.socket = "new"
    PROVE  Refetches(r, u)
<1>1. u.kind = r.kind /\ u.start = r.start
  BY DEF Fixed
<1>2. Items(u) = Items(r)
  BY <1>1, ItemsAlike
<1> QED
  BY <1>1, <1>2 DEF Refetches, Fetched

(* Who has something to do is the newest transfer.                           *)
LEMMA Current ==
    ASSUME TypeInv, DownInv, orderly, NEW t \in DOMAIN transfer, Pending(t)
    PROVE  /\ t = Count /\ transfer[t] \in Transfers /\ ~(transfer[t].replies > 0)
           /\ Course(transfer[t], t, buffer, bufferJobs, fileJobs, content)
<1>1. t \in Nat /\ t # 0 /\ transfer[t] \in Transfers
  BY TransferNumbers, Numbers, TypeParts DEF TypeInv, ReplyInv
<1>2. ~(transfer[t].replies > 0)
  BY PendingUnanswered DEF TypeInv, Answered
<1>3. t = Count
  BY <1>2 DEF DownInv
<1> QED
  BY <1>1, <1>2, <1>3 DEF DownInv

(* ... and so has it when anything is to be sent.                            *)
LEMMA Busy ==
    ASSUME TypeInv, DownInv, orderly, ~Silent(buffer, bufferJobs), NEW t, t = Count
    PROVE  /\ t \in DOMAIN transfer /\ transfer[t] \in Transfers /\ ~(transfer[t].replies > 0)
           /\ Course(transfer[t], t, buffer, bufferJobs, fileJobs, content)
<1>1. Count # 0 /\ Count \in Nat /\ DOMAIN transfer = 1..Count
  BY Numbers, TypeParts DEF TypeInv, DownInv
<1>2. t \in DOMAIN transfer
  BY <1>1
<1>3. transfer[t] \in Transfers
  BY <1>2, Numbers, TypeParts DEF TypeInv
<1> QED
  BY <1>1, <1>2, <1>3 DEF DownInv

(* A step of one transfer.                                                   *)
LEMMA OneStep ==
    ASSUME TypeInv, DownInv, UNCHANGED orderly, NEW t \in DOMAIN transfer, NEW r, Only(t, r),
           transfer[t].replies > 0 => r.replies > 0,
           orderly => /\ Whole(r)
                      /\ writing' # NoWrite => writing' = writing \/ writing'.t = Count
                      /\ t # Count => r.replies > 0 /\ UNCHANGED <<buffer, bufferJobs, fileJobs, content>>
                      /\ t = Count => IF r.replies > 0 THEN Silent(buffer', bufferJobs')
                                      ELSE Course(r, t, buffer', bufferJobs', fileJobs', content')
    PROVE  DownInv'
<1> SUFFICES ASSUME orderly PROVE DownInv'
  BY DEF DownInv
<1>1. Count \in Nat /\ Count # 0 /\ Count \in DOMAIN transfer /\ Count' = Count /\ DOMAIN transfer' = DOMAIN transfer
  <2>1. Count \in Nat /\ DOMAIN transfer = 1..Count
    BY Numbers, TypeParts DEF TypeInv
  <2> QED
    BY <2>1 DEF Only
<1>2. transfer'[t] = r /\ \A u \in DOMAIN transfer : u # t => transfer'[u] = transfer[u]
  BY DEF Only
<1>3. \A u \in DOMAIN transfer : Whole(transfer'[u]) /\ (u # Count => transfer'[u].replies > 0)
  BY <1>2 DEF DownInv
<1>4. writing' # NoWrite => writing'.t = Count
  BY DEF DownInv
<1>5. IF transfer'[Count].replies > 0 THEN Silent(buffer', bufferJobs')
      ELSE Course(transfer'[Count], Count, buffer', bufferJobs', fileJobs', content')
  <2>1. CASE t = Count
    BY <1>2, <2>1
  <2>2. CASE t # Count
    BY <1>1, <1>2, <2>2 DEF DownInv
  <2> QED
    BY <2>1, <2>2
<1>6. NoWrite' = NoWrite
  BY DEF NoWrite
<1> QED
  BY <1>1, <1>3, <1>4, <1>5, <1>6 DEF DownInv

(* A step of none.                                                           *)
LEMMA NoStep ==
    ASSUME TypeInv, DownInv, UNCHANGED <<orderly, transfer, buffer, writing, bufferJobs, content>>,
           \A j \in Range(fileJobs') : j.op = "null" => j \in Range(fileJobs)
    PROVE  DownInv'
<1> SUFFICES ASSUME orderly PROVE DownInv'
  BY DEF DownInv
<1>1. Count' = Count /\ NoWrite' = NoWrite
  BY DEF Count, NoWrite
<1>2. Count # 0 /\ ~(transfer[Count].replies > 0)
          => Course(transfer[Count], Count, buffer, bufferJobs, fileJobs', content)
  <2>1. SUFFICES ASSUME Count # 0, ~(transfer[Count].replies > 0)
                 PROVE  Course(transfer[Count], Count, buffer, bufferJobs, fileJobs', content)
    OBVIOUS
  <2>2. PICK r : r = transfer[Count]
    OBVIOUS
  <2>3. Course(r, Count, buffer, bufferJobs, fileJobs, content)
    BY <2>1, <2>2 DEF DownInv
  <2>4. Refetches(r, r) /\ Fixed(r, r)
    BY DEF Refetches, Fixed
  <2>5. PICK fk : fk = fileJobs'
    OBVIOUS
  <2>6. Course(r, Count, buffer, bufferJobs, fk, content)
    BY <2>3, <2>4, <2>5, CourseAs
  <2> QED
    BY <2>2, <2>5, <2>6
<1> QED
  BY <1>1, <1>2 DEF DownInv

-----------------------------------------------------------------------------
(* Commands and connections.                                                 *)

LEMMA StartDown ==
    ASSUME TypeInv, TypeInv', DownInv, NEW kind, NEW f, NEW i, Start(kind, f, i)
    PROVE  DownInv'
<1> SUFFICES ASSUME orderly' PROVE DownInv'
  BY DEF DownInv
<1>1. orderly /\ \A t \in DOMAIN transfer : transfer[t].replies > 0
  BY DEF Start, Answered
<1>2. Moved /\ Count \in Nat /\ DOMAIN transfer = 1..Count
  BY Numbers, TypeParts DEF TypeInv
<1>3. Silent(buffer, bufferJobs)
  BY <1>1, <1>2 DEF DownInv
<1>4. writing = NoWrite
  BY <1>3 DEF Silent, TypeInv, ReplyInv, Inv, OneWriter
<1>5. UNCHANGED <<buffer, writing, bufferJobs, fileJobs>>
  BY DEF Start, strands
<1>6. PICK r : transfer' = Append(transfer, r) /\ IsOpened(r, kind, i, content'[i]) /\ r.socket = "new"
  BY StartAppends
<1> /\ r.kind = kind /\ r.inode = i /\ r.at = 0 /\ r.eof = FALSE
    /\ r.reading = FALSE /\ r.start = content'[i] /\ r.moved = <<>>
  BY <1>6 DEF IsOpened
<1>7. PICK c \in Nat : c = Count + 1
  BY <1>2
<1>8. /\ Count' = c /\ c # 0 /\ DOMAIN transfer' = 1..c /\ transfer'[c] = r
      /\ \A t \in DOMAIN transfer : transfer'[t] = transfer[t]
  BY <1>2, <1>6, <1>7, Another
<1>9. r \in Transfers
  <2>1. transfer' \in Seq(Transfers)
    BY DEF TypeInv, TypeOK, Transfers, Bytes, Block, Inode
  <2>2. PICK ts \in Seq(Transfers) : ts = transfer'
    BY <2>1
  <2>3. c \in DOMAIN ts
    BY <1>7, <1>8, <2>2
  <2> QED
    BY <1>8, <2>2, <2>3
<1>10. \A j \in Range(fileJobs) : j.op # "null"
  <2>1. SUFFICES ASSUME NEW j \in Range(fileJobs), j.op = "null" PROVE FALSE
    OBVIOUS
  <2>2. j.t \in DOMAIN transfer
    BY <2>1 DEF TypeInv, ReplyInv, Shape, JobOK
  <2>3. Ends(j.t, "file", fileJobs)
    BY <2>1 DEF Ends, Owner
  <2>4. ~Answered(j.t)
    BY <2>2, <2>3, PendingUnanswered DEF Pending, TypeInv
  <2> QED
    BY <1>1, <2>2, <2>4 DEF Answered
<1>11. Course(r, c, <<>>, <<>>, fileJobs, content')
  <2>1. Flow(r, c, <<>>, <<>>, 0, 0, 0)
    BY <1>6, <1>9, FlowNew
  <2>2. Posted(fileJobs, r, 0)
    BY <1>10 DEF Posted
  <2> QED
    BY <1>6, <2>1, <2>2 DEF Course
<1>12. \A t \in DOMAIN transfer' : Whole(transfer'[t]) /\ (t # c => transfer'[t].replies > 0)
  <2>1. SUFFICES ASSUME NEW t \in DOMAIN transfer'
                 PROVE  Whole(transfer'[t]) /\ (t # c => transfer'[t].replies > 0)
    OBVIOUS
  <2>2. CASE t = c
    BY <1>6, <1>8, <2>2 DEF Whole
  <2>3. CASE t # c
    <3>1. t \in DOMAIN transfer
      BY <1>2, <1>7, <1>8, <2>3
    <3> QED
      BY <1>1, <1>8, <3>1 DEF DownInv
  <2> QED
    BY <2>2, <2>3
<1>13. NoWrite' = NoWrite
  BY DEF NoWrite
<1>14. buffer' = <<>> /\ bufferJobs' = <<>> /\ fileJobs' = fileJobs /\ writing' = NoWrite
  BY <1>3, <1>4, <1>5 DEF Silent
<1> QED
  BY <1>8, <1>11, <1>12, <1>13, <1>14 DEF DownInv, Silent

(* The acceptor is closed, and perhaps the newest data socket.               *)
LEMMA ClosedDown ==
    ASSUME TypeInv, JobsInv, DownInv, PASV \/ Hangup
    PROVE  DownInv'
<1>1. /\ UNCHANGED <<orderly, buffer, writing, bufferJobs, fileJobs, content>>
      /\ transfer' = ReplyTo(Range(accepts)) \/ transfer' = CloseData(ReplyTo(Range(accepts)))
  BY DEF PASV, Hangup, AbortAccepts, strands, disk, history
<1>2. Moved /\ Count \in Nat /\ DOMAIN transfer = 1..Count /\ Range(accepts) \subseteq DOMAIN transfer
  BY Numbers, TypeParts DEF TypeInv, ReplyInv, Shape
<1>3. PICK ts : ts = Range(accepts)
  OBVIOUS
<1>4. PICK us : us = ReplyTo(ts)
  OBVIOUS
<1>5. PICK ws : ws = CloseData(us)
  OBVIOUS
<1>6. /\ DOMAIN us = DOMAIN transfer /\ DOMAIN ws = DOMAIN transfer
      /\ \A t \in DOMAIN transfer :
          /\ Differs(transfer[t], us[t], "replies")
          /\ us[t].replies = IF t \in ts THEN transfer[t].replies + 1 ELSE transfer[t].replies
          /\ t \notin ts => us[t] = transfer[t]
          /\ Differs(us[t], ws[t], "socket")
          /\ ws[t] = us[t] \/ (t = Count /\ transfer[t].socket = "open" /\ ws[t].socket = "closed")
  BY <1>2, <1>4, <1>5, RepliesDo
<1>7. transfer' = us \/ transfer' = ws
  BY <1>1, <1>3, <1>4, <1>5
<1> SUFFICES ASSUME orderly PROVE DownInv'
  BY <1>1 DEF DownInv
<1>8. \A t \in DOMAIN transfer : t \in ts => t = Count /\ transfer[t].socket = "new"
  BY <1>3, Current DEF Pending, JobsInv
<1>9. CASE Count = 0
  <2>1. DOMAIN transfer' = {} /\ DOMAIN transfer = {}
    BY <1>2, <1>6, <1>7, <1>9
  <2>2. Count' = 0
    <3>1. PICK vs : vs = transfer'
      OBVIOUS
    <3>2. vs = <<>>
      <4>1. us = [t \in DOMAIN transfer |-> us[t]] /\ ws = [t \in DOMAIN us |-> ws[t]]
        BY <1>4, <1>5 DEF ReplyTo, CloseData
      <4>2. transfer = <<>>
        BY <1>2, <1>9 DEF Moved, Count
      <4> QED
        BY <1>6, <1>7, <2>1, <3>1, <4>1, <4>2
    <3> QED
      BY <3>1, <3>2 DEF Count
  <2>3. NoWrite' = NoWrite
    BY DEF NoWrite
  <2>4. Silent(buffer, bufferJobs)
    BY <1>9 DEF DownInv
  <2>5. writing = NoWrite
    BY <2>4 DEF Silent, TypeInv, ReplyInv, Inv, OneWriter
  <2> QED
    BY <1>1, <2>1, <2>2, <2>3, <2>4, <2>5 DEF DownInv
<1>10. CASE Count # 0
  <2>1. PICK c : c = Count /\ c \in DOMAIN transfer
    BY <1>2, <1>10
  <2>2. PICK q \in Transfers : q = transfer[c]
    BY <1>2, <2>1, Numbers
  <2>3. PICK r : r = transfer'[c]
    OBVIOUS
  <2>4. Count' = Count
    <3>1. Keeps /\ DOMAIN transfer' = DOMAIN transfer
      BY <1>1, <1>6, <1>7, KeepsReplies
    <3>2. PICK S : transfer' \in Seq(S)
      <4>1. PICK n \in Nat : DOMAIN transfer' = 1..n
        BY <1>2, <3>1
      <4>2. PICK vs : vs = transfer'
        OBVIOUS
      <4>3. us = [t \in DOMAIN transfer |-> us[t]] /\ ws = [t \in DOMAIN us |-> ws[t]]
        BY <1>4, <1>5 DEF ReplyTo, CloseData
      <4>4. vs = [i \in 1..n |-> vs[i]]
        BY <1>6, <1>7, <4>1, <4>2, <4>3
      <4>5. vs \in Seq({vs[i] : i \in 1..n})
        BY <4>4
      <4> QED
        BY <4>2, <4>5
    <3>3. PICK vs \in Seq(S) : vs = transfer'
      BY <3>2
    <3>4. Len(vs) = Count
      BY <1>2, <3>1, <3>3
    <3> QED
      BY <3>3, <3>4 DEF Count
  <2>5. Only(c, r)
    BY <1>6, <1>7, <1>8, <2>1, <2>3, <2>4 DEF Only
  <2>6. CASE c \in ts
    <3>1. ~(q.replies > 0) /\ Course(q, c, buffer, bufferJobs, fileJobs, content) /\ q.socket = "new"
      BY <1>3, <1>8, <2>1, <2>2, <2>6, Current DEF Pending
    <3>2. Silent(buffer, bufferJobs)
      BY <3>1, CourseQuiet
    <3>3. q.replies \in Nat
      BY DEF Transfers
    <3>4. us[c].socket = "new" /\ us[c].replies = q.replies + 1 /\ ws[c] = us[c]
      BY <1>6, <2>1, <2>2, <2>6, <3>1 DEF Differs
    <3>5. r.socket = "new" /\ r.replies > 0
      BY <1>7, <2>3, <3>3, <3>4
    <3> QED
      BY <1>1, <2>1, <2>5, <3>2, <3>5, OneStep DEF Whole
  <2>7. CASE c \notin ts
    <3>1. r = q \/ (Differs(q, r, "socket") /\ r.socket = "closed")
      BY <1>6, <1>7, <2>1, <2>2, <2>3, <2>7
    <3>2. Whole(q)
      BY <2>1, <2>2 DEF DownInv
    <3>3. r.replies = q.replies /\ Fixed(q, r) /\ Whole(r)
      BY <3>1, <3>2 DEF Differs, Fixed, Whole
    <3>4. IF r.replies > 0 THEN Silent(buffer, bufferJobs) ELSE Course(r, c, buffer, bufferJobs, fileJobs, content)
      <4>1. IF q.replies > 0 THEN Silent(buffer, bufferJobs) ELSE Course(q, c, buffer, bufferJobs, fileJobs, content)
        BY <1>10, <2>1, <2>2 DEF DownInv
      <4>2. Refetches(q, r)
        BY <3>1, <3>3, SameFetches DEF Differs
      <4>3. r.socket \in {"new", "open"} => r = q
        BY <3>1
      <4>4. Course(q, c, buffer, bufferJobs, fileJobs, content) => Course(r, c, buffer, bufferJobs, fileJobs, content)
        BY <3>3, <4>2, <4>3, CourseAs
      <4> QED
        BY <3>3, <4>1, <4>4
    <3> QED
      BY <1>1, <2>1, <2>2, <2>5, <3>3, <3>4, OneStep
  <2> QED
    BY <2>6, <2>7
<1> QED
  BY <1>9, <1>10

(* The client breaks the connection of a transfer, the newest or not.        *)
LEMMA BrokenDown ==
    ASSUME TypeInv, DownInv, NEW t \in DOMAIN transfer, Break(t)
    PROVE  DownInv'
<1>1. UNCHANGED <<orderly, buffer, writing, bufferJobs, fileJobs, content>>
  BY DEF Break, strands, disk, history
<1>2. PICK q : q = transfer[t]
  OBVIOUS
<1>3. PICK r : /\ Only(t, r) /\ Fixed(q, r) /\ r.replies = q.replies
               /\ r.socket = "gone" /\ r.reading = q.reading /\ r.at = q.at /\ r.eof = q.eof
  BY <1>2, BreakOnly
<1>4. Refetches(q, r) /\ Whole(r)
  BY <1>3, SameFetches DEF Whole
<1> SUFFICES ASSUME orderly PROVE DownInv'
  BY <1>1 DEF DownInv
<1>5. t = Count => IF r.replies > 0 THEN Silent(buffer, bufferJobs)
                   ELSE Course(r, t, buffer, bufferJobs, fileJobs, content)
  <2>1. SUFFICES ASSUME t = Count
                 PROVE  IF r.replies > 0 THEN Silent(buffer, bufferJobs)
                        ELSE Course(r, t, buffer, bufferJobs, fileJobs, content)
    OBVIOUS
  <2>2. Count # 0
    BY <2>1, Numbers, TypeParts DEF TypeInv
  <2>3. IF q.replies > 0 THEN Silent(buffer, bufferJobs)
        ELSE Course(q, t, buffer, bufferJobs, fileJobs, content)
    BY <1>2, <2>1, <2>2 DEF DownInv
  <2>4. Course(q, t, buffer, bufferJobs, fileJobs, content) => Course(r, t, buffer, bufferJobs, fileJobs, content)
    BY <1>3, <1>4, CourseAs
  <2> QED
    BY <1>3, <2>3, <2>4
<1>6. t # Count => r.replies > 0
  BY <1>2, <1>3 DEF DownInv
<1> QED
  BY <1>1, <1>2, <1>3, <1>4, <1>5, <1>6, OneStep

-----------------------------------------------------------------------------
(* Items are posted.                                                         *)

LEMMA CoursePost ==
    ASSUME NEW r, NEW c, NEW bo, NEW bj, NEW ct, NEW p \in Nat, NEW w \in Nat, NEW k \in Nat,
           Flow(r, c, bo, bj, p, w, k), r.kind = "send" => ct[r.inode] = r.start,
           NEW x, x.t = c, x.op = "add", x.block = Item(r, k + 1), k + 1 <= Total(r),
           NEW u, Fixed(r, u), u.moved = r.moved,
           u.socket = "open" => r.socket \in {"new", "open"}, u.socket # "new", Fetched(u, k + 1),
           NEW fk, Posted(fk, u, k + 1)
    PROVE  Course(u, c, bo, Append(bj, x), fk, ct)
<1>1. u.kind = r.kind /\ u.start = r.start /\ u.inode = r.inode
  BY DEF Fixed
<1>2. Flow(u, c, bo, Append(bj, x), p, w, k + 1)
  BY <1>1, FlowPost
<1>3. PICK n \in Nat : n = k + 1
  OBVIOUS
<1>4. Flow(u, c, bo, Append(bj, x), p, w, n) /\ Posted(fk, u, n)
  BY <1>2, <1>3
<1> QED
  BY <1>1, <1>4 DEF Course

LEMMA AcceptedDown ==
    ASSUME TypeInv, JobsInv, DownInv, Accepted
    PROVE  DownInv'
<1>1. UNCHANGED <<orderly, buffer, writing, content>> /\ accepts # <<>>
  BY DEF Accepted, disk, history
<1> SUFFICES ASSUME orderly PROVE DownInv'
  BY <1>1 DEF DownInv
<1>2. PICK t : t = Head(accepts)
  OBVIOUS
<1>3. t \in DOMAIN transfer /\ t \in Range(accepts)
  BY <1>2, AcceptedOnly
<1>4. PICK q : q = transfer[t]
  OBVIOUS
<1>5. /\ t = Count /\ q \in Transfers /\ ~(q.replies > 0) /\ q.socket = "new"
      /\ Course(q, t, buffer, bufferJobs, fileJobs, content)
  BY <1>3, <1>4, Current DEF Pending, JobsInv
<1>6. PICK r : /\ Only(t, r) /\ Fixed(q, r)
               /\ r.socket = "open" /\ r.replies = q.replies /\ r.moved = q.moved
               /\ r.at = q.at /\ r.eof = q.eof
               /\ q.kind = "send" => r.reading = q.reading
               /\ q.kind # "send" => r.reading = TRUE
  BY <1>2, <1>4, AcceptedOnly
<1>7. PICK p, w, k \in Nat : Flow(q, t, buffer, bufferJobs, p, w, k) /\ Posted(fileJobs, q, k)
  BY <1>5 DEF Course
<1>8. k = 0 /\ Fetched(q, k)
  BY <1>5, <1>7 DEF Flow, Fetched
<1>9. r.kind = q.kind /\ r.start = q.start /\ Items(r) = Items(q)
  <2>1. r.kind = q.kind /\ r.start = q.start
    BY <1>6 DEF Fixed
  <2> QED
    BY <2>1, ItemsAlike
<1>10. IsSequence(fileJobs)
  BY DEF TypeInv, ReplyInv, Shape
<1>11. CASE q.kind = "send"
  <2>1. bufferJobs' = bufferJobs /\ fileJobs' = fileJobs \o <<ReadData(t), ReadData(t), ReadData(t)>>
    BY <1>2, <1>4, <1>11 DEF Accepted
  <2>2. PICK x : x = ReadData(t)
    OBVIOUS
  <2> x.op = "read"
    BY <2>2 DEF ReadData
  <2>3. PICK l1 : l1 = Append(fileJobs, x)
    OBVIOUS
  <2>4. PICK l2 : l2 = Append(l1, x)
    OBVIOUS
  <2>5. PICK l3 : l3 = Append(l2, x)
    OBVIOUS
  <2>6. fileJobs' = l3
    BY <1>10, <2>1, <2>2, <2>3, <2>4, <2>5, ThreeMore
  <2>7. IsSequence(l1) /\ Range(l1) \subseteq Range(fileJobs) \cup {x}
    BY <1>10, <2>3, RangeAppend
  <2>8. IsSequence(l2) /\ Range(l2) \subseteq Range(l1) \cup {x}
    BY <2>4, <2>7, RangeAppend
  <2>9. Range(l3) \subseteq Range(l2) \cup {x}
    BY <2>5, <2>8, RangeAppend
  <2>10. \A j \in Range(l3) : j.op = "null" => j \in Range(fileJobs)
    BY <2>2, <2>7, <2>8, <2>9
  <2>11. Refetches(q, r)
    BY <1>6, <1>11, SameFetches
  <2>12. Course(r, t, buffer, bufferJobs, l3, content)
    BY <1>5, <1>6, <2>10, <2>11, CourseAs
  <2> QED
    BY <1>1, <1>3, <1>4, <1>5, <1>6, <2>1, <2>6, <2>12, OneStep DEF Whole
<1>12. CASE q.kind = "list"
  <2>1. bufferJobs' = Append(bufferJobs, AddData(t, <<0, 1>>, FALSE)) /\ fileJobs' = fileJobs
    BY <1>2, <1>4, <1>12 DEF Accepted
  <2>2. PICK x : x = AddData(t, <<0, 1>>, FALSE)
    OBVIOUS
  <2>3. x.t = t /\ x.op = "add" /\ x.block = <<0, 1>>
    BY <2>2 DEF AddData
  <2>4. Items(q) = 1 /\ Total(q) = 2 /\ Item(q, k + 1) = <<0, 1>>
    BY <1>8, <1>12 DEF Items, Total, Item
  <2>5. Fetched(r, k + 1)
    BY <1>6, <1>8, <1>9, <1>12 DEF Fetched
  <2>6. Posted(fileJobs, r, k + 1)
    BY <1>7, <1>12 DEF Posted
  <2>7. Course(r, t, buffer, Append(bufferJobs, x), fileJobs, content)
    <3>1. k + 1 <= Total(q) /\ x.block = Item(q, k + 1)
      BY <1>8, <2>3, <2>4
    <3>2. q.kind # "send" /\ r.socket # "new" /\ q.socket \in {"new", "open"}
      BY <1>5, <1>6, <1>12
    <3> QED
      BY <1>6, <1>7, <2>3, <2>5, <2>6, <3>1, <3>2, CoursePost
  <2> QED
    BY <1>1, <1>3, <1>4, <1>5, <1>6, <2>1, <2>2, <2>7, OneStep DEF Whole
<1>13. CASE q.kind = "receive"
  <2>1. bufferJobs' = bufferJobs /\ fileJobs' = fileJobs
    BY <1>2, <1>4, <1>13 DEF Accepted
  <2>2. Refetches(q, r)
    BY <1>6, <1>9, <1>13 DEF Refetches, Fetched
  <2>3. Course(r, t, buffer, bufferJobs, fileJobs, content)
    BY <1>5, <1>6, <1>13, <2>2, CourseAs
  <2> QED
    BY <1>1, <1>3, <1>4, <1>5, <1>6, <2>1, <2>3, OneStep DEF Whole
<1> QED
  BY <1>5, <1>11, <1>12, <1>13 DEF Transfers

LEMMA ListEndsDown ==
    ASSUME TypeInv, DownInv, NEW t \in DOMAIN transfer, ListEnds(t)
    PROVE  DownInv'
<1>1. /\ UNCHANGED <<orderly, buffer, writing, fileJobs, content>>
      /\ bufferJobs' = Append(bufferJobs, AddData(t, End, FALSE))
  BY DEF ListEnds, disk, history
<1> SUFFICES ASSUME orderly PROVE DownInv'
  BY <1>1 DEF DownInv
<1>2. PICK q : q = transfer[t]
  OBVIOUS
<1>3. q.kind = "list" /\ q.reading
  BY <1>2, ListEndsOnly
<1>4. /\ t = Count /\ q \in Transfers /\ ~(q.replies > 0)
      /\ Course(q, t, buffer, bufferJobs, fileJobs, content)
  BY <1>2, <1>3, Current DEF Pending, Reads
<1>5. PICK r : /\ Only(t, r) /\ Fixed(q, r) /\ r.replies = q.replies
               /\ r.socket = q.socket /\ r.moved = q.moved /\ r.reading = FALSE
  BY <1>2, ListEndsOnly
<1>6. PICK p, w, k \in Nat : Flow(q, t, buffer, bufferJobs, p, w, k) /\ Posted(fileJobs, q, k)
  BY <1>4 DEF Course
<1>7. k = 1 /\ q.socket # "new"
  BY <1>3, <1>6 DEF Flow, Fetched
<1>8. Items(q) = 1 /\ Total(q) = 2 /\ Item(q, k + 1) = End
  BY <1>3, <1>7 DEF Items, Total, Item
<1>9. PICK x : x = AddData(t, End, FALSE)
  OBVIOUS
<1>10. x.t = t /\ x.op = "add" /\ x.block = End
  BY <1>9 DEF AddData
<1>11. r.kind = "list"
  BY <1>3, <1>5 DEF Fixed
<1>12. Fetched(r, k + 1) /\ Posted(fileJobs, r, k + 1)
  BY <1>3, <1>5, <1>6, <1>7, <1>11 DEF Fetched, Posted
<1>13. Course(r, t, buffer, Append(bufferJobs, x), fileJobs, content)
  <2>1. k + 1 <= Total(q) /\ x.block = Item(q, k + 1)
    BY <1>7, <1>8, <1>10
  <2>2. q.kind # "send" /\ r.socket # "new" /\ (r.socket = "open" => q.socket \in {"new", "open"})
    BY <1>3, <1>5, <1>7
  <2> QED
    BY <1>5, <1>6, <1>10, <1>12, <2>1, <2>2, CoursePost
<1> QED
  BY <1>1, <1>2, <1>4, <1>5, <1>9, <1>11, <1>13, OneStep DEF Whole

(* The strand of the file: a read, ...                                       *)
LEMMA ReadFileDown ==
    ASSUME TypeInv, DownInv, ReadFile
    PROVE  DownInv'
<1>1. UNCHANGED <<orderly, buffer, writing, content>> /\ fileJobs # <<>> /\ IsSequence(fileJobs)
  BY DEF ReadFile, FileJob, disk, history, TypeInv, ReplyInv, Shape
<1>2. PICK t : t = Head(fileJobs).t
  OBVIOUS
<1>3. Range(Tail(fileJobs)) \subseteq Range(fileJobs)
  BY <1>1, RangeTail
<1>4. CASE transfer[t].eof
  <2>1. UNCHANGED <<transfer, bufferJobs>> /\ fileJobs' = Tail(fileJobs)
    BY <1>2, <1>4 DEF ReadFile, AtEnd
  <2>2. \A j \in Range(fileJobs') : j.op = "null" => j \in Range(fileJobs)
    BY <1>3, <2>1
  <2> QED
    BY <1>1, <2>1, <2>2, NoStep
<1>5. CASE ~transfer[t].eof
  <2> SUFFICES ASSUME orderly PROVE DownInv'
    BY <1>1 DEF DownInv
  <2>1. t \in DOMAIN transfer /\ Downloading(t, transfer)
    BY <1>2, <1>5, ReadFileOnly
  <2>2. PICK q : q = transfer[t]
    OBVIOUS
  <2>3. q.kind = "send" /\ q.socket # "new" /\ ~q.eof
    BY <1>5, <2>1, <2>2 DEF Downloading
  <2>4. /\ t = Count /\ q \in Transfers /\ ~(q.replies > 0)
        /\ Course(q, t, buffer, bufferJobs, fileJobs, content)
    BY <2>1, <2>2, <2>3, Current DEF Pending, Reads
  <2>5. PICK blocks : blocks = content[q.inode] /\ blocks = q.start
    BY <2>3, <2>4 DEF Course
  <2>6. PICK r : /\ Only(t, r) /\ Fixed(q, r) /\ r.replies = q.replies
                 /\ r.socket = q.socket /\ r.moved = q.moved
                 /\ r.reading = q.reading /\ r.at = q.at + 1
                 /\ r.eof = (q.at + 1 >= Len(blocks))
    <3>1. PICK u : /\ Only(t, u) /\ Fixed(transfer[t], u) /\ u.replies = transfer[t].replies
                   /\ u.socket = transfer[t].socket /\ u.moved = transfer[t].moved
                   /\ u.reading = transfer[t].reading /\ u.at = transfer[t].at + 1
                   /\ u.eof = (transfer[t].at + 1 >= Len(content[transfer[t].inode]))
      BY <1>2, <1>5, ReadFileOnly
    <3>2. Only(t, u) /\ Fixed(q, u) /\ u.replies = q.replies /\ u.socket = q.socket /\ u.moved = q.moved
      BY <2>2, <3>1
    <3>3. u.reading = q.reading /\ u.at = q.at + 1 /\ u.eof = (q.at + 1 >= Len(blocks))
      BY <2>2, <2>5, <3>1
    <3> QED
      BY <3>2, <3>3
  <2>7. PICK p, w, k \in Nat : Flow(q, t, buffer, bufferJobs, p, w, k) /\ Posted(fileJobs, q, k)
    BY <2>4 DEF Course
  <2>8. q.at = k /\ k < Items(q) /\ Items(q) \in Nat /\ Total(q) = Items(q) + 1
    BY <2>3, <2>4, <2>7, ItemsCounted DEF Flow, Fetched
  <2>9. \A j \in Range(fileJobs) : j.op # "null"
    BY <2>7, <2>8 DEF Posted
  <2>10. PICK s \in Seq(Block) : s = blocks /\ s = q.start
    BY <2>4, <2>5 DEF Transfers, Bytes
  <2>11. Items(q) = IF s = <<>> THEN 1 ELSE Len(s)
    BY <2>3, <2>10 DEF Items
  <2>12. Len(s) \in Nat /\ (s = <<>> <=> Len(s) = 0)
    OBVIOUS
  <2>13. PICK n \in Nat : n = k + 1
    OBVIOUS
  <2>14. PICK b : b = IF n <= Len(s) THEN s[n] ELSE Empty
    OBVIOUS
  <2>15. b = Item(q, n)
    <3>1. n # Items(q) + 1
      BY <2>8, <2>13
    <3>2. CASE s = <<>>
      BY <2>3, <2>10, <2>12, <2>13, <2>14, <3>1, <3>2 DEF Item
    <3>3. CASE s # <<>>
      <4>1. n <= Len(s)
        BY <2>8, <2>11, <2>12, <2>13, <3>3
      <4> QED
        BY <2>3, <2>10, <2>14, <3>1, <3>3, <4>1 DEF Item
    <3> QED
      BY <3>2, <3>3
  <2>16. r.kind = "send" /\ r.start = q.start /\ Items(r) = Items(q)
    <3>1. r.kind = q.kind /\ r.start = q.start
      BY <2>6 DEF Fixed
    <3> QED
      BY <2>3, <3>1, ItemsAlike
  <2>17. Fetched(r, n)
    <3>1. r.at = n /\ r.socket # "new" /\ (r.eof <=> n >= Len(s))
      BY <2>3, <2>6, <2>8, <2>10, <2>13
    <3>2. CASE n >= Len(s)
      <4>1. n = Items(r)
        BY <2>8, <2>11, <2>12, <2>13, <2>16, <3>2
      <4> QED
        BY <2>8, <2>16, <3>1, <3>2, <4>1 DEF Fetched
    <3>3. CASE ~(n >= Len(s))
      <4>1. n < Items(r)
        BY <2>11, <2>12, <2>13, <2>16, <3>3
      <4> QED
        BY <2>16, <3>1, <3>3, <4>1 DEF Fetched
    <3> QED
      BY <3>2, <3>3
  <2>18. PICK m : /\ bufferJobs' = Append(bufferJobs, AddData(t, b, m))
               /\ fileJobs' = IF n < Len(s) THEN Tail(fileJobs) ELSE <<PostEnd(t)>> \o Tail(fileJobs)
    <3>1. n = q.at + 1 /\ Len(s) = Len(content[transfer[t].inode])
      BY <2>2, <2>5, <2>8, <2>10, <2>13
    <3>2. b = IF q.at + 1 <= Len(content[transfer[t].inode]) THEN content[transfer[t].inode][q.at + 1] ELSE Empty
      BY <2>2, <2>5, <2>8, <2>10, <2>13, <2>14
    <3>3. \/ /\ q.at + 1 < Len(content[transfer[t].inode])
             /\ bufferJobs' = Append(bufferJobs, AddData(t, b, TRUE)) /\ fileJobs' = Tail(fileJobs)
          \/ /\ q.at + 1 >= Len(content[transfer[t].inode])
             /\ bufferJobs' = Append(bufferJobs, AddData(t, b, FALSE))
             /\ fileJobs' = <<PostEnd(t)>> \o Tail(fileJobs)
      BY <1>2, <1>5, <2>2, <3>2 DEF ReadFile, AtEnd
    <3>4. CASE n < Len(s)
      <4>1. PICK L : L = Len(content[transfer[t].inode])
        OBVIOUS
      <4>2. PICK e : e = q.at
        OBVIOUS
      <4>3. L = Len(s) /\ e = k
        BY <2>8, <3>1, <4>1, <4>2
      <4>4. ~(e + 1 >= L)
        BY <2>12, <2>13, <3>4, <4>3
      <4>5. bufferJobs' = Append(bufferJobs, AddData(t, b, TRUE)) /\ fileJobs' = Tail(fileJobs)
        BY <3>3, <4>1, <4>2, <4>4
      <4> QED
        BY <3>4, <4>5
    <3>5. CASE ~(n < Len(s))
      <4>1. bufferJobs' = Append(bufferJobs, AddData(t, b, FALSE)) /\ fileJobs' = <<PostEnd(t)>> \o Tail(fileJobs)
        BY <2>8, <2>12, <2>13, <3>1, <3>3, <3>5
      <4> QED
        BY <3>5, <4>1
    <3> QED
      BY <3>4, <3>5
  <2>19. PICK x : x = AddData(t, b, m)
    OBVIOUS
  <2>20. x.t = t /\ x.op = "add" /\ x.block = b
    BY <2>19 DEF AddData
  <2>21. PICK fk : fk = fileJobs'
    OBVIOUS
  <2>22. Posted(fk, r, n)
    <3>1. CASE n < Len(s)
      <4>1. fk = Tail(fileJobs)
        BY <2>18, <2>21, <3>1
      <4> QED
        BY <1>3, <2>9, <4>1 DEF Posted
    <3>2. CASE ~(n < Len(s))
      <4>1. PICK y : y = PostEnd(t)
        OBVIOUS
      <4>2. Range(fk) \subseteq Range(fileJobs) \cup {y}
        BY <1>1, <2>18, <2>21, <3>2, <4>1, RangeFirst
      <4>3. n = Items(r)
        BY <2>8, <2>11, <2>12, <2>13, <2>16, <3>2
      <4> QED
        BY <2>9, <2>16, <4>2, <4>3 DEF Posted
    <3> QED
      BY <3>1, <3>2
  <2>23. Course(r, t, buffer, Append(bufferJobs, x), fk, content)
    <3>1. n <= Total(q) /\ (q.kind = "send" => content[q.inode] = q.start)
      BY <2>5, <2>8, <2>13
    <3>2. r.socket # "new" /\ (r.socket = "open" => q.socket \in {"new", "open"})
      BY <2>3, <2>6
    <3>3. /\ k + 1 <= Total(q) /\ x.block = Item(q, k + 1)
          /\ Fetched(r, k + 1) /\ Posted(fk, r, k + 1)
      BY <2>13, <2>15, <2>17, <2>20, <2>22, <3>1
    <3> QED
      BY <2>6, <2>7, <2>20, <3>1, <3>2, <3>3, CoursePost
  <2> QED
    BY <1>1, <2>1, <2>2, <2>4, <2>6, <2>18, <2>19, <2>21, <2>23, OneStep DEF Whole
<1> QED
  BY <1>4, <1>5

(* ... its end, ...                                                          *)
EndsOnce == \A t \in DOMAIN transfer : ~(Ends(t, "file", fileJobs) /\ Ends(t, "strand", bufferJobs))

LEMMA EndIsOnce == ReplyInv => EndsOnce
BY PendingUnanswered DEF EndsOnce

LEMMA EndsOnceNext == ReplyInv' => EndsOnce'
BY EndIsOnce, PTL

LEMMA ReadEndsDown ==
    ASSUME TypeInv, TypeInv', DownInv, ReadEnds
    PROVE  DownInv'
<1>1. /\ UNCHANGED <<orderly, transfer, buffer, writing, content>> /\ fileJobs # <<>> /\ IsSequence(fileJobs)
      /\ fileJobs' = Tail(fileJobs) /\ Head(fileJobs).op = "null" /\ IsSequence(bufferJobs)
  BY DEF ReadEnds, FileJob, disk, history, TypeInv, ReplyInv, Shape, Inv
<1> SUFFICES ASSUME orderly PROVE DownInv'
  BY <1>1 DEF DownInv
<1>2. PICK h : h = Head(fileJobs)
  OBVIOUS
<1>3. PICK t : t = h.t
  OBVIOUS
<1>4. h \in Range(fileJobs) /\ h.op = "null" /\ Range(Tail(fileJobs)) \subseteq Range(fileJobs)
  BY <1>1, <1>2, RangeTail
<1>5. ASSUME NEW j \in Range(fileJobs), j.op = "null"
      PROVE  j.t \in DOMAIN transfer /\ j.t = Count
  <2>1. j.t \in DOMAIN transfer
    BY DEF TypeInv, ReplyInv, Shape, JobOK
  <2>2. Pending(j.t)
    BY <1>5 DEF Pending, Ends, Owner
  <2> QED
    BY <2>1, <2>2, Current
<1>6. t \in DOMAIN transfer /\ Pending(t)
  BY <1>3, <1>4, <1>5 DEF Pending, Ends, Owner
<1>7. PICK q : q = transfer[t]
  OBVIOUS
<1>8. /\ t = Count /\ q \in Transfers /\ ~(q.replies > 0)
      /\ Course(q, t, buffer, bufferJobs, fileJobs, content)
  BY <1>6, <1>7, Current
<1>9. PICK p, w, k \in Nat : Flow(q, t, buffer, bufferJobs, p, w, k) /\ Posted(fileJobs, q, k)
  BY <1>8 DEF Course
<1>10. q.kind = "send" /\ k = Items(q) /\ Items(q) >= 1 /\ Total(q) = Items(q) + 1
  BY <1>4, <1>8, <1>9, ItemsCounted DEF Posted
<1>11. PICK x : x = AddData(t, End, FALSE)
  OBVIOUS
<1>12. x.t = t /\ x.op = "add" /\ x.block = End /\ bufferJobs' = Append(bufferJobs, x)
  BY <1>2, <1>3, <1>11 DEF AddData, ReadEnds
<1>13. Item(q, k + 1) = End
  BY <1>10 DEF Item
<1>14. q.socket # "new" /\ Fetched(q, k + 1)
  BY <1>9, <1>10 DEF Flow, Fetched
<1>15. PICK fk : fk = fileJobs'
  OBVIOUS
<1>16. Posted(fk, q, k + 1)
  <2>1. SUFFICES ASSUME NEW j \in Range(fk), j.op = "null" PROVE FALSE
    BY DEF Posted
  <2>2. j.t = t
    BY <1>1, <1>4, <1>5, <1>8, <1>15, <2>1
  <2>3. Ends(t, "file", fk)
    BY <2>1, <2>2 DEF Ends, Owner
  <2>4. Ends(t, "strand", bufferJobs')
    <3>1. PICK bj : bj = bufferJobs'
      OBVIOUS
    <3>2. x \in Range(bj)
      <4>1. Len(bufferJobs) + 1 \in DOMAIN bj /\ bj[Len(bufferJobs) + 1] = x
        BY <1>1, <1>12, <3>1, AppendAt
      <4> QED
        BY <4>1 DEF Range
    <3> QED
      BY <1>12, <3>1, <3>2 DEF Ends, Owner
  <2>5. EndsOnce'
    BY EndsOnceNext DEF TypeInv
  <2>6. ~(Ends(t, "file", fileJobs') /\ Ends(t, "strand", bufferJobs'))
    BY <1>1, <1>6, <2>5 DEF EndsOnce, Ends, Owner, Range
  <2> QED
    BY <1>15, <2>3, <2>4, <2>6
<1>17. Course(q, t, buffer, Append(bufferJobs, x), fk, content)
  <2>1. k + 1 <= Total(q) /\ x.block = Item(q, k + 1) /\ Fixed(q, q)
    BY <1>10, <1>12, <1>13 DEF Fixed
  <2>2. q.kind = "send" => content[q.inode] = q.start
    BY <1>8 DEF Course
  <2>3. q.socket # "new" /\ (q.socket = "open" => q.socket \in {"new", "open"})
    BY <1>14
  <2> QED
    BY <1>9, <1>12, <1>14, <1>16, <2>1, <2>2, <2>3, CoursePost
<1>18. Only(t, q)
  BY <1>1, <1>7 DEF Only, Count
<1> QED
  BY <1>1, <1>6, <1>7, <1>8, <1>12, <1>15, <1>17, <1>18, OneStep DEF Whole

(* ... and what an upload leaves there.                                      *)
LEMMA UploadDown ==
    ASSUME TypeInv, JobsInv, DownInv, writeDataToFile \/ endDataReceiving
    PROVE  DownInv'
<1>1. /\ UNCHANGED <<orderly, buffer, writing, bufferJobs>> /\ fileJobs # <<>> /\ IsSequence(fileJobs)
      /\ Chain(fileJobs)
  BY DEF writeDataToFile, endDataReceiving, FileJob, disk, history, TypeInv, ReplyInv, Shape, JobsInv
<1> SUFFICES ASSUME orderly PROVE DownInv'
  BY <1>1 DEF DownInv
<1>2. PICK h : h = Head(fileJobs)
  OBVIOUS
<1>3. PICK t : t = h.t
  OBVIOUS
<1>4. h \in Range(fileJobs) /\ Range(Tail(fileJobs)) \subseteq Range(fileJobs)
  BY <1>1, <1>2, RangeTail
<1>5. t \in DOMAIN transfer
  BY <1>3, <1>4 DEF TypeInv, ReplyInv, Shape, JobOK
<1>6. PICK q : q = transfer[t]
  OBVIOUS
<1>7. Pending(t)
  <2>1. h.op \in {"write", "end"}
    BY <1>2 DEF writeDataToFile, endDataReceiving, FileJob
  <2>2. CASE h.op = "end" \/ (h.op = "write" /\ h.more)
    BY <1>3, <1>4, <2>2 DEF Pending, Ends, Owner
  <2>3. CASE LastBlock(h)
    <3>1. PICK e : e = Head(Tail(fileJobs))
      OBVIOUS
    <3>2. e \in Range(fileJobs) /\ e.op = "end" /\ e.t = t
      BY <1>1, <1>2, <1>3, <2>3, <3>1, ChainTail
    <3> QED
      BY <3>2 DEF Pending, Ends, Owner
  <2> QED
    BY <2>1, <2>2, <2>3 DEF LastBlock
<1>8. /\ t = Count /\ q \in Transfers /\ ~(q.replies > 0)
      /\ Course(q, t, buffer, bufferJobs, fileJobs, content)
  BY <1>5, <1>6, <1>7, Current
<1>9. q.kind = "receive"
  <2>1. CASE writeDataToFile
    BY <1>2, <1>3, <1>6, <2>1, WriteFileOnly
  <2>2. CASE endDataReceiving
    BY <1>2, <1>3, <1>4, <1>6, <2>2 DEF endDataReceiving, FileJob, JobsInv, JobKind
  <2> QED
    BY <2>1, <2>2
<1>10. CASE writeDataToFile
  <2>1. PICK r : /\ Only(t, r) /\ Fixed(q, r) /\ r.replies = q.replies
                 /\ r.socket = q.socket /\ r.moved = q.moved /\ r.reading = Head(fileJobs).more
    BY <1>2, <1>3, <1>6, <1>10, WriteFileOnly
  <2>2. r.kind = "receive"
    BY <1>9, <2>1 DEF Fixed
  <2>3. Refetches(q, r)
    BY <1>9, <2>1, <2>2 DEF Refetches, Fetched
  <2>4. PICK fk : fk = fileJobs'
    OBVIOUS
  <2>5. PICK ct : ct = content'
    OBVIOUS
  <2>6. \A j \in Range(fk) : j.op = "null" => j \in Range(fileJobs)
    BY <1>4, <1>10, <2>4 DEF writeDataToFile
  <2>7. Course(r, t, buffer, bufferJobs, fk, ct)
    BY <1>8, <1>9, <2>1, <2>3, <2>6, CourseAs
  <2> QED
    BY <1>1, <1>5, <1>6, <1>8, <2>1, <2>2, <2>4, <2>5, <2>7, OneStep DEF Whole
<1>11. CASE endDataReceiving
  <2>1. PICK r : Only(t, r) /\ Fixed(q, r) /\ r.replies > 0
    BY <1>2, <1>3, <1>5, <1>6, <1>11, OnlyReplies DEF endDataReceiving
  <2>2. r.kind = "receive"
    BY <1>9, <2>1 DEF Fixed
  <2>3. Silent(buffer, bufferJobs)
    BY <1>8, <1>9, CourseQuiet
  <2> QED
    BY <1>1, <1>5, <1>6, <1>8, <2>1, <2>2, <2>3, OneStep DEF Whole
<1> QED
  BY <1>10, <1>11

LEMMA ObjectDown ==
    ASSUME TypeInv, DownInv, LoadObject \/ StoreObject
    PROVE  DownInv'
<1>1. /\ UNCHANGED <<orderly, transfer, buffer, writing, bufferJobs, content>>
      /\ fileJobs # <<>> /\ IsSequence(fileJobs)
  BY DEF LoadObject, StoreObject, FileJob, disk, history, TypeInv, ReplyInv, Shape
<1>2. \/ fileJobs' = Tail(fileJobs)
      \/ \E t, c : fileJobs' = <<Store(t, c)>> \o Tail(fileJobs)
  BY DEF LoadObject, StoreObject
<1>3. \A j \in Range(fileJobs') : j.op = "null" => j \in Range(fileJobs)
  <2>1. CASE fileJobs' = Tail(fileJobs)
    BY <1>1, <2>1, RangeTail
  <2>2. ASSUME NEW t, NEW c, fileJobs' = <<Store(t, c)>> \o Tail(fileJobs)
        PROVE  \A j \in Range(fileJobs') : j.op = "null" => j \in Range(fileJobs)
    <3>1. PICK x : x = Store(t, c)
      OBVIOUS
    <3>2. x.op = "store"
      BY <3>1 DEF Store
    <3>3. Range(fileJobs') \subseteq Range(fileJobs) \cup {x}
      BY <1>1, <2>2, <3>1, RangeFirst
    <3> QED
      BY <3>2, <3>3
  <2> QED
    BY <1>2, <2>1, <2>2
<1> QED
  BY <1>1, <1>3, NoStep

(* A client sends, or stops sending.                                         *)
LEMMA ReceivingDown ==
    ASSUME TypeInv, DownInv, NEW t \in DOMAIN transfer, ReceiveBlock(t) \/ ReceiveLast(t) \/ ReceiveFails(t)
    PROVE  DownInv'
<1>1. UNCHANGED <<orderly, buffer, writing, bufferJobs, content>> /\ IsSequence(fileJobs)
  BY DEF ReceiveBlock, ReceiveLast, ReceiveFails, disk, history, TypeInv, ReplyInv, Shape
<1> SUFFICES ASSUME orderly PROVE DownInv'
  BY <1>1 DEF DownInv
<1>2. PICK q : q = transfer[t]
  OBVIOUS
<1>3. q.kind = "receive" /\ q.reading
  BY <1>2 DEF ReceiveBlock, ReceiveLast, ReceiveFails
<1>4. /\ t = Count /\ q \in Transfers /\ ~(q.replies > 0)
      /\ Course(q, t, buffer, bufferJobs, fileJobs, content)
  BY <1>2, <1>3, Current DEF Pending, Reads
<1>5. PICK r : /\ Only(t, r) /\ Fixed(q, r) /\ r.replies = q.replies
               /\ r.socket = q.socket \/ (q.socket = "open" /\ r.socket = "gone")
  BY <1>2, ReceivingOnly
<1>6. r.kind = "receive"
  BY <1>3, <1>5 DEF Fixed
<1>7. Refetches(q, r)
  BY <1>3, <1>5, <1>6 DEF Refetches, Fetched
<1>8. PICK b : b = <<t, Len(transfer[t].moved) + 1>>
  OBVIOUS
<1>9. PICK x : x = WriteFile(t, b, TRUE)
  OBVIOUS
<1>10. PICK y : y = WriteFile(t, b, FALSE)
  OBVIOUS
<1>11. PICK e : e = EndReceiving(t)
  OBVIOUS
<1>12. x.op = "write" /\ y.op = "write" /\ e.op = "end"
  BY <1>9, <1>10, <1>11 DEF WriteFile, EndReceiving
<1>13. PICK l : l = Append(fileJobs, y)
  OBVIOUS
<1>14. fileJobs' = Append(fileJobs, x) \/ fileJobs' = Append(fileJobs, e) \/ fileJobs' = Append(l, e)
  <2>1. fileJobs' = Append(fileJobs, x) \/ fileJobs' = Append(fileJobs, e) \/ fileJobs' = fileJobs \o <<y, e>>
    BY <1>8, <1>9, <1>10, <1>11 DEF ReceiveBlock, ReceiveLast, ReceiveFails, LastJobs
  <2> QED
    BY <1>1, <1>13, <2>1, TwoMore
<1>15. PICK fk : fk = fileJobs'
  OBVIOUS
<1>16. Range(fk) \subseteq Range(fileJobs) \cup {x, y, e}
  <2>1. IsSequence(l) /\ Range(l) \subseteq Range(fileJobs) \cup {y}
    BY <1>1, <1>13, RangeAppend
  <2>2. Range(Append(l, e)) \subseteq Range(l) \cup {e}
    BY <2>1, RangeAppend
  <2>3. Range(Append(fileJobs, x)) \subseteq Range(fileJobs) \cup {x}
    BY <1>1, RangeAppend
  <2>4. Range(Append(fileJobs, e)) \subseteq Range(fileJobs) \cup {e}
    BY <1>1, RangeAppend
  <2> QED
    BY <1>14, <1>15, <2>1, <2>2, <2>3, <2>4
<1>17. \A j \in Range(fk) : j.op = "null" => j \in Range(fileJobs)
  BY <1>12, <1>16
<1>18. Course(r, t, buffer, bufferJobs, fk, content)
  BY <1>3, <1>4, <1>5, <1>7, <1>17, CourseAs
<1> QED
  BY <1>1, <1>2, <1>4, <1>5, <1>6, <1>15, <1>18, OneStep DEF Whole

-----------------------------------------------------------------------------
(* The strand of the buffer.                                                 *)

LEMMA CourseFlows ==
    ASSUME NEW r, NEW c, NEW bo, NEW bj, NEW fj, NEW ct, NEW p \in Nat, NEW w \in Nat, NEW k \in Nat,
           Flow(r, c, bo, bj, p, w, k), Posted(fj, r, k), r.kind = "send" => ct[r.inode] = r.start
    PROVE  Course(r, c, bo, bj, fj, ct)
BY DEF Course

LEMMA AddDown ==
    ASSUME TypeInv, DownInv, addDataToBufferAndSend
    PROVE  DownInv'
<1>1. /\ UNCHANGED <<orderly, transfer, writing, fileJobs, content>> /\ bufferJobs # <<>>
      /\ IsSequence(bufferJobs) /\ Head(bufferJobs).op = "add"
  BY DEF addDataToBufferAndSend, BufferJob, disk, history, TypeInv, ReplyInv, Inv
<1> SUFFICES ASSUME orderly PROVE DownInv'
  BY <1>1 DEF DownInv
<1>2. PICK t : t = Count
  OBVIOUS
<1>3. PICK q : q = transfer[t]
  OBVIOUS
<1>4. /\ t \in DOMAIN transfer /\ q \in Transfers /\ ~(q.replies > 0)
      /\ Course(q, t, buffer, bufferJobs, fileJobs, content)
  BY <1>1, <1>2, <1>3, Busy DEF Silent
<1>5. PICK p, w, k \in Nat : Flow(q, t, buffer, bufferJobs, p, w, k) /\ Posted(fileJobs, q, k)
  BY <1>4 DEF Course
<1>6. PICK h : h = Head(bufferJobs)
  OBVIOUS
<1>7. h.t = t
  <2>1. PICK n \in Nat : n = p + Len(buffer)
    <3>1. Counts(buffer, bufferJobs, p, w, k)
      BY <1>5, FlowNumbers
    <3>2. Len(buffer) \in Nat
      BY <3>1 DEF Counts
    <3> QED
      BY <3>2
  <2>2. Lined(bufferJobs, q, t, n, w, k)
    BY <1>5, <2>1 DEF Flow
  <2> QED
    BY <1>1, <1>6, <2>2, LineLess
<1>8. PICK x : x = [t |-> h.t, block |-> h.block]
  OBVIOUS
<1>9. PICK y : y = WriteData(h.t, h.more)
  OBVIOUS
<1>10. x.t = h.t /\ x.block = h.block /\ y.t = t /\ y.op = "send"
  BY <1>7, <1>8, <1>9 DEF WriteData
<1>11. PICK bo : bo = Append(buffer, x)
  OBVIOUS
<1>12. PICK tl : tl = Tail(bufferJobs)
  OBVIOUS
<1>13. IsSequence(tl)
  BY <1>1, <1>12, RangeTail
<1>14. PICK bj : bj = IF buffer # <<>> THEN tl ELSE Append(tl, y)
  OBVIOUS
<1>15. buffer' = bo /\ bufferJobs' = bj
  <2>1. buffer' = bo
    BY <1>6, <1>8, <1>11 DEF addDataToBufferAndSend, Pushed
  <2>2. bufferJobs' = IF buffer # <<>> THEN tl \o <<>> ELSE tl \o <<y>>
    BY <1>6, <1>9, <1>12 DEF addDataToBufferAndSend, WriteInProgress
  <2>3. tl \o <<>> = tl /\ tl \o <<y>> = Append(tl, y)
    BY <1>13, AppendJob
  <2> QED
    BY <1>14, <2>1, <2>2, <2>3
<1>16. \E v \in Nat : Flow(q, t, bo, bj, p, v, k)
  <2>1. CASE buffer # <<>>
    BY <1>1, <1>5, <1>6, <1>10, <1>11, <1>12, <1>14, <2>1, FlowAdd
  <2>2. CASE buffer = <<>>
    <3>1. bj = Append(Tail(bufferJobs), y)
      BY <1>12, <1>14, <2>2
    <3> QED
      BY <1>1, <1>5, <1>6, <1>10, <1>11, <2>2, <3>1, FlowAdd
  <2> QED
    BY <2>1, <2>2
<1>17. Course(q, t, bo, bj, fileJobs, content)
  BY <1>4, <1>5, <1>16 DEF Course
<1>18. Only(t, q)
  BY <1>1, <1>3 DEF Only, Count
<1> QED
  BY <1>1, <1>2, <1>3, <1>4, <1>15, <1>17, <1>18, OneStep DEF Whole

LEMMA WriteDown ==
    ASSUME TypeInv, DownInv, writeDataToSocket
    PROVE  DownInv'
<1>1. /\ UNCHANGED <<orderly, fileJobs, content>> /\ bufferJobs # <<>>
      /\ Head(bufferJobs).op = "send" /\ bufferJobs' = Tail(bufferJobs)
  BY DEF writeDataToSocket, BufferJob, disk, history
<1> SUFFICES ASSUME orderly PROVE DownInv'
  BY <1>1 DEF DownInv
<1>2. PICK t : t = Count
  OBVIOUS
<1>3. PICK q : q = transfer[t]
  OBVIOUS
<1>4. /\ t \in DOMAIN transfer /\ q \in Transfers /\ ~(q.replies > 0)
      /\ Course(q, t, buffer, bufferJobs, fileJobs, content)
  BY <1>1, <1>2, <1>3, Busy DEF Silent
<1>5. PICK p, w, k \in Nat : Flow(q, t, buffer, bufferJobs, p, w, k) /\ Posted(fileJobs, q, k)
  BY <1>4 DEF Course
<1>6. PICK tl : tl = Tail(bufferJobs)
  OBVIOUS
<1>7. CASE Head(buffer).block # End
  <2>1. /\ UNCHANGED <<buffer, transfer>>
        /\ writing' = [t |-> Head(bufferJobs).t, more |-> Head(bufferJobs).more]
    BY <1>7 DEF writeDataToSocket, IsEnd
  <2>2. Head(bufferJobs).t = t /\ Flow(q, t, buffer, tl, p, 0, k)
    BY <1>1, <1>5, <1>6, FlowSend
  <2>3. Course(q, t, buffer, tl, fileJobs, content)
    BY <1>4, <1>5, <2>2 DEF Course
  <2>4. writing'.t = Count
    BY <1>2, <2>1, <2>2
  <2>5. Only(t, q)
    BY <1>3, <2>1 DEF Only, Count
  <2> QED
    BY <1>1, <1>2, <1>3, <1>4, <1>6, <2>1, <2>3, <2>4, <2>5, OneStep DEF Whole
<1>8. CASE Head(buffer).block = End
  <2>1. UNCHANGED writing /\ buffer' = Tail(buffer) /\ transfer' = ReplyTo({Head(buffer).t})
    BY <1>8 DEF writeDataToSocket, IsEnd
  <2>2. /\ Head(buffer).t = t /\ Tail(buffer) = <<>> /\ tl = <<>>
        /\ q.kind = "send" /\ q.socket = "open" => q.moved = q.start
    <3>1. PICK b0 : b0 = buffer
      OBVIOUS
    <3>2. PICK j0 : j0 = bufferJobs
      OBVIOUS
    <3>3. /\ Flow(q, t, b0, j0, p, w, k) /\ j0 # <<>> /\ Head(j0).op = "send"
          /\ Head(b0).block = End
      BY <1>1, <1>5, <1>8, <3>1, <3>2
    <3>4. /\ Head(b0).t = t /\ Tail(b0) = <<>> /\ Tail(j0) = <<>>
          /\ q.kind = "send" /\ q.socket = "open" => q.moved = q.start
      BY <1>4, <3>3, FlowEnd
    <3> QED
      BY <1>6, <3>1, <3>2, <3>4
  <2>3. PICK r : /\ Only(t, r) /\ Fixed(q, r) /\ r.replies > 0
                 /\ r.socket = q.socket /\ r.moved = q.moved
    BY <1>3, <1>4, <2>1, <2>2, OnlyReplies
  <2>4. Whole(r)
    BY <2>2, <2>3 DEF Whole, Fixed
  <2>5. Silent(buffer', bufferJobs')
    BY <1>1, <1>6, <2>1, <2>2 DEF Silent
  <2> QED
    BY <1>1, <1>2, <1>4, <2>1, <2>3, <2>4, <2>5, OneStep
<1> QED
  BY <1>7, <1>8

LEMMA SendingDown ==
    ASSUME TypeInv, DownInv, Sending
    PROVE  DownInv'
<1>1. UNCHANGED <<orderly, buffer, fileJobs, content>> /\ writing' = NoWrite /\ writing # NoWrite
  BY DEF Sending, disk, history
<1> SUFFICES ASSUME orderly PROVE DownInv'
  BY <1>1 DEF DownInv
<1>2. PICK t : t = Count /\ t = writing.t
  BY <1>1 DEF DownInv
<1>3. PICK q : q = transfer[t]
  OBVIOUS
<1>4. buffer # <<>> /\ Writers = {} /\ Head(buffer).block # End
  BY <1>1 DEF TypeInv, WritesData, ReplyInv, Inv, OneWriter
<1>5. /\ t \in DOMAIN transfer /\ q \in Transfers /\ ~(q.replies > 0)
      /\ Course(q, t, buffer, bufferJobs, fileJobs, content)
  BY <1>2, <1>3, <1>4, Busy DEF Silent
<1>6. PICK p, w, k \in Nat : Flow(q, t, buffer, bufferJobs, p, w, k) /\ Posted(fileJobs, q, k)
  BY <1>5 DEF Course
<1>7. Flow(q, t, buffer, bufferJobs, p, 0, k)
  <2>1. w = 0
    <3>1. SUFFICES ASSUME w # 0 PROVE FALSE
      OBVIOUS
    <3>2. PICK n : n = p + Len(buffer)
      OBVIOUS
    <3>3. Lined(bufferJobs, q, t, n, w, k)
      BY <1>6, <3>2 DEF Flow
    <3>4. IsSequence(bufferJobs) /\ w <= Len(bufferJobs)
      BY <3>3 DEF Lined
    <3>5. Len(bufferJobs) \in Nat /\ DOMAIN bufferJobs = 1..Len(bufferJobs)
      BY <3>4, AppendAt
    <3>6. w \in 1..Len(bufferJobs)
      BY <3>1, <3>4, <3>5
    <3>7. bufferJobs[w].op \in {"send", "sent"}
      BY <3>3, <3>6 DEF Lined, WriteOps
    <3> QED
      BY <1>4, <3>5, <3>6, <3>7 DEF Writers
  <2> QED
    BY <1>6, <2>1
<1>8. PICK more, ok : bufferJobs' = Append(bufferJobs, Sent(t, more, ok))
  BY <1>2 DEF Sending
<1>9. PICK y : y = Sent(t, more, ok)
  OBVIOUS
<1>10. y.t = t /\ y.op = "sent"
  BY <1>9 DEF Sent
<1>11. PICK b : b = Head(buffer).block
  OBVIOUS
<1>12. PICK r : /\ Only(t, r) /\ Differs(q, r, "moved")
                /\ r.moved = IF q.socket = "open" /\ b # Empty THEN Append(q.moved, b) ELSE q.moved
  <2>1. CASE q.socket = "open" /\ b # Empty
    <3>1. PICK r : /\ Only(t, r) /\ Differs(transfer[t], r, "moved")
                   /\ r.moved = Append(transfer[t].moved, Head(buffer).block)
      BY <1>2, <1>3, <1>5, <1>11, <2>1, SendingOnly
    <3> QED
      BY <1>3, <1>11, <2>1, <3>1
  <2>2. CASE ~(q.socket = "open" /\ b # Empty)
    <3>1. UNCHANGED transfer
      BY <1>2, <1>3, <1>5, <1>11, <2>2, SendingOnly
    <3>2. Only(t, q) /\ Differs(q, q, "moved")
      BY <1>3, <3>1 DEF Only, Count, Differs, Fixed
    <3> QED
      BY <2>2, <3>2
  <2> QED
    BY <2>1, <2>2
<1>13. PICK a : a = Append(bufferJobs, y)
  OBVIOUS
<1>14. PICK v \in Nat : Flow(r, t, buffer, a, p, v, k)
  BY <1>4, <1>5, <1>7, <1>10, <1>11, <1>12, <1>13, FlowSent
<1>15. r.kind = q.kind /\ r.start = q.start /\ r.inode = q.inode /\ r.replies = q.replies
  BY <1>12 DEF Differs, Fixed
<1>16. Course(r, t, buffer, a, fileJobs, content)
  <2>1. Items(r) = Items(q)
    BY <1>15, ItemsAlike
  <2>2. Posted(fileJobs, r, k)
    BY <1>6, <1>15, <2>1 DEF Posted
  <2>3. r.kind = "send" => content[r.inode] = r.start
    BY <1>5, <1>15 DEF Course
  <2> QED
    BY <1>14, <2>2, <2>3, CourseFlows
<1> QED
  BY <1>1, <1>2, <1>3, <1>5, <1>8, <1>9, <1>12, <1>13, <1>15, <1>16, OneStep DEF Whole

LEMMA WrittenDown ==
    ASSUME TypeInv, DownInv, Written
    PROVE  DownInv'
<1>1. /\ UNCHANGED <<orderly, transfer, writing, content>> /\ bufferJobs # <<>>
      /\ Head(bufferJobs).op = "sent" /\ IsSequence(bufferJobs) /\ IsSequence(fileJobs)
  BY DEF Written, BufferJob, disk, history, TypeInv, ReplyInv, Inv, Shape
<1> SUFFICES ASSUME orderly PROVE DownInv'
  BY <1>1 DEF DownInv
<1>2. PICK t : t = Count
  OBVIOUS
<1>3. PICK q : q = transfer[t]
  OBVIOUS
<1>4. /\ t \in DOMAIN transfer /\ q \in Transfers /\ ~(q.replies > 0)
      /\ Course(q, t, buffer, bufferJobs, fileJobs, content)
  BY <1>1, <1>2, <1>3, Busy DEF Silent
<1>5. PICK p, w, k \in Nat : Flow(q, t, buffer, bufferJobs, p, w, k) /\ Posted(fileJobs, q, k)
  BY <1>4 DEF Course
<1>6. PICK h : h = Head(bufferJobs)
  OBVIOUS
<1>7. PICK y : y = WriteData(t, h.more)
  OBVIOUS
<1>8. y.t = t /\ y.op = "send"
  BY <1>7 DEF WriteData
<1>9. PICK bo : bo = Tail(buffer)
  OBVIOUS
<1>10. PICK tl : tl = Tail(bufferJobs)
  OBVIOUS
<1>15. PICK n \in Nat : n = p + 1
  OBVIOUS
<1>21. PICK z \in Nat : z = 0
  OBVIOUS
<1>22. PICK b0 : b0 = buffer
  OBVIOUS
<1>23. PICK j0 : j0 = bufferJobs
  OBVIOUS
<1>24. Removes(b0, j0, p, bo, tl, n, z)
  BY <1>1, <1>9, <1>10, <1>15, <1>21, <1>22, <1>23 DEF Removes
<1>11. h.t = t /\ Flow(q, t, bo, tl, n, z, k)
  <2>1. Flow(q, t, b0, j0, p, w, k)
    BY <1>5, <1>22, <1>23
  <2>2. Head(j0).t = t /\ Flow(q, t, bo, tl, n, z, k)
    BY <1>24, <2>1, FlowWritten
  <2> QED
    BY <1>6, <1>23, <2>2
<1>25. ASSUME bo # <<>> PROVE \E v \in Nat : Flow(q, t, bo, Append(tl, y), n, v, k)
  BY <1>8, <1>11, <1>21, <1>25, FlowNext
<1>12. IsSequence(tl) /\ tl \o <<>> = tl /\ tl \o <<y>> = Append(tl, y)
  BY <1>1, <1>10, RangeTail, AppendJob
<1>13. buffer' = bo /\ (bufferJobs' = tl \/ (bo # <<>> /\ bufferJobs' = Append(tl, y)))
  <2>1. buffer' = bo
    BY <1>9 DEF Written
  <2>2. bufferJobs' = tl \o <<>> \/ (bo # <<>> /\ bufferJobs' = tl \o <<y>>)
    BY <1>6, <1>7, <1>10, <1>11, <2>1 DEF Written, NextWrite
  <2> QED
    BY <1>12, <2>1, <2>2
<1>14. PICK bj : bj = bufferJobs'
  OBVIOUS
<1>16. \E v \in Nat : Flow(q, t, bo, bj, n, v, k)
  BY <1>11, <1>13, <1>14, <1>25
<1>17. PICK fk : fk = fileJobs'
  OBVIOUS
<1>18. Posted(fk, q, k)
  <2>1. PICK x : x = ReadData(h.t)
    OBVIOUS
  <2>2. x.op = "read"
    BY <2>1 DEF ReadData
  <2>3. fk = fileJobs \/ fk = Append(fileJobs, x)
    BY <1>6, <1>17, <2>1 DEF Written
  <2>4. Range(fk) \subseteq Range(fileJobs) \cup {x}
    BY <1>1, <2>3, RangeAppend
  <2> QED
    BY <1>5, <2>2, <2>4 DEF Posted
<1>19. Course(q, t, bo, bj, fk, content)
  BY <1>4, <1>16, <1>18 DEF Course
<1>20. Only(t, q)
  BY <1>1, <1>3 DEF Only, Count
<1> QED
  BY <1>1, <1>2, <1>3, <1>4, <1>13, <1>14, <1>17, <1>19, <1>20, OneStep DEF Whole

-----------------------------------------------------------------------------
LEMMA DownStep ==
    ASSUME TypeInv, TypeInv', JobsInv, DownInv, [Next]_vars
    PROVE  DownInv'
<1>1. CASE UNCHANGED <<orderly, transfer, strands, content>>
  <2>1. UNCHANGED <<buffer, writing, bufferJobs, fileJobs>>
    BY <1>1 DEF strands
  <2>2. \A j \in Range(fileJobs') : j.op = "null" => j \in Range(fileJobs)
    BY <2>1 DEF Range
  <2> QED
    BY <1>1, <2>1, <2>2, NoStep
<1>2. CASE Command
  <2>1. CASE LIST \/ \E f \in File : RETR(f) \/ STOR(f) \/ APPE(f)
    <3>1. PICK kind, f, i : Start(kind, f, i)
      BY <2>1 DEF LIST, RETR, STOR, APPE
    <3> QED
      BY <3>1, StartDown
  <2>2. CASE PASV
    BY <2>2, ClosedDown
  <2>3. CASE (\E u \in User : USER(u)) \/ PASS \/ QUIT \/ NOOP \/ \E f \in File : RNFR(f) \/ RNTO(f) \/ DELE(f)
    BY <1>1, <2>3 DEF USER, PASS, QUIT, NOOP, RNFR, RNTO, DELE, disk, history
  <2> QED
    BY <1>2, <2>1, <2>2, <2>3 DEF Command
<1>3. CASE SendDeleteObjectRequest \/ UNCHANGED vars
  BY <1>1, <1>3 DEF SendDeleteObjectRequest, vars, disk, history
<1>4. CASE Hangup
  BY <1>4, ClosedDown
<1>5. CASE Accepted \/ Sending
  BY <1>5, AcceptedDown, SendingDown
<1>6. CASE Strands
  BY <1>6, ReadFileDown, ReadEndsDown, UploadDown, ObjectDown, AddDown, WriteDown, WrittenDown DEF Strands
<1>7. ASSUME NEW t \in DOMAIN transfer,
             ListEnds(t) \/ ReceiveBlock(t) \/ ReceiveLast(t) \/ ReceiveFails(t) \/ Break(t)
      PROVE  DownInv'
  BY <1>7, ListEndsDown, ReceivingDown, BrokenDown
<1> QED
  BY <1>2, <1>3, <1>4, <1>5, <1>6, <1>7 DEF Next

LEMMA InitDown == Init => DownInv
<1> SUFFICES ASSUME Init PROVE DownInv
  OBVIOUS
<1>1. transfer = <<>> /\ buffer = <<>> /\ bufferJobs = <<>> /\ writing = NoWrite
  BY DEF Init
<1>2. Len(<<>>) = 0 /\ DOMAIN <<>> = {}
  OBVIOUS
<1> QED
  BY <1>1, <1>2 DEF DownInv, Silent, Count

DataInv == TypeInv /\ JobsInv /\ DownInv

LEMMA NextData ==
    ASSUME DataInv, [Next]_vars
    PROVE  DataInv'
<1>1. TypeInv' /\ JobsInv'
  BY NextTyped, JobsStep DEF DataInv
<1> QED
  BY <1>1, DownStep DEF DataInv

(* However the reads of a file, the writes to the socket and the jobs of the *)
(* two strands interleave, with files of any length: a client that waits for *)
(* the reply of each transfer and keeps its connection gets every block of   *)
(* the file once, in order, before the final reply 226 (sendFile,            *)
(* readDataFromFileAndSend, addDataToBufferAndSend, writeDataToSocket).      *)
THEOREM DownloadsAreIntact == Spec => []DownloadIntact
<1>1. Init => DataInv
  BY InitTyped, InitJobs, InitDown DEF DataInv
<1>2. DataInv /\ [Next]_vars => DataInv'
  BY NextData
<1>3. DataInv => DownloadIntact
  BY DEF DataInv, DownInv, Whole, DownloadIntact, Done, Answered
<1> QED
  BY <1>1, <1>2, <1>3, PTL DEF Spec

-----------------------------------------------------------------------------
(* Uploads.  The blocks that a client sent are in the file, but for the one  *)
(* that the file's strand has still to write.                                *)

Writing(j, t) == j.op = "write" /\ j.t = t
Filed(r, ct) == ct[r.inode] = r.start \o r.moved
Filing(r, t, fj, ct) ==
    r.kind = "receive" /\ ~(r.replies > 0) =>
        /\ \A j \in Range(fj) : Writing(j, t) => Append(ct[r.inode], j.block) = r.start \o r.moved
        /\ (\A j \in Range(fj) : ~Writing(j, t)) => Filed(r, ct)

(* An upload that has its reply is in the file, and its object is there or   *)
(* is being made.                                                            *)
Uploaded(r) == r.kind = "receive" /\ r.replies > 0 /\ r.socket # "new"
AtWork(fj, t) == fj # <<>> /\ Objects(Head(fj)) /\ Head(fj).t = t
Shelved(r, t, fj, ct, in, ob) ==
    in[r.file] = r.inode =>
        IF AtWork(fj, t)
        THEN Head(fj).op = "store" => Head(fj).content = ct[r.inode]
        ELSE ob[r.file] = ct[r.inode]
Intact(t) ==
    Uploaded(transfer[t]) /\ Newest(t) =>
        /\ Filed(transfer[t], content)
        /\ ~renamed => Shelved(transfer[t], t, fileJobs, content, inodes, objects)

(* The object at work is that of the last upload.                            *)
LastMade == \A j \in Range(fileJobs) : Objects(j) =>
    \A t \in DOMAIN transfer : Uploaded(transfer[t]) => t <= j.t

Unlinked == deleting # NoFile => inodes[deleting] = NoFile
UpInv ==
    /\ Unlinked
    /\ orderly =>
        /\ Count # 0 => Filing(transfer[Count], Count, fileJobs, content)
        /\ \A t \in DOMAIN transfer : Intact(t)
        /\ LastMade

-----------------------------------------------------------------------------
(* A transfer has one job on the file's strand that leads to its end.        *)

OfUpload(j, t) == j.op \in {"write", "end"} /\ j.t = t
EndAt(jobs, i) == IF LastBlock(jobs[i]) THEN i + 1 ELSE i

LEMMA OneEnd ==
    ASSUME ReplyInv, JobsInv, NEW t \in Nat \ {0}, NEW i \in DOMAIN fileJobs, NEW k \in DOMAIN fileJobs,
           OfUpload(fileJobs[i], t), OfUpload(fileJobs[k], t)
    PROVE  EndAt(fileJobs, i) = EndAt(fileJobs, k)
<1>1. PICK st : Places(st)
  BY DEF ReplyInv
<1>2. PICK v : v = View("file", fileJobs)
  OBVIOUS
<1>3. Held(v, st, "file")
  BY <1>1, <1>2 DEF Places
<1>4. DOMAIN v = DOMAIN fileJobs /\ \A n \in DOMAIN fileJobs : v[n] = Owner("file", fileJobs[n])
  BY <1>2 DEF View
<1>5. DOMAIN v = 1..Len(v)
  BY <1>3 DEF Held
<1>6. ASSUME NEW n \in DOMAIN fileJobs, OfUpload(fileJobs[n], t)
      PROVE  EndAt(fileJobs, n) \in DOMAIN fileJobs /\ v[EndAt(fileJobs, n)] = t
  <2>1. CASE LastBlock(fileJobs[n])
    <3>1. n + 1 \in DOMAIN fileJobs /\ fileJobs[n + 1].op = "end" /\ fileJobs[n + 1].t = fileJobs[n].t
      BY <1>6, <2>1 DEF JobsInv, Chain
    <3>2. Owner("file", fileJobs[n + 1]) = t
      BY <1>6, <3>1 DEF Owner, OfUpload
    <3> QED
      BY <1>4, <2>1, <3>1, <3>2 DEF EndAt
  <2>2. CASE ~LastBlock(fileJobs[n])
    <3>1. Owner("file", fileJobs[n]) = t
      BY <1>6, <2>2 DEF Owner, OfUpload, LastBlock
    <3> QED
      BY <1>4, <1>6, <2>2, <3>1 DEF EndAt
  <2> QED
    BY <2>1, <2>2
<1>7. PICK a, b : a = EndAt(fileJobs, i) /\ b = EndAt(fileJobs, k)
  OBVIOUS
<1>8. a \in 1..Len(v) /\ b \in 1..Len(v) /\ v[a] = t /\ v[b] = t
  BY <1>4, <1>5, <1>6, <1>7
<1> QED
  BY <1>3, <1>7, <1>8 DEF Held

(* Behind a write or the end of a transfer there is no write of it.          *)
LEMMA NoOtherWrite ==
    ASSUME ReplyInv, JobsInv, NEW t \in Nat \ {0}, fileJobs # <<>>, OfUpload(Head(fileJobs), t)
    PROVE  \A j \in Range(Tail(fileJobs)) : ~Writing(j, t)
<1> SUFFICES ASSUME NEW j \in Range(Tail(fileJobs)), Writing(j, t) PROVE FALSE
  OBVIOUS
<1>1. IsSequence(fileJobs)
  BY DEF ReplyInv, Shape
<1>2. PICK n \in Nat : n = Len(fileJobs)
  BY <1>1, TailAt
<1>3. /\ n # 0 /\ DOMAIN fileJobs = 1..n /\ Head(fileJobs) = fileJobs[1]
      /\ DOMAIN Tail(fileJobs) = 1..(n - 1)
      /\ \A i \in 1..(n - 1) : Tail(fileJobs)[i] = fileJobs[i + 1]
  BY <1>1, <1>2, TailAt
<1>4. PICK i \in 1..(n - 1) : j = fileJobs[i + 1]
  BY <1>3 DEF Range
<1>5. PICK k \in Nat : k = i + 1 /\ k > 1 /\ k \in DOMAIN fileJobs /\ 1 \in DOMAIN fileJobs
  BY <1>3, <1>4
<1>6. OfUpload(fileJobs[k], t) /\ OfUpload(fileJobs[1], t) /\ fileJobs[k].op = "write"
  BY <1>3, <1>4, <1>5 DEF Writing, OfUpload
<1>7. EndAt(fileJobs, k) = EndAt(fileJobs, 1)
  BY <1>5, <1>6, OneEnd
<1>8. LastBlock(fileJobs[1]) /\ ~LastBlock(fileJobs[k]) /\ k = 1 + 1
  BY <1>5, <1>7 DEF EndAt
<1>9. fileJobs[1 + 1].op = "end"
  BY <1>5, <1>8 DEF JobsInv, Chain
<1> QED
  BY <1>6, <1>8, <1>9

(* A transfer that reads has nothing to write.                               *)
LEMMA ReaderHasNoWrite ==
    ASSUME ReplyInv, JobsInv, NEW t \in Nat \ {0}, t \in DOMAIN transfer, Reads(transfer[t])
    PROVE  \A j \in Range(fileJobs) : ~Writing(j, t)
<1> SUFFICES ASSUME NEW j \in Range(fileJobs), Writing(j, t) PROVE FALSE
  OBVIOUS
<1>1. PICK st : Places(st)
  BY DEF ReplyInv
<1>2. Ends(t, "file", fileJobs)
  <2>1. PICK i \in DOMAIN fileJobs : j = fileJobs[i]
    BY DEF Range
  <2>2. CASE LastBlock(j)
    <3>1. i + 1 \in DOMAIN fileJobs /\ fileJobs[i + 1].op = "end" /\ fileJobs[i + 1].t = t
      BY <2>1, <2>2 DEF JobsInv, Chain, Writing
    <3>2. PICK e \in Range(fileJobs) : e = fileJobs[i + 1]
      BY <3>1 DEF Range
    <3> QED
      BY <3>1, <3>2 DEF Ends, Owner
  <2>3. CASE ~LastBlock(j)
    BY <2>3 DEF Ends, Owner, Writing, LastBlock
  <2> QED
    BY <2>2, <2>3
<1>3. st[t] = "file"
  BY <1>1, <1>2, HeldBy DEF Places
<1>4. st[t] = "reads"
  BY <1>1 DEF Places
<1> QED
  BY <1>3, <1>4

(* A transfer with a write or an end to come is pending.                     *)
LEMMA UploadPending ==
    ASSUME ReplyInv, JobsInv, NEW t, NEW j \in Range(fileJobs), OfUpload(j, t)
    PROVE  Pending(t)
<1>1. PICK i \in DOMAIN fileJobs : j = fileJobs[i]
  BY DEF Range
<1>2. CASE LastBlock(j)
  <2>1. i + 1 \in DOMAIN fileJobs /\ fileJobs[i + 1].op = "end" /\ fileJobs[i + 1].t = t
    BY <1>1, <1>2 DEF JobsInv, Chain, OfUpload
  <2>2. PICK e \in Range(fileJobs) : e = fileJobs[i + 1]
    BY <2>1 DEF Range
  <2> QED
    BY <2>1, <2>2 DEF Pending, Ends, Owner
<1>3. CASE ~LastBlock(j)
  BY <1>3 DEF Pending, Ends, Owner, OfUpload, LastBlock
<1> QED
  BY <1>2, <1>3

-----------------------------------------------------------------------------
(* Steps that leave uploads alone.                                           *)

LEMMA NewestBefore ==
    ASSUME Keeps, NEW t \in DOMAIN transfer, Newest(t)'
    PROVE  Newest(t)
<1> SUFFICES ASSUME NEW u \in DOMAIN transfer, u > t
             PROVE  \/ transfer[u].kind # "receive"
                    \/ transfer[u].file # transfer[t].file /\ transfer[u].inode # transfer[t].inode
  BY DEF Newest
<1>1. /\ u \in DOMAIN transfer'
      /\ transfer'[u].kind # "receive"
            \/ (transfer'[u].file # transfer'[t].file /\ transfer'[u].inode # transfer'[t].inode)
  BY DEF Keeps, Newest
<1> QED
  BY <1>1 DEF Keeps, Fixed

LEMMA IntactStays ==
    ASSUME Keeps, NEW t \in DOMAIN transfer, Intact(t), NEW q, q = transfer[t],
           Uploaded(transfer'[t]) => Uploaded(q) /\ transfer'[t].moved = q.moved,
           Uploaded(q) /\ Newest(t)' =>
               /\ content'[q.inode] = content[q.inode]
               /\ ~renamed' =>
                   /\ ~renamed
                   /\ Shelved(q, t, fileJobs, content, inodes, objects)
                          => Shelved(q, t, fileJobs', content', inodes', objects')
    PROVE  Intact(t)'
<1> SUFFICES ASSUME Uploaded(transfer'[t]), Newest(t)'
             PROVE  /\ Filed(transfer'[t], content')
                    /\ ~renamed' => Shelved(transfer'[t], t, fileJobs', content', inodes', objects')
  BY DEF Intact, Uploaded, Filed, Shelved, AtWork, Objects
<1>1. Newest(t)
  BY NewestBefore
<1>2. PICK r : r = transfer'[t]
  OBVIOUS
<1>3. Fixed(q, r) /\ Uploaded(q) /\ r.moved = q.moved
  BY <1>2 DEF Keeps
<1>4. Filed(q, content) /\ (~renamed => Shelved(q, t, fileJobs, content, inodes, objects))
  BY <1>1, <1>3 DEF Intact
<1>5. Filed(r, content')
  BY <1>3, <1>4 DEF Filed, Fixed
<1>6. ~renamed' => Shelved(q, t, fileJobs', content', inodes', objects')
  BY <1>3, <1>4
<1>7. ~renamed' => Shelved(r, t, fileJobs', content', inodes', objects')
  BY <1>3, <1>6 DEF Shelved, Fixed
<1> QED
  BY <1>2, <1>5, <1>7

(* What the records of transfers tell of uploads stays the same.             *)
SameUploads ==
    /\ DOMAIN transfer' = DOMAIN transfer
    /\ \A t \in DOMAIN transfer :
        /\ Uploaded(transfer'[t]) => Uploaded(transfer[t])
        /\ transfer[t].replies > 0 => transfer'[t].replies > 0
        /\ transfer[t].kind = "receive" => transfer'[t].moved = transfer[t].moved

(* The jobs of uploads stay.                                                 *)
SameWork(fj, fk) ==
    /\ \A j : j.op = "write" => (j \in Range(fj) <=> j \in Range(fk))
    /\ \A j \in Range(fk) : Objects(j) => j \in Range(fj)
    /\ \A t : AtWork(fj, t) \/ AtWork(fk, t) => AtWork(fj, t) /\ AtWork(fk, t) /\ Head(fk) = Head(fj)

(* A file keeps its inode and its object, or goes.                           *)
SameShelf ==
    ~renamed' =>
        /\ ~renamed
        /\ \A f \in File : \/ inodes'[f] = NoFile
                           \/ inodes'[f] = inodes[f] /\ objects'[f] = objects[f]

LEMMA ShelvedStays ==
    ASSUME NEW q, NEW t, NEW fj, NEW fk, NEW ct, NEW in, NEW im, NEW ob, NEW oc,
           Shelved(q, t, fj, ct, in, ob), SameWork(fj, fk), q.inode # NoFile,
           im[q.file] = NoFile \/ (im[q.file] = in[q.file] /\ oc[q.file] = ob[q.file])
    PROVE  Shelved(q, t, fk, ct, im, oc)
BY DEF Shelved, SameWork

LEMMA FilingStays ==
    ASSUME NEW q, NEW r, NEW t, NEW fj, NEW fk, NEW ct, Filing(q, t, fj, ct), SameWork(fj, fk),
           Fixed(q, r), q.replies > 0 => r.replies > 0, q.kind = "receive" => r.moved = q.moved
    PROVE  Filing(r, t, fk, ct)
BY DEF Filing, SameWork, Fixed, Writing, Filed

LEMMA Uploads ==
    ASSUME TypeInv, NEW t \in DOMAIN transfer
    PROVE  transfer[t].file \in File /\ transfer[t].inode \in Inode /\ transfer[t].inode # NoFile
<1>1. transfer[t] \in Transfers
  BY Numbers, TypeParts DEF TypeInv
<1> QED
  BY <1>1, FtpAssumption DEF Transfers, Inode

LEMMA CountNext ==
    ASSUME TypeInv, TypeInv'
    PROVE  /\ Count \in Nat /\ DOMAIN transfer = 1..Count
           /\ Count' \in Nat /\ DOMAIN transfer' = 1..Count'
           /\ DOMAIN transfer' = DOMAIN transfer => Count' = Count
<1>1. Count \in Nat /\ DOMAIN transfer = 1..Count
  BY Numbers, TypeParts DEF TypeInv
<1>2. transfer' \in Seq(Transfers)
  BY DEF TypeInv, TypeOK, Transfers, Bytes, Block, Inode
<1>3. Count' \in Nat /\ DOMAIN transfer' = 1..Count'
  BY <1>2 DEF Count
<1>4. ASSUME DOMAIN transfer' = DOMAIN transfer PROVE Count' = Count
  <2>1. PICK n, m \in Nat : n = Count /\ m = Count'
    BY <1>1, <1>3
  <2>2. 1..n = 1..m
    BY <1>1, <1>3, <1>4, <2>1
  <2>3. \A i \in Nat \ {0} : i <= n <=> i <= m
    BY <2>2
  <2>4. n <= m /\ m <= n
    BY <2>3
  <2> QED
    BY <2>1, <2>4
<1> QED
  BY <1>1, <1>3, <1>4

(* The invariant from its parts.                                             *)
LEMMA UpParts ==
    ASSUME orderly' =>
               /\ Count' # 0 => Filing(transfer'[Count'], Count', fileJobs', content')
               /\ \A t \in DOMAIN transfer' : Intact(t)'
               /\ \A j \in Range(fileJobs') : Objects(j) =>
                      \A t \in DOMAIN transfer' : Uploaded(transfer'[t]) => t <= j.t,
           Unlinked'
    PROVE  UpInv'
<1>1. LastMade' = \A j \in Range(fileJobs') : Objects(j) =>
                      \A t \in DOMAIN transfer' : Uploaded(transfer'[t]) => t <= j.t
  BY DEF LastMade, Objects, Range, Uploaded
<1>2. (Count # 0 => Filing(transfer[Count], Count, fileJobs, content))'
          = (Count' # 0 => Filing(transfer'[Count'], Count', fileJobs', content'))
  BY DEF Filing, Filed, Writing, Range
<1> QED
  BY <1>1, <1>2 DEF UpInv

LEMMA QuietUp ==
    ASSUME TypeInv, TypeInv', UpInv, Keeps, Unlinked', UNCHANGED <<orderly, content>>,
           orderly => SameUploads, SameWork(fileJobs, fileJobs'), SameShelf
    PROVE  UpInv'
<1> SUFFICES ASSUME orderly
             PROVE  /\ Count' # 0 => Filing(transfer'[Count'], Count', fileJobs', content')
                    /\ \A t \in DOMAIN transfer' : Intact(t)'
                    /\ \A j \in Range(fileJobs') : Objects(j) =>
                           \A t \in DOMAIN transfer' : Uploaded(transfer'[t]) => t <= j.t
  BY UpParts
<1>1. /\ Count \in Nat /\ DOMAIN transfer = 1..Count /\ DOMAIN transfer' = DOMAIN transfer
      /\ Count' = Count
  BY CountNext DEF SameUploads
<1>2. PICK fk : fk = fileJobs'
  OBVIOUS
<1>3. Count # 0 => Filing(transfer'[Count], Count, fk, content)
  <2> SUFFICES ASSUME Count # 0 PROVE Filing(transfer'[Count], Count, fk, content)
    OBVIOUS
  <2>1. PICK q, r : q = transfer[Count] /\ r = transfer'[Count]
    OBVIOUS
  <2>2. Count \in DOMAIN transfer
    BY <1>1
  <2>3. Fixed(q, r) /\ (q.replies > 0 => r.replies > 0) /\ (q.kind = "receive" => r.moved = q.moved)
    BY <2>1, <2>2 DEF Keeps, SameUploads
  <2>4. Filing(q, Count, fileJobs, content)
    BY <2>1 DEF UpInv
  <2> QED
    BY <1>2, <2>1, <2>3, <2>4, FilingStays
<1>4. ASSUME NEW t \in DOMAIN transfer PROVE Intact(t)'
  <2>1. PICK q : q = transfer[t]
    OBVIOUS
  <2>2. q.file \in File /\ q.inode # NoFile
    BY <2>1, Uploads
  <2>3. PICK im, oc : im = inodes' /\ oc = objects'
    OBVIOUS
  <2>4. ~renamed' => /\ ~renamed
                     /\ im[q.file] = NoFile \/ (im[q.file] = inodes[q.file] /\ oc[q.file] = objects[q.file])
    BY <2>2, <2>3 DEF SameShelf
  <2>5. ~renamed' /\ Shelved(q, t, fileJobs, content, inodes, objects)
            => Shelved(q, t, fk, content, im, oc)
    BY <1>2, <2>2, <2>4, ShelvedStays
  <2>6. Uploaded(transfer'[t]) => Uploaded(q) /\ transfer'[t].moved = q.moved
    BY <2>1 DEF SameUploads, Uploaded
  <2>7. Intact(t)
    BY DEF UpInv
  <2> QED
    BY <1>2, <2>1, <2>3, <2>4, <2>5, <2>6, <2>7, IntactStays
<1>5. ASSUME NEW j \in Range(fileJobs'), Objects(j), NEW t \in DOMAIN transfer', Uploaded(transfer'[t])
      PROVE  t <= j.t
  <2>1. j \in Range(fileJobs)
    BY <1>5 DEF SameWork
  <2>2. t \in DOMAIN transfer /\ Uploaded(transfer[t])
    BY <1>1, <1>5 DEF SameUploads
  <2> QED
    BY <1>5, <2>1, <2>2 DEF UpInv, LastMade
<1> QED
  BY <1>1, <1>2, <1>3, <1>4, <1>5

-----------------------------------------------------------------------------
(* The elements of sequences, exactly.                                       *)

LEMMA AppendRange ==
    ASSUME NEW s, NEW x, IsSequence(s)
    PROVE  /\ Range(Append(s, x)) = Range(s) \cup {x}
           /\ s # <<>> => Append(s, x) # <<>> /\ Head(Append(s, x)) = Head(s)
<1>1. PICK a : a = Append(s, x)
  OBVIOUS
<1>2. /\ IsSequence(a) /\ Len(s) \in Nat /\ DOMAIN s = 1..Len(s) /\ Len(a) = Len(s) + 1
      /\ DOMAIN a = 1..(Len(s) + 1) /\ \A i \in 1..Len(s) : a[i] = s[i]
      /\ a[Len(s) + 1] = x
  BY <1>1, AppendAt
<1>3. PICK n \in Nat : n = Len(s)
  BY <1>2
<1>4. \A i \in 1..n : i \in DOMAIN a /\ a[i] = s[i]
  BY <1>2, <1>3
<1>5. Range(s) \subseteq Range(a)
  BY <1>2, <1>3, <1>4 DEF Range
<1>6. x \in Range(a)
  BY <1>2, <1>3 DEF Range
<1>7. Range(a) \subseteq Range(s) \cup {x}
  BY <1>1, RangeAppend
<1>8. ASSUME s # <<>> PROVE a # <<>> /\ Head(a) = Head(s)
  <2>1. n # 0 /\ Head(s) = s[1]
    BY <1>3, <1>8, TailAt
  <2>2. a # <<>>
    BY <1>2, <1>3, EmptyAt
  <2>3. Head(a) = a[1]
    BY <1>2, <2>2, TailAt
  <2> QED
    BY <1>3, <1>4, <2>1, <2>2, <2>3
<1> QED
  BY <1>1, <1>5, <1>6, <1>7, <1>8

LEMMA TailRange ==
    ASSUME NEW s, NEW x, IsSequence(s), s # <<>>
    PROVE  /\ Range(s) = Range(Tail(s)) \cup {Head(s)}
           /\ Range(<<x>> \o Tail(s)) = Range(Tail(s)) \cup {x}
           /\ <<x>> \o Tail(s) # <<>> /\ Head(<<x>> \o Tail(s)) = x
<1>1. PICK n \in Nat \ {0} : n = Len(s)
  BY TailAt
<1>2. PICK u, a : u = Tail(s) /\ a = <<x>> \o Tail(s)
  OBVIOUS
<1>3. /\ DOMAIN s = 1..n /\ Head(s) = s[1] /\ DOMAIN u = 1..(n - 1)
      /\ \A i \in 1..(n - 1) : u[i] = s[i + 1]
  BY <1>1, <1>2, TailAt
<1>4. IsSequence(a) /\ Len(a) = n /\ DOMAIN a = 1..n /\ a[1] = x /\ \A i \in 2..n : a[i] = s[i]
  BY <1>1, <1>2, FirstAt
<1>5. \A i \in 2..n : i - 1 \in DOMAIN u /\ u[i - 1] = s[i] /\ a[i] = s[i]
  <2> SUFFICES ASSUME NEW i \in 2..n PROVE i - 1 \in DOMAIN u /\ u[i - 1] = s[i] /\ a[i] = s[i]
    OBVIOUS
  <2>1. PICK k \in 1..(n - 1) : k + 1 = i /\ k = i - 1
    OBVIOUS
  <2> QED
    BY <1>3, <1>4, <2>1
<1>6. \A k \in DOMAIN u : k + 1 \in 2..n /\ k + 1 \in DOMAIN s /\ k + 1 \in DOMAIN a /\ u[k] = s[k + 1] /\ u[k] = a[k + 1]
  <2> SUFFICES ASSUME NEW k \in 1..(n - 1)
               PROVE  k + 1 \in 2..n /\ k + 1 \in 1..n /\ u[k] = s[k + 1] /\ u[k] = a[k + 1]
    BY <1>3, <1>4
  <2>1. k + 1 \in 2..n /\ k + 1 \in 1..n
    OBVIOUS
  <2> QED
    BY <1>3, <1>4, <2>1
<1>7. \A i \in 1..n : i = 1 \/ i \in 2..n
  OBVIOUS
<1>8. Range(u) \subseteq Range(s) /\ Range(u) \subseteq Range(a)
  BY <1>6 DEF Range
<1>9. Head(s) \in Range(s) /\ x \in Range(a)
  <2>1. 1 \in 1..n
    OBVIOUS
  <2> QED
    BY <1>3, <1>4, <2>1 DEF Range
<1>10. Range(s) \subseteq Range(u) \cup {Head(s)} /\ Range(a) \subseteq Range(u) \cup {x}
  <2>1. \A i \in 2..n : s[i] \in Range(u) /\ a[i] \in Range(u)
    BY <1>5 DEF Range
  <2>2. \A i \in 1..n : s[i] \in Range(u) \cup {Head(s)} /\ a[i] \in Range(u) \cup {x}
    BY <1>3, <1>4, <1>7, <2>1
  <2> QED
    BY <1>3, <1>4, <2>2 DEF Range
<1>11. a # <<>>
  BY <1>4, EmptyAt
<1>12. Head(a) = x
  BY <1>4, <1>11, TailAt
<1> QED
  BY <1>2, <1>8, <1>9, <1>10, <1>11, <1>12

LEMMA WorkAppended ==
    ASSUME NEW s, NEW x, IsSequence(s), x.op # "write", ~Objects(x)
    PROVE  SameWork(s, Append(s, x))
BY AppendRange DEF SameWork, AtWork

LEMMA WorkTaken ==
    ASSUME NEW s, NEW x, IsSequence(s), s # <<>>, Head(s).op # "write", ~Objects(Head(s)),
           x.op # "write", ~Objects(x), Chain(s)
    PROVE  SameWork(s, Tail(s)) /\ SameWork(s, <<x>> \o Tail(s))
<1>1. \A j \in Range(Tail(s)) : ~Objects(j)
  BY ChainTail
<1>2. PICK u, a : u = Tail(s) /\ a = <<x>> \o Tail(s)
  OBVIOUS
<1>3. u # <<>> => Head(u) \in Range(u)
  BY <1>2, RangeTail
<1>4. Range(s) = Range(u) \cup {Head(s)} /\ Range(a) = Range(u) \cup {x} /\ a # <<>> /\ Head(a) = x
  BY <1>2, TailRange
<1>5. \A t : ~AtWork(s, t) /\ ~AtWork(u, t) /\ ~AtWork(a, t)
  BY <1>1, <1>2, <1>3, <1>4 DEF AtWork
<1>6. SameWork(s, u) /\ SameWork(s, a)
  BY <1>4, <1>5 DEF SameWork
<1> QED
  BY <1>2, <1>6

LEMMA WorkStays ==
    ASSUME UNCHANGED fileJobs
    PROVE  SameWork(fileJobs, fileJobs')
BY DEF SameWork, Range, AtWork

(* A step of one transfer that is none of an upload, or moves nothing.       *)
LEMMA UploadsOnly ==
    ASSUME NEW t \in DOMAIN transfer, NEW r, Only(t, r), Fixed(transfer[t], r),
           transfer[t].replies > 0 => r.replies > 0,
           transfer[t].kind = "receive" =>
               /\ r.moved = transfer[t].moved
               /\ r.replies > 0 => transfer[t].replies > 0
               /\ r.replies > 0 /\ r.socket # "new" => transfer[t].socket # "new"
    PROVE  SameUploads
<1> SUFFICES ASSUME NEW u \in DOMAIN transfer
             PROVE  /\ Uploaded(transfer'[u]) => Uploaded(transfer[u])
                    /\ transfer[u].replies > 0 => transfer'[u].replies > 0
                    /\ transfer[u].kind = "receive" => transfer'[u].moved = transfer[u].moved
  BY DEF SameUploads, Only
<1>1. CASE u = t
  BY <1>1 DEF Only, Fixed, Uploaded
<1>2. CASE u # t
  BY <1>2 DEF Only
<1> QED
  BY <1>1, <1>2

LEMMA UploadsStay ==
    ASSUME UNCHANGED transfer
    PROVE  SameUploads
BY DEF SameUploads

LEMMA ShelfStays ==
    ASSUME UNCHANGED <<inodes, objects, renamed>>
    PROVE  SameShelf
BY DEF SameShelf

LEMMA UnlinkedStays ==
    ASSUME UpInv, UNCHANGED <<inodes, deleting>>
    PROVE  Unlinked'
BY DEF UpInv, Unlinked

LEMMA CommandUp ==
    ASSUME TypeInv, TypeInv', UpInv, Keeps,
           \/ (\E u \in User : USER(u)) \/ PASS \/ QUIT \/ NOOP \/ SendDeleteObjectRequest
           \/ \E f \in File : RNFR(f) \/ RNTO(f) \/ DELE(f)
    PROVE  UpInv'
<1>1. UNCHANGED <<transfer, fileJobs, content, orderly>>
  BY DEF USER, PASS, QUIT, NOOP, SendDeleteObjectRequest, RNFR, RNTO, DELE, strands, disk, history
<1>2. SameUploads /\ SameWork(fileJobs, fileJobs')
  BY <1>1, UploadsStay, WorkStays
<1>3. inodes \in [File -> Inode \cup {NoFile}] /\ objects \in [File -> Bytes \cup {NoObject}]
  BY TypeParts DEF TypeInv, Files
<1>4. CASE (\E u \in User : USER(u)) \/ PASS \/ QUIT \/ NOOP \/ \E f \in File : RNFR(f)
  <2>1. UNCHANGED <<inodes, objects, renamed, deleting>>
    BY <1>4 DEF USER, PASS, QUIT, NOOP, RNFR, disk, history
  <2>2. SameShelf /\ Unlinked'
    BY <2>1, ShelfStays, UnlinkedStays
  <2> QED
    BY <1>1, <1>2, <2>2, QuietUp
<1>5. ASSUME NEW f \in File, RNTO(f) PROVE UpInv'
  <2>1. renamed' /\ deleting = NoFile /\ deleting' = NoFile
    BY <1>5 DEF RNTO, Handle
  <2>2. SameShelf /\ Unlinked'
    BY <2>1 DEF SameShelf, Unlinked
  <2> QED
    BY <1>1, <1>2, <2>2, QuietUp
<1>6. ASSUME NEW f \in File, DELE(f) PROVE UpInv'
  <2>1. /\ UNCHANGED <<objects, renamed>> /\ deleting' = f
        /\ inodes' = [inodes EXCEPT ![f] = NoFile]
    BY <1>6 DEF DELE, history
  <2>2. inodes'[f] = NoFile /\ \A g \in File : g # f => inodes'[g] = inodes[g]
    BY <1>3, <2>1
  <2>3. SameShelf
    BY <2>1, <2>2 DEF SameShelf
  <2>4. Unlinked'
    BY <2>1, <2>2 DEF Unlinked
  <2> QED
    BY <1>1, <1>2, <2>3, <2>4, QuietUp
<1>7. CASE SendDeleteObjectRequest
  <2>1. /\ UNCHANGED <<inodes, renamed>> /\ deleting' = NoFile /\ deleting # NoFile
        /\ objects' = [objects EXCEPT ![deleting] = NoObject]
    BY <1>7 DEF SendDeleteObjectRequest, history
  <2>2. inodes[deleting] = NoFile
    BY <2>1 DEF UpInv, Unlinked
  <2>3. \A g \in File : g # deleting => objects'[g] = objects[g]
    BY <1>3, <2>1
  <2>4. SameShelf
    BY <2>1, <2>2, <2>3 DEF SameShelf
  <2>5. Unlinked'
    BY <2>1 DEF Unlinked
  <2> QED
    BY <1>1, <1>2, <2>4, <2>5, QuietUp
<1> QED
  BY <1>4, <1>5, <1>6, <1>7

LEMMA ClosedUp ==
    ASSUME TypeInv, TypeInv', JobsInv, UpInv, Keeps, PASV \/ Hangup
    PROVE  UpInv'
<1>1. /\ UNCHANGED <<orderly, renamed, fileJobs, content, inodes, objects, deleting>>
      /\ transfer' = ReplyTo(Range(accepts)) \/ transfer' = CloseData(ReplyTo(Range(accepts)))
  BY DEF PASV, Hangup, AbortAccepts, strands, disk, history, account
<1>2. Moved
  BY TypeParts DEF TypeInv
<1>3. PICK ts : ts = Range(accepts)
  OBVIOUS
<1>4. PICK us : us = ReplyTo(ts)
  OBVIOUS
<1>5. PICK ws : ws = CloseData(us)
  OBVIOUS
<1>6. /\ DOMAIN us = DOMAIN transfer /\ DOMAIN ws = DOMAIN transfer
      /\ \A t \in DOMAIN transfer :
          /\ Differs(transfer[t], us[t], "replies")
          /\ us[t].replies = IF t \in ts THEN transfer[t].replies + 1 ELSE transfer[t].replies
          /\ t \notin ts => us[t] = transfer[t]
          /\ Differs(us[t], ws[t], "socket")
          /\ ws[t] = us[t] \/ (t = Count /\ transfer[t].socket = "open" /\ ws[t].socket = "closed")
  BY <1>2, <1>4, <1>5, RepliesDo
<1>7. transfer' = us \/ transfer' = ws
  BY <1>1, <1>3, <1>4, <1>5
<1>8. SameUploads
  <2> SUFFICES ASSUME NEW t \in DOMAIN transfer
               PROVE  /\ Uploaded(transfer'[t]) => Uploaded(transfer[t])
                      /\ transfer[t].replies > 0 => transfer'[t].replies > 0
                      /\ transfer[t].kind = "receive" => transfer'[t].moved = transfer[t].moved
    BY <1>6, <1>7 DEF SameUploads
  <2>1. PICK q, u, w : q = transfer[t] /\ u = us[t] /\ w = ws[t]
    OBVIOUS
  <2>2. Differs(q, u, "replies") /\ Differs(u, w, "socket")
    BY <1>6, <2>1
  <2>3. /\ u.kind = q.kind /\ u.socket = q.socket /\ u.moved = q.moved
        /\ w.kind = q.kind /\ w.replies = u.replies /\ w.moved = q.moved
    BY <2>2 DEF Differs, Fixed
  <2>4. w.socket = q.socket \/ q.socket = "open"
    BY <1>6, <2>1, <2>3
  <2>5. CASE t \in ts
    <3>1. q.socket = "new"
      BY <1>3, <2>1, <2>5 DEF JobsInv
    <3>2. u.replies = q.replies + 1 /\ q.replies \in Nat
      <4>1. q \in Transfers
        BY <1>2, <2>1, Numbers
      <4> QED
        BY <1>6, <2>1, <2>5, <4>1 DEF Transfers
    <3>3. q.replies > 0 => u.replies > 0
      BY <3>2
    <3> QED
      BY <1>7, <2>1, <2>3, <2>4, <3>1, <3>3 DEF Uploaded
  <2>6. CASE t \notin ts
    <3>1. u.replies = q.replies
      BY <1>6, <2>1, <2>6
    <3> QED
      BY <1>7, <2>1, <2>3, <2>4, <3>1 DEF Uploaded
  <2> QED
    BY <2>5, <2>6
<1> QED
  BY <1>1, <1>8, WorkStays, ShelfStays, UnlinkedStays, QuietUp

(* A connection: the transfer that waited has no reply.                      *)
LEMMA AcceptedUp ==
    ASSUME TypeInv, TypeInv', JobsInv, UpInv, Keeps, Accepted
    PROVE  UpInv'
<1>1. /\ UNCHANGED <<orderly, renamed, content, inodes, objects, deleting>>
      /\ IsSequence(fileJobs)
  BY DEF Accepted, disk, history, account, TypeInv, ReplyInv, Shape
<1>2. PICK t : t = Head(accepts)
  OBVIOUS
<1>3. t \in DOMAIN transfer /\ t \in Range(accepts)
  BY <1>2, AcceptedOnly
<1>4. PICK r : /\ Only(t, r) /\ Fixed(transfer[t], r)
               /\ r.replies = transfer[t].replies /\ r.moved = transfer[t].moved
  BY <1>2, AcceptedOnly
<1>5. ~(transfer[t].replies > 0)
  BY <1>3, PendingUnanswered DEF TypeInv, Answered, Pending
<1>6. SameUploads
  BY <1>3, <1>4, <1>5, UploadsOnly
<1>7. SameWork(fileJobs, fileJobs')
  <2>1. CASE UNCHANGED fileJobs
    BY <2>1, WorkStays
  <2>2. PICK x : x = ReadData(t)
    OBVIOUS
  <2>3. x.op = "read"
    BY <2>2 DEF ReadData
  <2>4. CASE fileJobs' = fileJobs \o <<x, x, x>>
    <3>1. PICK a, b, c : a = Append(fileJobs, x) /\ b = Append(a, x) /\ c = Append(b, x)
      OBVIOUS
    <3>2. fileJobs' = c
      BY <1>1, <2>4, <3>1, ThreeMore
    <3>3. IsSequence(a) /\ IsSequence(b)
      BY <1>1, <3>1, RangeAppend
    <3>4. SameWork(fileJobs, a) /\ SameWork(a, b) /\ SameWork(b, c)
      BY <1>1, <2>3, <3>1, <3>3, WorkAppended DEF Objects
    <3>5. SameWork(fileJobs, c)
      BY <3>4 DEF SameWork
    <3> QED
      BY <3>2, <3>5
  <2> QED
    BY <1>2, <2>1, <2>2, <2>4 DEF Accepted
<1> QED
  BY <1>1, <1>6, <1>7, ShelfStays, UnlinkedStays, QuietUp

(* Who sends is no upload.                                                   *)
LEMMA SenderIsNoUpload ==
    ASSUME TypeInv, DownInv, orderly, ~Silent(buffer, bufferJobs)
    PROVE  Count \in DOMAIN transfer /\ transfer[Count].kind # "receive"
<1>1. PICK t : t = Count
  OBVIOUS
<1>2. t \in DOMAIN transfer /\ Course(transfer[t], t, buffer, bufferJobs, fileJobs, content)
  BY <1>1, Busy
<1> QED
  BY <1>1, <1>2, CourseQuiet

LEMMA BufferUp ==
    ASSUME TypeInv, TypeInv', DownInv, UpInv, Keeps, addDataToBufferAndSend \/ writeDataToSocket \/ Sending \/ Written
    PROVE  UpInv'
<1>1. /\ UNCHANGED <<orderly, renamed, content, inodes, objects, deleting>>
      /\ IsSequence(fileJobs)
  BY DEF addDataToBufferAndSend, writeDataToSocket, Sending, Written, disk, history, account, TypeInv, ReplyInv, Shape
<1>2. SameWork(fileJobs, fileJobs')
  <2>1. CASE UNCHANGED fileJobs
    BY <2>1, WorkStays
  <2>2. CASE ~UNCHANGED fileJobs
    <3>1. PICK x : x = ReadData(Head(bufferJobs).t)
      OBVIOUS
    <3>2. fileJobs' = Append(fileJobs, x) /\ x.op = "read"
      BY <2>2, <3>1 DEF addDataToBufferAndSend, writeDataToSocket, Sending, Written, ReadData
    <3> QED
      BY <1>1, <3>2, WorkAppended DEF Objects
  <2> QED
    BY <2>1, <2>2
<1>3. ASSUME orderly PROVE SameUploads
  <2>1. CASE UNCHANGED transfer
    BY <2>1, UploadsStay
  <2>2. CASE Sending /\ ~UNCHANGED transfer
    <3>1. writing # NoWrite
      BY <2>2 DEF Sending
    <3>2. PICK t : t = Count /\ t = writing.t
      BY <1>3, <3>1 DEF DownInv
    <3>3. buffer # <<>>
      BY <3>1 DEF TypeInv, ReplyInv, Inv, OneWriter
    <3>4. t \in DOMAIN transfer /\ transfer[t].kind # "receive"
      BY <1>3, <3>2, <3>3, SenderIsNoUpload DEF Silent
    <3>5. PICK r : Only(t, r) /\ Differs(transfer[t], r, "moved")
      BY <2>2, <3>2, <3>4, SendingOnly
    <3> QED
      BY <3>4, <3>5, UploadsOnly DEF Differs
  <2>3. CASE writeDataToSocket /\ ~UNCHANGED transfer
    <3>1. /\ bufferJobs # <<>> /\ Head(bufferJobs).op = "send" /\ Head(buffer).block = End
          /\ transfer' = ReplyTo({Head(buffer).t})
      BY <2>3 DEF writeDataToSocket, BufferJob, IsEnd
    <3>2. PICK t : t = Count
      OBVIOUS
    <3>3. t \in DOMAIN transfer /\ transfer[t].kind # "receive"
      BY <1>3, <3>1, <3>2, SenderIsNoUpload DEF Silent
    <3>4. PICK q \in Transfers : q = transfer[t] /\ Course(q, t, buffer, bufferJobs, fileJobs, content)
      BY <1>3, <3>1, <3>2, Busy DEF Silent
    <3>5. PICK p, w, k \in Nat : Flow(q, t, buffer, bufferJobs, p, w, k)
      BY <3>4 DEF Course
    <3>6. PICK b0, j0 : b0 = buffer /\ j0 = bufferJobs
      OBVIOUS
    <3>7. /\ Flow(q, t, b0, j0, p, w, k) /\ j0 # <<>> /\ Head(j0).op = "send" /\ Head(b0).block = End
      BY <3>1, <3>5, <3>6
    <3>8. Head(b0).t = t
      BY <3>7, FlowEnd
    <3>9. transfer' = ReplyTo({t})
      BY <3>1, <3>6, <3>8
    <3>10. PICK r : Only(t, r) /\ Fixed(transfer[t], r) /\ r.replies > 0
      BY <3>3, <3>9, OnlyReplies
    <3> QED
      BY <3>3, <3>10, UploadsOnly
  <2> QED
    BY <2>1, <2>2, <2>3 DEF addDataToBufferAndSend, Written
<1> QED
  BY <1>1, <1>2, <1>3, ShelfStays, UnlinkedStays, QuietUp

LEMMA DownloadUp ==
    ASSUME TypeInv, TypeInv', JobsInv, UpInv, Keeps, ReadFile \/ ReadEnds
    PROVE  UpInv'
<1>1. /\ UNCHANGED <<orderly, renamed, content, inodes, objects, deleting>>
      /\ IsSequence(fileJobs) /\ fileJobs # <<>> /\ Head(fileJobs).op \in {"read", "null"}
      /\ Chain(fileJobs)
  BY DEF JobsInv, ReadFile, ReadEnds, FileJob, disk, history, account, TypeInv, ReplyInv, Shape
<1>2. PICK t : t = Head(fileJobs).t
  OBVIOUS
<1>3. PICK x : x = PostEnd(t)
  OBVIOUS
<1>4. x.op = "null"
  BY <1>3 DEF PostEnd
<1>5. fileJobs' = Tail(fileJobs) \/ fileJobs' = <<x>> \o Tail(fileJobs)
  BY <1>2, <1>3 DEF ReadFile, ReadEnds
<1>6. SameWork(fileJobs, fileJobs')
  BY <1>1, <1>4, <1>5, WorkTaken DEF Objects
<1>7. SameUploads
  <2>1. CASE UNCHANGED transfer
    BY <2>1, UploadsStay
  <2>2. CASE ~UNCHANGED transfer
    <3>1. ReadFile /\ ~transfer[t].eof
      BY <1>2, <2>2 DEF ReadFile, ReadEnds, AtEnd
    <3>2. t \in DOMAIN transfer /\ Downloading(t, transfer)
      BY <1>2, <3>1, ReadFileOnly
    <3>3. PICK r : Only(t, r) /\ Fixed(transfer[t], r) /\ r.replies = transfer[t].replies
      BY <1>2, <3>1, ReadFileOnly
    <3> QED
      BY <3>2, <3>3, UploadsOnly DEF Downloading
  <2> QED
    BY <2>1, <2>2
<1> QED
  BY <1>1, <1>6, <1>7, ShelfStays, UnlinkedStays, QuietUp

LEMMA ConnectionUp ==
    ASSUME TypeInv, TypeInv', UpInv, Keeps, NEW t \in DOMAIN transfer, ListEnds(t) \/ ReceiveFails(t) \/ Break(t)
    PROVE  UpInv'
<1>1. /\ UNCHANGED <<orderly, renamed, content, inodes, objects, deleting>> /\ IsSequence(fileJobs)
  BY DEF ListEnds, ReceiveFails, Break, disk, history, account, TypeInv, ReplyInv, Shape
<1>2. SameWork(fileJobs, fileJobs')
  <2>1. PICK x : x = EndReceiving(t)
    OBVIOUS
  <2>2. x.op = "end"
    BY <2>1 DEF EndReceiving
  <2>3. UNCHANGED fileJobs \/ fileJobs' = Append(fileJobs, x)
    BY <2>1 DEF ListEnds, ReceiveFails, Break, strands
  <2> QED
    BY <1>1, <2>2, <2>3, WorkStays, WorkAppended DEF Objects
<1>3. SameUploads
  <2>1. CASE ListEnds(t)
    <3>1. transfer[t].kind = "list"
      BY <2>1, ListEndsOnly
    <3>2. PICK r : Only(t, r) /\ Fixed(transfer[t], r) /\ r.replies = transfer[t].replies
      BY <2>1, ListEndsOnly
    <3> QED
      BY <3>1, <3>2, UploadsOnly
  <2>2. CASE Break(t)
    <3>1. PICK r : /\ Only(t, r) /\ Fixed(transfer[t], r) /\ r.replies = transfer[t].replies
                   /\ r.moved = transfer[t].moved /\ transfer[t].socket = "open"
      BY <2>2, BreakOnly
    <3> QED
      BY <3>1, UploadsOnly
  <2>3. CASE ReceiveFails(t)
    <3>1. PICK r : /\ Only(t, r) /\ Fixed(transfer[t], r) /\ r.replies = transfer[t].replies
                   /\ r.socket = transfer[t].socket \/ (transfer[t].socket = "open" /\ r.socket = "gone")
                   /\ r.moved = transfer[t].moved
      BY <2>3, ReceivingOnly
    <3> QED
      BY <3>1, UploadsOnly
  <2> QED
    BY <2>1, <2>2, <2>3
<1> QED
  BY <1>1, <1>2, <1>3, ShelfStays, UnlinkedStays, QuietUp

-----------------------------------------------------------------------------
(* A block of an upload: it is received, it is written.                      *)

LEMMA ConcatAppend ==
    ASSUME NEW S, NEW s \in Seq(S), NEW m \in Seq(S), NEW b \in S
    PROVE  s \o Append(m, b) = Append(s \o m, b)
<1>1. <<b>> \in Seq(S) /\ s \o m \in Seq(S)
  BY ConcatProperties
<1>2. Append(m, b) = m \o <<b>> /\ Append(s \o m, b) = (s \o m) \o <<b>>
  BY <1>1, AppendIsConcat
<1>3. s \o (m \o <<b>>) = (s \o m) \o <<b>>
  BY <1>1, ConcatAssociative
<1> QED
  BY <1>2, <1>3

(* Only the newest transfer has something to write.                          *)
LEMMA WriterIsNewest ==
    ASSUME TypeInv, JobsInv, DownInv, orderly, fileJobs # <<>>, NEW t, OfUpload(Head(fileJobs), t)
    PROVE  /\ t = Count /\ t \in DOMAIN transfer /\ transfer[t] \in Transfers /\ ~(transfer[t].replies > 0)
           /\ transfer[t].kind = "receive" /\ t \in Nat \ {0}
           /\ \A u \in DOMAIN transfer : u \in Nat /\ u <= t
           /\ \A j \in Range(Tail(fileJobs)) : ~Writing(j, t)
<1>1. ReplyInv /\ IsSequence(fileJobs)
  BY DEF TypeInv, ReplyInv, Shape
<1>2. PICK h \in Range(fileJobs) : h = Head(fileJobs)
  BY <1>1, RangeTail
<1>3. t \in DOMAIN transfer /\ transfer[t].kind = "receive"
  BY <1>1, <1>2 DEF OfUpload, ReplyInv, Shape, JobOK, JobsInv, JobKind
<1>4. Pending(t)
  BY <1>1, <1>2, UploadPending
<1>5. t = Count /\ transfer[t] \in Transfers /\ ~(transfer[t].replies > 0)
  BY <1>3, <1>4, Current
<1>6. Count \in Nat /\ DOMAIN transfer = 1..Count
  BY Numbers, TypeParts DEF TypeInv
<1>7. t \in Nat \ {0} /\ \A u \in DOMAIN transfer : u \in Nat /\ u <= t
  BY <1>3, <1>5, <1>6
<1> QED
  BY <1>1, <1>3, <1>5, <1>7, NoOtherWrite

LEMMA ReceiveUp ==
    ASSUME TypeInv, TypeInv', JobsInv, DownInv, UpInv, Keeps,
           NEW t \in DOMAIN transfer, ReceiveBlock(t) \/ ReceiveLast(t)
    PROVE  UpInv'
<1>1. /\ UNCHANGED <<orderly, renamed, content, inodes, objects, deleting>> /\ IsSequence(fileJobs)
      /\ ReplyInv
  BY DEF ReceiveBlock, ReceiveLast, disk, history, account, TypeInv, ReplyInv, Shape
<1>2. Unlinked'
  BY <1>1, UnlinkedStays
<1> SUFFICES ASSUME orderly
             PROVE  /\ Count' # 0 => Filing(transfer'[Count'], Count', fileJobs', content')
                    /\ \A u \in DOMAIN transfer' : Intact(u)'
                    /\ \A j \in Range(fileJobs') : Objects(j) =>
                           \A u \in DOMAIN transfer' : Uploaded(transfer'[u]) => u <= j.t
  BY <1>1, <1>2, UpParts
<1>3. PICK q : q = transfer[t]
  OBVIOUS
<1>4. q.kind = "receive" /\ q.reading
  BY <1>3 DEF ReceiveBlock, ReceiveLast
<1>5. t = Count /\ q \in Transfers /\ ~(q.replies > 0) /\ t \in Nat \ {0}
  <2>1. Pending(t)
    BY <1>3, <1>4 DEF Pending, Reads
  <2> QED
    BY <1>1, <1>3, <2>1, Current, TransferNumbers DEF ReplyInv
<1>6. PICK n : n = Len(q.moved) + 1
  OBVIOUS
<1>7. PICK b : b = <<t, n>>
  OBVIOUS
<1>8. PICK r : Only(t, r) /\ Fixed(q, r) /\ r.replies = q.replies /\ r.moved = Append(q.moved, b)
  <2>1. ~ReceiveFails(t)
    BY DEF ReceiveBlock, ReceiveLast, ReceiveFails
  <2> QED
    BY <1>3, <1>6, <1>7, <2>1, ReceivingOnly
<1>9. PICK x, y, e : x = WriteFile(t, b, TRUE) /\ y = WriteFile(t, b, FALSE) /\ e = EndReceiving(t)
  OBVIOUS
<1>10. /\ x.op = "write" /\ x.t = t /\ x.block = b /\ y.op = "write" /\ y.t = t /\ y.block = b
       /\ e.op = "end"
  BY <1>9 DEF WriteFile, EndReceiving
<1>11. PICK fk : fk = fileJobs'
  OBVIOUS
<1>12. /\ \/ Range(fk) = Range(fileJobs) \cup {x}
          \/ Range(fk) = Range(fileJobs) \cup {y, e}
       /\ fileJobs # <<>> => fk # <<>> /\ Head(fk) = Head(fileJobs)
       /\ fileJobs = <<>> /\ fk # <<>> => Head(fk) \in {x, y}
  <2>1. PICK a, c, d : a = Append(fileJobs, x) /\ c = Append(fileJobs, y) /\ d = Append(c, e)
    OBVIOUS
  <2>2. fk = a \/ fk = d
    <3>1. fk = a \/ fk = fileJobs \o <<y, e>>
      BY <1>3, <1>6, <1>7, <1>9, <1>11, <2>1 DEF ReceiveBlock, ReceiveLast, LastJobs
    <3> QED
      BY <1>1, <2>1, <3>1, TwoMore
  <2>3. IsSequence(c) /\ IsSequence(a) /\ IsSequence(d)
    BY <1>1, <2>1, RangeAppend
  <2>4. /\ Range(a) = Range(fileJobs) \cup {x} /\ Range(c) = Range(fileJobs) \cup {y}
        /\ fileJobs # <<>> => a # <<>> /\ Head(a) = Head(fileJobs) /\ c # <<>> /\ Head(c) = Head(fileJobs)
    BY <1>1, <2>1, AppendRange
  <2>5. Range(d) = Range(c) \cup {e} /\ (c # <<>> => d # <<>> /\ Head(d) = Head(c))
    BY <2>1, <2>3, AppendRange
  <2>6. fileJobs = <<>> => Head(a) = x /\ c # <<>> /\ Head(c) = y
    BY <2>1
  <2> QED
    BY <2>2, <2>4, <2>5, <2>6
<1>13. Count' = t /\ transfer'[t] = r /\ DOMAIN transfer' = DOMAIN transfer
       /\ \A u \in DOMAIN transfer : u # t => transfer'[u] = transfer[u]
  BY <1>5, <1>8 DEF Only
<1>14. Filing(r, t, fk, content)
  <2>1. \A j \in Range(fileJobs) : ~Writing(j, t)
    BY <1>1, <1>3, <1>4, <1>5, ReaderHasNoWrite DEF Reads
  <2>2. Filed(q, content)
    <3>1. Filing(q, t, fileJobs, content)
      BY <1>3, <1>5 DEF UpInv
    <3> QED
      BY <1>4, <1>5, <2>1, <3>1 DEF Filing
  <2>3. Append(content[q.inode], b) = q.start \o Append(q.moved, b)
    <3>1. PICK s, m \in Seq(Block) : s = q.start /\ m = q.moved
      BY <1>5 DEF Transfers, Bytes
    <3>2. b \in Block
      <4>1. t \in Inode
        BY <1>5, Numbers, TypeParts DEF TypeInv, Inode
      <4>2. n \in Nat \ {0}
        BY <1>6, <3>1
      <4> QED
        BY <1>7, <4>1, <4>2 DEF Block
    <3>3. PICK S : S = Block
      OBVIOUS
    <3>4. s \in Seq(S) /\ m \in Seq(S) /\ b \in S
      BY <3>2, <3>3
    <3>5. s \o Append(m, b) = Append(s \o m, b)
      BY <3>4, ConcatAppend
    <3> QED
      BY <2>2, <3>1, <3>5 DEF Filed
  <2>4. \A j \in Range(fk) : Writing(j, t) => j.block = b
    BY <1>10, <1>12, <2>1 DEF Writing
  <2>5. \E j \in Range(fk) : Writing(j, t)
    BY <1>10, <1>12 DEF Writing
  <2>6. r.inode = q.inode /\ r.start = q.start
    BY <1>8 DEF Fixed
  <2> QED
    BY <1>8, <2>3, <2>4, <2>5, <2>6 DEF Filing
<1>15. ASSUME NEW u \in DOMAIN transfer PROVE Intact(u)'
  <2>1. PICK p : p = transfer[u]
    OBVIOUS
  <2>2. Uploaded(transfer'[u]) => Uploaded(p) /\ transfer'[u].moved = p.moved
    BY <1>3, <1>5, <1>8, <1>13, <2>1 DEF Uploaded
  <2>3. Shelved(p, u, fileJobs, content, inodes, objects) => Shelved(p, u, fk, content, inodes, objects)
    <3>1. AtWork(fk, u) <=> AtWork(fileJobs, u)
      BY <1>10, <1>12 DEF AtWork, Objects
    <3>2. AtWork(fk, u) => Head(fk) = Head(fileJobs)
      BY <1>12, <3>1 DEF AtWork
    <3> QED
      BY <3>1, <3>2 DEF Shelved
  <2>4. Intact(u)
    BY DEF UpInv
  <2> QED
    BY <1>1, <1>11, <2>1, <2>2, <2>3, <2>4, IntactStays
<1>16. ASSUME NEW j \in Range(fk), Objects(j), NEW u \in DOMAIN transfer, Uploaded(transfer'[u])
       PROVE  u <= j.t
  <2>1. j \in Range(fileJobs)
    BY <1>10, <1>12, <1>16 DEF Objects
  <2>2. Uploaded(transfer[u])
    BY <1>3, <1>5, <1>8, <1>13, <1>16 DEF Uploaded
  <2> QED
    BY <1>16, <2>1, <2>2 DEF UpInv, LastMade
<1> QED
  BY <1>1, <1>11, <1>13, <1>14, <1>15, <1>16

LEMMA WriteUp ==
    ASSUME TypeInv, TypeInv', JobsInv, DownInv, UpInv, Keeps, writeDataToFile
    PROVE  UpInv'
<1>1. /\ UNCHANGED <<orderly, renamed, inodes, objects, deleting>> /\ IsSequence(fileJobs)
      /\ fileJobs # <<>> /\ Head(fileJobs).op = "write" /\ fileJobs' = Tail(fileJobs) /\ Chain(fileJobs)
  BY DEF writeDataToFile, FileJob, history, account, TypeInv, ReplyInv, Shape, JobsInv
<1>2. Unlinked'
  BY <1>1, UnlinkedStays
<1> SUFFICES ASSUME orderly
             PROVE  /\ Count' # 0 => Filing(transfer'[Count'], Count', fileJobs', content')
                    /\ \A u \in DOMAIN transfer' : Intact(u)'
                    /\ \A j \in Range(fileJobs') : Objects(j) =>
                           \A u \in DOMAIN transfer' : Uploaded(transfer'[u]) => u <= j.t
  BY <1>1, <1>2, UpParts
<1>3. PICK h, t : h = Head(fileJobs) /\ t = h.t
  OBVIOUS
<1>4. PICK q : q = transfer[t]
  OBVIOUS
<1>5. /\ t = Count /\ t \in DOMAIN transfer /\ q \in Transfers /\ ~(q.replies > 0) /\ q.kind = "receive"
      /\ t \in Nat \ {0} /\ \A u \in DOMAIN transfer : u \in Nat /\ u <= t
      /\ \A j \in Range(Tail(fileJobs)) : ~Writing(j, t)
  BY <1>1, <1>3, <1>4, WriterIsNewest DEF OfUpload
<1>6. PICK r : Only(t, r) /\ Fixed(q, r) /\ r.replies = q.replies /\ r.moved = q.moved
  BY <1>3, <1>4, WriteFileOnly
<1>7. Count' = t /\ transfer'[t] = r /\ DOMAIN transfer' = DOMAIN transfer
      /\ \A u \in DOMAIN transfer : u # t => transfer'[u] = transfer[u]
  BY <1>5, <1>6 DEF Only
<1>8. PICK fk : fk = fileJobs' /\ fk = Tail(fileJobs)
  BY <1>1
<1>9. PICK ct : ct = content'
  OBVIOUS
<1>10. ct[q.inode] = Append(content[q.inode], h.block) /\ \A i \in Inode : i # q.inode => ct[i] = content[i]
  <2>1. content \in [Inode -> Bytes] /\ q.inode \in Inode
    BY <1>4, <1>5, TypeParts, Uploads DEF TypeInv, Files
  <2>2. PICK w : w = Append(content[q.inode], h.block)
    OBVIOUS
  <2>3. content' = [content EXCEPT ![q.inode] = w]
    BY <1>3, <1>4, <2>2 DEF writeDataToFile
  <2> QED
    BY <1>9, <2>1, <2>2, <2>3
<1>11. Filing(r, t, fk, ct)
  <2>1. Filing(q, t, fileJobs, content)
    BY <1>4, <1>5 DEF UpInv
  <2>2. h \in Range(fileJobs) /\ Writing(h, t)
    BY <1>1, <1>3, RangeTail DEF Writing
  <2>3. ct[q.inode] = q.start \o q.moved
    BY <1>5, <1>10, <2>1, <2>2 DEF Filing
  <2>4. Filed(r, ct)
    BY <1>6, <2>3 DEF Filed, Fixed
  <2> QED
    BY <1>5, <1>8, <2>4 DEF Filing
<1>12. \A u : ~AtWork(fk, u) /\ ~AtWork(fileJobs, u)
  <2>1. \A j \in Range(fk) : ~Objects(j)
    BY <1>1, <1>8, ChainTail
  <2>2. IsSequence(fk)
    BY <1>1, <1>8, RangeTail
  <2>3. fk # <<>> => Head(fk) \in Range(fk)
    BY <2>2, RangeTail
  <2> QED
    BY <1>1, <2>1, <2>3 DEF AtWork, Objects
<1>13. ASSUME NEW u \in DOMAIN transfer PROVE Intact(u)'
  <2>1. PICK p : p = transfer[u]
    OBVIOUS
  <2>2. Uploaded(transfer'[u]) => Uploaded(p) /\ transfer'[u].moved = p.moved
    BY <1>4, <1>5, <1>6, <1>7, <2>1 DEF Uploaded
  <2>3. ASSUME Uploaded(p), Newest(u)' PROVE ct[p.inode] = content[p.inode]
    <3>1. u # t
      BY <1>4, <1>5, <2>1, <2>3 DEF Uploaded
    <3>2. u < t
      BY <1>5, <3>1
    <3>3. r.kind = "receive" /\ r.inode = q.inode
      BY <1>5, <1>6 DEF Fixed
    <3>4. transfer'[t].inode # transfer'[u].inode
      BY <1>5, <1>7, <2>3, <3>2, <3>3 DEF Newest
    <3>5. q.inode # p.inode
      BY <1>7, <2>1, <3>1, <3>3, <3>4
    <3>6. p.inode \in Inode
      BY <2>1, Uploads
    <3> QED
      BY <1>10, <3>5, <3>6
  <2>4. ASSUME Uploaded(p), Newest(u)', Shelved(p, u, fileJobs, content, inodes, objects)
        PROVE  Shelved(p, u, fk, ct, inodes, objects)
    BY <1>12, <2>3, <2>4 DEF Shelved
  <2>5. Intact(u)
    BY DEF UpInv
  <2> QED
    BY <1>1, <1>8, <1>9, <2>1, <2>2, <2>3, <2>4, <2>5, IntactStays
<1>14. \A j \in Range(fk) : ~Objects(j)
  BY <1>1, <1>8, ChainTail
<1> QED
  BY <1>7, <1>8, <1>9, <1>11, <1>13, <1>14

(* The end of an upload: all of it is in the file.                           *)
LEMMA EndUp ==
    ASSUME TypeInv, TypeInv', JobsInv, DownInv, UpInv, Keeps, endDataReceiving
    PROVE  UpInv'
<1>1. /\ UNCHANGED <<orderly, renamed, content, inodes, objects, deleting>> /\ IsSequence(fileJobs)
      /\ fileJobs # <<>> /\ Head(fileJobs).op = "end" /\ Chain(fileJobs)
  BY DEF endDataReceiving, FileJob, disk, history, account, TypeInv, ReplyInv, Shape, JobsInv
<1>2. Unlinked'
  BY <1>1, UnlinkedStays
<1> SUFFICES ASSUME orderly
             PROVE  /\ Count' # 0 => Filing(transfer'[Count'], Count', fileJobs', content')
                    /\ \A u \in DOMAIN transfer' : Intact(u)'
                    /\ \A j \in Range(fileJobs') : Objects(j) =>
                           \A u \in DOMAIN transfer' : Uploaded(transfer'[u]) => u <= j.t
  BY <1>1, <1>2, UpParts
<1>3. PICK h, t : h = Head(fileJobs) /\ t = h.t
  OBVIOUS
<1>4. PICK q : q = transfer[t]
  OBVIOUS
<1>5. /\ t = Count /\ t \in DOMAIN transfer /\ ~(q.replies > 0) /\ q.kind = "receive"
      /\ t \in Nat \ {0} /\ \A u \in DOMAIN transfer : u \in Nat /\ u <= t
      /\ \A j \in Range(Tail(fileJobs)) : ~Writing(j, t)
  BY <1>1, <1>3, <1>4, WriterIsNewest DEF OfUpload
<1>6. PICK r : Only(t, r) /\ Fixed(q, r) /\ r.replies > 0 /\ r.moved = q.moved
  BY <1>3, <1>4, <1>5, OnlyReplies DEF endDataReceiving
<1>7. Count' = t /\ transfer'[t] = r /\ DOMAIN transfer' = DOMAIN transfer
      /\ \A u \in DOMAIN transfer : u # t => transfer'[u] = transfer[u]
  BY <1>5, <1>6 DEF Only
<1>8. PICK x, fk : x = Load(t) /\ fk = <<x>> \o Tail(fileJobs)
  OBVIOUS
<1>9. fk = fileJobs' /\ x.op = "load" /\ x.t = t
  BY <1>3, <1>8 DEF endDataReceiving, Load
<1>10. fk # <<>> /\ Head(fk) = x /\ Range(fk) = Range(Tail(fileJobs)) \cup {x}
  BY <1>1, <1>8, TailRange
<1>11. Filing(r, t, fk, content)
  BY <1>6 DEF Filing
<1>12. Filed(q, content)
  <2>1. Filing(q, t, fileJobs, content)
    BY <1>4, <1>5 DEF UpInv
  <2>2. Range(fileJobs) = Range(Tail(fileJobs)) \cup {h}
    BY <1>1, <1>3, TailRange
  <2>3. \A j \in Range(fileJobs) : ~Writing(j, t)
    BY <1>1, <1>3, <1>5, <2>2 DEF Writing
  <2> QED
    BY <1>5, <2>1, <2>3 DEF Filing
<1>13. ASSUME NEW u \in DOMAIN transfer PROVE Intact(u)'
  <2>1. CASE u = t
    <3>1. Filed(r, content)
      BY <1>6, <1>12 DEF Filed, Fixed
    <3>2. Shelved(r, t, fk, content, inodes, objects)
      BY <1>9, <1>10 DEF Shelved, AtWork, Objects
    <3>3. Filed(transfer'[t], content') /\ Shelved(transfer'[t], t, fileJobs', content', inodes', objects')
      BY <1>1, <1>7, <1>9, <3>1, <3>2
    <3> QED
      BY <2>1, <3>3 DEF Intact, Uploaded, Filed, Shelved, AtWork, Objects
  <2>2. CASE u # t
    <3>1. PICK p : p = transfer[u]
      OBVIOUS
    <3>2. Uploaded(transfer'[u]) => Uploaded(p) /\ transfer'[u].moved = p.moved
      BY <1>7, <2>2, <3>1
    <3>3. Shelved(p, u, fileJobs, content, inodes, objects) => Shelved(p, u, fk, content, inodes, objects)
      <4>1. ~AtWork(fileJobs, u) /\ ~AtWork(fk, u)
        BY <1>1, <1>9, <1>10, <2>2 DEF AtWork, Objects
      <4> QED
        BY <4>1 DEF Shelved
    <3>4. Intact(u)
      BY DEF UpInv
    <3> QED
      BY <1>1, <1>9, <3>1, <3>2, <3>3, <3>4, IntactStays
  <2> QED
    BY <2>1, <2>2
<1>14. ASSUME NEW j \in Range(fk), Objects(j), NEW u \in DOMAIN transfer PROVE u <= j.t
  <2>1. j = x
    BY <1>1, <1>10, <1>14, ChainTail
  <2> QED
    BY <1>5, <1>9, <2>1
<1> QED
  BY <1>1, <1>7, <1>9, <1>11, <1>13, <1>14

-----------------------------------------------------------------------------
(* The object of an upload is read from the file and stored.                 *)

LEMMA ObjectUp ==
    ASSUME TypeInv, TypeInv', JobsInv, UpInv, Keeps, LoadObject \/ StoreObject
    PROVE  UpInv'
<1>1. /\ UNCHANGED <<orderly, renamed, transfer, content, inodes, deleting>> /\ IsSequence(fileJobs)
      /\ fileJobs # <<>> /\ Objects(Head(fileJobs)) /\ Chain(fileJobs) /\ Shape
  BY DEF LoadObject, StoreObject, FileJob, disk, history, account, data, TypeInv, ReplyInv, Shape, JobsInv, Objects
<1>2. Unlinked'
  BY <1>1, UnlinkedStays
<1> SUFFICES ASSUME orderly
             PROVE  /\ Count' # 0 => Filing(transfer'[Count'], Count', fileJobs', content')
                    /\ \A u \in DOMAIN transfer' : Intact(u)'
                    /\ \A j \in Range(fileJobs') : Objects(j) =>
                           \A u \in DOMAIN transfer' : Uploaded(transfer'[u]) => u <= j.t
  BY <1>1, <1>2, UpParts
<1>3. PICK h, t : h = Head(fileJobs) /\ t = h.t
  OBVIOUS
<1>4. PICK q : q = transfer[t]
  OBVIOUS
<1>5. h \in Range(fileJobs) /\ t \in DOMAIN transfer /\ q.kind = "receive"
  <2>1. h \in Range(fileJobs)
    BY <1>1, <1>3, RangeTail
  <2> QED
    BY <1>1, <1>3, <1>4, <2>1 DEF Shape, JobOK, JobsInv, JobKind, Objects
<1>6. PICK c : c = IF inodes[q.file] = NoFile THEN <<>> ELSE content[inodes[q.file]]
  OBVIOUS
<1>7. PICK x, fk : x = Store(t, c) /\ fk = IF LoadObject THEN <<x>> \o Tail(fileJobs) ELSE Tail(fileJobs)
  OBVIOUS
<1>8. PICK oc : oc = IF LoadObject THEN objects ELSE [objects EXCEPT ![q.file] = h.content]
  OBVIOUS
<1>9. x.op = "store" /\ x.t = t /\ x.content = c
  BY <1>7 DEF Store
<1>10. fk = fileJobs' /\ oc = objects'
  <2>1. CASE LoadObject
    BY <1>3, <1>4, <1>6, <1>7, <1>8, <2>1 DEF LoadObject, disk
  <2>2. CASE StoreObject /\ ~LoadObject
    BY <1>3, <1>4, <1>7, <1>8, <2>2 DEF StoreObject
  <2> QED
    BY <2>1, <2>2
<1>11. LoadObject => h.op = "load" /\ fk # <<>> /\ Head(fk) = x /\ Range(fk) = Range(Tail(fileJobs)) \cup {x}
  <2> SUFFICES ASSUME LoadObject
               PROVE  h.op = "load" /\ fk # <<>> /\ Head(fk) = x /\ Range(fk) = Range(Tail(fileJobs)) \cup {x}
    OBVIOUS
  <2>1. h.op = "load"
    BY <1>3 DEF LoadObject, FileJob
  <2>2. fk = <<x>> \o Tail(fileJobs)
    BY <1>7
  <2> QED
    BY <1>1, <2>1, <2>2, TailRange
<1>12. ~LoadObject => h.op = "store" /\ fk = Tail(fileJobs)
  BY <1>3, <1>7 DEF StoreObject, FileJob
<1>13. Range(fileJobs) = Range(Tail(fileJobs)) \cup {h} /\ \A j \in Range(Tail(fileJobs)) : ~Objects(j)
  BY <1>1, <1>3, TailRange, ChainTail
<1>14. ~LoadObject => \A u : ~AtWork(fk, u)
  <2>1. Tail(fileJobs) # <<>> => Head(Tail(fileJobs)) \in Range(Tail(fileJobs))
    BY <1>1, RangeTail
  <2> QED
    BY <1>12, <1>13, <2>1 DEF AtWork
<1>15. Count' = Count
  BY <1>1 DEF Count
<1>16. Count # 0 => Filing(transfer[Count], Count, fk, content)
  <2>1. Count # 0 => Filing(transfer[Count], Count, fileJobs, content)
    BY DEF UpInv
  <2>2. \A j : j.op = "write" => (j \in Range(fileJobs) <=> j \in Range(fk))
    <3>1. h.op # "write"
      BY <1>11, <1>12
    <3> QED
      BY <1>9, <1>11, <1>12, <1>13, <3>1
  <2>3. \A j : Writing(j, Count) => (j \in Range(fileJobs) <=> j \in Range(fk))
    BY <2>2 DEF Writing
  <2> QED
    BY <2>1, <2>3 DEF Filing
<1>17. objects \in [File -> Bytes \cup {NoObject}]
  BY TypeParts DEF TypeInv, Files
<1>18. ASSUME NEW u \in DOMAIN transfer PROVE Intact(u)'
  <2>1. PICK p : p = transfer[u]
    OBVIOUS
  <2>2. p.file \in File /\ p.inode # NoFile
    BY <2>1, Uploads
  <2>3. ASSUME Uploaded(p), Newest(u)', ~renamed, Shelved(p, u, fileJobs, content, inodes, objects),
               inodes[p.file] = p.inode
        PROVE  IF AtWork(fk, u)
               THEN Head(fk).op = "store" => Head(fk).content = content[p.inode]
               ELSE oc[p.file] = content[p.inode]
    <3>1. CASE u = t
      <4>1. p = q /\ AtWork(fileJobs, t)
        BY <1>1, <1>3, <1>4, <2>1, <3>1 DEF AtWork
      <4>2. h.op = "store" => h.content = content[p.inode]
        BY <1>3, <2>3, <3>1, <4>1 DEF Shelved
      <4>3. CASE LoadObject
        <5>1. AtWork(fk, u) /\ Head(fk) = x
          BY <1>9, <1>11, <3>1, <4>3 DEF AtWork, Objects
        <5>2. c = content[p.inode]
          BY <1>6, <2>2, <2>3, <4>1
        <5> QED
          BY <1>9, <5>1, <5>2
      <4>4. CASE ~LoadObject
        <5>1. ~AtWork(fk, u) /\ h.op = "store"
          BY <1>12, <1>14, <4>4
        <5>2. oc = [objects EXCEPT ![q.file] = h.content]
          BY <1>8, <4>4
        <5>3. oc[p.file] = h.content
          BY <1>17, <2>2, <4>1, <5>2
        <5> QED
          BY <4>2, <5>1, <5>3
      <4> QED
        BY <4>3, <4>4
    <3>2. CASE u # t
      <4>1. ~AtWork(fileJobs, u)
        BY <1>3, <3>2 DEF AtWork
      <4>2. objects[p.file] = content[p.inode]
        BY <2>3, <4>1 DEF Shelved
      <4>3. ~AtWork(fk, u)
        BY <1>9, <1>11, <1>14, <3>2 DEF AtWork
      <4>4. oc[p.file] = objects[p.file]
        <5>1. u \in Nat /\ t \in Nat
          BY <1>1, <1>5, TransferNumbers
        <5>2. u <= t
          BY <1>1, <1>3, <1>5, <2>1, <2>3 DEF UpInv, LastMade
        <5>3. t > u
          BY <3>2, <5>1, <5>2
        <5>4. Newest(u)
          BY <2>3, NewestBefore
        <5>5. q.file # p.file
          BY <1>4, <1>5, <2>1, <5>3, <5>4 DEF Newest
        <5>6. CASE LoadObject
          BY <1>8, <5>6
        <5>7. CASE ~LoadObject
          <6>1. oc = [objects EXCEPT ![q.file] = h.content]
            BY <1>8, <5>7
          <6> QED
            BY <1>17, <2>2, <5>5, <6>1
        <5> QED
          BY <5>6, <5>7
      <4> QED
        BY <4>2, <4>3, <4>4
    <3> QED
      BY <3>1, <3>2
  <2>4. ASSUME Uploaded(p), Newest(u)', ~renamed, Shelved(p, u, fileJobs, content, inodes, objects)
        PROVE  Shelved(p, u, fk, content, inodes, oc)
    BY <2>3, <2>4 DEF Shelved
  <2>5. Intact(u)
    BY DEF UpInv
  <2>6. Uploaded(transfer'[u]) => Uploaded(p) /\ transfer'[u].moved = p.moved
    BY <1>1, <2>1
  <2> QED
    BY <1>1, <1>10, <2>1, <2>4, <2>5, <2>6, IntactStays
<1>19. ASSUME NEW j \in Range(fk), Objects(j), NEW u \in DOMAIN transfer, Uploaded(transfer[u])
       PROVE  u <= j.t
  <2>1. j.t = t
    BY <1>9, <1>11, <1>12, <1>13, <1>19
  <2> QED
    BY <1>1, <1>3, <1>5, <1>19, <2>1 DEF UpInv, LastMade
<1> QED
  BY <1>1, <1>10, <1>15, <1>16, <1>18, <1>19

-----------------------------------------------------------------------------
(* A new transfer.                                                           *)

LEMMA StartUp ==
    ASSUME TypeInv, TypeInv', UpInv, Keeps, NEW kind, NEW f \in File, NEW i, Start(kind, f, i), deleting = NoFile,
           \/ UNCHANGED <<inodes, content>>
           \/ /\ kind = "receive" /\ inodes' = [inodes EXCEPT ![f] = i]
              /\ content' = [content EXCEPT ![i] = <<>>]
    PROVE  UpInv'
<1>1. UNCHANGED <<renamed, objects, fileJobs, deleting>> /\ (orderly' => orderly)
  BY DEF Start, strands, account
<1>2. Unlinked'
  BY <1>1 DEF Unlinked
<1> SUFFICES ASSUME orderly'
             PROVE  /\ Count' # 0 => Filing(transfer'[Count'], Count', fileJobs', content')
                    /\ \A u \in DOMAIN transfer' : Intact(u)'
                    /\ \A j \in Range(fileJobs') : Objects(j) =>
                           \A u \in DOMAIN transfer' : Uploaded(transfer'[u]) => u <= j.t
  BY <1>2, UpParts
<1>3. Moved /\ Shape /\ Count \in Nat /\ DOMAIN transfer = 1..Count
  BY Numbers, TypeParts DEF TypeInv, ReplyInv
<1>4. PICK r : transfer' = Append(transfer, r) /\ IsOpened(r, kind, i, content'[i]) /\ r.socket = "new" /\ r.file = f
  BY StartAppends
<1> r.kind = kind /\ r.inode = i /\ r.start = content'[i] /\ r.moved = <<>>
  BY <1>4 DEF IsOpened
<1>5. PICK c \in Nat : c = Count + 1
  BY <1>3
<1>6. /\ Count' = c /\ c # 0 /\ DOMAIN transfer' = 1..c /\ transfer'[c] = r
      /\ c \notin DOMAIN transfer
      /\ \A u \in DOMAIN transfer' : u # c => u \in DOMAIN transfer /\ u < c
      /\ \A u \in DOMAIN transfer : transfer'[u] = transfer[u]
  <2>1. /\ Count' = c /\ DOMAIN transfer' = 1..c /\ transfer'[c] = r
        /\ \A u \in DOMAIN transfer : transfer'[u] = transfer[u]
    BY <1>3, <1>4, <1>5, Another
  <2>2. c # 0 /\ c \notin 1..Count /\ \A u \in 1..c : u # c => u \in 1..Count /\ u < c
    BY <1>3, <1>5
  <2> QED
    BY <1>3, <2>1, <2>2
<1>7. r.start \o <<>> = r.start
  <2>1. transfer' \in Seq(Transfers)
    BY DEF TypeInv, TypeOK, Transfers, Bytes, Block, Inode
  <2>2. PICK ts \in Seq(Transfers) : ts = transfer'
    BY <2>1
  <2>3. c \in DOMAIN ts
    BY <1>5, <1>6, <2>2
  <2>4. r \in Transfers
    BY <1>6, <2>2, <2>3
  <2>5. r.start \in Seq(Block)
    BY <2>4 DEF Transfers, Bytes
  <2> QED
    BY <2>5, ConcatEmptySeq
<1>8. Filing(r, c, fileJobs, content')
  <2>1. \A j \in Range(fileJobs) : ~Writing(j, c)
    BY <1>3, <1>6 DEF Shape, JobOK, Writing
  <2>2. Filed(r, content')
    BY <1>7 DEF Filed
  <2> QED
    BY <2>1, <2>2 DEF Filing
<1>9. ASSUME NEW u \in DOMAIN transfer' PROVE Intact(u)'
  <2>1. CASE u = c
    BY <1>4, <1>6, <2>1 DEF Intact, Uploaded
  <2>2. CASE u # c
    <3>1. u \in DOMAIN transfer /\ u < c /\ transfer'[u] = transfer[u]
      BY <1>6, <1>9, <2>2
    <3>2. PICK p : p = transfer[u]
      OBVIOUS
    <3>3. p.inode \in Inode /\ p.file \in File
      BY <3>1, <3>2, Uploads
    <3>4. PICK ct, im : ct = content' /\ im = inodes'
      OBVIOUS
    <3>5. ASSUME Newest(u)' PROVE ct[p.inode] = content[p.inode] /\ im[p.file] = inodes[p.file]
      <4>1. CASE UNCHANGED <<inodes, content>>
        BY <3>4, <4>1
      <4>2. CASE /\ kind = "receive" /\ inodes' = [inodes EXCEPT ![f] = i]
                 /\ content' = [content EXCEPT ![i] = <<>>]
        <5>1. p.file # f /\ p.inode # i
          <6>1. c \in DOMAIN transfer' /\ c > u
            BY <1>5, <1>6, <3>1
          <6>2. \/ transfer'[c].kind # "receive"
                \/ transfer'[c].file # transfer'[u].file /\ transfer'[c].inode # transfer'[u].inode
            BY <3>5, <6>1 DEF Newest
          <6> QED
            BY <1>4, <1>6, <3>1, <3>2, <4>2, <6>2
        <5>2. content \in [Inode -> Bytes] /\ inodes \in [File -> Inode \cup {NoFile}]
          BY TypeParts DEF TypeInv, Files
        <5> QED
          BY <3>3, <3>4, <4>2, <5>1, <5>2
      <4> QED
        BY <4>1, <4>2
    <3>6. Newest(u)' /\ Shelved(p, u, fileJobs, content, inodes, objects)
              => Shelved(p, u, fileJobs, ct, im, objects)
      BY <3>5 DEF Shelved
    <3>7. Intact(u)
      BY <1>1, <3>1 DEF UpInv
    <3> QED
      BY <1>1, <3>1, <3>2, <3>4, <3>5, <3>6, <3>7, IntactStays
  <2> QED
    BY <2>1, <2>2
<1>10. ASSUME NEW j \in Range(fileJobs), Objects(j), NEW u \in DOMAIN transfer', Uploaded(transfer'[u])
       PROVE  u <= j.t
  <2>1. u \in DOMAIN transfer /\ Uploaded(transfer[u])
    BY <1>4, <1>6, <1>10 DEF Uploaded
  <2> QED
    BY <1>1, <1>10, <2>1 DEF UpInv, LastMade
<1> QED
  BY <1>1, <1>6, <1>8, <1>9, <1>10

LEMMA TransferCommandUp ==
    ASSUME TypeInv, TypeInv', UpInv, Keeps, LIST \/ \E f \in File : RETR(f) \/ STOR(f) \/ APPE(f)
    PROVE  UpInv'
<1>1. CASE LIST
  <2>1. PICK f : f = CHOOSE g \in File : TRUE
    OBVIOUS
  <2>2. f \in File
    BY <2>1, FtpAssumption
  <2>3. Start("list", f, f) /\ UNCHANGED <<inodes, content>> /\ deleting = NoFile
    BY <1>1, <2>1 DEF LIST, Handle
  <2> QED
    BY <2>2, <2>3, StartUp
<1>2. ASSUME NEW f \in File, RETR(f) PROVE UpInv'
  <2>1. Start("send", f, inodes[f]) /\ UNCHANGED <<inodes, content>> /\ deleting = NoFile
    BY <1>2 DEF RETR, Handle
  <2>2. PICK i : i = inodes[f]
    OBVIOUS
  <2>3. Start("send", f, i)
    BY <2>1, <2>2
  <2> QED
    BY <2>1, <2>3, StartUp
<1>3. ASSUME NEW f \in File, APPE(f) PROVE UpInv'
  <2>1. Start("receive", f, inodes[f]) /\ UNCHANGED <<inodes, content>> /\ deleting = NoFile
    BY <1>3 DEF APPE, Handle
  <2>2. PICK i : i = inodes[f]
    OBVIOUS
  <2>3. Start("receive", f, i)
    BY <2>1, <2>2
  <2> QED
    BY <2>1, <2>3, StartUp
<1>4. ASSUME NEW f \in File, STOR(f) PROVE UpInv'
  <2>1. PICK i : i = IF inodes[f] = NoFile THEN Count + 1 ELSE inodes[f]
    OBVIOUS
  <2>2. /\ Start("receive", f, i) /\ deleting = NoFile
        /\ inodes' = [inodes EXCEPT ![f] = i] /\ content' = [content EXCEPT ![i] = <<>>]
    BY <1>4, <2>1 DEF STOR, Handle
  <2> QED
    BY <2>2, StartUp
<1> QED
  BY <1>1, <1>2, <1>3, <1>4

LEMMA UpStep ==
    ASSUME TypeInv, TypeInv', JobsInv, DownInv, UpInv, [Next]_vars
    PROVE  UpInv'
<1>1. Keeps
  BY TransfersKeep
<1>2. CASE UNCHANGED vars
  <2>1. UNCHANGED <<transfer, fileJobs, content, inodes, objects, deleting, orderly, renamed>>
    BY <1>2 DEF vars, account, strands, disk, history
  <2> QED
    BY <1>1, <2>1, UploadsStay, WorkStays, ShelfStays, UnlinkedStays, QuietUp
<1>3. CASE Command
  BY <1>1, <1>3, CommandUp, ClosedUp, TransferCommandUp DEF Command
<1>4. CASE SendDeleteObjectRequest \/ Hangup \/ Accepted \/ Sending
  BY <1>1, <1>4, CommandUp, ClosedUp, AcceptedUp, BufferUp
<1>5. CASE Strands
  BY <1>1, <1>5, DownloadUp, WriteUp, EndUp, ObjectUp, BufferUp DEF Strands
<1>6. ASSUME NEW t \in DOMAIN transfer,
             ListEnds(t) \/ ReceiveBlock(t) \/ ReceiveLast(t) \/ ReceiveFails(t) \/ Break(t)
      PROVE  UpInv'
  BY <1>1, <1>6, ConnectionUp, ReceiveUp
<1> QED
  BY <1>2, <1>3, <1>4, <1>5, <1>6 DEF Next

LEMMA InitUp == Init => UpInv
<1> SUFFICES ASSUME Init PROVE UpInv
  OBVIOUS
<1>1. transfer = <<>> /\ fileJobs = <<>> /\ deleting = NoFile
  BY DEF Init
<1>2. Len(<<>>) = 0 /\ DOMAIN <<>> = {}
  OBVIOUS
<1> QED
  BY <1>1, <1>2 DEF UpInv, Unlinked, LastMade, Range, Count

(* However blocks, writes, ends and the requests to S3 of uploads interleave *)
(* with commands, with files of any length: what a client sent that waits    *)
(* for the reply of each transfer is in its file, every block once and in    *)
(* order, when 226 is out, and when the strand of the file is idle the       *)
(* object is the file, unless a later upload replaced it, the file is gone   *)
(* or files were renamed (writeDataToFile, endDataReceiving,                 *)
(* SendCreateObjectRequest).                                                 *)
THEOREM UploadsAreIntact == Spec => []UploadIntact
<1> DEFINE All == DataInv /\ UpInv
<1>1. Init => All
  BY InitTyped, InitJobs, InitDown, InitUp DEF DataInv
<1>2. All /\ [Next]_vars => All'
  BY NextData, UpStep DEF DataInv
<1>3. All => UploadIntact
  BY DEF UpInv, Intact, Uploaded, Filed, Shelved, AtWork, UploadIntact, Done, Answered
<1> QED
  BY <1>1, <1>2, <1>3, PTL DEF Spec
================================================================================
