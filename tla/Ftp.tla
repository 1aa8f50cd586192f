--------------------------------- MODULE Ftp ---------------------------------
(***************************************************************************)
(* One session of the FTP server: the control connection with its          *)
(* commands, the passive data connection, the transfers, and the S3        *)
(* objects that uploads leave.  Commands are handled one after the other   *)
(* on a thread of the io_service; the data of transfers moves on two       *)
(* strands, file_rw_strand_ and data_buffer_strand_, whose jobs run in the *)
(* order they are posted, at the same time as commands.                    *)
(*                                                                         *)
(* A file is a sequence of blocks, a block being what one read takes.      *)
(* Directories are left out, and so is the command output queue: a reply   *)
(* counts when it is posted to the strand that writes it.                  *)
(***************************************************************************)
EXTENDS Naturals, Sequences, SequencesExt

CONSTANTS
    User,         \* accounts of the server
    Permissions,  \* account -> its permissions
    File,         \* names of files
    Stored,       \* the files there are at the start
    StoredBlocks, \* how many blocks each of them has
    Commands,     \* the commands the client uses
    NoUser, NoFile, NoObject,
    MaxTransfers, \* bound: transfers of the session
    MaxCommands,  \* bound: commands of the session
    MaxBlocks     \* bound: blocks of an upload

Permission == {"FileRead", "FileWrite", "FileAppend", "FileDelete", "FileRename", "DirList"}
Transfer == 1..MaxTransfers

(* Inodes and blocks: inode f is the file that is there at the start, inode  *)
(* t the one that upload t creates; block <<i, n>> is the n-th of inode or   *)
(* upload i.                                                                 *)
Inode == File \cup Transfer
Empty == <<>>

ASSUME FtpAssumption ==
    /\ Permissions \in [User -> SUBSET Permission]
    /\ File # {} /\ Stored \subseteq File /\ StoredBlocks \in Nat
    /\ NoUser \notin User /\ NoFile \notin Inode
    /\ MaxTransfers \in Nat /\ MaxCommands \in Nat /\ MaxBlocks \in Nat \ {0}

VARIABLES
    up,        \* the process lives
    control,   \* the control connection: "open", "quit", "lost"
    user,      \* _logged_in_user
    login,     \* _usernameForLogin
    last,      \* _lastCommand: "USER", "RNFR" or "other"
    renaming,  \* _renameFromPath
    deleting,  \* DELE between its unlink and its S3 request: the file
    passive,   \* data_acceptor_: closed, open, or bound and listening
    accepts,   \* transfers that wait for their data connection, in order
    transfer,  \* the transfers so far
    buffer,    \* data_buffer_
    writing,   \* the write of a data socket that is under way
    bufferJobs,\* jobs posted to data_buffer_strand_
    fileJobs,  \* jobs posted to file_rw_strand_
    inodes,    \* name -> inode, or NoFile
    content,   \* inode -> its blocks
    objects,   \* S3: name -> content of the object, or NoObject
    commands,  \* how many commands were handled
    orderly,   \* history: each transfer command came after the final reply of
               \* the transfer before
    renamed    \* history: a file was renamed

process == <<up, control, commands>>
account == <<user, login, last, renaming, deleting>>
data    == <<passive, accepts>>
strands == <<buffer, writing, bufferJobs, fileJobs>>
disk    == <<inodes, content, objects>>
history == <<orderly, renamed>>
vars    == <<process, account, data, transfer, strands, disk, history>>

Count == Len(transfer)
NoWrite == [t |-> 0]

-----------------------------------------------------------------------------
Init ==
    /\ up = TRUE /\ control = "open" /\ commands = 0
    /\ user = NoUser /\ login = NoUser /\ last = "other"
    /\ renaming = NoFile /\ deleting = NoFile
    /\ passive = "closed" /\ accepts = <<>>
    /\ transfer = <<>>
    /\ buffer = <<>> /\ writing = NoWrite /\ bufferJobs = <<>> /\ fileJobs = <<>>
    /\ inodes = [f \in File |-> IF f \in Stored THEN f ELSE NoFile]
    /\ content = [i \in Inode |-> IF i \in Stored THEN [n \in 1..StoredBlocks |-> <<i, n>>] ELSE <<>>]
    /\ objects = [f \in File |-> IF f \in Stored THEN content[f] ELSE NoObject]
    /\ orderly = TRUE /\ renamed = FALSE

-----------------------------------------------------------------------------
(* Commands.  The loop readFtpCommand, handleFtpCommand takes the next one   *)
(* when the handler of the last one is done.                                 *)

Handle(c) ==
    /\ up /\ control = "open" /\ deleting = NoFile
    /\ c \in Commands /\ commands < MaxCommands
    /\ commands' = commands + 1
    /\ last' = IF c \in {"USER", "RNFR"} THEN c ELSE "other"

LoggedIn == user # NoUser
May(permission) == LoggedIn /\ permission \in Permissions[user]

(* USER: logs out, whatever follows.                                         *)
USER(u) ==
    /\ Handle("USER")
    /\ user' = NoUser /\ login' = u
    /\ UNCHANGED <<up, control, renaming, deleting, data, transfer, strands, disk, history>>

PASS ==
    /\ Handle("PASS")
    /\ user' = IF last = "USER" THEN login ELSE user
    /\ UNCHANGED <<up, control, login, renaming, deleting, data, transfer, strands, disk, history>>

(* QUIT: no more commands are read.  The handler that would close the socket *)
(* is created and not posted; the socket goes with the session.              *)
QUIT ==
    /\ Handle("QUIT")
    /\ user' = NoUser
    /\ control' = "quit"
    /\ UNCHANGED <<up, login, renaming, deleting, data, transfer, strands, disk, history>>

(* Closing the acceptor aborts the accepts: each transfer gets a final reply *)
(* (426).                                                                    *)
ReplyTo(ts) == [t \in DOMAIN transfer |->
    IF t \in ts THEN [transfer[t] EXCEPT !.replies = @ + 1] ELSE transfer[t]]
AbortAccepts == ReplyTo(Range(accepts))

(* A new acceptor listens; or none could be opened, or not bound or set to   *)
(* listen, which leaves it open.                                             *)
Acceptor == {"closed", "open", "listening"}

PASV ==
    /\ Handle("PASV") /\ LoggedIn
    /\ transfer' = AbortAccepts
    /\ passive' \in Acceptor /\ accepts' = <<>>
    /\ UNCHANGED <<up, control, user, login, renaming, deleting, strands, disk, history>>

(* The start of a transfer: the reply 150, a new data socket, an accept that *)
(* waits.  The accept fails on an acceptor that does not listen; only LIST   *)
(* and NLST try on a closed one.                                             *)
Answered(t) == transfer[t].replies > 0
Opened(kind, f, i) ==
    [kind |-> kind, file |-> f, inode |-> i, at |-> 0, eof |-> FALSE, reading |-> FALSE,
     socket |-> "new", start |-> content'[i], moved |-> <<>>, replies |-> 0]
Start(kind, f, i) ==
    /\ Count < MaxTransfers
    /\ LET opened == Opened(kind, f, i) IN
           IF passive = "listening"
           THEN /\ transfer' = Append(transfer, opened)
                /\ accepts' = Append(accepts, Count + 1)
           ELSE /\ transfer' = Append(transfer, [opened EXCEPT !.replies = 1])
                /\ UNCHANGED accepts
    /\ orderly' = (orderly /\ \A t \in DOMAIN transfer : Answered(t))
    /\ UNCHANGED <<up, control, user, login, renaming, deleting, passive, strands, objects, renamed>>

RETR(f) ==
    /\ Handle("RETR") /\ May("FileRead") /\ passive # "closed"
    /\ inodes[f] # NoFile
    /\ UNCHANGED <<inodes, content>>
    /\ Start("send", f, inodes[f])

(* LIST and NLST: the listing is data of one block and of no file.           *)
LIST ==
    /\ Handle("LIST") /\ May("DirList")
    /\ UNCHANGED <<inodes, content>>
    /\ LET f == CHOOSE f \in File : TRUE IN Start("list", f, f)

(* STOR: opening the file creates or truncates it.                           *)
STOR(f) ==
    /\ Handle("STOR") /\ May("FileWrite") /\ passive # "closed"
    /\ inodes[f] = NoFile \/ May("FileDelete")
    /\ Count < MaxTransfers
    /\ LET i == IF inodes[f] = NoFile THEN Count + 1 ELSE inodes[f] IN
           /\ inodes' = [inodes EXCEPT ![f] = i]
           /\ content' = [content EXCEPT ![i] = <<>>]
           /\ Start("receive", f, i)

APPE(f) ==
    /\ Handle("APPE") /\ May("FileAppend") /\ passive # "closed"
    /\ inodes[f] # NoFile
    /\ UNCHANGED <<inodes, content>>
    /\ Start("receive", f, inodes[f])

(* RNFR and RNTO; a rename leaves S3 alone.                                  *)
Renamable(f) == inodes[f] # NoFile /\ May("FileRename")
RNFR(f) ==
    /\ Handle("RNFR")
    /\ renaming' = IF Renamable(f) THEN f ELSE NoFile
    /\ UNCHANGED <<up, control, user, login, deleting, data, transfer, strands, disk, history>>

RNTO(f) ==
    /\ Handle("RNTO") /\ LoggedIn
    /\ last = "RNFR" /\ renaming # NoFile
    /\ Renamable(renaming) /\ inodes[f] = NoFile
    /\ inodes' = [inodes EXCEPT ![f] = inodes[renaming], ![renaming] = NoFile]
    /\ renamed' = TRUE
    /\ UNCHANGED <<up, control, user, login, renaming, deleting, data, transfer, strands, content, objects, orderly>>

(* DELE: the file goes, then its object.                                     *)
DELE(f) ==
    /\ Handle("DELE") /\ May("FileDelete")
    /\ inodes[f] # NoFile
    /\ inodes' = [inodes EXCEPT ![f] = NoFile]
    /\ deleting' = f
    /\ UNCHANGED <<up, control, user, login, renaming, data, transfer, strands, content, objects, history>>

SendDeleteObjectRequest ==
    /\ up /\ deleting # NoFile
    /\ objects' = [objects EXCEPT ![deleting] = NoObject]
    /\ deleting' = NoFile
    /\ UNCHANGED <<process, user, login, last, renaming, data, transfer, strands, inodes, content, history>>

(* Any other command the server knows, and a command above that is refused.  *)
NOOP ==
    /\ Handle("NOOP")
    /\ UNCHANGED <<up, control, user, login, renaming, deleting, data, transfer, strands, disk, history>>

(* The control connection ends: the acceptor and the newest data socket are  *)
(* closed, nothing is read any more.                                         *)
KeepsSocket(ts) == ts
CloseData(ts) ==
    [t \in DOMAIN ts |-> IF t = Count /\ ts[t].socket = "open"
                         THEN [ts[t] EXCEPT !.socket = "closed"] ELSE ts[t]]
Hangup ==
    /\ up /\ control = "open" /\ deleting = NoFile
    /\ control' = "lost"
    /\ passive' = "closed" /\ accepts' = <<>>
    /\ transfer' = CloseData(AbortAccepts)
    /\ UNCHANGED <<up, commands, account, strands, disk, history>>

-----------------------------------------------------------------------------
(* The client's end of the data connection.                                  *)

Break(t) ==
    /\ up /\ transfer[t].socket = "open"
    /\ transfer' = [transfer EXCEPT ![t].socket = "gone"]
    /\ UNCHANGED <<process, account, data, strands, disk, history>>

-----------------------------------------------------------------------------
(* Jobs of the strands.                                                      *)

ReadData(t) == [op |-> "read", t |-> t]
PostEnd(t)  == [op |-> "null", t |-> t]
WriteFile(t, b, more) == [op |-> "write", t |-> t, block |-> b, more |-> more]
EndReceiving(t) == [op |-> "end", t |-> t]
Load(t)     == [op |-> "load", t |-> t]
Store(t, c) == [op |-> "store", t |-> t, content |-> c]

(* What addDataToBufferAndSend posts; End is the null pointer.  "more" says   *)
(* whether fetch_more reads on.                                              *)
End == <<"end">>
AddData(t, b, more) == [op |-> "add", t |-> t, block |-> b, more |-> more]
WriteData(t, more) == [op |-> "send", t |-> t, more |-> more]
Sent(t, more, ok) == [op |-> "sent", t |-> t, more |-> more, ok |-> ok]

FileJob(op) == up /\ fileJobs # <<>> /\ Head(fileJobs).op = op
BufferJob(op) == up /\ bufferJobs # <<>> /\ Head(bufferJobs).op = op

(* The client has connected, the accept completes and the transfer begins: a *)
(* file is read by three jobs at once, a listing is sent and then ended, an  *)
(* upload is read.                                                           *)
Accepted ==
    /\ up /\ accepts # <<>>
    /\ accepts' = Tail(accepts)
    /\ LET t == Head(accepts) IN
           \/ /\ transfer[t].kind = "send"
              /\ transfer' = [transfer EXCEPT ![t].socket = "open"]
              /\ fileJobs' = fileJobs \o <<ReadData(t), ReadData(t), ReadData(t)>>
              /\ UNCHANGED bufferJobs
           \/ /\ transfer[t].kind = "list"
              /\ transfer' = [transfer EXCEPT ![t].socket = "open", ![t].reading = TRUE]
              /\ bufferJobs' = Append(bufferJobs, AddData(t, <<0, 1>>, FALSE))
              /\ UNCHANGED fileJobs
           \/ /\ transfer[t].kind = "receive"
              /\ transfer' = [transfer EXCEPT ![t].socket = "open", ![t].reading = TRUE]
              /\ UNCHANGED <<fileJobs, bufferJobs>>
    /\ UNCHANGED <<process, account, passive, buffer, writing, disk, history>>

ListEnds(t) ==
    /\ up /\ transfer[t].kind = "list" /\ transfer[t].reading
    /\ transfer' = [transfer EXCEPT ![t].reading = FALSE]
    /\ bufferJobs' = Append(bufferJobs, AddData(t, End, FALSE))
    /\ UNCHANGED <<process, account, data, buffer, writing, fileJobs, disk, history>>

(* readDataFromFileAndSend.  The read that meets the end of the file sends   *)
(* what it got and then the end; later ones do nothing.                      *)
ReadsPastEnd(t) == FALSE
AtEnd(t) == transfer[t].eof
ReadFile ==
    /\ FileJob("read")
    /\ LET t == Head(fileJobs).t
           blocks == content[transfer[t].inode]
           n == transfer[t].at + 1
           b == IF n <= Len(blocks) THEN blocks[n] ELSE Empty
       IN \/ /\ AtEnd(t)
             /\ fileJobs' = Tail(fileJobs)
             /\ UNCHANGED <<transfer, bufferJobs>>
          \/ /\ ~AtEnd(t) /\ n < Len(blocks)
             /\ transfer' = [transfer EXCEPT ![t].at = n]
             /\ bufferJobs' = Append(bufferJobs, AddData(t, b, TRUE))
             /\ fileJobs' = Tail(fileJobs)
          \/ /\ ~AtEnd(t) /\ n >= Len(blocks)
             /\ transfer' = [transfer EXCEPT ![t].at = n, ![t].eof = TRUE]
             /\ bufferJobs' = Append(bufferJobs, AddData(t, b, FALSE))
             /\ fileJobs' = <<PostEnd(t)>> \o Tail(fileJobs)
    /\ UNCHANGED <<process, account, data, buffer, writing, disk, history>>

ReadEnds ==
    /\ FileJob("null")
    /\ bufferJobs' = Append(bufferJobs, AddData(Head(fileJobs).t, End, FALSE))
    /\ fileJobs' = Tail(fileJobs)
    /\ UNCHANGED <<process, account, data, transfer, buffer, writing, disk, history>>

(* addDataToBufferAndSend: the first in an empty buffer starts the writing.  *)
NeverBusy == FALSE
WriteInProgress == buffer # <<>>
PushedFirst(b) == <<b>> \o buffer
Pushed(b) == Append(buffer, b)
addDataToBufferAndSend ==
    /\ BufferJob("add")
    /\ LET j == Head(bufferJobs) IN
           /\ buffer' = Pushed([t |-> j.t, block |-> j.block])
           /\ bufferJobs' = Tail(bufferJobs) \o
                  (IF WriteInProgress THEN <<>> ELSE <<WriteData(j.t, j.more)>>)
    /\ UNCHANGED <<process, account, data, transfer, writing, fileJobs, disk, history>>

(* writeDataToSocket writes the front of the buffer to the socket of the     *)
(* transfer that started the writing, or, at the end, replies 226.           *)
NeverEnds(b) == FALSE
IsEnd(b) == b = End
writeDataToSocket ==
    /\ BufferJob("send")
    /\ bufferJobs' = Tail(bufferJobs)
    /\ \/ /\ ~IsEnd(Head(buffer).block)
          /\ writing' = [t |-> Head(bufferJobs).t, more |-> Head(bufferJobs).more]
          /\ UNCHANGED <<buffer, transfer>>
       \/ /\ IsEnd(Head(buffer).block)
          /\ buffer' = Tail(buffer)
          /\ transfer' = ReplyTo({Head(buffer).t})
          /\ UNCHANGED writing
    /\ UNCHANGED <<process, account, data, fileJobs, disk, history>>

(* The write of the data socket is done, or fails because one end is closed. *)
Sending ==
    /\ up /\ writing # NoWrite
    /\ LET t == writing.t
           ok == transfer[t].socket = "open"
       IN /\ bufferJobs' = Append(bufferJobs, Sent(t, writing.more, ok))
          /\ transfer' = IF ok /\ Head(buffer).block # Empty
                         THEN [transfer EXCEPT ![t].moved = Append(@, Head(buffer).block)]
                         ELSE transfer
    /\ writing' = NoWrite
    /\ UNCHANGED <<process, account, data, buffer, fileJobs, disk, history>>

(* Its completion: after an error nothing is written any more, and what is   *)
(* left stays in the buffer.                                                 *)
StopsAfterBlock(j) == <<>>
NextWrite(j) == <<WriteData(j.t, j.more)>>
Written ==
    /\ BufferJob("sent")
    /\ LET j == Head(bufferJobs) IN
           /\ buffer' = Tail(buffer)
           /\ fileJobs' = IF j.ok /\ j.more THEN Append(fileJobs, ReadData(j.t)) ELSE fileJobs
           /\ bufferJobs' = Tail(bufferJobs) \o
                  (IF j.ok /\ buffer' # <<>> THEN NextWrite(j) ELSE <<>>)
    /\ UNCHANGED <<process, account, data, transfer, writing, disk, history>>

-----------------------------------------------------------------------------
(* Uploads.                                                                  *)

(* A block is complete.                                                      *)
ReceiveBlock(t) ==
    /\ up /\ transfer[t].kind = "receive" /\ transfer[t].reading /\ transfer[t].socket = "open"
    /\ Len(transfer[t].moved) < MaxBlocks - 1
    /\ LET b == <<t, Len(transfer[t].moved) + 1>> IN
           /\ transfer' = [transfer EXCEPT ![t].moved = Append(@, b), ![t].reading = FALSE]
           /\ fileJobs' = Append(fileJobs, WriteFile(t, b, TRUE))
    /\ UNCHANGED <<process, account, data, buffer, writing, bufferJobs, disk, history>>

(* The client closes the connection, after a last block.                     *)
EndsFirst(t, b) == <<EndReceiving(t), WriteFile(t, b, FALSE)>>
LastJobs(t, b) == <<WriteFile(t, b, FALSE), EndReceiving(t)>>
ReceiveLast(t) ==
    /\ up /\ transfer[t].kind = "receive" /\ transfer[t].reading /\ transfer[t].socket = "open"
    /\ LET b == <<t, Len(transfer[t].moved) + 1>> IN
           /\ transfer' = [transfer EXCEPT ![t].moved = Append(@, b), ![t].reading = FALSE, ![t].socket = "gone"]
           /\ fileJobs' = fileJobs \o LastJobs(t, b)
    /\ UNCHANGED <<process, account, data, buffer, writing, bufferJobs, disk, history>>

(* The read fails, without data.                                             *)
ReceiveFails(t) ==
    /\ up /\ transfer[t].kind = "receive" /\ transfer[t].reading /\ transfer[t].socket # "open"
    /\ transfer' = [transfer EXCEPT ![t].reading = FALSE]
    /\ fileJobs' = Append(fileJobs, EndReceiving(t))
    /\ UNCHANGED <<process, account, data, buffer, writing, bufferJobs, disk, history>>

(* writeDataToFile reads on before it writes.                                *)
writeDataToFile ==
    /\ FileJob("write")
    /\ LET j == Head(fileJobs) IN
           /\ transfer' = [transfer EXCEPT ![j.t].reading = j.more]
           /\ content' = [content EXCEPT ![transfer[j.t].inode] = Append(@, j.block)]
    /\ fileJobs' = Tail(fileJobs)
    /\ UNCHANGED <<process, account, data, buffer, writing, bufferJobs, inodes, objects, history>>

(* endDataReceiving: the reply 226 first, then the object.                   *)
endDataReceiving ==
    /\ FileJob("end")
    /\ LET t == Head(fileJobs).t IN
           /\ transfer' = ReplyTo({t})
           /\ fileJobs' = <<Load(t)>> \o Tail(fileJobs)
    /\ UNCHANGED <<process, account, data, buffer, writing, bufferJobs, disk, history>>

(* SendCreateObjectRequest takes the name of the user who is logged in now,  *)
(* through a null pointer if there is none, and reads the file by its name.  *)
LoadObject ==
    /\ FileJob("load")
    /\ LET t == Head(fileJobs).t
           i == inodes[transfer[t].file]
       IN /\ up' = LoggedIn
          /\ fileJobs' = <<Store(t, IF i = NoFile THEN <<>> ELSE content[i])>> \o Tail(fileJobs)
    /\ UNCHANGED <<control, commands, account, data, transfer, buffer, writing, bufferJobs, disk, history>>

StoreObject ==
    /\ FileJob("store")
    /\ LET j == Head(fileJobs) IN objects' = [objects EXCEPT ![transfer[j.t].file] = j.content]
    /\ fileJobs' = Tail(fileJobs)
    /\ UNCHANGED <<process, account, data, transfer, buffer, writing, bufferJobs, inodes, content, history>>

-----------------------------------------------------------------------------
Command ==
    \/ \E u \in User : USER(u)
    \/ PASS \/ QUIT \/ PASV \/ LIST \/ NOOP
    \/ \E f \in File : RETR(f) \/ STOR(f) \/ APPE(f) \/ RNFR(f) \/ RNTO(f) \/ DELE(f)

Strands ==
    \/ ReadFile \/ ReadEnds \/ writeDataToFile \/ endDataReceiving \/ LoadObject \/ StoreObject
    \/ addDataToBufferAndSend \/ writeDataToSocket \/ Written

Next ==
    \/ Command
    \/ SendDeleteObjectRequest
    \/ Hangup
    \/ Accepted
    \/ Sending
    \/ Strands
    \/ \E t \in DOMAIN transfer :
           ListEnds(t) \/ ReceiveBlock(t) \/ ReceiveLast(t) \/ ReceiveFails(t) \/ Break(t)

Spec == Init /\ [][Next]_vars

(* Every handler that is ready runs, and the network moves what is sent.     *)
(* The client owes nothing: no command, no connection, no block.             *)
FairSpec ==
    /\ Spec
    /\ WF_vars(SendDeleteObjectRequest)
    /\ WF_vars(Sending)
    /\ WF_vars(ReadFile \/ ReadEnds \/ writeDataToFile \/ endDataReceiving \/ LoadObject \/ StoreObject)
    /\ WF_vars(addDataToBufferAndSend \/ writeDataToSocket \/ Written)
    /\ \A t \in Transfer : WF_vars(t \in DOMAIN transfer /\ (ListEnds(t) \/ ReceiveFails(t)))

-----------------------------------------------------------------------------
(* Properties.                                                               *)

Block == (Inode \cup {0}) \X (Nat \ {0})
Bytes == Seq(Block)
Transfers ==
    [kind : {"send", "list", "receive"}, file : File, inode : Inode, at : Nat, eof : BOOLEAN,
     reading : BOOLEAN, socket : {"new", "open", "gone", "closed"}, start : Bytes, moved : Bytes,
     replies : Nat]
FileJobs ==
    [op : {"read", "null", "end", "load"}, t : Transfer]
    \cup [op : {"write"}, t : Transfer, block : Block, more : BOOLEAN]
    \cup [op : {"store"}, t : Transfer, content : Bytes]
Data == Block \cup {Empty, End}
BufferJobs ==
    [op : {"add"}, t : Transfer, block : Data, more : BOOLEAN]
    \cup [op : {"send"}, t : Transfer, more : BOOLEAN]
    \cup [op : {"sent"}, t : Transfer, more : BOOLEAN, ok : BOOLEAN]
TypeOK ==
    /\ up \in BOOLEAN /\ control \in {"open", "quit", "lost"} /\ commands \in 0..MaxCommands
    /\ user \in User \cup {NoUser} /\ login \in User \cup {NoUser}
    /\ last \in {"USER", "RNFR", "other"}
    /\ renaming \in File \cup {NoFile} /\ deleting \in File \cup {NoFile}
    /\ passive \in Acceptor /\ accepts \in Seq(Transfer)
    /\ transfer \in Seq(Transfers) /\ Count <= MaxTransfers
    /\ buffer \in Seq([t : Transfer, block : Data])
    /\ writing \in {NoWrite} \cup [t : Transfer, more : BOOLEAN]
    /\ bufferJobs \in Seq(BufferJobs) /\ fileJobs \in Seq(FileJobs)
    /\ inodes \in [File -> Inode \cup {NoFile}]
    /\ content \in [Inode -> Bytes]
    /\ objects \in [File -> Bytes \cup {NoObject}]
    /\ orderly \in BOOLEAN /\ renamed \in BOOLEAN

(* A transfer gets at most one final reply, 226 or 426, however its accept,  *)
(* its reads and its end race with PASV, a hangup and other transfers        *)
(* (readDataFromFileAndSend, endDataReceiving, the accept handlers).         *)
OneReply == \A t \in DOMAIN transfer : transfer[t].replies <= 1

(* At most one write of the session is posted or under way, and then there is *)
(* something at the front of the buffer for it: asio forbids two writes on a *)
(* socket at once, and data_buffer_.front() and pop_front() need an element  *)
(* (addDataToBufferAndSend, writeDataToSocket).                              *)
Writers == {i \in DOMAIN bufferJobs : bufferJobs[i].op \in {"send", "sent"}}
OneWriter ==
    /\ \A i, j \in Writers : i = j
    /\ Writers = {} \/ writing = NoWrite
    /\ Writers # {} \/ writing # NoWrite => buffer # <<>>

Done(t) == Answered(t) /\ transfer[t].socket # "new"

(* A client that waits for the final reply of a transfer before it asks for  *)
(* the next one, and stays connected, gets exactly the file as it was when   *)
(* the command was handled, in order and once, though three reads and the    *)
(* writes that ask for more run at once (sendFile, addDataToBufferAndSend,   *)
(* writeDataToSocket).                                                       *)
DownloadIntact ==
    orderly => \A t \in DOMAIN transfer :
        Done(t) /\ transfer[t].kind = "send" /\ transfer[t].socket = "open"
            => transfer[t].moved = transfer[t].start

(* No later upload to the file, under its name or as the same inode.         *)
Newest(t) == \A u \in DOMAIN transfer :
    u > t => \/ transfer[u].kind # "receive"
             \/ transfer[u].file # transfer[t].file /\ transfer[u].inode # transfer[t].inode

(* What an orderly client uploaded is what the file holds once 226 is out    *)
(* (writeDataToFile reads on before it writes; endDataReceiving), and once   *)
(* the file strand is idle what the object holds, unless the file is gone    *)
(* or files were renamed.                                                    *)
UploadIntact ==
    orderly => \A t \in DOMAIN transfer :
        LET r == transfer[t] IN
        Done(t) /\ r.kind = "receive" /\ Newest(t)
            => /\ content[r.inode] = r.start \o r.moved
               /\ (up /\ fileJobs = <<>> /\ ~renamed /\ inodes[r.file] = r.inode)
                      => objects[r.file] = content[r.inode]

(* Nothing but the end of the file, or of the client's data, ends transfer t. *)
Undisturbed(t) ==
    /\ t \in DOMAIN transfer
    /\ up /\ orderly
    /\ transfer[t].socket = IF transfer[t].kind = "receive" THEN "gone" ELSE "open"

(* A transfer of an orderly client whose connection was made ends with its   *)
(* final reply: a download by itself, an upload when the client has closed   *)
(* the data connection.                                                      *)
TransfersEnd ==
    \A t \in Transfer : Undisturbed(t) ~> ~Undisturbed(t) \/ Answered(t)

(* Nothing refers to the session any more: its destructor runs.              *)
Idle ==
    /\ accepts = <<>> /\ writing = NoWrite /\ bufferJobs = <<>> /\ fileJobs = <<>>
    /\ \A t \in DOMAIN transfer : ~transfer[t].reading

(* When an orderly client's control connection is lost, the session ends     *)
(* (readFtpCommand closes what its handlers wait for).                       *)
SessionEnds == control = "lost" ~> Idle \/ ~orderly \/ ~up

(* "Uploading a file to the FTP server will automatically create a S3        *)
(* object": an upload that was answered 226 gets its object, if the file     *)
(* stays (endDataReceiving, SendCreateObjectRequest).                        *)
UploadsReachS3 ==
    \A t \in Transfer, name \in File :
        (t \in DOMAIN transfer /\ transfer[t].kind = "receive" /\ transfer[t].file = name
            /\ Done(t) /\ control = "open")
            ~> (objects[name] # NoObject \/ inodes[name] = NoFile)
=============================================================================
