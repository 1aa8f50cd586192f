------------------------------- MODULE FtpProofs -------------------------------
(***************************************************************************)
(* What holds of the output of an FTP session for any client, any number   *)
(* of transfers and files of any length: one write at a time, and at most  *)
(* one final reply for a transfer.                                         *)
(***************************************************************************)
EXTENDS Ftp, SequenceTheorems, TLAPS

IsSequence(s) == \E S : s \in Seq(S)

(* The jobs of a strand that write, or that complete a write.                *)
WriteOps == {"send", "sent"}
WritersIn(jobs) == {i \in DOMAIN jobs : jobs[i].op \in WriteOps}

Inv ==
    /\ IsSequence(bufferJobs)
    /\ IsSequence(buffer)
    /\ OneWriter

-----------------------------------------------------------------------------
(* Sequences.                                                                *)

LEMMA AppendJob ==
    ASSUME NEW s, NEW x, IsSequence(s)
    PROVE  /\ IsSequence(Append(s, x)) /\ Append(s, x) # <<>>
           /\ s \o <<>> = s /\ s \o <<x>> = Append(s, x)
           /\ x.op \notin WriteOps => WritersIn(Append(s, x)) = WritersIn(s)
           /\ WritersIn(s) = {} => \A i, j \in WritersIn(Append(s, x)) : i = j
<1>1. PICK S : s \in Seq(S)
  BY DEF IsSequence
<1> DEFINE T == S \cup {x}
           a == Append(s, x)
<1>2. s \in Seq(T) /\ x \in T
  <2>1. \A i \in 1..Len(s) : s[i] \in T
    BY <1>1
  <2>2. s = [i \in 1..Len(s) |-> s[i]] /\ Len(s) \in Nat
    BY <1>1
  <2> QED
    BY <2>1, <2>2
<1>3. /\ a \in Seq(T) /\ a # <<>> /\ Len(a) = Len(s) + 1
      /\ \A i \in 1..Len(s) : a[i] = s[i]
      /\ a[Len(s) + 1] = x
  <2> HIDE DEF T
  <2> QED
    BY <1>2, AppendProperties
<1>4. s \o <<>> = s
  BY <1>1, ConcatEmptySeq
<1>5. s \o <<x>> = a
  <2> HIDE DEF T
  <2> QED
    BY <1>2, AppendIsConcat
<1>6. DOMAIN s = 1..Len(s) /\ DOMAIN a = 1..(Len(s) + 1) /\ Len(s) \in Nat
  <2>1. DOMAIN s = 1..Len(s) /\ Len(s) \in Nat
    BY <1>1
  <2>2. DOMAIN a = 1..Len(a)
    <3> HIDE DEF a
    <3> QED
      BY <1>3
  <2> QED
    BY <2>1, <2>2, <1>3
<1> HIDE DEF a
<1>7. WritersIn(s) \subseteq WritersIn(a) /\ WritersIn(a) \subseteq WritersIn(s) \cup {Len(s) + 1}
  BY <1>3, <1>6 DEF WritersIn
<1>8. x.op \notin WriteOps => Len(s) + 1 \notin WritersIn(a)
  BY <1>3 DEF WritersIn
<1>9. IsSequence(a)
  BY <1>3 DEF IsSequence
<1> QED
  BY <1>3, <1>4, <1>5, <1>7, <1>8, <1>9 DEF a

LEMMA TailJobs ==
    ASSUME NEW s, IsSequence(s), s # <<>>
    PROVE  /\ IsSequence(Tail(s))
           /\ Head(s).op \in WriteOps <=> 1 \in WritersIn(s)
           /\ \A i \in WritersIn(Tail(s)) : i + 1 \in WritersIn(s) /\ i + 1 # 1 /\ i \in Nat
           /\ (\A i, j \in WritersIn(s) : i = j) => \A i, j \in WritersIn(Tail(s)) : i = j
           /\ Head(s).op \in WriteOps /\ (\A i, j \in WritersIn(s) : i = j) => WritersIn(Tail(s)) = {}
           /\ WritersIn(s) = {} => WritersIn(Tail(s)) = {}
           /\ Head(s).op \notin WriteOps /\ WritersIn(s) # {} => WritersIn(Tail(s)) # {}
<1>1. PICK S : s \in Seq(S)
  BY DEF IsSequence
<1> DEFINE u == Tail(s)
<1>2. /\ u \in Seq(S) /\ Len(u) = Len(s) - 1
      /\ \A i \in 1..Len(u) : u[i] = s[i + 1]
      /\ Head(s) = s[1]
  BY <1>1, HeadTailProperties
<1>3. DOMAIN s = 1..Len(s) /\ Len(s) \in Nat /\ Len(s) >= 1
  <2>1. DOMAIN s = 1..Len(s) /\ Len(s) \in Nat /\ Len(s) # 0
    BY <1>1
  <2> QED
    BY <2>1
<1> HIDE DEF u
<1>4. DOMAIN u = 1..Len(u) /\ Len(u) \in Nat
  BY <1>2
<1>5. \A i \in WritersIn(u) : i + 1 \in WritersIn(s) /\ i + 1 # 1 /\ i \in Nat
  BY <1>2, <1>3, <1>4 DEF WritersIn
<1>6. Head(s).op \in WriteOps <=> 1 \in WritersIn(s)
  BY <1>2, <1>3 DEF WritersIn
<1>7. \A i \in WritersIn(s) : i # 1 => i - 1 \in WritersIn(u)
  BY <1>2, <1>3, <1>4 DEF WritersIn
<1>8. ASSUME \A i, j \in WritersIn(s) : i = j
      PROVE  \A i, j \in WritersIn(u) : i = j
  <2> SUFFICES ASSUME NEW i \in WritersIn(u), NEW j \in WritersIn(u) PROVE i = j
    OBVIOUS
  <2>1. i + 1 = j + 1 /\ i \in Nat /\ j \in Nat
    BY <1>5, <1>8
  <2> QED
    BY <2>1
<1>9. IsSequence(u)
  BY <1>2 DEF IsSequence
<1>10. Head(s).op \in WriteOps /\ (\A i, j \in WritersIn(s) : i = j) => WritersIn(u) = {}
  BY <1>5, <1>6
<1>11. WritersIn(s) = {} => WritersIn(u) = {}
  BY <1>5
<1>12. Head(s).op \notin WriteOps /\ WritersIn(s) # {} => WritersIn(u) # {}
  BY <1>6, <1>7
<1> QED
  BY <1>5, <1>6, <1>8, <1>9, <1>10, <1>11, <1>12 DEF u

LEMMA WritersOfStrand == Writers = WritersIn(bufferJobs)
BY DEF Writers, WritersIn, WriteOps

LEMMA WritersOfStrandNext == Writers' = WritersIn(bufferJobs')
BY DEF Writers, WritersIn, WriteOps

LEMMA InitInv == Init => Inv
<1> SUFFICES ASSUME Init PROVE Inv
  OBVIOUS
<1>1. bufferJobs = <<>> /\ buffer = <<>> /\ writing = NoWrite
  BY DEF Init
<1>2. <<>> \in Seq({}) /\ DOMAIN <<>> = {}
  OBVIOUS
<1>3. Writers = {}
  BY <1>1, <1>2 DEF Writers
<1> QED
  BY <1>1, <1>2, <1>3 DEF Inv, IsSequence, OneWriter

-----------------------------------------------------------------------------
(* The steps.                                                                *)

output == <<buffer, writing, bufferJobs>>

LEMMA QuietStep ==
    ASSUME Inv, UNCHANGED output
    PROVE  Inv'
BY DEF Inv, IsSequence, OneWriter, Writers, output

(* A block, or the end, is posted to the buffer's strand.                    *)
LEMMA PostStep ==
    ASSUME Inv, NEW t, NEW b, NEW more,
           bufferJobs' = Append(bufferJobs, AddData(t, b, more)), UNCHANGED <<buffer, writing>>
    PROVE  Inv'
<1> DEFINE x == AddData(t, b, more)
<1>1. x.op \notin WriteOps
  BY DEF AddData, WriteOps
<1>2. IsSequence(bufferJobs') /\ WritersIn(bufferJobs') = WritersIn(bufferJobs)
  BY <1>1, AppendJob DEF Inv
<1>3. Writers' = Writers
  BY <1>2, WritersOfStrand, WritersOfStrandNext
<1> QED
  BY <1>2, <1>3 DEF Inv, OneWriter, IsSequence

LEMMA AddStep ==
    ASSUME Inv, addDataToBufferAndSend
    PROVE  Inv'
<1> DEFINE j == Head(bufferJobs)
           x == [t |-> j.t, block |-> j.block]
           w == WriteData(j.t, j.more)
           rest == Tail(bufferJobs)
<1>1. /\ bufferJobs # <<>> /\ j.op \notin WriteOps /\ writing' = writing
      /\ buffer' = Append(buffer, x)
      /\ bufferJobs' = rest \o (IF WriteInProgress THEN <<>> ELSE <<w>>)
  BY DEF addDataToBufferAndSend, BufferJob, Pushed, strands, WriteOps
<1>2. IsSequence(buffer') /\ buffer' # <<>>
  BY <1>1, AppendJob DEF Inv
<1>3. /\ IsSequence(rest)
      /\ (\A k, l \in WritersIn(bufferJobs) : k = l) => \A k, l \in WritersIn(rest) : k = l
      /\ WritersIn(bufferJobs) = {} => WritersIn(rest) = {}
      /\ WritersIn(bufferJobs) # {} => WritersIn(rest) # {}
  BY <1>1, TailJobs DEF Inv
<1>4. CASE WriteInProgress
  <2>1. bufferJobs' = rest
    BY <1>1, <1>3, <1>4, AppendJob
  <2> QED
    BY <1>1, <1>2, <1>3, <2>1, WritersOfStrand, WritersOfStrandNext DEF Inv, OneWriter
<1>5. CASE ~WriteInProgress
  <2>1. bufferJobs' = Append(rest, w)
    BY <1>1, <1>3, <1>5, AppendJob
  <2>2. WritersIn(bufferJobs) = {} /\ writing = NoWrite
    BY <1>5, WritersOfStrand DEF Inv, OneWriter, WriteInProgress
  <2>3. IsSequence(bufferJobs') /\ \A k, l \in WritersIn(bufferJobs') : k = l
    BY <1>3, <2>1, <2>2, AppendJob
  <2> QED
    BY <1>1, <1>2, <2>2, <2>3, WritersOfStrandNext DEF Inv, OneWriter
<1> QED
  BY <1>4, <1>5

(* The job that is run was the only writer.                                  *)
LEMMA LastWriter ==
    ASSUME Inv, bufferJobs # <<>>, Head(bufferJobs).op \in WriteOps
    PROVE  /\ IsSequence(Tail(bufferJobs)) /\ WritersIn(Tail(bufferJobs)) = {}
           /\ writing = NoWrite /\ buffer # <<>> /\ IsSequence(Tail(buffer))
<1>1. /\ IsSequence(Tail(bufferJobs)) /\ WritersIn(Tail(bufferJobs)) = {}
      /\ WritersIn(bufferJobs) # {}
  BY TailJobs, WritersOfStrand DEF Inv, OneWriter
<1>2. writing = NoWrite /\ buffer # <<>>
  BY <1>1, WritersOfStrand DEF Inv, OneWriter
<1>3. IsSequence(Tail(buffer))
  BY <1>2, TailJobs DEF Inv
<1> QED
  BY <1>1, <1>2, <1>3

LEMMA WriteStep ==
    ASSUME Inv, writeDataToSocket
    PROVE  Inv'
<1>1. /\ bufferJobs # <<>> /\ Head(bufferJobs).op \in WriteOps
      /\ bufferJobs' = Tail(bufferJobs)
      /\ buffer' = buffer \/ (buffer' = Tail(buffer) /\ writing' = writing)
  BY DEF writeDataToSocket, BufferJob, WriteOps
<1>2. Writers' = {} /\ IsSequence(bufferJobs') /\ writing = NoWrite /\ buffer # <<>> /\ IsSequence(buffer')
  BY <1>1, LastWriter, WritersOfStrandNext DEF Inv
<1> QED
  BY <1>1, <1>2 DEF Inv, OneWriter, IsSequence

LEMMA SendingStep ==
    ASSUME Inv, Sending
    PROVE  Inv'
<1>1. PICK x : bufferJobs' = Append(bufferJobs, x)
  BY DEF Sending
<1>2. writing # NoWrite /\ writing' = NoWrite /\ buffer' = buffer
  BY DEF Sending
<1>3. WritersIn(bufferJobs) = {} /\ buffer # <<>>
  BY <1>2, WritersOfStrand DEF Inv, OneWriter
<1>4. IsSequence(bufferJobs') /\ \A k, l \in WritersIn(bufferJobs') : k = l
  BY <1>1, <1>3, AppendJob DEF Inv
<1> QED
  BY <1>2, <1>3, <1>4, WritersOfStrandNext DEF Inv, OneWriter, IsSequence

LEMMA WrittenStep ==
    ASSUME Inv, Written
    PROVE  Inv'
<1> DEFINE j == Head(bufferJobs)
           w == WriteData(j.t, j.more)
           rest == Tail(bufferJobs)
<1>1. /\ bufferJobs # <<>> /\ j.op \in WriteOps
      /\ buffer' = Tail(buffer) /\ writing' = writing
      /\ bufferJobs' = rest \o (IF j.ok /\ buffer' # <<>> THEN <<w>> ELSE <<>>)
  BY DEF Written, BufferJob, NextWrite, WriteOps
<1>2. IsSequence(rest) /\ WritersIn(rest) = {} /\ writing = NoWrite /\ IsSequence(buffer')
  BY <1>1, LastWriter
<1>3. \/ bufferJobs' = rest
      \/ bufferJobs' = Append(rest, w) /\ buffer' # <<>>
  BY <1>1, <1>2, AppendJob
<1>4. CASE bufferJobs' = rest
  BY <1>1, <1>2, <1>4, WritersOfStrandNext DEF Inv, OneWriter
<1>5. CASE bufferJobs' = Append(rest, w) /\ buffer' # <<>>
  <2>1. IsSequence(bufferJobs') /\ \A k, l \in WritersIn(bufferJobs') : k = l
    BY <1>2, <1>5, AppendJob
  <2> QED
    BY <1>1, <1>2, <1>5, <2>1, WritersOfStrandNext DEF Inv, OneWriter
<1> QED
  BY <1>3, <1>4, <1>5

LEMMA NextInv ==
    ASSUME Inv, [Next]_vars
    PROVE  Inv'
<1>1. CASE UNCHANGED vars
  BY <1>1, QuietStep DEF vars, strands, output
<1>2. CASE Command
  BY <1>2, QuietStep DEF Command, USER, PASS, QUIT, PASV, LIST, NOOP, RETR, STOR, APPE, RNFR, RNTO,
     DELE, Start, strands, output
<1>3. CASE SendDeleteObjectRequest \/ Hangup
  BY <1>3, QuietStep DEF SendDeleteObjectRequest, Hangup, strands, output
<1>4. CASE Accepted
  <2>1. CASE UNCHANGED bufferJobs
    BY <1>4, <2>1, QuietStep DEF Accepted, output
  <2>2. CASE ~UNCHANGED bufferJobs
    BY <1>4, <2>2, PostStep DEF Accepted
  <2> QED
    BY <2>1, <2>2
<1>5. CASE Sending
  BY <1>5, SendingStep
<1>6. CASE Strands
  <2>1. CASE ReadFile
    <3>1. CASE UNCHANGED bufferJobs
      BY <2>1, <3>1, QuietStep DEF ReadFile, output
    <3>2. CASE ~UNCHANGED bufferJobs
      <4>1. UNCHANGED <<buffer, writing>> /\ \E t, b, more : bufferJobs' = Append(bufferJobs, AddData(t, b, more))
        BY <2>1, <3>2 DEF ReadFile
      <4> QED
        BY <4>1, PostStep
    <3> QED
      BY <3>1, <3>2
  <2>2. CASE ReadEnds
    BY <2>2, PostStep DEF ReadEnds
  <2>3. CASE writeDataToFile \/ endDataReceiving \/ LoadObject \/ StoreObject
    BY <2>3, QuietStep DEF writeDataToFile, endDataReceiving, LoadObject, StoreObject, output
  <2>4. CASE addDataToBufferAndSend
    BY <2>4, AddStep
  <2>5. CASE writeDataToSocket
    BY <2>5, WriteStep
  <2>6. CASE Written
    BY <2>6, WrittenStep
  <2> QED
    BY <1>6, <2>1, <2>2, <2>3, <2>4, <2>5, <2>6 DEF Strands
<1>7. ASSUME NEW t \in DOMAIN transfer,
             ListEnds(t) \/ ReceiveBlock(t) \/ ReceiveLast(t) \/ ReceiveFails(t) \/ Break(t)
      PROVE  Inv'
  <2>1. CASE ListEnds(t)
    BY <2>1, PostStep DEF ListEnds
  <2>2. CASE ReceiveBlock(t) \/ ReceiveLast(t) \/ ReceiveFails(t) \/ Break(t)
    BY <2>2, QuietStep DEF ReceiveBlock, ReceiveLast, ReceiveFails, Break, strands, output
  <2> QED
    BY <1>7, <2>1, <2>2
<1> QED
  BY <1>1, <1>2, <1>3, <1>4, <1>5, <1>6, <1>7 DEF Next

LEMMA SpecInv == Spec => []Inv
BY InitInv, NextInv, PTL DEF Spec

(* However reads, ends of files, listings, commands and closed connections   *)
(* interleave, at most one write of the session is posted or under way, and  *)
(* the buffer has the element it writes: addDataToBufferAndSend starts one   *)
(* only in an empty buffer, and only the completion of a write goes on.      *)
THEOREM OneWriteAtATime == Spec => []OneWriter
<1>1. Inv => OneWriter
  BY DEF Inv
<1> QED
  BY <1>1, SpecInv, PTL

-----------------------------------------------------------------------------
(***************************************************************************)
(* Where the end of a transfer is: whatever can still lead to the final    *)
(* reply of a transfer, the reply itself included, is in one place at a    *)
(* time.                                                                   *)
(***************************************************************************)

(* Where the end of a transfer is: its accept waits, it still reads, a job   *)
(* of a strand or an entry of the buffer will lead to the reply, or the      *)
(* reply is out.                                                             *)
Stage == {"none", "accept", "reads", "file", "strand", "buffer", "replied"}

(* The transfer whose end is item x of the given place, 0 for no transfer.   *)
Owner(place, x) ==
    CASE place = "accept" -> x
      [] place = "file"   -> IF \/ x.op \in {"null", "end"}
                                \/ x.op = "write" /\ x.more
                             THEN x.t ELSE 0
      [] place = "strand" -> IF x.op = "add" /\ x.block = End THEN x.t ELSE 0
      [] place = "buffer" -> IF x.block = End THEN x.t ELSE 0
View(place, s) == [i \in DOMAIN s |-> Owner(place, s[i])]

(* The transfers in v are at stage n and are there once.                     *)
Held(v, st, n) ==
    /\ v \in Seq(Nat)
    /\ \A i \in 1..Len(v) : v[i] # 0 => st[v[i]] = n
    /\ \A i, j \in 1..Len(v) : v[i] # 0 /\ v[i] = v[j] => i = j

(* Transfer t itself will go on: it has data to read, from its file or from  *)
(* its client.                                                               *)
Reads(r) == r.reading \/ (r.kind = "send" /\ r.socket # "new" /\ ~r.eof)

-----------------------------------------------------------------------------
LEMMA HeldElsewhere ==
    ASSUME NEW st \in [Nat -> Stage], NEW v, NEW n, NEW m \in Stage, NEW t \in Nat,
           Held(v, st, n), st[t] # n
    PROVE  Held(v, [st EXCEPT ![t] = m], n)
<1> DEFINE u == [st EXCEPT ![t] = m]
<1>1. \A x \in Nat : x # t => u[x] = st[x]
  OBVIOUS
<1>2. \A i \in 1..Len(v) : v[i] \in Nat
  BY DEF Held
<1>3. \A i \in 1..Len(v) : v[i] # 0 => v[i] # t
  BY DEF Held
<1> QED
  BY <1>1, <1>2, <1>3 DEF Held

LEMMA HeldTail ==
    ASSUME NEW st \in [Nat -> Stage], NEW v, NEW n, NEW m \in Stage,
           Held(v, st, n), v # <<>>
    PROVE  /\ Held(Tail(v), st, n)
           /\ v[1] # 0 => Held(Tail(v), [st EXCEPT ![v[1]] = m], n)
           /\ v[1] \in Nat
<1> DEFINE w == Tail(v)
           u == [st EXCEPT ![v[1]] = m]
<1>1. /\ w \in Seq(Nat) /\ Len(w) = Len(v) - 1 /\ Len(v) \in Nat
      /\ \A i \in 1..Len(w) : w[i] = v[i + 1]
  BY HeadTailProperties DEF Held
<1>2. Len(v) >= 1
  BY <1>1 DEF Held
<1> HIDE DEF w
<1>3. v[1] \in Nat
  BY <1>2 DEF Held
<1>4. Held(w, st, n)
  <2>1. \A i \in 1..Len(w) : i + 1 \in 1..Len(v) /\ w[i] = v[i + 1]
    BY <1>1, <1>2
  <2>2. \A i \in 1..Len(w) : w[i] # 0 => st[w[i]] = n
    BY <2>1 DEF Held
  <2>3. \A i, j \in 1..Len(w) : w[i] # 0 /\ w[i] = w[j] => i + 1 = j + 1
    BY <2>1 DEF Held
  <2>4. \A i, j \in 1..Len(w) : i + 1 = j + 1 => i = j
    OBVIOUS
  <2> QED
    BY <1>1, <2>2, <2>3, <2>4 DEF Held
<1>5. ASSUME v[1] # 0 PROVE Held(w, u, n)
  <2>1. \A i \in 1..Len(w) : w[i] # 0 => w[i] # v[1]
    BY <1>1, <1>2, <1>5 DEF Held
  <2>2. \A i \in 1..Len(w) : w[i] \in Nat
    BY <1>1
  <2>3. \A x \in Nat : x # v[1] => u[x] = st[x]
    OBVIOUS
  <2> QED
    BY <1>4, <2>1, <2>2, <2>3 DEF Held
<1> QED
  BY <1>3, <1>4, <1>5 DEF w

LEMMA HeldAppend ==
    ASSUME NEW st \in [Nat -> Stage], NEW v, NEW n \in Stage, NEW t \in Nat, Held(v, st, n)
    PROVE  /\ t # 0 /\ st[t] # n => Held(Append(v, t), [st EXCEPT ![t] = n], n)
           /\ t = 0 => Held(Append(v, t), st, n)
<1> DEFINE w == Append(v, t)
           u == [st EXCEPT ![t] = n]
<1>1. /\ w \in Seq(Nat) /\ Len(w) = Len(v) + 1 /\ Len(v) \in Nat
      /\ \A i \in 1..Len(v) : w[i] = v[i] /\ v[i] \in Nat
      /\ w[Len(v) + 1] = t
  BY AppendProperties DEF Held
<1> HIDE DEF w
<1>2. ASSUME t = 0 PROVE Held(w, st, n)
  <2>1. \A i \in 1..Len(w) : w[i] # 0 => i \in 1..Len(v)
    BY <1>1, <1>2
  <2> QED
    BY <1>1, <2>1 DEF Held
<1>3. ASSUME t # 0, st[t] # n PROVE Held(w, u, n)
  <2>1. \A i \in 1..Len(w) : i \in 1..Len(v) \/ i = Len(v) + 1
    BY <1>1
  <2>2. \A i \in 1..Len(v) : w[i] # 0 => w[i] # t /\ st[w[i]] = n
    BY <1>1, <1>3 DEF Held
  <2>3. u[t] = n /\ \A x \in Nat : x # t => u[x] = st[x]
    OBVIOUS
  <2>4. \A i \in 1..Len(w) : w[i] # 0 => u[w[i]] = n
    BY <1>1, <2>1, <2>2, <2>3
  <2>5. ASSUME NEW i \in 1..Len(w), NEW j \in 1..Len(w), w[i] # 0, w[i] = w[j] PROVE i = j
    <3>1. CASE i \in 1..Len(v) /\ j \in 1..Len(v)
      BY <1>1, <2>5, <3>1 DEF Held
    <3>2. CASE i = Len(v) + 1 \/ j = Len(v) + 1
      BY <1>1, <2>1, <2>2, <2>5, <3>2
    <3> QED
      BY <2>1, <3>1, <3>2
  <2> QED
    BY <1>1, <2>4, <2>5 DEF Held
<1> QED
  BY <1>2, <1>3 DEF w

(* Another item takes the place of the first one.                            *)
LEMMA HeldFirst ==
    ASSUME NEW st \in [Nat -> Stage], NEW v, NEW n \in Stage, NEW m \in Stage, NEW w \in Seq(Nat),
           Held(v, st, n), v # <<>>, Len(w) = Len(v), \A i \in 2..Len(v) : w[i] = v[i]
    PROVE  /\ w[1] = 0 => Held(w, st, n)
           /\ w[1] = 0 /\ v[1] # 0 => Held(w, [st EXCEPT ![v[1]] = m], n)
           /\ w[1] # 0 /\ st[w[1]] # n => Held(w, [st EXCEPT ![w[1]] = n], n)
<1>1. Len(v) \in Nat /\ Len(v) >= 1 /\ \A i \in 1..Len(v) : i = 1 \/ i \in 2..Len(v)
  BY DEF Held
<1>2. \A i \in 1..Len(v) : v[i] \in Nat /\ w[i] \in Nat
  BY DEF Held
<1>3. ASSUME w[1] = 0 PROVE Held(w, st, n)
  <2>1. \A i \in 1..Len(w) : w[i] # 0 => i \in 2..Len(v) /\ w[i] = v[i]
    BY <1>1, <1>3
  <2> QED
    BY <1>1, <2>1 DEF Held
<1>4. ASSUME w[1] = 0, v[1] # 0 PROVE Held(w, [st EXCEPT ![v[1]] = m], n)
  <2> DEFINE u == [st EXCEPT ![v[1]] = m]
  <2>1. \A i \in 1..Len(w) : w[i] # 0 => w[i] # v[1]
    BY <1>1, <1>4 DEF Held
  <2>2. \A x \in Nat : x # v[1] => u[x] = st[x]
    OBVIOUS
  <2> QED
    BY <1>2, <1>3, <1>4, <2>1, <2>2 DEF Held
<1>5. ASSUME w[1] # 0, st[w[1]] # n PROVE Held(w, [st EXCEPT ![w[1]] = n], n)
  <2> DEFINE u == [st EXCEPT ![w[1]] = n]
  <2>1. u[w[1]] = n /\ \A x \in Nat : x # w[1] => u[x] = st[x]
    BY <1>1, <1>2
  <2>2. \A i \in 2..Len(v) : w[i] # 0 => w[i] # w[1] /\ st[w[i]] = n
    BY <1>1, <1>5 DEF Held
  <2>3. \A i \in 1..Len(w) : w[i] # 0 => u[w[i]] = n
    BY <1>1, <1>2, <2>1, <2>2
  <2>4. \A i, j \in 1..Len(w) : w[i] # 0 /\ w[i] = w[j] => i = j
    BY <1>1, <2>2 DEF Held
  <2> QED
    BY <2>3, <2>4 DEF Held
<1> QED
  BY <1>3, <1>4, <1>5

-----------------------------------------------------------------------------
LEMMA ViewAppend ==
    ASSUME NEW p, NEW s, NEW x, IsSequence(s), View(p, s) \in Seq(Nat), Owner(p, x) \in Nat
    PROVE  View(p, Append(s, x)) = Append(View(p, s), Owner(p, x))
<1>1. PICK S : s \in Seq(S)
  BY DEF IsSequence
<1> DEFINE T == S \cup {x}
           a == Append(s, x)
<1>2. s \in Seq(T) /\ x \in T
  <2>1. \A i \in 1..Len(s) : s[i] \in T
    BY <1>1
  <2>2. s = [i \in 1..Len(s) |-> s[i]] /\ Len(s) \in Nat
    BY <1>1
  <2> QED
    BY <2>1, <2>2
<1>3. /\ a \in Seq(T) /\ Len(a) = Len(s) + 1
      /\ \A i \in 1..Len(s) : a[i] = s[i]
      /\ a[Len(s) + 1] = x
  <2> HIDE DEF T
  <2> QED
    BY <1>2, AppendProperties
<1>4. DOMAIN s = 1..Len(s) /\ Len(s) \in Nat
  BY <1>1
<1>5. DOMAIN a = 1..(Len(s) + 1)
  <2> HIDE DEF a
  <2> QED
    BY <1>3
<1> DEFINE v == View(p, s)
           b == Append(v, Owner(p, x))
           o == Owner(p, x)
<1>6. DOMAIN v = 1..Len(s) /\ \A i \in 1..Len(s) : v[i] = Owner(p, s[i])
  BY <1>4 DEF View
<1>7. Len(v) = Len(s)
  <2> HIDE DEF v
  <2>1. v \in Seq(Nat)
    BY DEF v
  <2> QED
    BY <1>4, <1>6, <2>1
<1>8. /\ b \in Seq(Nat) /\ Len(b) = Len(s) + 1
      /\ \A i \in 1..Len(s) : b[i] = Owner(p, s[i])
      /\ b[Len(s) + 1] = Owner(p, x)
  <2>1. v \in Seq(Nat) /\ o \in Nat
    OBVIOUS
  <2> HIDE DEF v, o
  <2>2. /\ Append(v, o) \in Seq(Nat) /\ Len(Append(v, o)) = Len(v) + 1
        /\ \A i \in 1..Len(v) : Append(v, o)[i] = v[i]
        /\ Append(v, o)[Len(v) + 1] = o
    BY <2>1, AppendProperties
  <2> QED
    BY <2>2, <1>6, <1>7 DEF o
<1>9. DOMAIN b = 1..(Len(s) + 1) /\ b = [i \in 1..(Len(s) + 1) |-> b[i]]
  <2> HIDE DEF b
  <2> QED
    BY <1>8
<1>10. View(p, a) = [i \in 1..(Len(s) + 1) |-> Owner(p, a[i])]
  BY <1>5 DEF View
<1>11. \A i \in 1..(Len(s) + 1) : b[i] = Owner(p, a[i])
  <2> HIDE DEF a, b
  <2>1. \A i \in 1..(Len(s) + 1) : i \in 1..Len(s) \/ i = Len(s) + 1
    BY <1>4
  <2> QED
    BY <2>1, <1>3, <1>8
<1> HIDE DEF a, b
<1>12. View(p, a) = b
  BY <1>9, <1>10, <1>11
<1> QED
  BY <1>12 DEF a, b

LEMMA ViewTail ==
    ASSUME NEW p, NEW s, IsSequence(s), s # <<>>, View(p, s) \in Seq(Nat)
    PROVE  /\ View(p, Tail(s)) = Tail(View(p, s))
           /\ View(p, s) # <<>>
           /\ View(p, s)[1] = Owner(p, Head(s))
<1>1. PICK S : s \in Seq(S)
  BY DEF IsSequence
<1> DEFINE u == Tail(s)
           v == View(p, s)
<1>2. /\ u \in Seq(S) /\ Len(u) = Len(s) - 1
      /\ \A i \in 1..Len(u) : u[i] = s[i + 1]
      /\ Head(s) = s[1]
  BY <1>1, HeadTailProperties
<1>3. DOMAIN s = 1..Len(s) /\ Len(s) \in Nat /\ Len(s) >= 1
  <2>1. DOMAIN s = 1..Len(s) /\ Len(s) \in Nat /\ Len(s) # 0
    BY <1>1
  <2> QED
    BY <2>1
<1>4. DOMAIN v = 1..Len(s) /\ \A i \in 1..Len(s) : v[i] = Owner(p, s[i])
  BY <1>3 DEF View
<1>5. v \in Seq(Nat) /\ Len(v) = Len(s)
  <2>1. v \in Seq(Nat)
    OBVIOUS
  <2> HIDE DEF v
  <2> QED
    BY <1>3, <1>4, <2>1
<1>6. v # <<>>
  <2> HIDE DEF v
  <2>1. Len(<<>>) = 0
    OBVIOUS
  <2> QED
    BY <1>3, <1>5, <2>1
<1> HIDE DEF v
<1>7. /\ Tail(v) \in Seq(Nat) /\ Len(Tail(v)) = Len(s) - 1
      /\ \A i \in 1..Len(Tail(v)) : Tail(v)[i] = v[i + 1]
  BY <1>5, <1>6, HeadTailProperties
<1> HIDE DEF u
<1>8. DOMAIN u = 1..(Len(s) - 1)
  BY <1>2
<1>9. View(p, u) = [i \in 1..(Len(s) - 1) |-> Owner(p, u[i])]
  BY <1>8 DEF View
<1>10. Tail(v) = [i \in 1..(Len(s) - 1) |-> Tail(v)[i]]
  <2> DEFINE x == Tail(v)
  <2>1. x \in Seq(Nat) /\ Len(x) = Len(s) - 1
    BY <1>7
  <2> HIDE DEF x
  <2>2. x = [i \in 1..Len(x) |-> x[i]]
    BY <2>1
  <2>3. x = [i \in 1..(Len(s) - 1) |-> x[i]]
    BY <2>1, <2>2
  <2> QED
    BY <2>3 DEF x
<1>11. ASSUME NEW i \in 1..(Len(s) - 1) PROVE Tail(v)[i] = Owner(p, u[i])
  <2>1. i + 1 \in 1..Len(s)
    BY <1>3
  <2>2. Tail(v)[i] = v[i + 1] /\ u[i] = s[i + 1]
    BY <1>2, <1>7
  <2> QED
    BY <1>4, <2>1, <2>2
<1>12. View(p, u) = Tail(v)
  BY <1>9, <1>10, <1>11
<1>13. v[1] = Owner(p, Head(s))
  BY <1>2, <1>3, <1>4
<1> QED
  BY <1>6, <1>12, <1>13 DEF u, v

LEMMA ViewFirst ==
    ASSUME NEW p, NEW s, NEW x, IsSequence(s), s # <<>>, View(p, s) \in Seq(Nat), Owner(p, x) \in Nat
    PROVE  /\ IsSequence(<<x>> \o Tail(s))
           /\ View(p, <<x>> \o Tail(s)) \in Seq(Nat)
           /\ Len(View(p, <<x>> \o Tail(s))) = Len(View(p, s))
           /\ View(p, <<x>> \o Tail(s))[1] = Owner(p, x)
           /\ \A i \in 2..Len(View(p, s)) : View(p, <<x>> \o Tail(s))[i] = View(p, s)[i]
<1>1. PICK S : s \in Seq(S)
  BY DEF IsSequence
<1> DEFINE T == S \cup {x}
           r == <<x>> \o Tail(s)
           v == View(p, s)
           w == View(p, r)
<1>2. /\ Tail(s) \in Seq(S) /\ Len(Tail(s)) = Len(s) - 1
      /\ \A i \in 1..Len(Tail(s)) : Tail(s)[i] = s[i + 1]
  BY <1>1, HeadTailProperties
<1>3. DOMAIN s = 1..Len(s) /\ Len(s) \in Nat /\ Len(s) >= 1
  <2>1. DOMAIN s = 1..Len(s) /\ Len(s) \in Nat /\ Len(s) # 0
    BY <1>1
  <2> QED
    BY <2>1
<1>4. Tail(s) \in Seq(T) /\ <<x>> \in Seq(T) /\ Len(<<x>>) = 1 /\ <<x>>[1] = x
  <2> DEFINE u == Tail(s)
  <2>0. u \in Seq(S)
    BY <1>2
  <2> HIDE DEF u
  <2>1. \A i \in 1..Len(u) : u[i] \in T
    BY <2>0
  <2>2. u = [i \in 1..Len(u) |-> u[i]] /\ Len(u) \in Nat
    BY <2>0
  <2>3. u \in Seq(T)
    BY <2>1, <2>2
  <2>4. x \in T
    OBVIOUS
  <2> HIDE DEF T
  <2>5. <<x>> \in Seq(T) /\ Len(<<x>>) = 1 /\ <<x>>[1] = x
    BY <2>4
  <2> QED
    BY <2>3, <2>5 DEF u
<1>5. /\ r \in Seq(T) /\ Len(r) = 1 + Len(Tail(s))
      /\ \A i \in 1..(1 + Len(Tail(s))) : r[i] = IF i <= 1 THEN <<x>>[i] ELSE Tail(s)[i - 1]
  <2> HIDE DEF T
  <2> QED
    BY <1>4, ConcatProperties
<1> HIDE DEF r
<1>6. DOMAIN r = 1..Len(s) /\ r[1] = x /\ \A i \in 2..Len(s) : r[i] = s[i]
  <2>1. DOMAIN r = 1..Len(r) /\ Len(r) = Len(s)
    BY <1>2, <1>3, <1>5
  <2>2. r[1] = x
    BY <1>2, <1>3, <1>4, <1>5
  <2>3. \A i \in 2..Len(s) : r[i] = s[i]
    <3> SUFFICES ASSUME NEW i \in 2..Len(s) PROVE r[i] = s[i]
      OBVIOUS
    <3>1. r[i] = Tail(s)[i - 1]
      BY <1>2, <1>3, <1>5
    <3>2. Tail(s)[i - 1] = s[(i - 1) + 1]
      <4>1. i - 1 \in 1..Len(Tail(s))
        BY <1>2, <1>3
      <4> QED
        BY <1>2, <4>1
    <3>3. (i - 1) + 1 = i
      OBVIOUS
    <3> QED
      BY <3>1, <3>2, <3>3
  <2> QED
    BY <2>1, <2>2, <2>3
<1>7. w = [i \in 1..Len(s) |-> Owner(p, r[i])] /\ v = [i \in 1..Len(s) |-> Owner(p, s[i])]
  BY <1>3, <1>6 DEF View
<1>8. Len(v) = Len(s)
  <2>1. v \in Seq(Nat) /\ DOMAIN v = 1..Len(s)
    BY <1>7
  <2> HIDE DEF v
  <2> QED
    BY <1>3, <2>1
<1>9. \A i \in 2..Len(s) : w[i] = v[i]
  BY <1>6, <1>7
<1>10. w[1] = Owner(p, x)
  BY <1>3, <1>6, <1>7
<1>11. \A i \in 1..Len(s) : v[i] \in Nat
  <2>1. v \in Seq(Nat)
    OBVIOUS
  <2> HIDE DEF v
  <2> QED
    BY <1>8, <2>1
<1>12. \A i \in 1..Len(s) : w[i] \in Nat
  <2>1. \A i \in 1..Len(s) : i = 1 \/ i \in 2..Len(s)
    BY <1>3
  <2> HIDE DEF v, w
  <2> QED
    BY <2>1, <1>9, <1>10, <1>11
<1>13. w \in Seq(Nat) /\ Len(w) = Len(s)
  <2>1. w = [i \in 1..Len(s) |-> w[i]]
    BY <1>7
  <2> HIDE DEF w
  <2>2. w \in Seq(Nat)
    BY <1>3, <1>12, <2>1
  <2>3. DOMAIN w = 1..Len(s)
    BY <2>1
  <2> QED
    BY <1>3, <2>2, <2>3
<1> QED
  BY <1>5, <1>8, <1>9, <1>10, <1>13 DEF IsSequence, r

-----------------------------------------------------------------------------
(* The elements of sequences.                                                *)

LEMMA RangeTail ==
    ASSUME NEW s, IsSequence(s), s # <<>>
    PROVE  /\ IsSequence(Tail(s))
           /\ Head(s) \in Range(s)
           /\ Range(Tail(s)) \subseteq Range(s)
<1>1. PICK S : s \in Seq(S)
  BY DEF IsSequence
<1> DEFINE u == Tail(s)
<1>2. /\ u \in Seq(S) /\ Len(u) = Len(s) - 1
      /\ \A i \in 1..Len(u) : u[i] = s[i + 1]
      /\ Head(s) = s[1]
  BY <1>1, HeadTailProperties
<1>3. DOMAIN s = 1..Len(s) /\ Len(s) \in Nat /\ Len(s) >= 1
  <2>1. DOMAIN s = 1..Len(s) /\ Len(s) \in Nat /\ Len(s) # 0
    BY <1>1
  <2> QED
    BY <2>1
<1> HIDE DEF u
<1>4. DOMAIN u = 1..(Len(s) - 1)
  BY <1>2
<1>5. Head(s) \in Range(s)
  BY <1>2, <1>3 DEF Range
<1>6. \A i \in 1..(Len(s) - 1) : i + 1 \in 1..Len(s) /\ u[i] = s[i + 1]
  BY <1>2, <1>3
<1>7. Range(u) \subseteq Range(s)
  BY <1>3, <1>4, <1>6 DEF Range
<1>8. IsSequence(u)
  BY <1>2 DEF IsSequence
<1> QED
  BY <1>5, <1>7, <1>8 DEF u

LEMMA RangeAppend ==
    ASSUME NEW s, NEW x, IsSequence(s)
    PROVE  IsSequence(Append(s, x)) /\ Range(Append(s, x)) \subseteq Range(s) \cup {x}
<1>1. PICK S : s \in Seq(S)
  BY DEF IsSequence
<1> DEFINE T == S \cup {x}
           a == Append(s, x)
<1>2. s \in Seq(T) /\ x \in T
  <2>1. \A i \in 1..Len(s) : s[i] \in T
    BY <1>1
  <2>2. s = [i \in 1..Len(s) |-> s[i]] /\ Len(s) \in Nat
    BY <1>1
  <2> QED
    BY <2>1, <2>2
<1>3. /\ a \in Seq(T) /\ Len(a) = Len(s) + 1
      /\ \A i \in 1..Len(s) : a[i] = s[i]
      /\ a[Len(s) + 1] = x
  <2> HIDE DEF T
  <2> QED
    BY <1>2, AppendProperties
<1>4. DOMAIN s = 1..Len(s) /\ Len(s) \in Nat
  BY <1>1
<1> HIDE DEF a
<1>5. DOMAIN a = 1..(Len(s) + 1)
  BY <1>3
<1>6. \A i \in 1..(Len(s) + 1) : i \in 1..Len(s) \/ i = Len(s) + 1
  BY <1>4
<1>7. Range(a) \subseteq Range(s) \cup {x}
  BY <1>3, <1>4, <1>5, <1>6 DEF Range
<1>8. IsSequence(a)
  BY <1>3 DEF IsSequence
<1> QED
  BY <1>7, <1>8 DEF a

LEMMA RangeFirst ==
    ASSUME NEW s, NEW x, IsSequence(s), s # <<>>
    PROVE  Range(<<x>> \o Tail(s)) \subseteq Range(s) \cup {x}
<1>1. IsSequence(Tail(s)) /\ Range(Tail(s)) \subseteq Range(s)
  BY RangeTail
<1> DEFINE u == Tail(s)
           r == <<x>> \o u
<1>2. PICK S : u \in Seq(S)
  BY <1>1 DEF IsSequence
<1> HIDE DEF u
<1> DEFINE T == S \cup {x}
<1>3. u \in Seq(T) /\ x \in T
  <2>1. \A i \in 1..Len(u) : u[i] \in T
    BY <1>2
  <2>2. u = [i \in 1..Len(u) |-> u[i]] /\ Len(u) \in Nat
    BY <1>2
  <2> QED
    BY <2>1, <2>2
<1> HIDE DEF T
<1>4. <<x>> \in Seq(T) /\ Len(<<x>>) = 1 /\ <<x>>[1] = x
  BY <1>3
<1>5. /\ r \in Seq(T) /\ Len(r) = 1 + Len(u)
      /\ \A i \in 1..(1 + Len(u)) : r[i] = IF i <= 1 THEN <<x>>[i] ELSE u[i - 1]
  BY <1>3, <1>4, ConcatProperties
<1> HIDE DEF r
<1>6. DOMAIN r = 1..(1 + Len(u)) /\ DOMAIN u = 1..Len(u) /\ Len(u) \in Nat
  BY <1>3, <1>5
<1>7. \A i \in 1..(1 + Len(u)) : r[i] = x \/ (i - 1 \in 1..Len(u) /\ r[i] = u[i - 1])
  BY <1>4, <1>5, <1>6
<1>8. Range(r) \subseteq Range(u) \cup {x}
  BY <1>6, <1>7 DEF Range
<1> QED
  BY <1>1, <1>8 DEF r, u

LEMMA TwoMore ==
    ASSUME NEW s, NEW x, NEW y, IsSequence(s)
    PROVE  s \o <<x, y>> = Append(Append(s, x), y)
<1>1. PICK S : s \in Seq(S)
  BY DEF IsSequence
<1> DEFINE T == S \cup {x, y}
<1>2. s \in Seq(T) /\ x \in T /\ y \in T
  <2>1. \A i \in 1..Len(s) : s[i] \in T
    BY <1>1
  <2>2. s = [i \in 1..Len(s) |-> s[i]] /\ Len(s) \in Nat
    BY <1>1
  <2> QED
    BY <2>1, <2>2
<1> HIDE DEF T
<1>3. <<x>> \in Seq(T) /\ <<y>> \in Seq(T)
  BY <1>2
<1>4. <<x>> \o <<y>> = <<x, y>>
  <2>1. Append(<<x>>, y) = <<x>> \o <<y>>
    BY <1>2, <1>3, AppendIsConcat
  <2>2. Append(<<x>>, y) = <<x, y>>
    <3> DEFINE a == Append(<<x>>, y)
               b == <<x, y>>
    <3>1. a \in Seq(T) /\ Len(a) = Len(<<x>>) + 1 /\ a[Len(<<x>>) + 1] = y
          /\ \A i \in 1..Len(<<x>>) : a[i] = <<x>>[i]
      BY <1>2, <1>3, AppendProperties
    <3>2. Len(<<x>>) = 1 /\ <<x>>[1] = x
      OBVIOUS
    <3>3. b \in Seq(T) /\ Len(b) = 2 /\ b[1] = x /\ b[2] = y
      BY <1>2
    <3> HIDE DEF a, b
    <3>4. Len(a) = 2 /\ a[1] = x /\ a[2] = y
      BY <3>1, <3>2
    <3>5. \A i \in 1..2 : i = 1 \/ i = 2
      OBVIOUS
    <3>6. a = [i \in 1..2 |-> a[i]] /\ b = [i \in 1..2 |-> b[i]]
      <4>1. a = [i \in 1..Len(a) |-> a[i]] /\ b = [i \in 1..Len(b) |-> b[i]]
        BY <3>1, <3>3
      <4> QED
        BY <4>1, <3>3, <3>4
    <3>7. \A i \in 1..2 : a[i] = b[i]
      BY <3>3, <3>4, <3>5
    <3>8. a = b
      BY <3>6, <3>7
    <3> QED
      BY <3>8 DEF a, b
  <2> QED
    BY <2>1, <2>2
<1>5. (s \o <<x>>) \o <<y>> = s \o (<<x>> \o <<y>>)
  BY <1>2, <1>3, ConcatAssociative
<1>6. s \o <<x>> = Append(s, x) /\ Append(s, x) \in Seq(T)
  BY <1>2, AppendIsConcat, AppendProperties
<1>7. Append(s, x) \o <<y>> = Append(Append(s, x), y)
  BY <1>2, <1>6, AppendIsConcat
<1> QED
  BY <1>4, <1>5, <1>6, <1>7

LEMMA ThreeMore ==
    ASSUME NEW s, NEW x, IsSequence(s)
    PROVE  s \o <<x, x, x>> = Append(Append(Append(s, x), x), x)
<1>1. PICK S : s \in Seq(S)
  BY DEF IsSequence
<1> DEFINE T == S \cup {x}
<1>2. s \in Seq(T) /\ x \in T
  <2>1. \A i \in 1..Len(s) : s[i] \in T
    BY <1>1
  <2>2. s = [i \in 1..Len(s) |-> s[i]] /\ Len(s) \in Nat
    BY <1>1
  <2> QED
    BY <2>1, <2>2
<1> HIDE DEF T
<1>3. <<x, x>> \in Seq(T) /\ <<x>> \in Seq(T)
  BY <1>2
<1>4. <<x, x>> \o <<x>> = <<x, x, x>>
  <2>1. Append(<<x, x>>, x) = <<x, x>> \o <<x>>
    BY <1>2, <1>3, AppendIsConcat
  <2>2. Append(<<x, x>>, x) = <<x, x, x>>
    <3> DEFINE c == <<x, x>>
               a == Append(c, x)
               b == <<x, x, x>>
    <3>1. c \in Seq(T) /\ Len(c) = 2 /\ c[1] = x /\ c[2] = x
      BY <1>2
    <3>2. b \in Seq(T) /\ Len(b) = 3 /\ b[1] = x /\ b[2] = x /\ b[3] = x
      BY <1>2
    <3> HIDE DEF c
    <3>3. a \in Seq(T) /\ Len(a) = Len(c) + 1 /\ a[Len(c) + 1] = x
          /\ \A i \in 1..Len(c) : a[i] = c[i]
      <4>1. c \in Seq(T) /\ x \in T
        BY <1>2, <3>1
      <4> HIDE DEF b
      <4> QED
        BY ONLY <4>1, AppendProperties
    <3> HIDE DEF a, b
    <3>4. Len(a) = 3 /\ a[1] = x /\ a[2] = x /\ a[3] = x
      BY <3>1, <3>3
    <3>5. \A i \in 1..3 : i = 1 \/ i = 2 \/ i = 3
      OBVIOUS
    <3>6. a = [i \in 1..3 |-> a[i]] /\ b = [i \in 1..3 |-> b[i]]
      <4>1. a = [i \in 1..Len(a) |-> a[i]] /\ b = [i \in 1..Len(b) |-> b[i]]
        BY <3>2, <3>3
      <4> QED
        BY <4>1, <3>2, <3>4
    <3>7. \A i \in 1..3 : a[i] = b[i]
      BY <3>2, <3>4, <3>5
    <3>8. a = b
      BY <3>6, <3>7
    <3> QED
      BY <3>8 DEF a, b, c
  <2> QED
    BY <2>1, <2>2
<1>5. (s \o <<x, x>>) \o <<x>> = s \o (<<x, x>> \o <<x>>)
  BY <1>2, <1>3, ConcatAssociative
<1>6. s \o <<x, x>> = Append(Append(s, x), x)
  BY TwoMore
<1>7. Append(Append(s, x), x) \in Seq(T)
  BY <1>2, AppendProperties
<1>8. Append(Append(s, x), x) \o <<x>> = Append(Append(Append(s, x), x), x)
  BY <1>2, <1>7, AppendIsConcat
<1> QED
  BY <1>4, <1>5, <1>6, <1>8

-----------------------------------------------------------------------------
(* What transfers, jobs and files look like.                                 *)

Fields == {"kind", "file", "inode", "at", "eof", "reading", "socket", "start", "moved", "replies"}

WellFormed(ts) ==
    /\ IsSequence(ts)
    /\ \A t \in DOMAIN ts :
        /\ DOMAIN ts[t] = Fields
        /\ ts[t].at \in Nat
        /\ ts[t].kind # "list" => ts[t].inode \in Inode
        /\ ts[t].kind = "send" => ~ts[t].reading

(* Reads of files are for downloads whose connection has been made, writes   *)
(* for uploads.                                                              *)
Downloading(t, ts) == t \in DOMAIN ts /\ ts[t].kind = "send" /\ ts[t].socket # "new"
JobOK(j, ts) ==
    /\ j.t \in DOMAIN ts
    /\ j.op = "read" => Downloading(j.t, ts)
    /\ j.op = "write" => ts[j.t].kind = "receive" /\ j.block # End
MoreOK(j, ts) == j.more => Downloading(j.t, ts)

(* No block of a file is mistaken for the end of a transmission.             *)
NoEnds(c) ==
    /\ DOMAIN c = Inode
    /\ \A i \in Inode : IsSequence(c[i]) /\ End \notin Range(c[i])

Shape ==
    /\ WellFormed(transfer)
    /\ IsSequence(accepts) /\ Range(accepts) \subseteq DOMAIN transfer
    /\ IsSequence(fileJobs) /\ \A j \in Range(fileJobs) : JobOK(j, transfer)
    /\ \A j \in Range(bufferJobs) : MoreOK(j, transfer)
    /\ writing # NoWrite => MoreOK(writing, transfer)
    /\ NoEnds(content)
    /\ inodes \in [File -> Inode \cup {NoFile}]

(* What no step takes back.                                                  *)
Grows(ts, us) ==
    /\ DOMAIN ts \subseteq DOMAIN us
    /\ \A t \in DOMAIN ts :
        us[t].kind = ts[t].kind /\ (ts[t].socket # "new" => us[t].socket # "new")

LEMMA ShapeStep ==
    ASSUME Shape, WellFormed(transfer'), Grows(transfer, transfer'),
           IsSequence(accepts'), \A t \in Range(accepts') : t \in Range(accepts) \/ t \in DOMAIN transfer',
           IsSequence(fileJobs'),
           \A j \in Range(fileJobs') : j \in Range(fileJobs) \/ JobOK(j, transfer'),
           \A j \in Range(bufferJobs') : j \in Range(bufferJobs) \/ MoreOK(j, transfer'),
           writing' # NoWrite => writing' = writing \/ MoreOK(writing', transfer'),
           NoEnds(content'), inodes' \in [File -> Inode \cup {NoFile}]
    PROVE  Shape'
<1>1. \A t : Downloading(t, transfer) => Downloading(t, transfer')
  BY DEF Grows, Downloading
<1>2. \A j : JobOK(j, transfer) => JobOK(j, transfer')
  BY <1>1 DEF Grows, JobOK
<1>3. \A j : MoreOK(j, transfer) => MoreOK(j, transfer')
  BY <1>1 DEF MoreOK
<1>4. Range(accepts') \subseteq DOMAIN transfer'
  BY DEF Shape, Grows
<1>5. \A j \in Range(fileJobs') : JobOK(j, transfer')
  BY <1>2 DEF Shape
<1>6. \A j \in Range(bufferJobs') : MoreOK(j, transfer')
  BY <1>3 DEF Shape
<1>7. writing' # NoWrite => MoreOK(writing', transfer')
  BY <1>3 DEF Shape
<1> HIDE DEF WellFormed, JobOK, MoreOK, NoEnds, Grows
<1>8. Range(accepts)' = Range(accepts') /\ Range(fileJobs)' = Range(fileJobs') /\ Range(bufferJobs)' = Range(bufferJobs')
  BY DEF Range
<1>9. WellFormed(transfer)' = WellFormed(transfer') /\ NoEnds(content)' = NoEnds(content')
      /\ IsSequence(accepts)' = IsSequence(accepts') /\ IsSequence(fileJobs)' = IsSequence(fileJobs')
  BY DEF WellFormed, NoEnds, IsSequence, Range, End
<1> QED
  BY <1>4, <1>5, <1>6, <1>7 DEF Shape

LEMMA FunctionIsSequence ==
    ASSUME NEW s, NEW f, IsSequence(s), f = [i \in DOMAIN s |-> f[i]]
    PROVE  IsSequence(f)
<1>1. PICK S : s \in Seq(S)
  BY DEF IsSequence
<1>2. DOMAIN s = 1..Len(s) /\ Len(s) \in Nat
  BY <1>1
<1> DEFINE n == Len(s)
           T == {f[i] : i \in 1..n}
<1>3. n \in Nat /\ f = [i \in 1..n |-> f[i]] /\ \A i \in 1..n : f[i] \in T
  BY <1>2
<1> HIDE DEF n, T
<1>4. f \in Seq(T)
  BY <1>3
<1> QED
  BY <1>4 DEF IsSequence

(* A step that changes fields of transfers one by one.                       *)
Alike(r, u) ==
    /\ DOMAIN u = Fields
    /\ u.kind = r.kind /\ u.inode = r.inode /\ u.at \in Nat
    /\ r.socket # "new" => u.socket # "new"
    /\ u.kind = "send" => ~u.reading

LEMMA TransfersAlike ==
    ASSUME NEW ts, NEW us, WellFormed(ts), us = [t \in DOMAIN ts |-> us[t]],
           \A t \in DOMAIN ts : Alike(ts[t], us[t])
    PROVE  WellFormed(us) /\ Grows(ts, us)
<1>1. DOMAIN us = DOMAIN ts
  OBVIOUS
<1>2. IsSequence(us)
  BY FunctionIsSequence DEF WellFormed
<1> QED
  BY <1>1, <1>2 DEF WellFormed, Grows, Alike

LEMMA TransfersUnchanged ==
    ASSUME NEW ts, WellFormed(ts)
    PROVE  Grows(ts, ts)
BY DEF Grows

(* The fields of a changed record.                                           *)
LEMMA ChangedRecord ==
    ASSUME NEW r, DOMAIN r = Fields, NEW v
    PROVE  /\ LET u == [r EXCEPT !.reading = v] IN
                  DOMAIN u = Fields /\ u.reading = v /\ u.kind = r.kind /\ u.inode = r.inode
                  /\ u.eof = r.eof /\ u.socket = r.socket /\ u.replies = r.replies /\ u.at = r.at
           /\ LET u == [r EXCEPT !.socket = v] IN
                  DOMAIN u = Fields /\ u.reading = r.reading /\ u.kind = r.kind /\ u.inode = r.inode
                  /\ u.eof = r.eof /\ u.socket = v /\ u.replies = r.replies /\ u.at = r.at
           /\ LET u == [r EXCEPT !.eof = v] IN
                  DOMAIN u = Fields /\ u.reading = r.reading /\ u.kind = r.kind /\ u.inode = r.inode
                  /\ u.eof = v /\ u.socket = r.socket /\ u.replies = r.replies /\ u.at = r.at
           /\ LET u == [r EXCEPT !.at = v] IN
                  DOMAIN u = Fields /\ u.reading = r.reading /\ u.kind = r.kind /\ u.inode = r.inode
                  /\ u.eof = r.eof /\ u.socket = r.socket /\ u.replies = r.replies /\ u.at = v
           /\ LET u == [r EXCEPT !.moved = v] IN
                  DOMAIN u = Fields /\ u.reading = r.reading /\ u.kind = r.kind /\ u.inode = r.inode
                  /\ u.eof = r.eof /\ u.socket = r.socket /\ u.replies = r.replies /\ u.at = r.at
           /\ LET u == [r EXCEPT !.replies = v] IN
                  DOMAIN u = Fields /\ u.reading = r.reading /\ u.kind = r.kind /\ u.inode = r.inode
                  /\ u.eof = r.eof /\ u.socket = r.socket /\ u.replies = v /\ u.at = r.at
BY DEF Fields

LEMMA TailHeld ==
    ASSUME NEW st \in [Nat -> Stage], NEW p \in Stage, NEW s, NEW m \in Stage,
           IsSequence(s), s # <<>>, Held(View(p, s), st, p)
    PROVE  /\ IsSequence(Tail(s))
           /\ Held(View(p, Tail(s)), st, p)
           /\ Owner(p, Head(s)) \in Nat
           /\ Owner(p, Head(s)) # 0 =>
                  /\ st[Owner(p, Head(s))] = p
                  /\ Held(View(p, Tail(s)), [st EXCEPT ![Owner(p, Head(s))] = m], p)
<1> DEFINE v == View(p, s)
<1>1. v \in Seq(Nat)
  BY DEF Held
<1>2. View(p, Tail(s)) = Tail(v) /\ v # <<>> /\ v[1] = Owner(p, Head(s))
  BY <1>1, ViewTail
<1>3. IsSequence(Tail(s))
  BY RangeTail
<1>4. Held(v, st, p)
  OBVIOUS
<1> HIDE DEF v
<1>5. Len(v) >= 1
  BY <1>1, <1>2
<1>6. v[1] # 0 => st[v[1]] = p
  BY <1>1, <1>4, <1>5 DEF Held
<1> QED
  BY <1>2, <1>3, <1>4, <1>6, HeldTail

LEMMA AppendHeld ==
    ASSUME NEW st \in [Nat -> Stage], NEW p \in Stage, NEW s, NEW x,
           IsSequence(s), Held(View(p, s), st, p), Owner(p, x) \in Nat
    PROVE  /\ IsSequence(Append(s, x))
           /\ Owner(p, x) = 0 => Held(View(p, Append(s, x)), st, p)
           /\ Owner(p, x) # 0 /\ st[Owner(p, x)] # p =>
                  Held(View(p, Append(s, x)), [st EXCEPT ![Owner(p, x)] = p], p)
<1>1. View(p, s) \in Seq(Nat)
  BY DEF Held
<1>2. View(p, Append(s, x)) = Append(View(p, s), Owner(p, x))
  BY <1>1, ViewAppend
<1>3. IsSequence(Append(s, x))
  BY RangeAppend
<1> DEFINE o == Owner(p, x)
           v == View(p, s)
<1>4. o \in Nat /\ Held(v, st, p)
  OBVIOUS
<1> HIDE DEF o, v
<1>5. /\ o # 0 /\ st[o] # p => Held(Append(v, o), [st EXCEPT ![o] = p], p)
      /\ o = 0 => Held(Append(v, o), st, p)
  BY <1>4, HeldAppend
<1> QED
  BY <1>2, <1>3, <1>5 DEF o, v

(* The new item ends no transfer.                                            *)
LEMMA AppendNone ==
    ASSUME NEW st \in [Nat -> Stage], NEW p \in Stage, NEW s, NEW x,
           IsSequence(s), Held(View(p, s), st, p), Owner(p, x) = 0
    PROVE  /\ IsSequence(Append(s, x))
           /\ Held(View(p, Append(s, x)), st, p)
           /\ Range(Append(s, x)) \subseteq Range(s) \cup {x}
<1>1. Owner(p, x) \in Nat
  OBVIOUS
<1>2. IsSequence(Append(s, x)) /\ Held(View(p, Append(s, x)), st, p)
  BY <1>1, AppendHeld
<1> QED
  BY <1>2, RangeAppend

LEMMA FirstHeld ==
    ASSUME NEW st \in [Nat -> Stage], NEW p \in Stage, NEW s, NEW x, NEW m \in Stage,
           IsSequence(s), s # <<>>, Held(View(p, s), st, p), Owner(p, x) \in Nat
    PROVE  /\ IsSequence(<<x>> \o Tail(s))
           /\ Owner(p, x) = 0 =>
                  /\ Held(View(p, <<x>> \o Tail(s)), st, p)
                  /\ Owner(p, Head(s)) # 0 =>
                         /\ st[Owner(p, Head(s))] = p
                         /\ Held(View(p, <<x>> \o Tail(s)), [st EXCEPT ![Owner(p, Head(s))] = m], p)
           /\ Owner(p, x) # 0 /\ st[Owner(p, x)] # p =>
                  Held(View(p, <<x>> \o Tail(s)), [st EXCEPT ![Owner(p, x)] = p], p)
<1> DEFINE v == View(p, s)
           w == View(p, <<x>> \o Tail(s))
<1>1. v \in Seq(Nat) /\ Held(v, st, p)
  BY DEF Held
<1>2. v # <<>> /\ v[1] = Owner(p, Head(s))
  BY <1>1, ViewTail
<1>3. /\ IsSequence(<<x>> \o Tail(s))
      /\ w \in Seq(Nat) /\ Len(w) = Len(v) /\ w[1] = Owner(p, x)
      /\ \A i \in 2..Len(v) : w[i] = v[i]
  BY <1>1, ViewFirst
<1> HIDE DEF v, w
<1>4. v[1] # 0 => st[v[1]] = p
  <2>1. Len(v) >= 1
    BY <1>1, <1>2
  <2> QED
    BY <1>1, <2>1 DEF Held
<1>5. /\ w[1] = 0 => Held(w, st, p)
      /\ w[1] = 0 /\ v[1] # 0 => Held(w, [st EXCEPT ![v[1]] = m], p)
      /\ w[1] # 0 /\ st[w[1]] # p => Held(w, [st EXCEPT ![w[1]] = p], p)
  BY <1>1, <1>2, <1>3, HeldFirst
<1> QED
  BY <1>2, <1>3, <1>4, <1>5 DEF w

LEMMA EmptyHeld ==
    ASSUME NEW p, NEW st
    PROVE  Held(View(p, <<>>), st, p)
<1>1. DOMAIN <<>> = {} /\ Len(<<>>) = 0 /\ <<>> \in Seq(Nat) /\ <<>> = [i \in {} |-> Owner(p, <<>>[i])]
  OBVIOUS
<1>2. View(p, <<>>) = <<>>
  BY <1>1 DEF View
<1>3. 1..Len(<<>>) = {}
  BY <1>1
<1>4. Held(<<>>, st, p)
  BY <1>1, <1>3 DEF Held
<1> QED
  BY <1>2, <1>4

-----------------------------------------------------------------------------
(* Every transfer has a stage, which says where its end is.                  *)
Places(st) ==
    /\ st \in [Nat -> Stage]
    /\ \A t \in Nat : t \notin DOMAIN transfer => st[t] = "none"
    /\ Held(View("accept", accepts), st, "accept")
    /\ Held(View("file", fileJobs), st, "file")
    /\ Held(View("strand", bufferJobs), st, "strand")
    /\ Held(View("buffer", buffer), st, "buffer")
    /\ \A t \in DOMAIN transfer :
        /\ Reads(transfer[t]) => st[t] = "reads"
        /\ transfer[t].replies \in {0, 1}
        /\ transfer[t].replies = 1 => st[t] = "replied"

LEMMA TransferNumbers ==
    ASSUME Shape
    PROVE  /\ DOMAIN transfer = 1..Len(transfer) /\ Len(transfer) \in Nat
           /\ \A t \in DOMAIN transfer : t \in Nat /\ t # 0
<1>1. PICK S : transfer \in Seq(S)
  BY DEF Shape, WellFormed, IsSequence
<1> QED
  BY <1>1

(* What places hold in the next state.                                       *)
Placed(st, as, fs, bs, os) ==
    /\ Held(View("accept", as), st, "accept")
    /\ Held(View("file", fs), st, "file")
    /\ Held(View("strand", bs), st, "strand")
    /\ Held(View("buffer", os), st, "buffer")

(* A step in which no end moves.                                             *)
LEMMA NoneMoves ==
    ASSUME NEW st, Places(st), DOMAIN transfer' = DOMAIN transfer,
           \A t \in DOMAIN transfer : /\ Reads(transfer'[t]) => Reads(transfer[t])
                                      /\ transfer'[t].replies = transfer[t].replies,
           Placed(st, accepts', fileJobs', bufferJobs', buffer')
    PROVE  Places(st)'
<1>1. \A t \in Nat : t \notin DOMAIN transfer' => st[t] = "none"
  BY DEF Places
<1>2. \A t \in DOMAIN transfer' :
        /\ Reads(transfer'[t]) => st[t] = "reads"
        /\ transfer'[t].replies \in {0, 1}
        /\ transfer'[t].replies = 1 => st[t] = "replied"
  BY DEF Places
<1>3. st \in [Nat -> Stage]
  BY DEF Places
<1> QED
  BY <1>1, <1>2, <1>3 DEF Places, Placed, View, Held, Reads

(* A step in which the end of transfer t moves to place m.                   *)
LEMMA OneMoves ==
    ASSUME NEW st, Places(st), Shape, DOMAIN transfer' = DOMAIN transfer,
           NEW t \in DOMAIN transfer, NEW m \in Stage,
           \A u \in DOMAIN transfer : u # t => /\ Reads(transfer'[u]) => Reads(transfer[u])
                                               /\ transfer'[u].replies = transfer[u].replies,
           Reads(transfer'[t]) => m = "reads",
           transfer'[t].replies = IF m = "replied" THEN 1 ELSE 0,
           Placed([st EXCEPT ![t] = m], accepts', fileJobs', bufferJobs', buffer')
    PROVE  \E s : Places(s)'
<1> DEFINE s == [st EXCEPT ![t] = m]
<1>1. t \in Nat
  BY TransferNumbers
<1>2. s \in [Nat -> Stage] /\ s[t] = m /\ \A u \in Nat : u # t => s[u] = st[u]
  BY <1>1 DEF Places
<1>3. \A u \in DOMAIN transfer : u \in Nat
  BY TransferNumbers
<1> HIDE DEF s
<1>4. \A u \in Nat : u \notin DOMAIN transfer' => s[u] = "none"
  BY <1>2 DEF Places
<1>5. \A u \in DOMAIN transfer' :
        /\ Reads(transfer'[u]) => s[u] = "reads"
        /\ transfer'[u].replies \in {0, 1}
        /\ transfer'[u].replies = 1 => s[u] = "replied"
  <2> SUFFICES ASSUME NEW u \in DOMAIN transfer'
               PROVE /\ Reads(transfer'[u]) => s[u] = "reads"
                     /\ transfer'[u].replies \in {0, 1}
                     /\ transfer'[u].replies = 1 => s[u] = "replied"
    OBVIOUS
  <2>1. CASE u = t
    BY <1>2, <2>1
  <2>2. CASE u # t
    BY <1>2, <1>3, <2>2 DEF Places
  <2> QED
    BY <2>1, <2>2
<1>6. Placed(s, accepts', fileJobs', bufferJobs', buffer')
  BY DEF s
<1>7. Places(s)'
  BY <1>2, <1>4, <1>5, <1>6 DEF Places, Placed, View, Held, Reads
<1> QED
  BY <1>7

(* Places that do not hold the end that moves.                               *)
LEMMA Elsewhere ==
    ASSUME NEW st, Places(st), Shape, NEW t \in DOMAIN transfer, NEW m \in Stage
    PROVE  LET s == [st EXCEPT ![t] = m] IN
           /\ st[t] # "accept" => Held(View("accept", accepts), s, "accept")
           /\ st[t] # "file"   => Held(View("file", fileJobs), s, "file")
           /\ st[t] # "strand" => Held(View("strand", bufferJobs), s, "strand")
           /\ st[t] # "buffer" => Held(View("buffer", buffer), s, "buffer")
<1>1. t \in Nat
  BY TransferNumbers
<1> QED
  BY <1>1, HeldElsewhere DEF Places

-----------------------------------------------------------------------------
(* What steps do to transfers.                                               *)

LEMMA ChangeOne ==
    ASSUME NEW ts, NEW us, NEW t \in DOMAIN ts, NEW r,
           WellFormed(ts), us = [ts EXCEPT ![t] = r], Alike(ts[t], r)
    PROVE  /\ WellFormed(us) /\ Grows(ts, us) /\ DOMAIN us = DOMAIN ts
           /\ us[t] = r
           /\ \A u \in DOMAIN ts : u # t => us[u] = ts[u]
<1>1. /\ us = [u \in DOMAIN ts |-> us[u]] /\ us[t] = r
      /\ \A u \in DOMAIN ts : u # t => us[u] = ts[u]
  OBVIOUS
<1>2. \A u \in DOMAIN ts : Alike(ts[u], us[u])
  <2> SUFFICES ASSUME NEW u \in DOMAIN ts PROVE Alike(ts[u], us[u])
    OBVIOUS
  <2>1. CASE u = t
    BY <1>1, <2>1
  <2>2. CASE u # t
    BY <1>1, <2>2 DEF WellFormed, Alike
  <2> QED
    BY <2>1, <2>2
<1>3. WellFormed(us) /\ Grows(ts, us)
  BY <1>1, <1>2, TransfersAlike
<1> QED
  BY <1>1, <1>3

LEMMA GrowsOn ==
    ASSUME NEW ts, NEW us, NEW ws, Grows(ts, us), Grows(us, ws)
    PROVE  Grows(ts, ws)
BY DEF Grows

LEMMA Replying ==
    ASSUME Shape, NEW ts
    PROVE  /\ WellFormed(ReplyTo(ts)) /\ Grows(transfer, ReplyTo(ts))
           /\ DOMAIN ReplyTo(ts) = DOMAIN transfer
           /\ \A t \in DOMAIN transfer :
               /\ Reads(ReplyTo(ts)[t]) => Reads(transfer[t])
               /\ ReplyTo(ts)[t].replies = IF t \in ts THEN transfer[t].replies + 1 ELSE transfer[t].replies
<1> DEFINE us == ReplyTo(ts)
<1>1. us = [t \in DOMAIN transfer |-> us[t]] /\ DOMAIN us = DOMAIN transfer
  BY DEF ReplyTo
<1>2. ASSUME NEW t \in DOMAIN transfer
      PROVE  /\ Alike(transfer[t], us[t])
             /\ Reads(us[t]) => Reads(transfer[t])
             /\ us[t].replies = IF t \in ts THEN transfer[t].replies + 1 ELSE transfer[t].replies
  <2> DEFINE r == transfer[t]
             u == [r EXCEPT !.replies = r.replies + 1]
  <2>1. DOMAIN r = Fields /\ r.at \in Nat /\ (r.kind = "send" => ~r.reading)
    BY DEF Shape, WellFormed
  <2>2. us[t] = IF t \in ts THEN u ELSE r
    BY DEF ReplyTo
  <2>3. DOMAIN u = Fields /\ u.reading = r.reading /\ u.kind = r.kind /\ u.inode = r.inode
        /\ u.eof = r.eof /\ u.socket = r.socket /\ u.replies = r.replies + 1 /\ u.at = r.at
    BY <2>1, ChangedRecord
  <2> HIDE DEF u, us
  <2>4. CASE t \in ts
    <3>1. us[t] = u
      BY <2>2, <2>4
    <3>2. Alike(r, u)
      BY <2>1, <2>3 DEF Alike
    <3>3. Reads(u) => Reads(r)
      BY <2>3 DEF Reads
    <3> QED
      BY <2>3, <2>4, <3>1, <3>2, <3>3
  <2>5. CASE t \notin ts
    BY <2>1, <2>2, <2>5 DEF Alike
  <2> QED
    BY <2>4, <2>5
<1>3. WellFormed(transfer)
  BY DEF Shape
<1> HIDE DEF us
<1>4. WellFormed(us) /\ Grows(transfer, us)
  BY <1>1, <1>2, <1>3, TransfersAlike
<1> QED
  BY <1>1, <1>2, <1>4 DEF us

LEMMA Closing ==
    ASSUME NEW ts, WellFormed(ts)
    PROVE  /\ WellFormed(CloseData(ts)) /\ Grows(ts, CloseData(ts))
           /\ DOMAIN CloseData(ts) = DOMAIN ts
           /\ \A t \in DOMAIN ts : /\ Reads(CloseData(ts)[t]) => Reads(ts[t])
                                   /\ CloseData(ts)[t].replies = ts[t].replies
<1> DEFINE us == CloseData(ts)
<1>1. us = [t \in DOMAIN ts |-> us[t]] /\ DOMAIN us = DOMAIN ts
  BY DEF CloseData
<1>2. ASSUME NEW t \in DOMAIN ts
      PROVE  /\ Alike(ts[t], us[t])
             /\ Reads(us[t]) => Reads(ts[t])
             /\ us[t].replies = ts[t].replies
  <2> DEFINE r == ts[t]
             u == [r EXCEPT !.socket = "closed"]
  <2>1. DOMAIN r = Fields /\ r.at \in Nat /\ (r.kind = "send" => ~r.reading)
    BY DEF WellFormed
  <2>2. us[t] = (IF t = Count /\ r.socket = "open" THEN u ELSE r)
    BY DEF CloseData
  <2>3. DOMAIN u = Fields /\ u.reading = r.reading /\ u.kind = r.kind /\ u.inode = r.inode
        /\ u.eof = r.eof /\ u.socket = "closed" /\ u.replies = r.replies /\ u.at = r.at
    BY <2>1, ChangedRecord
  <2> HIDE DEF u, us
  <2>4. CASE t = Count /\ r.socket = "open"
    <3>1. us[t] = u
      BY <2>2, <2>4
    <3>2. Alike(r, u)
      BY <2>1, <2>3 DEF Alike
    <3>3. Reads(u) => Reads(r)
      BY <2>3, <2>4 DEF Reads
    <3> QED
      BY <2>3, <3>1, <3>2, <3>3
  <2>5. CASE ~(t = Count /\ r.socket = "open")
    BY <2>1, <2>2, <2>5 DEF Alike
  <2> QED
    BY <2>4, <2>5
<1> HIDE DEF us
<1>3. WellFormed(us) /\ Grows(ts, us)
  BY <1>1, <1>2, TransfersAlike
<1> QED
  BY <1>1, <1>2, <1>3 DEF us

LEMMA NewTransfer ==
    ASSUME NEW ts, NEW r, WellFormed(ts), Alike(r, r), r.kind # "list" => r.inode \in Inode
    PROVE  LET us == Append(ts, r) IN
           /\ WellFormed(us) /\ Grows(ts, us)
           /\ Len(ts) \in Nat /\ DOMAIN ts = 1..Len(ts) /\ DOMAIN us = 1..(Len(ts) + 1)
           /\ us[Len(ts) + 1] = r
           /\ \A t \in DOMAIN ts : us[t] = ts[t]
<1>1. PICK S : ts \in Seq(S)
  BY DEF WellFormed, IsSequence
<1> DEFINE T == S \cup {r}
           us == Append(ts, r)
<1>2. ts \in Seq(T) /\ r \in T
  <2>1. \A i \in 1..Len(ts) : ts[i] \in T
    BY <1>1
  <2>2. ts = [i \in 1..Len(ts) |-> ts[i]] /\ Len(ts) \in Nat
    BY <1>1
  <2> QED
    BY <2>1, <2>2
<1>3. /\ us \in Seq(T) /\ Len(us) = Len(ts) + 1
      /\ \A i \in 1..Len(ts) : us[i] = ts[i]
      /\ us[Len(ts) + 1] = r
  <2> HIDE DEF T
  <2> QED
    BY <1>2, AppendProperties
<1>4. DOMAIN ts = 1..Len(ts) /\ Len(ts) \in Nat
  BY <1>1
<1> HIDE DEF us
<1>5. DOMAIN us = 1..(Len(ts) + 1)
  BY <1>3
<1>6. \A i \in 1..(Len(ts) + 1) : i \in 1..Len(ts) \/ i = Len(ts) + 1
  BY <1>4
<1>7. IsSequence(us)
  BY <1>3 DEF IsSequence
<1>8. WellFormed(us)
  BY <1>3, <1>4, <1>5, <1>6, <1>7 DEF WellFormed, Alike
<1>9. Grows(ts, us)
  BY <1>3, <1>4, <1>5 DEF Grows
<1> QED
  BY <1>3, <1>4, <1>5, <1>8, <1>9 DEF us

-----------------------------------------------------------------------------
(* The steps.                                                                *)

ReplyInv ==
    /\ Inv
    /\ Shape
    /\ renaming \in File \cup {NoFile}
    /\ \E st : Places(st)

Kept == Shape' /\ \E st : Places(st)'

LEMMA UnmovedStep ==
    ASSUME ReplyInv, UNCHANGED <<transfer, accepts, strands, content>>,
           inodes' \in [File -> Inode \cup {NoFile}]
    PROVE  Kept
<1>1. Shape'
  BY DEF ReplyInv, Shape, strands, WellFormed, JobOK, MoreOK, NoEnds, Downloading
<1>2. PICK st : Places(st)
  BY DEF ReplyInv
<1>3. Placed(st, accepts', fileJobs', bufferJobs', buffer')
  BY <1>2 DEF Placed, Places, strands
<1>4. Places(st)'
  BY <1>2, <1>3, NoneMoves
<1> QED
  BY <1>1, <1>4 DEF Kept

(* Waiting accepts are aborted, with a reply for each of them.               *)
LEMMA AbortStep ==
    ASSUME ReplyInv, WellFormed(transfer'), Grows(transfer, transfer'),
           DOMAIN transfer' = DOMAIN transfer,
           \A t \in DOMAIN transfer :
               /\ Reads(transfer'[t]) => Reads(transfer[t])
               /\ transfer'[t].replies = IF t \in Range(accepts) THEN transfer[t].replies + 1 ELSE transfer[t].replies,
           accepts' = <<>>, UNCHANGED <<strands, disk>>
    PROVE  Kept
<1>1. Shape'
  <2>1. IsSequence(accepts') /\ Range(accepts') = {}
    BY DEF IsSequence, Range
  <2>2. UNCHANGED <<fileJobs, bufferJobs, writing, content, inodes>>
    BY DEF strands, disk
  <2> QED
    BY <2>1, <2>2, ShapeStep DEF ReplyInv, Shape
<1>2. PICK st : Places(st)
  BY DEF ReplyInv
<1>3. PICK s \in [Nat -> Stage \cup {st[t] : t \in Nat}] :
        \A t \in Nat : s[t] = IF t \in Range(accepts) THEN "replied" ELSE st[t]
  <2> DEFINE u == [t \in Nat |-> IF t \in Range(accepts) THEN "replied" ELSE st[t]]
  <2>1. u \in [Nat -> Stage \cup {st[t] : t \in Nat}]
    BY DEF Stage
  <2> QED
    BY <2>1
<1>4. Shape /\ \A t \in DOMAIN transfer : t \in Nat /\ t # 0
  BY TransferNumbers DEF ReplyInv
<1>5. \A t \in Range(accepts) : t \in DOMAIN transfer /\ st[t] = "accept"
  <2> SUFFICES ASSUME NEW i \in DOMAIN accepts PROVE accepts[i] \in DOMAIN transfer /\ st[accepts[i]] = "accept"
    BY DEF Range
  <2>1. accepts[i] \in DOMAIN transfer /\ accepts[i] # 0
    BY <1>4 DEF Shape, Range
  <2>2. Held(View("accept", accepts), st, "accept")
    BY <1>2 DEF Places
  <2> DEFINE v == View("accept", accepts)
  <2>3. DOMAIN v = DOMAIN accepts /\ v[i] = accepts[i] /\ v \in Seq(Nat)
    BY <2>2 DEF View, Owner, Held
  <2> HIDE DEF v
  <2>4. i \in 1..Len(v)
    BY <2>3
  <2> QED
    BY <2>1, <2>2, <2>3, <2>4 DEF Held, v
<1>6. s \in [Nat -> Stage]
  <2>1. \A t \in Nat : s[t] \in Stage
    BY <1>2, <1>3 DEF Places, Stage
  <2>2. s = [t \in Nat |-> s[t]]
    BY <1>3
  <2> QED
    BY <2>1, <2>2
<1>7. \A t \in Nat : t \notin DOMAIN transfer' => s[t] = "none"
  BY <1>2, <1>5, <1>3 DEF Places
<1>8. ASSUME NEW v, NEW n, Held(v, st, n), n # "accept" PROVE Held(v, s, n)
  <2>1. \A i \in 1..Len(v) : v[i] \in Nat
    BY <1>8 DEF Held
  <2>2. \A i \in 1..Len(v) : v[i] # 0 => s[v[i]] = n
    BY <1>5, <1>3, <1>8, <2>1 DEF Held
  <2> QED
    BY <1>8, <2>2 DEF Held
<1>9. Placed(s, accepts', fileJobs', bufferJobs', buffer')
  <2>1. Held(View("accept", accepts'), s, "accept")
    BY EmptyHeld
  <2>2. UNCHANGED <<fileJobs, bufferJobs, buffer>>
    BY DEF strands
  <2>3. /\ Held(View("file", fileJobs), st, "file") /\ Held(View("strand", bufferJobs), st, "strand")
        /\ Held(View("buffer", buffer), st, "buffer")
    BY <1>2 DEF Places
  <2>4. /\ Held(View("file", fileJobs), s, "file") /\ Held(View("strand", bufferJobs), s, "strand")
        /\ Held(View("buffer", buffer), s, "buffer")
    BY <1>8, <2>3
  <2> QED
    BY <2>1, <2>2, <2>4 DEF Placed
<1>10. ASSUME NEW t \in DOMAIN transfer'
       PROVE  /\ Reads(transfer'[t]) => s[t] = "reads"
              /\ transfer'[t].replies \in {0, 1}
              /\ transfer'[t].replies = 1 => s[t] = "replied"
  <2>1. t \in Nat /\ t \in DOMAIN transfer
    BY <1>4
  <2>2. /\ Reads(transfer[t]) => st[t] = "reads"
        /\ transfer[t].replies \in {0, 1}
        /\ transfer[t].replies = 1 => st[t] = "replied"
    BY <1>2, <2>1 DEF Places
  <2>3. CASE t \in Range(accepts)
    <3>1. st[t] = "accept" /\ s[t] = "replied"
      BY <1>5, <1>3, <2>1, <2>3
    <3>2. transfer[t].replies = 0 /\ ~Reads(transfer[t])
      BY <2>2, <3>1
    <3>3. transfer'[t].replies = 1 /\ ~Reads(transfer'[t])
      BY <2>1, <2>3, <3>2
    <3> QED
      BY <3>1, <3>3
  <2>4. CASE t \notin Range(accepts)
    BY <1>3, <2>1, <2>2, <2>4
  <2> QED
    BY <2>3, <2>4
<1>11. Places(s)'
  BY <1>6, <1>7, <1>9, <1>10 DEF Places, Placed, View, Held, Reads
<1> QED
  BY <1>1, <1>11 DEF Kept

LEMMA PASVStep ==
    ASSUME ReplyInv, PASV PROVE Kept
<1>1. transfer' = ReplyTo(Range(accepts)) /\ accepts' = <<>> /\ UNCHANGED <<strands, disk>>
  BY DEF PASV, AbortAccepts
<1>2. Shape
  BY DEF ReplyInv
<1> QED
  BY <1>1, <1>2, Replying, AbortStep

LEMMA HangupStep ==
    ASSUME ReplyInv, Hangup PROVE Kept
<1> DEFINE us == ReplyTo(Range(accepts))
<1>1. transfer' = CloseData(us) /\ accepts' = <<>> /\ UNCHANGED <<strands, disk>>
  BY DEF Hangup, AbortAccepts
<1>2. /\ WellFormed(us) /\ Grows(transfer, us) /\ DOMAIN us = DOMAIN transfer
      /\ \A t \in DOMAIN transfer :
             /\ Reads(us[t]) => Reads(transfer[t])
             /\ us[t].replies = IF t \in Range(accepts) THEN transfer[t].replies + 1 ELSE transfer[t].replies
  BY Replying DEF ReplyInv
<1> HIDE DEF us
<1>3. /\ WellFormed(transfer') /\ Grows(us, transfer') /\ DOMAIN transfer' = DOMAIN us
      /\ \A t \in DOMAIN us : (Reads(transfer'[t]) => Reads(us[t])) /\ transfer'[t].replies = us[t].replies
  BY <1>1, <1>2, Closing
<1>4. Grows(transfer, transfer')
  BY <1>2, <1>3, GrowsOn
<1> QED
  BY <1>1, <1>2, <1>3, <1>4, AbortStep

(* A new transfer starts with its accept, or with its reply.                 *)
LEMMA StartStep ==
    ASSUME ReplyInv, NEW kind, NEW f, NEW i, Start(kind, f, i), UNCHANGED strands,
           kind # "list" => i \in Inode,
           NoEnds(content'), inodes' \in [File -> Inode \cup {NoFile}]
    PROVE  Kept
<1> DEFINE r == Opened(kind, f, i)
           q == [r EXCEPT !.replies = 1]
           n == Len(transfer) + 1
<1>1. DOMAIN r = Fields /\ r.kind = kind /\ r.inode = i /\ r.socket = "new" /\ ~r.reading /\ r.replies = 0 /\ r.at = 0
  BY DEF Opened, Fields
<1>2. DOMAIN q = Fields /\ q.kind = kind /\ q.inode = i /\ q.socket = "new" /\ ~q.reading /\ q.replies = 1 /\ q.at = 0
  BY <1>1, ChangedRecord
<1>3. \/ transfer' = Append(transfer, r) /\ accepts' = Append(accepts, n)
      \/ transfer' = Append(transfer, q) /\ accepts' = accepts
  BY DEF Start, Count
<1> HIDE DEF r, q
<1>4. PICK st : Places(st)
  BY DEF ReplyInv
<1>5. Shape /\ WellFormed(transfer) /\ IsSequence(accepts) /\ IsSequence(fileJobs)
  BY DEF ReplyInv, Shape
<1>6. UNCHANGED <<fileJobs, bufferJobs, buffer, writing>>
  BY DEF strands
<1>7. ASSUME NEW u, DOMAIN u = Fields, u.kind = kind, u.inode = i, u.socket = "new", ~u.reading, u.at = 0,
             transfer' = Append(transfer, u)
      PROVE  /\ WellFormed(transfer') /\ Grows(transfer, transfer')
             /\ DOMAIN transfer = 1..Len(transfer) /\ Len(transfer) \in Nat
             /\ DOMAIN transfer' = 1..n /\ transfer'[n] = u /\ ~Reads(u)
             /\ \A t \in DOMAIN transfer : transfer'[t] = transfer[t]
             /\ n \in Nat /\ n # 0 /\ n \notin DOMAIN transfer /\ st[n] = "none"
             /\ DOMAIN transfer' = DOMAIN transfer \cup {n}
  <2>1. Alike(u, u) /\ (u.kind # "list" => u.inode \in Inode)
    BY <1>7 DEF Alike
  <2>2. /\ WellFormed(transfer') /\ Grows(transfer, transfer')
        /\ DOMAIN transfer = 1..Len(transfer) /\ Len(transfer) \in Nat
        /\ DOMAIN transfer' = 1..n /\ transfer'[n] = u
        /\ \A t \in DOMAIN transfer : transfer'[t] = transfer[t]
    BY <1>5, <1>7, <2>1, NewTransfer
  <2>3. ~Reads(u)
    BY <1>7 DEF Reads
  <2>4. n \in Nat /\ n # 0 /\ n \notin DOMAIN transfer /\ DOMAIN transfer' = DOMAIN transfer \cup {n}
    BY <2>2
  <2>5. st[n] = "none"
    BY <1>4, <2>4 DEF Places
  <2> QED
    BY <2>2, <2>3, <2>4, <2>5
<1>8. ASSUME NEW u, NEW m \in {"accept", "replied"}, transfer' = Append(transfer, u),
             DOMAIN u = Fields, u.kind = kind, u.inode = i, u.socket = "new", ~u.reading, u.at = 0,
             u.replies = IF m = "replied" THEN 1 ELSE 0,
             IsSequence(accepts'), Range(accepts') \subseteq Range(accepts) \cup {n},
             Held(View("accept", accepts'), [st EXCEPT ![n] = m], "accept")
      PROVE  Kept
  <2>1. /\ WellFormed(transfer') /\ Grows(transfer, transfer')
        /\ DOMAIN transfer' = 1..n /\ transfer'[n] = u /\ ~Reads(u)
        /\ \A t \in DOMAIN transfer : transfer'[t] = transfer[t]
        /\ n \in Nat /\ n # 0 /\ n \notin DOMAIN transfer /\ st[n] = "none"
        /\ DOMAIN transfer' = DOMAIN transfer \cup {n}
    BY <1>7, <1>8
  <2>2. n \in DOMAIN transfer'
    BY <2>1
  <2>3. Shape'
    BY <1>5, <1>6, <1>8, <2>1, <2>2, ShapeStep DEF Shape
  <2>4. PICK k : k = n
    OBVIOUS
  <2>5. PICK s : s = [st EXCEPT ![k] = m]
    OBVIOUS
  <2>6. s \in [Nat -> Stage] /\ s[k] = m /\ \A x \in Nat : x # k => s[x] = st[x]
    BY <1>4, <2>1, <2>4, <2>5 DEF Places, Stage
  <2>7. Placed(s, accepts', fileJobs', bufferJobs', buffer')
    <3>1. Held(View("accept", accepts'), s, "accept")
      BY <1>8, <2>4, <2>5
    <3>2. /\ Held(View("file", fileJobs), s, "file") /\ Held(View("strand", bufferJobs), s, "strand")
          /\ Held(View("buffer", buffer), s, "buffer")
      BY <1>4, <2>1, <2>4, <2>5, HeldElsewhere DEF Places, Stage
    <3> QED
      BY <1>6, <3>1, <3>2 DEF Placed
  <2>8. \A x \in Nat : x \notin DOMAIN transfer' => s[x] = "none"
    BY <1>4, <2>1, <2>4, <2>6 DEF Places
  <2>9. ASSUME NEW x \in DOMAIN transfer'
        PROVE  /\ Reads(transfer'[x]) => s[x] = "reads"
               /\ transfer'[x].replies \in {0, 1}
               /\ transfer'[x].replies = 1 => s[x] = "replied"
    <3>1. CASE x = k
      BY <1>8, <2>1, <2>4, <2>6, <3>1
    <3>2. CASE x # k
      <4>1. x \in DOMAIN transfer /\ x \in Nat
        BY <2>1, <2>4, <3>2
      <4> QED
        BY <1>4, <2>1, <2>6, <3>2, <4>1 DEF Places
    <3> QED
      BY <3>1, <3>2
  <2>10. Places(s)'
    BY <2>6, <2>7, <2>8, <2>9 DEF Places, Placed, View, Held, Reads
  <2> QED
    BY <2>3, <2>10 DEF Kept
<1>9. CASE transfer' = Append(transfer, r) /\ accepts' = Append(accepts, n)
  <2>1. n \in Nat /\ n # 0 /\ st[n] = "none"
    BY <1>1, <1>7, <1>9
  <2>2. Owner("accept", n) = n
    BY DEF Owner
  <2>3. Held(View("accept", accepts), st, "accept") /\ st \in [Nat -> Stage] /\ "accept" \in Stage
    BY <1>4 DEF Places, Stage
  <2> HIDE DEF n
  <2>4. Held(View("accept", Append(accepts, n)), [st EXCEPT ![n] = "accept"], "accept")
    BY <1>5, <2>1, <2>2, <2>3, AppendHeld
  <2>5. IsSequence(accepts') /\ Range(accepts') \subseteq Range(accepts) \cup {n}
    BY <1>5, <1>9, RangeAppend
  <2> QED
    BY <1>1, <1>8, <1>9, <2>4, <2>5 DEF n
<1>10. CASE transfer' = Append(transfer, q) /\ accepts' = accepts
  <2>1. n \in Nat /\ n # 0 /\ st[n] = "none"
    BY <1>2, <1>7, <1>10
  <2>2. Held(View("accept", accepts), st, "accept") /\ st \in [Nat -> Stage] /\ "replied" \in Stage
    BY <1>4 DEF Places, Stage
  <2> HIDE DEF n
  <2>3. Held(View("accept", accepts), [st EXCEPT ![n] = "replied"], "accept")
    BY <2>1, <2>2, HeldElsewhere
  <2>4. IsSequence(accepts') /\ Range(accepts') \subseteq Range(accepts) \cup {n}
    BY <1>5, <1>10
  <2> QED
    BY <1>2, <1>8, <1>10, <2>3, <2>4 DEF n
<1> QED
  BY <1>3, <1>9, <1>10

LEMMA TransferCommandStep ==
    ASSUME ReplyInv, LIST \/ \E f \in File : RETR(f) \/ STOR(f) \/ APPE(f)
    PROVE  Kept
<1>1. NoEnds(content) /\ inodes \in [File -> Inode \cup {NoFile}] /\ File \subseteq Inode
  BY DEF ReplyInv, Shape, Inode
<1>2. CASE LIST
  <2>1. PICK f : Start("list", f, f) /\ UNCHANGED <<inodes, content>>
    BY <1>2 DEF LIST
  <2>2. UNCHANGED strands
    BY <2>1 DEF Start
  <2> QED
    BY <1>1, <2>1, <2>2, StartStep
<1>3. ASSUME NEW f \in File, RETR(f) PROVE Kept
  <2>1. Start("send", f, inodes[f]) /\ UNCHANGED <<inodes, content>> /\ inodes[f] # NoFile
    BY <1>3 DEF RETR
  <2>2. PICK i : i = inodes[f] /\ i \in Inode
    BY <1>1, <2>1
  <2>3. Start("send", f, i) /\ UNCHANGED strands
    BY <2>1, <2>2 DEF Start, Opened
  <2> QED
    BY <1>1, <2>1, <2>2, <2>3, StartStep
<1>4. ASSUME NEW f \in File, APPE(f) PROVE Kept
  <2>1. Start("receive", f, inodes[f]) /\ UNCHANGED <<inodes, content>> /\ inodes[f] # NoFile
    BY <1>4 DEF APPE
  <2>2. PICK i : i = inodes[f] /\ i \in Inode
    BY <1>1, <2>1
  <2>3. Start("receive", f, i) /\ UNCHANGED strands
    BY <2>1, <2>2 DEF Start, Opened
  <2> QED
    BY <1>1, <2>1, <2>2, <2>3, StartStep
<1>5. ASSUME NEW f \in File, STOR(f) PROVE Kept
  <2>1. PICK i : /\ i = IF inodes[f] = NoFile THEN Count + 1 ELSE inodes[f]
                 /\ inodes' = [inodes EXCEPT ![f] = i]
                 /\ content' = [content EXCEPT ![i] = <<>>]
                 /\ Start("receive", f, i) /\ Count < MaxTransfers
    BY <1>5 DEF STOR
  <2>2. i \in Inode
    <3>1. Len(transfer) \in Nat
      BY TransferNumbers DEF ReplyInv
    <3>2. Count + 1 \in Transfer
      BY <2>1, <3>1, FtpAssumption DEF Count, Transfer
    <3> QED
      BY <1>1, <2>1, <3>2 DEF Inode
  <2>3. NoEnds(content')
    <3>1. IsSequence(<<>>) /\ Range(<<>>) = {}
      BY DEF IsSequence, Range
    <3>2. DOMAIN content' = Inode /\ \A k \in Inode : content'[k] = IF k = i THEN <<>> ELSE content[k]
      BY <1>1, <2>1, <2>2 DEF NoEnds
    <3> QED
      BY <1>1, <3>1, <3>2 DEF NoEnds
  <2>4. inodes' \in [File -> Inode \cup {NoFile}]
    BY <1>1, <2>1, <2>2
  <2>5. UNCHANGED strands
    BY <2>1 DEF Start
  <2> QED
    BY <2>1, <2>2, <2>3, <2>4, <2>5, StartStep
<1> QED
  BY <1>2, <1>3, <1>4, <1>5

(* Posting the end of transfer t, or a block, to the buffer's strand.        *)
LEMMA OwnerOfData ==
    ASSUME NEW t \in Nat, NEW b, NEW more
    PROVE  Owner("strand", AddData(t, b, more)) = IF b = End THEN t ELSE 0
BY DEF Owner, AddData

LEMMA AcceptedStep ==
    ASSUME ReplyInv, Accepted
    PROVE  Kept
<1>1. PICK t : t = Head(accepts)
  OBVIOUS
<1>2. PICK st : Places(st)
  BY DEF ReplyInv
<1>3. /\ Shape /\ accepts # <<>> /\ accepts' = Tail(accepts) /\ IsSequence(accepts)
      /\ WellFormed(transfer) /\ IsSequence(fileJobs) /\ IsSequence(bufferJobs)
      /\ UNCHANGED <<buffer, writing, content, inodes>>
  BY DEF ReplyInv, Inv, Shape, Accepted, disk
<1>4. /\ t \in DOMAIN transfer /\ t \in Nat /\ t # 0
      /\ IsSequence(accepts') /\ Range(accepts') \subseteq Range(accepts)
  BY <1>1, <1>3, RangeTail, TransferNumbers DEF Shape
<1>5. st \in [Nat -> Stage] /\ "accept" \in Stage /\ "reads" \in Stage /\ "file" \in Stage /\ "strand" \in Stage
  BY <1>2 DEF Places, Stage
<1>6. /\ st[t] = "accept"
      /\ Held(View("accept", accepts'), [st EXCEPT ![t] = "reads"], "accept")
  <2>1. Owner("accept", Head(accepts)) = t
    BY <1>1 DEF Owner
  <2>2. Held(View("accept", accepts), st, "accept")
    BY <1>2 DEF Places
  <2> QED
    BY <1>3, <1>4, <1>5, <2>1, <2>2, TailHeld
<1>7. PICK s : s = [st EXCEPT ![t] = "reads"]
  OBVIOUS
<1>8. /\ Held(View("file", fileJobs), s, "file") /\ Held(View("strand", bufferJobs), s, "strand")
      /\ Held(View("buffer", buffer), s, "buffer") /\ Held(View("accept", accepts'), s, "accept")
      /\ s \in [Nat -> Stage]
  BY <1>2, <1>3, <1>4, <1>5, <1>6, <1>7, Elsewhere
<1>9. transfer[t].replies = 0
  BY <1>2, <1>4, <1>6 DEF Places
<1>10. DOMAIN transfer[t] = Fields /\ transfer[t].at \in Nat
  BY <1>3, <1>4 DEF WellFormed
<1> DEFINE o == [transfer[t] EXCEPT !.socket = "open"]
           p == [o EXCEPT !.reading = TRUE]
<1>11. /\ DOMAIN o = Fields /\ o.reading = transfer[t].reading /\ o.kind = transfer[t].kind
       /\ o.inode = transfer[t].inode /\ o.socket = "open" /\ o.replies = 0 /\ o.at \in Nat
       /\ DOMAIN p = Fields /\ p.reading = TRUE /\ p.kind = transfer[t].kind
       /\ p.inode = transfer[t].inode /\ p.socket = "open" /\ p.replies = 0 /\ p.at \in Nat
  <2>1. /\ DOMAIN o = Fields /\ o.reading = transfer[t].reading /\ o.kind = transfer[t].kind
        /\ o.inode = transfer[t].inode /\ o.socket = "open" /\ o.replies = 0 /\ o.at \in Nat
    BY <1>9, <1>10, ChangedRecord
  <2> HIDE DEF o
  <2> QED
    BY <2>1, ChangedRecord
<1>12. ASSUME NEW u, transfer' = [transfer EXCEPT ![t] = u], Alike(transfer[t], u), u.replies = 0,
              IsSequence(fileJobs'), Held(View("file", fileJobs'), s, "file"),
              \A j \in Range(fileJobs') : j \in Range(fileJobs) \/ JobOK(j, transfer'),
              Held(View("strand", bufferJobs'), s, "strand"),
              \A j \in Range(bufferJobs') : j \in Range(bufferJobs) \/ MoreOK(j, transfer')
       PROVE  Kept
  <2>1. /\ WellFormed(transfer') /\ Grows(transfer, transfer') /\ DOMAIN transfer' = DOMAIN transfer
        /\ transfer'[t] = u
        /\ \A x \in DOMAIN transfer : x # t => transfer'[x] = transfer[x]
    BY <1>3, <1>4, <1>12, ChangeOne
  <2>2. Shape'
    BY <1>3, <1>4, <1>12, <2>1, ShapeStep DEF Shape
  <2>3. Placed(s, accepts', fileJobs', bufferJobs', buffer')
    BY <1>3, <1>8, <1>12 DEF Placed
  <2>4. \E x : Places(x)'
    BY <1>2, <1>3, <1>4, <1>5, <1>7, <1>12, <2>1, <2>3, OneMoves
  <2> QED
    BY <2>2, <2>4 DEF Kept
<1>13. CASE transfer[t].kind = "send"
  <2> DEFINE j == ReadData(t)
             f1 == Append(fileJobs, j)
             f2 == Append(f1, j)
             f3 == Append(f2, j)
  <2>1. transfer' = [transfer EXCEPT ![t] = o] /\ fileJobs' = fileJobs \o <<j, j, j>> /\ bufferJobs' = bufferJobs
    BY <1>1, <1>13 DEF Accepted
  <2>2. fileJobs' = f3
    BY <1>3, <2>1, ThreeMore
  <2>3. Owner("file", j) = 0 /\ j.t = t /\ j.op = "read"
    BY DEF Owner, ReadData
  <2> HIDE DEF j
  <2>4. /\ IsSequence(f1) /\ Range(f1) \subseteq Range(fileJobs) \cup {j}
        /\ Held(View("file", f1), s, "file")
    BY <1>3, <1>5, <1>8, <2>3, AppendNone
  <2> HIDE DEF f1
  <2>5. /\ IsSequence(f2) /\ Range(f2) \subseteq Range(f1) \cup {j}
        /\ Held(View("file", f2), s, "file")
    BY <1>5, <1>8, <2>3, <2>4, AppendNone
  <2> HIDE DEF f2
  <2>6. /\ IsSequence(f3) /\ Range(f3) \subseteq Range(f2) \cup {j}
        /\ Held(View("file", f3), s, "file")
    BY <1>5, <1>8, <2>3, <2>5, AppendNone
  <2>7. Alike(transfer[t], o)
    BY <1>3, <1>4, <1>11, <1>13 DEF Alike, WellFormed
  <2>8. JobOK(j, transfer')
    <3>1. t \in DOMAIN transfer' /\ transfer'[t] = o
      BY <1>3, <1>4, <2>1, <2>7, ChangeOne
    <3> HIDE DEF o
    <3> QED
      BY <1>11, <1>13, <2>3, <3>1 DEF JobOK, Downloading
  <2>9. \A x \in Range(f3) : x \in Range(fileJobs) \/ JobOK(x, transfer')
    BY <2>4, <2>5, <2>6, <2>8
  <2> HIDE DEF f3, o
  <2> QED
    BY <1>8, <1>11, <1>12, <2>1, <2>2, <2>6, <2>7, <2>9
<1>14. CASE transfer[t].kind = "list"
  <2> DEFINE j == AddData(t, <<0, 1>>, FALSE)
  <2>1. transfer' = [transfer EXCEPT ![t] = p] /\ bufferJobs' = Append(bufferJobs, j) /\ fileJobs' = fileJobs
    BY <1>1, <1>14 DEF Accepted
  <2>2. Owner("strand", j) = 0
    <3>1. <<0, 1>> # End
      BY DEF End
    <3> QED
      BY <1>4, <3>1, OwnerOfData
  <2>3. ~j.more
    BY DEF AddData
  <2> HIDE DEF j
  <2>4. /\ Held(View("strand", bufferJobs'), s, "strand") /\ Range(bufferJobs') \subseteq Range(bufferJobs) \cup {j}
    BY <1>3, <1>5, <1>8, <2>1, <2>2, AppendNone
  <2>5. Alike(transfer[t], p)
    BY <1>11, <1>14 DEF Alike
  <2>6. MoreOK(j, transfer')
    BY <2>3 DEF MoreOK
  <2> HIDE DEF p
  <2> QED
    BY <1>3, <1>8, <1>11, <1>12, <2>1, <2>4, <2>5, <2>6
<1>15. CASE transfer[t].kind = "receive"
  <2>1. transfer' = [transfer EXCEPT ![t] = p] /\ bufferJobs' = bufferJobs /\ fileJobs' = fileJobs
    BY <1>1, <1>15 DEF Accepted
  <2>2. Alike(transfer[t], p)
    BY <1>11, <1>15 DEF Alike
  <2> HIDE DEF p
  <2> QED
    BY <1>3, <1>8, <1>11, <1>12, <2>1, <2>2
<1> QED
  BY <1>1, <1>13, <1>14, <1>15 DEF Accepted

LEMMA ListEndsStep ==
    ASSUME ReplyInv, NEW t \in DOMAIN transfer, ListEnds(t)
    PROVE  Kept
<1>1. PICK st : Places(st)
  BY DEF ReplyInv
<1> DEFINE r == [transfer[t] EXCEPT !.reading = FALSE]
           j == AddData(t, End, FALSE)
<1>2. /\ transfer[t].kind = "list" /\ transfer[t].reading
      /\ transfer' = [transfer EXCEPT ![t] = r] /\ bufferJobs' = Append(bufferJobs, j)
      /\ UNCHANGED <<accepts, buffer, writing, fileJobs, content, inodes>>
  BY DEF ListEnds, data, disk
<1>3. Shape /\ WellFormed(transfer) /\ IsSequence(bufferJobs) /\ IsSequence(fileJobs) /\ t \in Nat /\ t # 0
  BY TransferNumbers DEF ReplyInv, Inv, Shape
<1>4. st[t] = "reads" /\ st \in [Nat -> Stage] /\ "strand" \in Stage
  BY <1>1, <1>2 DEF Places, Reads, Stage
<1>5. transfer[t].replies = 0 /\ DOMAIN transfer[t] = Fields /\ transfer[t].at \in Nat
  BY <1>1, <1>3, <1>4 DEF Places, WellFormed
<1>6. /\ DOMAIN r = Fields /\ ~r.reading /\ r.kind = "list" /\ r.inode = transfer[t].inode
      /\ r.socket = transfer[t].socket /\ r.replies = 0 /\ r.at \in Nat
  BY <1>2, <1>5, ChangedRecord
<1> HIDE DEF r
<1>7. Alike(transfer[t], r) /\ ~Reads(r)
  BY <1>2, <1>6 DEF Alike, Reads
<1>8. /\ WellFormed(transfer') /\ Grows(transfer, transfer') /\ DOMAIN transfer' = DOMAIN transfer
      /\ transfer'[t] = r /\ \A x \in DOMAIN transfer : x # t => transfer'[x] = transfer[x]
  BY <1>2, <1>3, <1>7, ChangeOne
<1>9. Owner("strand", j) = t /\ ~j.more
  BY <1>3, OwnerOfData DEF AddData
<1> HIDE DEF j
<1>10. Held(View("strand", bufferJobs'), [st EXCEPT ![t] = "strand"], "strand")
       /\ Range(bufferJobs') \subseteq Range(bufferJobs) \cup {j}
  BY <1>1, <1>2, <1>3, <1>4, <1>9, AppendHeld, RangeAppend DEF Places
<1>11. Shape'
  <2>1. MoreOK(j, transfer')
    BY <1>9 DEF MoreOK
  <2>2. IsSequence(accepts)
    BY <1>3 DEF Shape
  <2> QED
    BY <1>2, <1>3, <1>8, <1>10, <2>1, <2>2, ShapeStep DEF Shape
<1>12. Placed([st EXCEPT ![t] = "strand"], accepts', fileJobs', bufferJobs', buffer')
  BY <1>1, <1>2, <1>3, <1>4, <1>10, Elsewhere DEF Placed
<1>13. \E s : Places(s)'
  BY <1>1, <1>3, <1>4, <1>6, <1>7, <1>8, <1>12, OneMoves
<1> QED
  BY <1>11, <1>13 DEF Kept

(* The first job of the file's strand.                                       *)
LEMMA FileHead ==
    ASSUME Shape, fileJobs # <<>>
    PROVE  /\ JobOK(Head(fileJobs), transfer)
           /\ Head(fileJobs).t \in DOMAIN transfer
           /\ Head(fileJobs).t \in Nat /\ Head(fileJobs).t # 0
           /\ IsSequence(fileJobs) /\ IsSequence(Tail(fileJobs))
           /\ Range(Tail(fileJobs)) \subseteq Range(fileJobs)
<1>1. /\ Head(fileJobs) \in Range(fileJobs) /\ IsSequence(Tail(fileJobs))
      /\ Range(Tail(fileJobs)) \subseteq Range(fileJobs)
  BY RangeTail DEF Shape
<1>2. JobOK(Head(fileJobs), transfer)
  BY <1>1 DEF Shape
<1> QED
  BY <1>1, <1>2, TransferNumbers DEF JobOK, Shape

(* The end of transfer t moves to place m, its record becomes r.             *)
LEMMA EndMoves ==
    ASSUME ReplyInv, NEW st, Places(st), NEW t \in DOMAIN transfer, NEW m \in Stage, NEW r,
           transfer' = [transfer EXCEPT ![t] = r], Alike(transfer[t], r),
           Reads(r) => m = "reads", r.replies = IF m = "replied" THEN 1 ELSE 0,
           accepts' = accepts, inodes' = inodes, NoEnds(content'),
           IsSequence(fileJobs'),
           \A j \in Range(fileJobs') : j \in Range(fileJobs) \/ JobOK(j, transfer'),
           \A j \in Range(bufferJobs') : j \in Range(bufferJobs) \/ MoreOK(j, transfer'),
           writing' = writing,
           Placed([st EXCEPT ![t] = m], accepts', fileJobs', bufferJobs', buffer')
    PROVE  Kept
<1>1. Shape /\ WellFormed(transfer) /\ IsSequence(accepts)
  BY DEF ReplyInv, Shape
<1>2. /\ WellFormed(transfer') /\ Grows(transfer, transfer') /\ DOMAIN transfer' = DOMAIN transfer
      /\ transfer'[t] = r /\ \A x \in DOMAIN transfer : x # t => transfer'[x] = transfer[x]
  BY <1>1, ChangeOne
<1>3. Shape'
  BY <1>1, <1>2, ShapeStep DEF Shape
<1>4. \E s : Places(s)'
  BY <1>1, <1>2, OneMoves
<1> QED
  BY <1>3, <1>4 DEF Kept

(* No end moves, and transfers change in fields that do not matter here.     *)
LEMMA EndsStay ==
    ASSUME ReplyInv, NEW st, Places(st),
           WellFormed(transfer'), Grows(transfer, transfer'), DOMAIN transfer' = DOMAIN transfer,
           \A t \in DOMAIN transfer : /\ Reads(transfer'[t]) => Reads(transfer[t])
                                      /\ transfer'[t].replies = transfer[t].replies,
           accepts' = accepts, inodes' = inodes, NoEnds(content'),
           IsSequence(fileJobs'),
           \A j \in Range(fileJobs') : j \in Range(fileJobs) \/ JobOK(j, transfer'),
           \A j \in Range(bufferJobs') : j \in Range(bufferJobs) \/ MoreOK(j, transfer'),
           writing' # NoWrite => writing' = writing \/ MoreOK(writing', transfer'),
           Placed(st, accepts', fileJobs', bufferJobs', buffer')
    PROVE  Kept
<1>1. Shape /\ IsSequence(accepts)
  BY DEF ReplyInv, Shape
<1>2. Shape'
  BY <1>1, ShapeStep DEF Shape
<1>3. Places(st)'
  BY NoneMoves
<1> QED
  BY <1>2, <1>3 DEF Kept

(* ... the case that transfers do not change at all.                         *)
LEMMA TransfersStay ==
    ASSUME ReplyInv, transfer' = transfer
    PROVE  /\ WellFormed(transfer') /\ Grows(transfer, transfer') /\ DOMAIN transfer' = DOMAIN transfer
           /\ \A t \in DOMAIN transfer : /\ Reads(transfer'[t]) => Reads(transfer[t])
                                         /\ transfer'[t].replies = transfer[t].replies
BY TransfersUnchanged DEF ReplyInv, Shape

(* ... and that one of them changes.                                         *)
LEMMA TransferStays ==
    ASSUME ReplyInv, NEW t \in DOMAIN transfer, NEW r, transfer' = [transfer EXCEPT ![t] = r],
           Alike(transfer[t], r), Reads(r) => Reads(transfer[t]), r.replies = transfer[t].replies
    PROVE  /\ WellFormed(transfer') /\ Grows(transfer, transfer') /\ DOMAIN transfer' = DOMAIN transfer
           /\ \A x \in DOMAIN transfer : /\ Reads(transfer'[x]) => Reads(transfer[x])
                                         /\ transfer'[x].replies = transfer[x].replies
<1>1. /\ WellFormed(transfer') /\ Grows(transfer, transfer') /\ DOMAIN transfer' = DOMAIN transfer
      /\ transfer'[t] = r /\ \A x \in DOMAIN transfer : x # t => transfer'[x] = transfer[x]
  BY ChangeOne DEF ReplyInv, Shape
<1> QED
  BY <1>1

LEMMA ReadFileStep ==
    ASSUME ReplyInv, ReadFile
    PROVE  Kept
<1>1. PICK t : t = Head(fileJobs).t
  OBVIOUS
<1>2. PICK st : Places(st)
  BY DEF ReplyInv
<1>3. /\ Shape /\ WellFormed(transfer) /\ fileJobs # <<>> /\ Head(fileJobs).op = "read"
      /\ IsSequence(bufferJobs) /\ NoEnds(content')
      /\ UNCHANGED <<accepts, buffer, writing, content, inodes>>
  BY DEF ReplyInv, Inv, Shape, ReadFile, FileJob, data, disk, NoEnds
<1>4. /\ Downloading(t, transfer)
      /\ t \in DOMAIN transfer /\ t \in Nat /\ t # 0
      /\ IsSequence(fileJobs) /\ IsSequence(Tail(fileJobs)) /\ Range(Tail(fileJobs)) \subseteq Range(fileJobs)
  BY <1>1, <1>3, FileHead DEF JobOK
<1>5. st \in [Nat -> Stage] /\ "file" \in Stage /\ "strand" \in Stage
  BY <1>2 DEF Places, Stage
<1>6. /\ DOMAIN transfer[t] = Fields /\ transfer[t].kind = "send" /\ ~transfer[t].reading
      /\ transfer[t].inode \in Inode /\ transfer[t].socket # "new" /\ transfer[t].at \in Nat
  BY <1>3, <1>4 DEF WellFormed, Downloading
<1>7. Held(View("file", Tail(fileJobs)), st, "file") /\ Owner("file", Head(fileJobs)) = 0
  <2>1. Owner("file", Head(fileJobs)) = 0
    BY <1>3 DEF Owner
  <2> QED
    BY <1>2, <1>3, <1>4, <1>5, <2>1, TailHeld DEF Places
<1> DEFINE blocks == content[transfer[t].inode]
           n == transfer[t].at + 1
<1>8. PICK b : b = IF n <= Len(blocks) THEN blocks[n] ELSE Empty
  OBVIOUS
<1>9. CASE AtEnd(t)
  <2>1. transfer' = transfer /\ bufferJobs' = bufferJobs /\ fileJobs' = Tail(fileJobs)
    BY <1>1, <1>9 DEF ReadFile
  <2>2. Placed(st, accepts', fileJobs', bufferJobs', buffer')
    BY <1>2, <1>3, <1>7, <2>1 DEF Places, Placed
  <2> QED
    BY <1>2, <1>3, <1>4, <2>1, <2>2, TransfersStay, EndsStay
<1>10. CASE ~AtEnd(t)
  <2> DEFINE r == [transfer[t] EXCEPT !.at = n]
             q == [r EXCEPT !.eof = TRUE]
  <2>1. /\ DOMAIN r = Fields /\ r.kind = "send" /\ ~r.reading /\ r.inode = transfer[t].inode
        /\ r.socket = transfer[t].socket /\ r.replies = transfer[t].replies /\ r.eof = transfer[t].eof /\ r.at = n
    BY <1>6, ChangedRecord
  <2>2. /\ DOMAIN q = Fields /\ q.kind = "send" /\ ~q.reading /\ q.inode = transfer[t].inode
        /\ q.socket = transfer[t].socket /\ q.replies = transfer[t].replies /\ q.eof = TRUE /\ q.at = n
    <3> HIDE DEF r
    <3> QED
      BY <2>1, ChangedRecord
  <2>3. \/ /\ n < Len(blocks)
           /\ transfer' = [transfer EXCEPT ![t] = r]
           /\ bufferJobs' = Append(bufferJobs, AddData(t, b, TRUE))
           /\ fileJobs' = Tail(fileJobs)
        \/ /\ n >= Len(blocks)
           /\ transfer' = [transfer EXCEPT ![t] = q]
           /\ bufferJobs' = Append(bufferJobs, AddData(t, b, FALSE))
           /\ fileJobs' = <<PostEnd(t)>> \o Tail(fileJobs)
    BY <1>1, <1>8, <1>10 DEF ReadFile
  <2>4. b # End
    <3>1. IsSequence(blocks) /\ End \notin Range(blocks)
      BY <1>6 DEF ReplyInv, Shape, NoEnds
    <3>2. DOMAIN blocks = 1..Len(blocks) /\ Len(blocks) \in Nat
      <4>1. PICK S : blocks \in Seq(S)
        BY <3>1 DEF IsSequence
      <4> HIDE DEF blocks
      <4> QED
        BY <4>1
    <3>3. n \in Nat /\ n >= 1
      BY <1>6
    <3> HIDE DEF blocks, n
    <3>4. n <= Len(blocks) => blocks[n] \in Range(blocks)
      BY <3>2, <3>3 DEF Range
    <3>5. Empty # End
      BY DEF Empty, End
    <3> QED
      BY <1>8, <3>1, <3>4, <3>5 DEF blocks, n
  <2>5. n \in Nat
    BY <1>6
  <2> HIDE DEF r, q, n, blocks
  <2>6. CASE /\ transfer' = [transfer EXCEPT ![t] = r]
             /\ bufferJobs' = Append(bufferJobs, AddData(t, b, TRUE))
             /\ fileJobs' = Tail(fileJobs)
    <3> DEFINE j == AddData(t, b, TRUE)
    <3>1. Owner("strand", j) = 0 /\ j.t = t
      BY <1>4, <2>4, OwnerOfData DEF AddData
    <3> HIDE DEF j
    <3>2. Held(View("strand", bufferJobs'), st, "strand") /\ Range(bufferJobs') \subseteq Range(bufferJobs) \cup {j}
      BY <1>2, <1>3, <1>5, <2>6, <3>1, AppendNone DEF Places, j
    <3>3. /\ WellFormed(transfer') /\ Grows(transfer, transfer') /\ DOMAIN transfer' = DOMAIN transfer
          /\ \A x \in DOMAIN transfer : /\ Reads(transfer'[x]) => Reads(transfer[x])
                                        /\ transfer'[x].replies = transfer[x].replies
      <4>1. Alike(transfer[t], r) /\ (Reads(r) => Reads(transfer[t])) /\ r.replies = transfer[t].replies
        BY <1>6, <2>1, <2>5 DEF Alike, Reads
      <4> QED
        BY <1>4, <2>6, <4>1, TransferStays
    <3>4. MoreOK(j, transfer')
      BY <1>4, <3>1, <3>3 DEF MoreOK, Downloading, Grows
    <3>5. Placed(st, accepts', fileJobs', bufferJobs', buffer')
      BY <1>2, <1>3, <1>7, <2>6, <3>2 DEF Placed, Places
    <3> QED
      BY <1>2, <1>3, <1>4, <2>6, <3>2, <3>3, <3>4, <3>5, EndsStay
  <2>7. CASE /\ transfer' = [transfer EXCEPT ![t] = q]
             /\ bufferJobs' = Append(bufferJobs, AddData(t, b, FALSE))
             /\ fileJobs' = <<PostEnd(t)>> \o Tail(fileJobs)
    <3> DEFINE j == AddData(t, b, FALSE)
               e == PostEnd(t)
    <3>1. Owner("strand", j) = 0 /\ ~j.more
      BY <1>4, <2>4, OwnerOfData DEF AddData
    <3>2. Owner("file", e) = t /\ e.t = t /\ e.op = "null"
      BY DEF Owner, PostEnd
    <3> HIDE DEF j, e
    <3>3. st[t] = "reads" /\ transfer[t].replies = 0
      <4>1. Reads(transfer[t]) \/ transfer[t].eof
        BY <1>6 DEF Reads
      <4>2. ~transfer[t].eof
        BY <1>10 DEF AtEnd
      <4> QED
        BY <1>2, <1>4, <4>1, <4>2 DEF Places
    <3>4. Held(View("strand", bufferJobs'), st, "strand") /\ Range(bufferJobs') \subseteq Range(bufferJobs) \cup {j}
      BY <1>2, <1>3, <1>5, <2>7, <3>1, AppendNone DEF Places, j
    <3>5. Held(View("strand", bufferJobs'), [st EXCEPT ![t] = "file"], "strand")
      BY <1>4, <1>5, <3>3, <3>4, HeldElsewhere
    <3>6. /\ IsSequence(fileJobs') /\ Range(fileJobs') \subseteq Range(fileJobs) \cup {e}
          /\ Held(View("file", fileJobs'), [st EXCEPT ![t] = "file"], "file")
      <4>1. fileJobs' = <<e>> \o Tail(fileJobs)
        BY <2>7 DEF e
      <4>2. Held(View("file", fileJobs), st, "file")
        BY <1>2 DEF Places
      <4>3. IsSequence(fileJobs') /\ Held(View("file", fileJobs'), [st EXCEPT ![t] = "file"], "file")
        BY <1>3, <1>4, <1>5, <3>2, <3>3, <4>1, <4>2, FirstHeld
      <4> QED
        BY <1>3, <1>4, <4>1, <4>3, RangeFirst
    <3>7. Placed([st EXCEPT ![t] = "file"], accepts', fileJobs', bufferJobs', buffer')
      BY <1>2, <1>3, <1>4, <1>5, <3>3, <3>5, <3>6, Elsewhere DEF Placed
    <3>8. Alike(transfer[t], q) /\ ~Reads(q) /\ q.replies = 0
      BY <1>6, <2>2, <2>5, <3>3 DEF Alike, Reads
    <3>9. JobOK(e, transfer')
      <4>1. DOMAIN transfer' = DOMAIN transfer
        BY <2>7
      <4> QED
        BY <1>4, <3>2, <4>1 DEF JobOK
    <3>10. MoreOK(j, transfer')
      BY <3>1 DEF MoreOK
    <3> QED
      BY <1>2, <1>3, <1>4, <1>5, <2>7, <3>4, <3>6, <3>7, <3>8, <3>9, <3>10, EndMoves
  <2> QED
    BY <2>3, <2>6, <2>7
<1> QED
  BY <1>9, <1>10

LEMMA ReadEndsStep ==
    ASSUME ReplyInv, ReadEnds
    PROVE  Kept
<1>1. PICK t : t = Head(fileJobs).t
  OBVIOUS
<1>2. PICK st : Places(st)
  BY DEF ReplyInv
<1> DEFINE j == AddData(t, End, FALSE)
           s == [st EXCEPT ![t] = "strand"]
<1>3. /\ Shape /\ WellFormed(transfer) /\ fileJobs # <<>> /\ Head(fileJobs).op = "null"
      /\ IsSequence(bufferJobs) /\ NoEnds(content') /\ transfer' = transfer
      /\ bufferJobs' = Append(bufferJobs, j) /\ fileJobs' = Tail(fileJobs)
      /\ UNCHANGED <<accepts, buffer, writing, content, inodes>>
  BY <1>1 DEF ReplyInv, Inv, Shape, ReadEnds, FileJob, data, disk, NoEnds
<1>4. /\ t \in DOMAIN transfer /\ t \in Nat /\ t # 0
      /\ IsSequence(fileJobs) /\ IsSequence(Tail(fileJobs)) /\ Range(Tail(fileJobs)) \subseteq Range(fileJobs)
  BY <1>1, <1>3, FileHead
<1>5. st \in [Nat -> Stage] /\ "file" \in Stage /\ "strand" \in Stage
  BY <1>2 DEF Places, Stage
<1>6. Owner("strand", j) = t /\ ~j.more
  BY <1>4, OwnerOfData DEF AddData
<1>7. Owner("file", Head(fileJobs)) = t
  BY <1>1, <1>3 DEF Owner
<1> HIDE DEF j
<1>8. st[t] = "file" /\ Held(View("file", fileJobs'), s, "file")
  <2>1. Held(View("file", fileJobs), st, "file")
    BY <1>2 DEF Places
  <2> QED
    BY <1>3, <1>4, <1>5, <1>7, <2>1, TailHeld
<1>9. Held(View("strand", bufferJobs'), s, "strand") /\ Range(bufferJobs') \subseteq Range(bufferJobs) \cup {j}
  BY <1>2, <1>3, <1>4, <1>5, <1>6, <1>8, AppendHeld, RangeAppend DEF Places
<1>10. Placed(s, accepts', fileJobs', bufferJobs', buffer')
  BY <1>2, <1>3, <1>4, <1>5, <1>8, <1>9, Elsewhere DEF Placed
<1>11. ~Reads(transfer[t]) /\ transfer[t].replies = 0 /\ Alike(transfer[t], transfer[t])
  BY <1>2, <1>3, <1>4, <1>8 DEF Places, Alike, WellFormed
<1>12. transfer' = [transfer EXCEPT ![t] = transfer[t]]
  <2>1. PICK S : transfer \in Seq(S)
    BY <1>3 DEF WellFormed, IsSequence
  <2> QED
    BY <1>3, <2>1
<1>13. MoreOK(j, transfer')
  BY <1>6 DEF MoreOK
<1> HIDE DEF s
<1>14. PICK r : r = transfer[t]
  OBVIOUS
<1> QED
  BY <1>2, <1>3, <1>4, <1>5, <1>9, <1>10, <1>11, <1>12, <1>13, <1>14, EndMoves DEF s

LEMMA AddToBufferStep ==
    ASSUME ReplyInv, addDataToBufferAndSend
    PROVE  Kept
<1>1. PICK st : Places(st)
  BY DEF ReplyInv
<1>2. PICK h : h = Head(bufferJobs)
  OBVIOUS
<1> DEFINE x == [t |-> h.t, block |-> h.block]
           w == WriteData(h.t, h.more)
           o == Owner("strand", h)
           rest == Tail(bufferJobs)
<1>3. /\ Shape /\ bufferJobs # <<>> /\ h.op = "add" /\ transfer' = transfer
      /\ IsSequence(bufferJobs) /\ IsSequence(buffer) /\ NoEnds(content') /\ IsSequence(fileJobs')
      /\ buffer' = Append(buffer, x)
      /\ bufferJobs' = rest \o (IF WriteInProgress THEN <<>> ELSE <<w>>)
      /\ UNCHANGED <<accepts, fileJobs, writing, content, inodes>>
  BY <1>2 DEF ReplyInv, Inv, Shape, addDataToBufferAndSend, BufferJob, Pushed, data, disk, NoEnds
<1>4. IsSequence(rest) /\ Range(rest) \subseteq Range(bufferJobs) /\ h \in Range(bufferJobs)
  BY <1>2, <1>3, RangeTail
<1>5. bufferJobs' = rest \/ bufferJobs' = Append(rest, w)
  BY <1>3, <1>4, AppendJob
<1>6. Owner("strand", w) = 0 /\ w.t = h.t /\ (w.more = h.more)
  BY DEF Owner, WriteData
<1>7. Owner("buffer", x) = o
  BY <1>3 DEF Owner
<1>8. MoreOK(w, transfer)
  BY <1>3, <1>4, <1>6 DEF Shape, MoreOK
<1> HIDE DEF x, w
<1>9. st \in [Nat -> Stage] /\ "buffer" \in Stage /\ "strand" \in Stage
  BY <1>1 DEF Places, Stage
<1>10. /\ Held(View("strand", rest), st, "strand") /\ o \in Nat
       /\ o # 0 => st[o] = "strand" /\ Held(View("strand", rest), [st EXCEPT ![o] = "buffer"], "strand")
  BY <1>1, <1>2, <1>3, <1>9, TailHeld DEF Places
<1> HIDE DEF o, rest
<1>11. Range(bufferJobs') \subseteq Range(bufferJobs) \cup {w}
  <2>1. CASE bufferJobs' = rest
    BY <1>4, <2>1
  <2>2. CASE bufferJobs' = Append(rest, w)
    BY <1>4, <2>2, RangeAppend
  <2> QED
    BY <1>5, <2>1, <2>2
<1>12. ASSUME NEW s \in [Nat -> Stage], Held(View("strand", rest), s, "strand")
       PROVE  Held(View("strand", bufferJobs'), s, "strand")
  <2>1. CASE bufferJobs' = rest
    BY <1>12, <2>1
  <2>2. CASE bufferJobs' = Append(rest, w)
    BY <1>4, <1>6, <1>9, <1>12, <2>2, AppendNone
  <2> QED
    BY <1>5, <2>1, <2>2
<1>13. CASE o = 0
  <2>1. Held(View("buffer", buffer'), st, "buffer")
    BY <1>1, <1>3, <1>7, <1>9, <1>13, AppendNone DEF Places
  <2>2. Placed(st, accepts', fileJobs', bufferJobs', buffer')
    BY <1>1, <1>3, <1>9, <1>10, <1>12, <2>1 DEF Placed, Places
  <2> QED
    BY <1>1, <1>3, <1>8, <1>11, <2>2, TransfersStay, EndsStay
<1>14. CASE o # 0
  <2>1. o \in DOMAIN transfer /\ st[o] = "strand"
    BY <1>1, <1>10, <1>14 DEF Places
  <2>2. PICK t \in DOMAIN transfer : t = o
    BY <2>1
  <2>3. PICK s : s = [st EXCEPT ![t] = "buffer"]
    OBVIOUS
  <2>4. s \in [Nat -> Stage]
    BY <1>9, <2>3
  <2>5. Held(View("strand", bufferJobs'), s, "strand")
    BY <1>10, <1>12, <1>14, <2>2, <2>3, <2>4
  <2>6. Held(View("buffer", buffer'), s, "buffer")
    <3>1. Held(View("buffer", buffer), st, "buffer")
      BY <1>1 DEF Places
    <3> QED
      BY <1>3, <1>7, <1>9, <1>10, <1>14, <2>1, <2>2, <2>3, <3>1, AppendHeld
  <2>7. Placed(s, accepts', fileJobs', bufferJobs', buffer')
    BY <1>1, <1>3, <1>9, <2>1, <2>2, <2>3, <2>5, <2>6, Elsewhere DEF Placed
  <2>8. ~Reads(transfer[t]) /\ transfer[t].replies = 0 /\ Alike(transfer[t], transfer[t])
    BY <1>1, <1>3, <2>1, <2>2 DEF Places, Alike, WellFormed, Shape
  <2>9. transfer' = [transfer EXCEPT ![t] = transfer[t]]
    <3>1. PICK S : transfer \in Seq(S)
      BY <1>3 DEF Shape, WellFormed, IsSequence
    <3> QED
      BY <1>3, <3>1
  <2>10. PICK r : r = transfer[t]
    OBVIOUS
  <2> QED
    BY <1>1, <1>3, <1>8, <1>9, <1>11, <2>3, <2>7, <2>8, <2>9, <2>10, EndMoves
<1> QED
  BY <1>13, <1>14

(* The end of a transmission leaves the buffer with its reply.               *)
LEMMA WriteToSocketStep ==
    ASSUME ReplyInv, writeDataToSocket
    PROVE  Kept
<1>1. PICK st : Places(st)
  BY DEF ReplyInv
<1>2. PICK h : h = Head(bufferJobs)
  OBVIOUS
<1>3. /\ Shape /\ bufferJobs # <<>> /\ h.op = "send" /\ bufferJobs' = Tail(bufferJobs)
      /\ IsSequence(bufferJobs) /\ IsSequence(buffer) /\ NoEnds(content') /\ IsSequence(fileJobs')
      /\ UNCHANGED <<accepts, fileJobs, content, inodes>>
  BY <1>2 DEF ReplyInv, Inv, Shape, writeDataToSocket, BufferJob, data, disk, NoEnds
<1>4. buffer # <<>>
  BY <1>2, <1>3, LastWriter DEF ReplyInv, WriteOps
<1>5. Range(bufferJobs') \subseteq Range(bufferJobs) /\ h \in Range(bufferJobs)
  BY <1>2, <1>3, RangeTail
<1>6. st \in [Nat -> Stage] /\ "buffer" \in Stage /\ "strand" \in Stage /\ "replied" \in Stage
  BY <1>1 DEF Places, Stage
<1>7. Held(View("strand", bufferJobs'), st, "strand")
  BY <1>1, <1>2, <1>3, <1>6, TailHeld DEF Places
<1>8. CASE Head(buffer).block # End
  <2>1. /\ writing' = [t |-> h.t, more |-> h.more] /\ buffer' = buffer /\ transfer' = transfer
    BY <1>2, <1>8 DEF writeDataToSocket, IsEnd
  <2>2. MoreOK(writing', transfer')
    BY <1>3, <1>5, <2>1 DEF Shape, MoreOK
  <2>3. Placed(st, accepts', fileJobs', bufferJobs', buffer')
    BY <1>1, <1>3, <1>7, <2>1 DEF Placed, Places
  <2> QED
    BY <1>1, <1>3, <1>5, <2>1, <2>2, <2>3, TransfersStay, EndsStay
<1>9. CASE Head(buffer).block = End
  <2>1. PICK t : t = Head(buffer).t
    OBVIOUS
  <2>2. buffer' = Tail(buffer) /\ transfer' = ReplyTo({t}) /\ writing' = writing
    BY <1>9, <2>1 DEF writeDataToSocket, IsEnd
  <2>3. Owner("buffer", Head(buffer)) = t
    BY <1>9, <2>1 DEF Owner
  <2>4. /\ t \in Nat /\ Held(View("buffer", buffer'), st, "buffer")
        /\ t # 0 => st[t] = "buffer" /\ Held(View("buffer", buffer'), [st EXCEPT ![t] = "replied"], "buffer")
    <3>1. Held(View("buffer", buffer), st, "buffer")
      BY <1>1 DEF Places
    <3> QED
      BY <1>3, <1>4, <1>6, <2>2, <2>3, <3>1, TailHeld
  <2>5. /\ WellFormed(transfer') /\ Grows(transfer, transfer') /\ DOMAIN transfer' = DOMAIN transfer
        /\ \A u \in DOMAIN transfer :
            /\ Reads(transfer'[u]) => Reads(transfer[u])
            /\ transfer'[u].replies = IF u \in {t} THEN transfer[u].replies + 1 ELSE transfer[u].replies
    BY <1>3, <2>2, Replying
  <2>6. CASE t = 0
    <3>1. \A u \in DOMAIN transfer : transfer'[u].replies = transfer[u].replies
      BY <1>3, <2>5, <2>6, TransferNumbers
    <3>2. Placed(st, accepts', fileJobs', bufferJobs', buffer')
      BY <1>1, <1>3, <1>7, <2>4 DEF Placed, Places
    <3> QED
      BY <1>1, <1>3, <1>5, <2>2, <2>5, <3>1, <3>2, EndsStay
  <2>7. CASE t # 0
    <3>1. t \in DOMAIN transfer /\ st[t] = "buffer"
      BY <1>1, <2>4, <2>7 DEF Places
    <3>2. transfer[t].replies = 0 /\ ~Reads(transfer[t])
      BY <1>1, <3>1 DEF Places
    <3>3. transfer'[t].replies = 1 /\ ~Reads(transfer'[t])
      BY <2>5, <3>1, <3>2
    <3>4. Held(View("strand", bufferJobs'), [st EXCEPT ![t] = "replied"], "strand")
      BY <1>6, <1>7, <2>4, <3>1, HeldElsewhere
    <3>5. Placed([st EXCEPT ![t] = "replied"], accepts', fileJobs', bufferJobs', buffer')
      BY <1>1, <1>3, <1>6, <2>4, <2>7, <3>1, <3>4, Elsewhere DEF Placed
    <3>6. Shape'
      BY <1>3, <1>5, <2>2, <2>5, ShapeStep DEF Shape
    <3>7. \E s : Places(s)'
      BY <1>1, <1>3, <1>6, <2>5, <3>1, <3>3, <3>5, OneMoves
    <3> QED
      BY <3>6, <3>7 DEF Kept
  <2> QED
    BY <2>6, <2>7
<1> QED
  BY <1>8, <1>9

(* The completion of a write of the data socket.                             *)
LEMMA SendingKeeps ==
    ASSUME ReplyInv, Sending
    PROVE  Kept
<1>1. PICK st : Places(st)
  BY DEF ReplyInv
<1>2. PICK t : t = writing.t
  OBVIOUS
<1>3. PICK ok : ok = (transfer[t].socket = "open")
  OBVIOUS
<1>4. PICK b : b = Append(transfer[t].moved, Head(buffer).block)
  OBVIOUS
<1> DEFINE j == Sent(t, writing.more, ok)
           r == [transfer[t] EXCEPT !.moved = b]
<1>5. /\ Shape /\ WellFormed(transfer) /\ IsSequence(bufferJobs) /\ IsSequence(fileJobs')
      /\ NoEnds(content') /\ writing # NoWrite /\ writing' = NoWrite
      /\ bufferJobs' = Append(bufferJobs, j)
      /\ UNCHANGED <<accepts, buffer, fileJobs, content, inodes>>
  BY <1>2, <1>3 DEF ReplyInv, Inv, Shape, Sending, data, disk, NoEnds
<1>6. transfer' = transfer \/ transfer' = [transfer EXCEPT ![t] = r]
  BY <1>2, <1>3, <1>4 DEF Sending
<1>7. Owner("strand", j) = 0 /\ j.t = t /\ (j.more = writing.more)
  BY DEF Owner, Sent
<1> HIDE DEF j
<1>8. MoreOK(j, transfer)
  BY <1>2, <1>5, <1>7 DEF Shape, MoreOK
<1>9. st \in [Nat -> Stage] /\ "strand" \in Stage
  BY <1>1 DEF Places, Stage
<1>10. Held(View("strand", bufferJobs'), st, "strand") /\ Range(bufferJobs') \subseteq Range(bufferJobs) \cup {j}
  BY <1>1, <1>5, <1>7, <1>9, AppendNone DEF Places
<1>11. Placed(st, accepts', fileJobs', bufferJobs', buffer')
  BY <1>1, <1>5, <1>10 DEF Placed, Places
<1>12. /\ WellFormed(transfer') /\ Grows(transfer, transfer') /\ DOMAIN transfer' = DOMAIN transfer
       /\ \A x \in DOMAIN transfer : /\ Reads(transfer'[x]) => Reads(transfer[x])
                                     /\ transfer'[x].replies = transfer[x].replies
  <2>1. CASE transfer' = transfer
    BY <2>1, TransfersStay
  <2>2. CASE t \notin DOMAIN transfer /\ transfer' = [transfer EXCEPT ![t] = r]
    <3>1. PICK S : transfer \in Seq(S)
      BY <1>5 DEF WellFormed, IsSequence
    <3>2. transfer' = transfer
      BY <2>2, <3>1
    <3> QED
      BY <3>2, TransfersStay
  <2>3. CASE t \in DOMAIN transfer /\ transfer' = [transfer EXCEPT ![t] = r]
    <3>1. DOMAIN transfer[t] = Fields /\ transfer[t].at \in Nat /\ (transfer[t].kind = "send" => ~transfer[t].reading)
      BY <1>5, <2>3 DEF WellFormed
    <3>2. /\ DOMAIN r = Fields /\ r.reading = transfer[t].reading /\ r.kind = transfer[t].kind
          /\ r.inode = transfer[t].inode /\ r.eof = transfer[t].eof /\ r.socket = transfer[t].socket
          /\ r.replies = transfer[t].replies /\ r.at = transfer[t].at
      BY <3>1, ChangedRecord
    <3> HIDE DEF r
    <3>3. Alike(transfer[t], r) /\ (Reads(r) => Reads(transfer[t]))
      BY <3>1, <3>2 DEF Alike, Reads
    <3> QED
      BY <2>3, <3>2, <3>3, TransferStays
  <2> QED
    BY <1>6, <2>1, <2>2, <2>3
<1>13. MoreOK(j, transfer')
  BY <1>8, <1>12 DEF MoreOK, Downloading, Grows
<1> QED
  BY <1>1, <1>5, <1>10, <1>11, <1>12, <1>13, EndsStay

LEMMA WrittenKeeps ==
    ASSUME ReplyInv, Written
    PROVE  Kept
<1>1. PICK st : Places(st)
  BY DEF ReplyInv
<1>2. PICK h : h = Head(bufferJobs)
  OBVIOUS
<1> DEFINE w == WriteData(h.t, h.more)
           f == ReadData(h.t)
           rest == Tail(bufferJobs)
<1>3. /\ Shape /\ bufferJobs # <<>> /\ h.op = "sent" /\ transfer' = transfer
      /\ IsSequence(bufferJobs) /\ IsSequence(buffer) /\ IsSequence(fileJobs) /\ NoEnds(content')
      /\ buffer' = Tail(buffer)
      /\ fileJobs' = (IF h.ok /\ h.more THEN Append(fileJobs, f) ELSE fileJobs)
      /\ bufferJobs' = rest \o (IF h.ok /\ buffer' # <<>> THEN <<w>> ELSE <<>>)
      /\ UNCHANGED <<accepts, writing, content, inodes>>
  BY <1>2 DEF ReplyInv, Inv, Shape, Written, BufferJob, NextWrite, data, disk, NoEnds
<1>4. buffer # <<>>
  BY <1>2, <1>3, LastWriter DEF ReplyInv, WriteOps
<1>5. IsSequence(rest) /\ Range(rest) \subseteq Range(bufferJobs) /\ h \in Range(bufferJobs)
  BY <1>2, <1>3, RangeTail
<1>6. bufferJobs' = rest \/ bufferJobs' = Append(rest, w)
  BY <1>3, <1>5, AppendJob
<1>7. /\ Owner("strand", w) = 0 /\ w.t = h.t /\ (w.more = h.more)
      /\ Owner("file", f) = 0 /\ f.t = h.t /\ f.op = "read"
  BY DEF Owner, WriteData, ReadData
<1>8. MoreOK(h, transfer) /\ MoreOK(w, transfer)
  BY <1>3, <1>5, <1>7 DEF Shape, MoreOK
<1>9. h.more => JobOK(f, transfer)
  BY <1>7, <1>8 DEF MoreOK, JobOK, Downloading
<1> HIDE DEF w, f
<1>10. st \in [Nat -> Stage] /\ "buffer" \in Stage /\ "strand" \in Stage /\ "file" \in Stage
  BY <1>1 DEF Places, Stage
<1>11. Held(View("strand", rest), st, "strand")
  BY <1>1, <1>2, <1>3, <1>10, TailHeld DEF Places
<1> HIDE DEF rest
<1>12. Held(View("strand", bufferJobs'), st, "strand") /\ Range(bufferJobs') \subseteq Range(bufferJobs) \cup {w}
  <2>1. CASE bufferJobs' = rest
    BY <1>5, <1>11, <2>1
  <2>2. CASE bufferJobs' = Append(rest, w)
    BY <1>5, <1>7, <1>10, <1>11, <2>2, AppendNone
  <2> QED
    BY <1>6, <2>1, <2>2
<1>13. Held(View("buffer", buffer'), st, "buffer")
  BY <1>1, <1>3, <1>4, <1>10, TailHeld DEF Places
<1>14. /\ Held(View("file", fileJobs'), st, "file") /\ IsSequence(fileJobs')
       /\ \A j \in Range(fileJobs') : j \in Range(fileJobs) \/ JobOK(j, transfer)
  <2>1. Held(View("file", fileJobs), st, "file")
    BY <1>1 DEF Places
  <2>2. CASE h.ok /\ h.more
    BY <1>3, <1>7, <1>9, <1>10, <2>1, <2>2, AppendNone
  <2>3. CASE ~(h.ok /\ h.more)
    BY <1>3, <2>1, <2>3
  <2> QED
    BY <2>2, <2>3
<1>15. Placed(st, accepts', fileJobs', bufferJobs', buffer')
  BY <1>1, <1>3, <1>12, <1>13, <1>14 DEF Placed, Places
<1> QED
  BY <1>1, <1>3, <1>8, <1>12, <1>14, <1>15, TransfersStay, EndsStay

-----------------------------------------------------------------------------
(* Uploads.                                                                  *)

(* An upload that reads: its end is with the read, whose data is not an end. *)
LEMMA Receiving ==
    ASSUME ReplyInv, NEW t \in DOMAIN transfer, transfer[t].kind = "receive", transfer[t].reading,
           NEW st, Places(st)
    PROVE  /\ Shape /\ WellFormed(transfer) /\ IsSequence(fileJobs) /\ NoEnds(content)
           /\ t \in Nat /\ t # 0
           /\ st[t] = "reads" /\ st \in [Nat -> Stage] /\ "file" \in Stage
           /\ transfer[t].replies = 0 /\ DOMAIN transfer[t] = Fields /\ transfer[t].at \in Nat
           /\ Held(View("file", fileJobs), st, "file")
<1>1. Shape /\ WellFormed(transfer) /\ IsSequence(fileJobs) /\ NoEnds(content) /\ t \in Nat /\ t # 0
  BY TransferNumbers DEF ReplyInv, Shape
<1>2. st[t] = "reads" /\ st \in [Nat -> Stage] /\ "file" \in Stage
  BY DEF Places, Reads, Stage
<1>3. transfer[t].replies = 0 /\ DOMAIN transfer[t] = Fields /\ transfer[t].at \in Nat
  BY <1>1, <1>2 DEF Places, WellFormed
<1>4. Held(View("file", fileJobs), st, "file")
  BY DEF Places
<1> QED
  BY <1>1, <1>2, <1>3, <1>4

(* The end moves from the read to a job of the file's strand.                *)
LEMMA ReceiveMoves ==
    ASSUME ReplyInv, NEW t \in DOMAIN transfer, transfer[t].kind = "receive", transfer[t].reading,
           NEW st, Places(st), NEW r, transfer' = [transfer EXCEPT ![t] = r],
           DOMAIN r = Fields, ~r.reading, r.kind = "receive", r.inode = transfer[t].inode,
           transfer[t].socket # "new" => r.socket # "new", r.replies = 0, r.at \in Nat,
           UNCHANGED <<accepts, buffer, writing, bufferJobs, content, inodes>>,
           IsSequence(fileJobs'),
           \A j \in Range(fileJobs') : j \in Range(fileJobs) \/ JobOK(j, transfer),
           Held(View("file", fileJobs'), [st EXCEPT ![t] = "file"], "file")
    PROVE  Kept
<1>1. /\ Shape /\ WellFormed(transfer) /\ NoEnds(content) /\ st[t] = "reads" /\ "file" \in Stage
  BY Receiving
<1>2. Alike(transfer[t], r) /\ ~Reads(r)
  BY DEF Alike, Reads
<1>3. Placed([st EXCEPT ![t] = "file"], accepts', fileJobs', bufferJobs', buffer')
  BY <1>1, Elsewhere DEF Placed
<1>4. NoEnds(content')
  BY <1>1 DEF NoEnds
<1>5. Grows(transfer, transfer')
  BY <1>1, <1>2, ChangeOne
<1>6. \A j : JobOK(j, transfer) => JobOK(j, transfer')
  BY <1>5 DEF JobOK, Downloading, Grows
<1>7. \A j \in Range(bufferJobs') : j \in Range(bufferJobs)
  OBVIOUS
<1> QED
  BY <1>1, <1>2, <1>3, <1>4, <1>6, <1>7, EndMoves

LEMMA ReceiveFailsStep ==
    ASSUME ReplyInv, NEW t \in DOMAIN transfer, ReceiveFails(t)
    PROVE  Kept
<1>1. PICK st : Places(st)
  BY DEF ReplyInv
<1> DEFINE r == [transfer[t] EXCEPT !.reading = FALSE]
           j == EndReceiving(t)
<1>2. /\ transfer[t].kind = "receive" /\ transfer[t].reading
      /\ transfer' = [transfer EXCEPT ![t] = r] /\ fileJobs' = Append(fileJobs, j)
      /\ UNCHANGED <<accepts, buffer, writing, bufferJobs, content, inodes>>
  BY DEF ReceiveFails, data, disk
<1>3. /\ Shape /\ WellFormed(transfer) /\ IsSequence(fileJobs)
      /\ t \in Nat /\ t # 0 /\ st[t] = "reads" /\ st \in [Nat -> Stage] /\ "file" \in Stage
      /\ transfer[t].replies = 0 /\ DOMAIN transfer[t] = Fields /\ transfer[t].at \in Nat
      /\ Held(View("file", fileJobs), st, "file")
  BY <1>1, <1>2, Receiving
<1>4. /\ DOMAIN r = Fields /\ ~r.reading /\ r.kind = "receive" /\ r.inode = transfer[t].inode
      /\ r.socket = transfer[t].socket /\ r.replies = 0 /\ r.at \in Nat
  BY <1>2, <1>3, ChangedRecord
<1>5. Owner("file", j) = t /\ JobOK(j, transfer)
  BY DEF Owner, EndReceiving, JobOK
<1> HIDE DEF r, j
<1>6. /\ IsSequence(fileJobs') /\ Held(View("file", fileJobs'), [st EXCEPT ![t] = "file"], "file")
      /\ Range(fileJobs') \subseteq Range(fileJobs) \cup {j}
  BY <1>2, <1>3, <1>5, AppendHeld, RangeAppend
<1> QED
  BY <1>1, <1>2, <1>4, <1>5, <1>6, ReceiveMoves

LEMMA BlockIsNoEnd ==
    ASSUME NEW t, NEW n PROVE <<t, n>> # End
BY DEF End

LEMMA ReceiveBlockStep ==
    ASSUME ReplyInv, NEW t \in DOMAIN transfer, ReceiveBlock(t)
    PROVE  Kept
<1>1. PICK st : Places(st)
  BY DEF ReplyInv
<1>2. PICK b : b = <<t, Len(transfer[t].moved) + 1>> /\ b # End
  BY BlockIsNoEnd
<1>3. PICK m : m = Append(transfer[t].moved, b)
  OBVIOUS
<1> DEFINE q == [transfer[t] EXCEPT !.moved = m]
           r == [q EXCEPT !.reading = FALSE]
           j == WriteFile(t, b, TRUE)
<1>4. /\ transfer[t].kind = "receive" /\ transfer[t].reading
      /\ transfer' = [transfer EXCEPT ![t] = r] /\ fileJobs' = Append(fileJobs, j)
      /\ UNCHANGED <<accepts, buffer, writing, bufferJobs, content, inodes>>
  BY <1>2, <1>3 DEF ReceiveBlock, data, disk
<1>5. /\ Shape /\ WellFormed(transfer) /\ IsSequence(fileJobs)
      /\ t \in Nat /\ t # 0 /\ st[t] = "reads" /\ st \in [Nat -> Stage] /\ "file" \in Stage
      /\ transfer[t].replies = 0 /\ DOMAIN transfer[t] = Fields /\ transfer[t].at \in Nat
      /\ Held(View("file", fileJobs), st, "file")
  BY <1>1, <1>4, Receiving
<1>6. /\ DOMAIN q = Fields /\ q.kind = "receive" /\ q.inode = transfer[t].inode
      /\ q.socket = transfer[t].socket /\ q.replies = 0 /\ q.at \in Nat
  BY <1>4, <1>5, ChangedRecord
<1> HIDE DEF q
<1>7. /\ DOMAIN r = Fields /\ ~r.reading /\ r.kind = "receive" /\ r.inode = transfer[t].inode
      /\ r.socket = transfer[t].socket /\ r.replies = 0 /\ r.at \in Nat
  BY <1>6, ChangedRecord
<1>8. Owner("file", j) = t /\ JobOK(j, transfer)
  BY <1>2, <1>4 DEF Owner, WriteFile, JobOK
<1> HIDE DEF r, j
<1>9. /\ IsSequence(fileJobs') /\ Held(View("file", fileJobs'), [st EXCEPT ![t] = "file"], "file")
      /\ Range(fileJobs') \subseteq Range(fileJobs) \cup {j}
  BY <1>4, <1>5, <1>8, AppendHeld, RangeAppend
<1> QED
  BY <1>1, <1>4, <1>7, <1>8, <1>9, ReceiveMoves

LEMMA ReceiveLastStep ==
    ASSUME ReplyInv, NEW t \in DOMAIN transfer, ReceiveLast(t)
    PROVE  Kept
<1>1. PICK st : Places(st)
  BY DEF ReplyInv
<1>2. PICK b : b = <<t, Len(transfer[t].moved) + 1>> /\ b # End
  BY BlockIsNoEnd
<1>3. PICK m : m = Append(transfer[t].moved, b)
  OBVIOUS
<1> DEFINE p == [transfer[t] EXCEPT !.moved = m]
           q == [p EXCEPT !.reading = FALSE]
           r == [q EXCEPT !.socket = "gone"]
           w == WriteFile(t, b, FALSE)
           e == EndReceiving(t)
           f1 == Append(fileJobs, w)
           f2 == Append(f1, e)
<1>4. /\ transfer[t].kind = "receive" /\ transfer[t].reading
      /\ transfer' = [transfer EXCEPT ![t] = r] /\ fileJobs' = fileJobs \o <<w, e>>
      /\ UNCHANGED <<accepts, buffer, writing, bufferJobs, content, inodes>>
  BY <1>2, <1>3 DEF ReceiveLast, LastJobs, data, disk
<1>5. /\ Shape /\ WellFormed(transfer) /\ IsSequence(fileJobs)
      /\ t \in Nat /\ t # 0 /\ st[t] = "reads" /\ st \in [Nat -> Stage] /\ "file" \in Stage
      /\ transfer[t].replies = 0 /\ DOMAIN transfer[t] = Fields /\ transfer[t].at \in Nat
      /\ Held(View("file", fileJobs), st, "file")
  BY <1>1, <1>4, Receiving
<1>6. /\ DOMAIN p = Fields /\ p.kind = "receive" /\ p.inode = transfer[t].inode
      /\ p.socket = transfer[t].socket /\ p.replies = 0 /\ p.at \in Nat
  BY <1>4, <1>5, ChangedRecord
<1> HIDE DEF p
<1>7. /\ DOMAIN q = Fields /\ ~q.reading /\ q.kind = "receive" /\ q.inode = transfer[t].inode
      /\ q.replies = 0 /\ q.at \in Nat
  BY <1>6, ChangedRecord
<1> HIDE DEF q
<1>8. /\ DOMAIN r = Fields /\ ~r.reading /\ r.kind = "receive" /\ r.inode = transfer[t].inode
      /\ r.socket # "new" /\ r.replies = 0 /\ r.at \in Nat
  BY <1>7, ChangedRecord
<1>9. /\ Owner("file", w) = 0 /\ JobOK(w, transfer)
      /\ Owner("file", e) = t /\ JobOK(e, transfer)
  BY <1>2, <1>4 DEF Owner, WriteFile, EndReceiving, JobOK
<1> HIDE DEF r, w, e
<1>10. fileJobs' = f2
  BY <1>4, <1>5, TwoMore
<1>11. IsSequence(f1) /\ Held(View("file", f1), st, "file") /\ Range(f1) \subseteq Range(fileJobs) \cup {w}
  BY <1>5, <1>9, AppendNone
<1> HIDE DEF f1
<1>12. /\ IsSequence(f2) /\ Held(View("file", f2), [st EXCEPT ![t] = "file"], "file")
       /\ Range(f2) \subseteq Range(f1) \cup {e}
  BY <1>5, <1>9, <1>11, AppendHeld, RangeAppend
<1> HIDE DEF f2
<1>13. \A j \in Range(fileJobs') : j \in Range(fileJobs) \/ JobOK(j, transfer)
  BY <1>9, <1>10, <1>11, <1>12
<1> QED
  BY <1>1, <1>4, <1>8, <1>10, <1>12, <1>13, ReceiveMoves

(* A block is written; if there is more to read, the end is with the read.   *)
LEMMA WriteFileStep ==
    ASSUME ReplyInv, writeDataToFile
    PROVE  Kept
<1>1. PICK st : Places(st)
  BY DEF ReplyInv
<1>2. PICK h : h = Head(fileJobs)
  OBVIOUS
<1>3. PICK t : t = h.t
  OBVIOUS
<1>4. PICK more : more = h.more
  OBVIOUS
<1> DEFINE r == [transfer[t] EXCEPT !.reading = more]
<1>5. /\ Shape /\ WellFormed(transfer) /\ NoEnds(content) /\ fileJobs # <<>> /\ h.op = "write"
      /\ transfer' = [transfer EXCEPT ![t] = r] /\ fileJobs' = Tail(fileJobs)
      /\ content' = [content EXCEPT ![transfer[t].inode] = Append(@, h.block)]
      /\ UNCHANGED <<accepts, buffer, writing, bufferJobs, inodes>>
  BY <1>2, <1>3, <1>4 DEF ReplyInv, Shape, writeDataToFile, FileJob, data
<1>6. /\ t \in DOMAIN transfer /\ t \in Nat /\ t # 0 /\ transfer[t].kind = "receive" /\ h.block # End
      /\ IsSequence(fileJobs) /\ IsSequence(fileJobs') /\ Range(fileJobs') \subseteq Range(fileJobs)
  BY <1>2, <1>3, <1>5, FileHead DEF JobOK
<1>7. /\ DOMAIN transfer[t] = Fields /\ transfer[t].inode \in Inode /\ transfer[t].at \in Nat
  BY <1>5, <1>6 DEF WellFormed
<1>8. NoEnds(content')
  <2>1. PICK i \in Inode : i = transfer[t].inode
    BY <1>7
  <2>2. PICK c : c = Append(content[i], h.block)
    OBVIOUS
  <2>3. DOMAIN content' = Inode /\ \A k \in Inode : content'[k] = IF k = i THEN c ELSE content[k]
    BY <1>5, <2>1, <2>2 DEF NoEnds
  <2>4. IsSequence(c) /\ End \notin Range(c)
    <3>1. IsSequence(content[i]) /\ End \notin Range(content[i])
      BY <1>5, <2>1 DEF NoEnds
    <3>2. IsSequence(c) /\ Range(c) \subseteq Range(content[i]) \cup {h.block}
      BY <2>2, <3>1, RangeAppend
    <3> QED
      BY <1>6, <3>1, <3>2
  <2> QED
    BY <1>5, <2>3, <2>4 DEF NoEnds
<1>9. /\ DOMAIN r = Fields /\ r.reading = more /\ r.kind = "receive" /\ r.inode = transfer[t].inode
      /\ r.socket = transfer[t].socket /\ r.replies = transfer[t].replies /\ r.at \in Nat
  BY <1>6, <1>7, ChangedRecord
<1> HIDE DEF r
<1>10. Alike(transfer[t], r) /\ (Reads(r) <=> more)
  BY <1>6, <1>9 DEF Alike, Reads
<1>11. st \in [Nat -> Stage] /\ "file" \in Stage /\ "reads" \in Stage
  BY <1>1 DEF Places, Stage
<1>12. Owner("file", h) = IF more THEN t ELSE 0
  BY <1>3, <1>4, <1>5 DEF Owner
<1>13. /\ Held(View("file", fileJobs'), st, "file")
       /\ more => st[t] = "file" /\ Held(View("file", fileJobs'), [st EXCEPT ![t] = "reads"], "file")
  <2>1. Held(View("file", fileJobs), st, "file")
    BY <1>1 DEF Places
  <2>2. PICK o : o = Owner("file", Head(fileJobs))
    OBVIOUS
  <2>3. /\ Held(View("file", fileJobs'), st, "file")
        /\ o # 0 => st[o] = "file" /\ Held(View("file", fileJobs'), [st EXCEPT ![o] = "reads"], "file")
    BY <1>5, <1>6, <1>11, <2>1, <2>2, TailHeld
  <2>4. more => o = t
    BY <1>2, <1>12, <2>2
  <2> QED
    BY <1>6, <2>3, <2>4
<1>14. CASE more
  <2>1. transfer[t].replies = 0
    BY <1>1, <1>6, <1>13, <1>14 DEF Places
  <2>2. Placed([st EXCEPT ![t] = "reads"], accepts', fileJobs', bufferJobs', buffer')
    BY <1>1, <1>5, <1>6, <1>11, <1>13, <1>14, Elsewhere DEF Placed
  <2> QED
    BY <1>1, <1>5, <1>6, <1>8, <1>9, <1>10, <1>11, <2>1, <2>2, EndMoves
<1>15. CASE ~more
  <2>1. Placed(st, accepts', fileJobs', bufferJobs', buffer')
    BY <1>1, <1>5, <1>13 DEF Placed, Places
  <2>2. /\ WellFormed(transfer') /\ Grows(transfer, transfer') /\ DOMAIN transfer' = DOMAIN transfer
        /\ \A x \in DOMAIN transfer : /\ Reads(transfer'[x]) => Reads(transfer[x])
                                      /\ transfer'[x].replies = transfer[x].replies
    BY <1>5, <1>6, <1>9, <1>10, <1>15, TransferStays
  <2> QED
    BY <1>1, <1>5, <1>6, <1>8, <2>1, <2>2, EndsStay
<1> QED
  BY <1>14, <1>15

(* The end of an upload leaves the file's strand with its reply.             *)
LEMMA EndReceivingStep ==
    ASSUME ReplyInv, endDataReceiving
    PROVE  Kept
<1>1. PICK st : Places(st)
  BY DEF ReplyInv
<1>2. PICK t : t = Head(fileJobs).t
  OBVIOUS
<1> DEFINE l == Load(t)
<1>3. /\ Shape /\ fileJobs # <<>> /\ Head(fileJobs).op = "end" /\ IsSequence(accepts)
      /\ transfer' = ReplyTo({t}) /\ fileJobs' = <<l>> \o Tail(fileJobs)
      /\ NoEnds(content')
      /\ UNCHANGED <<accepts, buffer, writing, bufferJobs, content, inodes>>
  BY <1>2 DEF ReplyInv, Shape, endDataReceiving, FileJob, data, disk, NoEnds
<1>4. t \in DOMAIN transfer /\ t \in Nat /\ t # 0 /\ IsSequence(fileJobs)
  BY <1>2, <1>3, FileHead
<1>5. Owner("file", l) = 0 /\ l.t = t /\ l.op = "load"
  BY DEF Owner, Load
<1>6. Owner("file", Head(fileJobs)) = t
  BY <1>2, <1>3 DEF Owner
<1> HIDE DEF l
<1>7. st \in [Nat -> Stage] /\ "file" \in Stage /\ "replied" \in Stage
  BY <1>1 DEF Places, Stage
<1>8. /\ IsSequence(fileJobs') /\ st[t] = "file"
      /\ Held(View("file", fileJobs'), [st EXCEPT ![t] = "replied"], "file")
      /\ Range(fileJobs') \subseteq Range(fileJobs) \cup {l}
  <2>1. Held(View("file", fileJobs), st, "file")
    BY <1>1 DEF Places
  <2>2. PICK f : f = <<l>> \o Tail(fileJobs)
    OBVIOUS
  <2>3. /\ IsSequence(f) /\ st[Owner("file", Head(fileJobs))] = "file"
        /\ Held(View("file", f), [st EXCEPT ![Owner("file", Head(fileJobs))] = "replied"], "file")
    <3>1. Owner("file", l) \in Nat /\ Owner("file", Head(fileJobs)) # 0
      BY <1>4, <1>5, <1>6
    <3> QED
      BY <1>3, <1>4, <1>5, <1>7, <2>1, <2>2, <3>1, FirstHeld
  <2> QED
    BY <1>3, <1>4, <1>6, <2>2, <2>3, RangeFirst
<1>9. /\ WellFormed(transfer') /\ Grows(transfer, transfer') /\ DOMAIN transfer' = DOMAIN transfer
      /\ \A u \in DOMAIN transfer :
          /\ Reads(transfer'[u]) => Reads(transfer[u])
          /\ transfer'[u].replies = IF u \in {t} THEN transfer[u].replies + 1 ELSE transfer[u].replies
  BY <1>3, Replying
<1>10. transfer[t].replies = 0 /\ ~Reads(transfer[t])
  BY <1>1, <1>4, <1>8 DEF Places
<1>11. transfer'[t].replies = 1 /\ ~Reads(transfer'[t])
  BY <1>4, <1>9, <1>10
<1>12. Placed([st EXCEPT ![t] = "replied"], accepts', fileJobs', bufferJobs', buffer')
  BY <1>1, <1>3, <1>4, <1>7, <1>8, Elsewhere DEF Placed
<1>13. JobOK(l, transfer')
  BY <1>4, <1>5, <1>9 DEF JobOK
<1>14. Shape'
  BY <1>3, <1>8, <1>9, <1>13, ShapeStep DEF Shape
<1>15. \E s : Places(s)'
  BY <1>1, <1>3, <1>4, <1>7, <1>9, <1>11, <1>12, OneMoves
<1> QED
  BY <1>14, <1>15 DEF Kept

(* What follows the reply of an upload: its file is read, the object stored. *)
LEMMA ObjectStep ==
    ASSUME ReplyInv, LoadObject \/ StoreObject
    PROVE  Kept
<1>1. PICK st : Places(st)
  BY DEF ReplyInv
<1>2. PICK h : h = Head(fileJobs)
  OBVIOUS
<1>3. /\ Shape /\ fileJobs # <<>> /\ h.op \in {"load", "store"} /\ transfer' = transfer /\ NoEnds(content')
      /\ UNCHANGED <<accepts, buffer, writing, bufferJobs, content, inodes>>
  BY <1>2 DEF ReplyInv, Shape, LoadObject, StoreObject, FileJob, data, disk, NoEnds
<1>4. PICK c : fileJobs' = Tail(fileJobs) \/ fileJobs' = <<Store(h.t, c)>> \o Tail(fileJobs)
  <2>1. CASE LoadObject
    BY <1>2, <2>1 DEF LoadObject
  <2>2. CASE StoreObject
    BY <2>2 DEF StoreObject
  <2> QED
    BY <2>1, <2>2
<1> DEFINE j == Store(h.t, c)
<1>5. /\ h.t \in DOMAIN transfer /\ IsSequence(fileJobs) /\ IsSequence(Tail(fileJobs))
      /\ Range(Tail(fileJobs)) \subseteq Range(fileJobs)
  BY <1>2, <1>3, FileHead
<1>6. Owner("file", j) = 0 /\ JobOK(j, transfer')
  BY <1>3, <1>5 DEF Owner, Store, JobOK
<1> HIDE DEF j
<1>7. st \in [Nat -> Stage] /\ "file" \in Stage /\ Held(View("file", fileJobs), st, "file")
  BY <1>1 DEF Places, Stage
<1>8. /\ IsSequence(fileJobs') /\ Held(View("file", fileJobs'), st, "file")
      /\ Range(fileJobs') \subseteq Range(fileJobs) \cup {j}
  <2>1. CASE fileJobs' = Tail(fileJobs)
    BY <1>3, <1>5, <1>7, <2>1, TailHeld
  <2>2. CASE fileJobs' = <<j>> \o Tail(fileJobs)
    <3>1. PICK f : f = <<j>> \o Tail(fileJobs)
      OBVIOUS
    <3>2. IsSequence(f) /\ Held(View("file", f), st, "file")
      <4>1. Owner("file", j) \in Nat
        BY <1>6
      <4> QED
        BY <1>3, <1>5, <1>6, <1>7, <3>1, <4>1, FirstHeld
    <3> QED
      BY <1>3, <1>5, <2>2, <3>1, <3>2, RangeFirst
  <2> QED
    BY <1>4, <2>1, <2>2 DEF j
<1>9. Placed(st, accepts', fileJobs', bufferJobs', buffer')
  BY <1>1, <1>3, <1>8 DEF Placed, Places
<1> QED
  BY <1>1, <1>3, <1>6, <1>8, <1>9, TransfersStay, EndsStay

LEMMA BreakStep ==
    ASSUME ReplyInv, NEW t \in DOMAIN transfer, Break(t)
    PROVE  Kept
<1>1. PICK st : Places(st)
  BY DEF ReplyInv
<1> DEFINE r == [transfer[t] EXCEPT !.socket = "gone"]
<1>2. /\ Shape /\ WellFormed(transfer) /\ NoEnds(content') /\ IsSequence(fileJobs')
      /\ transfer[t].socket = "open" /\ transfer' = [transfer EXCEPT ![t] = r]
      /\ UNCHANGED <<accepts, buffer, writing, bufferJobs, fileJobs, content, inodes>>
  BY DEF ReplyInv, Shape, Break, data, strands, disk, NoEnds
<1>3. DOMAIN transfer[t] = Fields /\ transfer[t].at \in Nat /\ (transfer[t].kind = "send" => ~transfer[t].reading)
  BY <1>2 DEF WellFormed
<1>4. /\ DOMAIN r = Fields /\ r.reading = transfer[t].reading /\ r.kind = transfer[t].kind
      /\ r.inode = transfer[t].inode /\ r.eof = transfer[t].eof /\ r.socket = "gone"
      /\ r.replies = transfer[t].replies /\ r.at = transfer[t].at
  BY <1>3, ChangedRecord
<1> HIDE DEF r
<1>5. Alike(transfer[t], r) /\ (Reads(r) => Reads(transfer[t]))
  BY <1>2, <1>3, <1>4 DEF Alike, Reads
<1>6. Placed(st, accepts', fileJobs', bufferJobs', buffer')
  BY <1>1, <1>2 DEF Placed, Places
<1>7. /\ WellFormed(transfer') /\ Grows(transfer, transfer') /\ DOMAIN transfer' = DOMAIN transfer
      /\ \A x \in DOMAIN transfer : /\ Reads(transfer'[x]) => Reads(transfer[x])
                                    /\ transfer'[x].replies = transfer[x].replies
  BY <1>2, <1>4, <1>5, TransferStays
<1> QED
  BY <1>1, <1>2, <1>6, <1>7, EndsStay

(* Commands that leave transfers alone.                                      *)
LEMMA OtherCommandStep ==
    ASSUME ReplyInv,
           \/ \E u \in User : USER(u)
           \/ PASS \/ QUIT \/ NOOP \/ SendDeleteObjectRequest
           \/ \E f \in File : RNFR(f) \/ RNTO(f) \/ DELE(f)
    PROVE  Kept
<1>1. inodes \in [File -> Inode \cup {NoFile}] /\ renaming \in File \cup {NoFile}
  BY DEF ReplyInv, Shape
<1>2. CASE \/ \E u \in User : USER(u)
           \/ PASS \/ QUIT \/ NOOP \/ SendDeleteObjectRequest
           \/ \E f \in File : RNFR(f)
  <2>1. UNCHANGED <<transfer, accepts, strands, content, inodes>>
    BY <1>2 DEF USER, PASS, QUIT, NOOP, SendDeleteObjectRequest, RNFR, data, disk
  <2> QED
    BY <1>1, <2>1, UnmovedStep
<1>3. ASSUME NEW f \in File, RNTO(f) PROVE Kept
  <2>1. /\ UNCHANGED <<transfer, accepts, strands, content>>
        /\ inodes' = [inodes EXCEPT ![f] = inodes[renaming], ![renaming] = NoFile]
        /\ renaming # NoFile
    BY <1>3 DEF RNTO, data
  <2>2. inodes' \in [File -> Inode \cup {NoFile}]
    BY <1>1, <2>1
  <2> QED
    BY <2>1, <2>2, UnmovedStep
<1>4. ASSUME NEW f \in File, DELE(f) PROVE Kept
  <2>1. UNCHANGED <<transfer, accepts, strands, content>> /\ inodes' = [inodes EXCEPT ![f] = NoFile]
    BY <1>4 DEF DELE, data
  <2>2. inodes' \in [File -> Inode \cup {NoFile}]
    BY <1>1, <2>1
  <2> QED
    BY <2>1, <2>2, UnmovedStep
<1> QED
  BY <1>2, <1>3, <1>4

LEMMA IdleStep ==
    ASSUME ReplyInv, UNCHANGED vars
    PROVE  Kept
<1>1. UNCHANGED <<transfer, accepts, strands, content, inodes>>
  BY DEF vars, data, disk
<1>2. inodes \in [File -> Inode \cup {NoFile}]
  BY DEF ReplyInv, Shape
<1> QED
  BY <1>1, <1>2, UnmovedStep

LEMMA InitReplies == Init => ReplyInv
<1> SUFFICES ASSUME Init PROVE ReplyInv
  OBVIOUS
<1>1. /\ accepts = <<>> /\ transfer = <<>> /\ buffer = <<>> /\ bufferJobs = <<>> /\ fileJobs = <<>>
      /\ writing = NoWrite
  BY DEF Init
<1>2. IsSequence(<<>>) /\ Range(<<>>) = {} /\ DOMAIN <<>> = {}
  BY DEF IsSequence, Range
<1>3. NoEnds(content)
  <2>1. content = [i \in Inode |-> IF i \in Stored THEN [n \in 1..StoredBlocks |-> <<i, n>>] ELSE <<>>]
    BY DEF Init
  <2>2. ASSUME NEW i \in Inode PROVE IsSequence(content[i]) /\ End \notin Range(content[i])
    <3>1. CASE i \in Stored
      <4> DEFINE c == [n \in 1..StoredBlocks |-> <<i, n>>]
                 T == {<<i, n>> : n \in 1..StoredBlocks}
      <4>1. \A n \in 1..StoredBlocks : <<i, n>> # End
        BY BlockIsNoEnd
      <4>2. StoredBlocks \in Nat
        BY FtpAssumption
      <4>3. c \in Seq(T)
        BY <4>2
      <4>4. End \notin Range(c)
        BY <4>1 DEF Range
      <4>5. content[i] = c
        BY <2>1, <3>1
      <4> HIDE DEF c, T
      <4> QED
        BY <4>3, <4>4, <4>5 DEF IsSequence
    <3>2. CASE i \notin Stored
      <4>1. content[i] = <<>>
        BY <2>1, <3>2
      <4> QED
        BY <1>2, <4>1
    <3> QED
      BY <3>1, <3>2
  <2> QED
    BY <2>1, <2>2 DEF NoEnds
<1>4. inodes \in [File -> Inode \cup {NoFile}]
  <2>1. Stored \subseteq Inode
    BY FtpAssumption DEF Inode
  <2>2. inodes = [f \in File |-> IF f \in Stored THEN f ELSE NoFile]
    BY DEF Init
  <2> QED
    BY <2>1, <2>2
<1>5. Shape
  BY <1>1, <1>2, <1>3, <1>4 DEF Shape, WellFormed
<1>6. PICK st : st = [t \in Nat |-> "none"]
  OBVIOUS
<1>7. Places(st)
  BY <1>1, <1>2, <1>6, EmptyHeld DEF Places, Stage
<1>8. renaming \in File \cup {NoFile}
  BY DEF Init
<1> QED
  BY <1>5, <1>7, <1>8, InitInv DEF ReplyInv

LEMMA NextReplies ==
    ASSUME ReplyInv, [Next]_vars
    PROVE  ReplyInv'
<1>1. Inv'
  BY NextInv DEF ReplyInv
<1>2. Kept
  <2>1. CASE UNCHANGED vars
    BY <2>1, IdleStep
  <2>2. CASE Command
    BY <2>2, OtherCommandStep, PASVStep, TransferCommandStep DEF Command
  <2>3. CASE SendDeleteObjectRequest
    BY <2>3, OtherCommandStep
  <2>4. CASE Hangup
    BY <2>4, HangupStep
  <2>5. CASE Accepted
    BY <2>5, AcceptedStep
  <2>6. CASE Sending
    BY <2>6, SendingKeeps
  <2>7. CASE Strands
    BY <2>7, ReadFileStep, ReadEndsStep, WriteFileStep, EndReceivingStep, ObjectStep,
       AddToBufferStep, WriteToSocketStep, WrittenKeeps DEF Strands
  <2>8. ASSUME NEW t \in DOMAIN transfer,
               ListEnds(t) \/ ReceiveBlock(t) \/ ReceiveLast(t) \/ ReceiveFails(t) \/ Break(t)
        PROVE  Kept
    BY <2>8, ListEndsStep, ReceiveBlockStep, ReceiveLastStep, ReceiveFailsStep, BreakStep
  <2> QED
    BY <2>1, <2>2, <2>3, <2>4, <2>5, <2>6, <2>7, <2>8 DEF Next
<1>3. renaming' \in File \cup {NoFile}
  <2>1. renaming \in File \cup {NoFile}
    BY DEF ReplyInv
  <2>2. CASE Command
    BY <2>1, <2>2 DEF Command, USER, PASS, QUIT, PASV, LIST, NOOP, RETR, STOR, APPE, RNFR, RNTO, DELE, Start
  <2>3. CASE ~Command
    <3>1. renaming' = renaming
      BY <2>3 DEF Next, vars, account, SendDeleteObjectRequest, Hangup, Accepted, Sending, Strands, ReadFile,
         ReadEnds, writeDataToFile, endDataReceiving, LoadObject, StoreObject, addDataToBufferAndSend,
         writeDataToSocket, Written, ListEnds, ReceiveBlock, ReceiveLast, ReceiveFails, Break
    <3> QED
      BY <2>1, <3>1
  <2> QED
    BY <2>2, <2>3
<1> QED
  BY <1>1, <1>2, <1>3 DEF ReplyInv, Kept

(* However accepts, reads and ends of transfers race with PASV, a hangup and *)
(* other transfers, no transfer gets a second final reply: what leads to the *)
(* reply is in one place at a time, and each step moves it to the next.      *)
THEOREM OneFinalReply == Spec => []OneReply
<1>1. ReplyInv => OneReply
  <2> SUFFICES ASSUME ReplyInv, NEW t \in DOMAIN transfer PROVE transfer[t].replies <= 1
    BY DEF OneReply
  <2>1. transfer[t].replies \in {0, 1}
    BY DEF ReplyInv, Places
  <2> QED
    BY <2>1
<1> QED
  BY <1>1, InitReplies, NextReplies, PTL DEF Spec
=============================================================================
