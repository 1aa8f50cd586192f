---------------------------- MODULE GatewayProofs ----------------------------
(***************************************************************************)
(* What holds of a connection of the gateway for any limit and any number  *)
(* of requests: one read and one write at a time, no more responses than   *)
(* the limit, every response once and in the order of its request.         *)
(***************************************************************************)
EXTENDS Gateway, TLAPS

(* The types, without the limits that follow from the invariants below.      *)
Types ==
    /\ sent \in Seq(Kind) /\ Len(sent) <= MaxRequests
    /\ finished \in BOOLEAN /\ broken \in BOOLEAN
    /\ sending \in {"open", "closing", "closed"}
    /\ handled \in 0..Len(sent)
    /\ reads \in Nat /\ writes \in Nat
    /\ queue \in Seq(1..handled) /\ answered \in Seq(1..handled)

(* The queue holds the requests handled last, in order.                      *)
QueueIsTail ==
    /\ Len(queue) <= handled
    /\ \A i \in DOMAIN queue : queue[i] = handled - Len(queue) + i

(* As long as the session writes, or will start to write with the next       *)
(* request, what is answered and what waits make up what is handled.         *)
NothingLost ==
    writes > 0 \/ queue = <<>> => Len(answered) + Len(queue) = handled

(* The front of the queue is what is being written.                          *)
WriteHasResponse == writes > 0 => queue # <<>>

Inv ==
    /\ Types
    /\ OneOfEach
    /\ BackPressure
    /\ AnswersInOrder
    /\ QueueIsTail
    /\ NothingLost
    /\ WriteHasResponse

-----------------------------------------------------------------------------
LEMMA InitInv == Init => Inv
<1> SUFFICES ASSUME Init PROVE Inv
  OBVIOUS
<1>1. sent = <<>> /\ queue = <<>> /\ answered = <<>> /\ handled = 0 /\ reads = 1 /\ writes = 0
  BY DEF Init
<1>2. Len(<<>>) = 0 /\ <<>> \in Seq(Kind) /\ <<>> \in Seq(1..0)
  OBVIOUS
<1>3. Types
  <2>1. sent \in Seq(Kind) /\ Len(sent) = 0
    BY <1>1, <1>2
  <2>2. handled = 0 /\ handled \in 0..Len(sent) /\ 1..handled = 1..0
    BY <1>1, <2>1
  <2>3. queue \in Seq(1..handled) /\ answered \in Seq(1..handled)
    BY <1>1, <1>2, <2>2
  <2>4. Len(sent) <= MaxRequests /\ reads \in Nat /\ writes \in Nat
    BY <1>1, <2>1, GatewayAssumption
  <2> QED
    BY <2>1, <2>2, <2>3, <2>4 DEF Init, Types
<1>4. OneOfEach /\ BackPressure /\ NothingLost /\ WriteHasResponse
  BY <1>1, <1>2, GatewayAssumption DEF OneOfEach, BackPressure, NothingLost, WriteHasResponse
<1>5. AnswersInOrder /\ QueueIsTail
  BY <1>1, <1>2 DEF AnswersInOrder, QueueIsTail
<1> QED
  BY <1>3, <1>4, <1>5 DEF Inv

(* A longer range of requests takes the same sequences.                      *)
LEMMA WiderRange ==
    ASSUME NEW n \in Nat, NEW m \in Nat, n <= m, NEW s \in Seq(1..n)
    PROVE  s \in Seq(1..m)
<1>1. \A i \in 1..Len(s) : s[i] \in 1..m
  OBVIOUS
<1>2. s = [i \in 1..Len(s) |-> s[i]]
  OBVIOUS
<1> QED
  BY <1>1, <1>2

(* What the client or a timer does, and a read that fails, leaves what the   *)
(* session has read and written alone.                                       *)
LEMMA QuietSteps ==
    ASSUME Inv, UNCHANGED <<handled, writes, queue, answered>>,
           Types', reads' \in {reads, reads - 1}, reads' \in Nat
    PROVE  Inv'
  BY GatewayAssumption DEF Inv, Types, OneOfEach, BackPressure, AnswersInOrder, QueueIsTail,
     NothingLost, WriteHasResponse

LEMMA OnReadInv ==
    ASSUME Inv, OnRead
    PROVE  Inv'
<1> DEFINE q == Append(queue, handled + 1)
<1>1. /\ queue' = q /\ handled' = handled + 1 /\ answered' = answered
      /\ reads = 1 /\ handled < Len(sent)
      /\ UNCHANGED <<sent, finished, broken, sending>>
      /\ writes' = writes + StartsWrite(q) /\ reads' = ReadsAhead(q)
  BY DEF Inv, Types, OneOfEach, OnRead, Pending, client, ReadsAhead
<1>2. Len(q) = Len(queue) + 1 /\ q # <<>> /\ q \in Seq(1..(handled + 1))
  <2>0. handled \in Nat /\ handled + 1 \in Nat /\ handled <= handled + 1 /\ queue \in Seq(1..handled)
    BY DEF Inv, Types
  <2>1. queue \in Seq(1..(handled + 1))
    BY <2>0, WiderRange
  <2>2. Len(q) = Len(queue) + 1 /\ Len(q) # 0
    BY DEF Inv, Types
  <2>3. q # <<>>
    <3>1. Len(<<>>) = 0
      OBVIOUS
    <3> HIDE DEF q
    <3> QED
      BY <2>2, <3>1
  <2>4. q \in Seq(1..(handled + 1))
    BY <2>0, <2>1
  <2> QED
    BY <2>2, <2>3, <2>4
<1>3. answered \in Seq(1..(handled + 1))
  <2>1. handled \in Nat /\ handled + 1 \in Nat /\ handled <= handled + 1 /\ answered \in Seq(1..handled)
    BY DEF Inv, Types
  <2> QED
    BY <2>1, WiderRange
<1>4. writes' = IF queue = <<>> THEN 1 ELSE writes
  BY <1>1, <1>2 DEF Inv, Types, OneOfEach, WriteHasResponse, StartsWrite, DoWrite
<1>5. Types'
  BY <1>1, <1>2, <1>3, <1>4 DEF Inv, Types, ReadsAhead
<1>6. OneOfEach' /\ WriteHasResponse'
  BY <1>1, <1>2, <1>4 DEF Inv, Types, OneOfEach, WriteHasResponse, ReadsAhead
<1>7. BackPressure'
  BY <1>1, <1>2, GatewayAssumption DEF Inv, Types, BackPressure, ReadsAhead
<1>8. AnswersInOrder'
  BY <1>1 DEF Inv, AnswersInOrder
<1>9. QueueIsTail'
  <2>1. Len(q) <= handled + 1
    BY <1>2 DEF Inv, QueueIsTail, Types
  <2>2. ASSUME NEW i \in DOMAIN q
        PROVE  q[i] = (handled + 1) - Len(q) + i
    <3>1. CASE i \in DOMAIN queue
      BY <1>2, <3>1 DEF Inv, QueueIsTail, Types
    <3>2. CASE i = Len(queue) + 1
      BY <1>2, <3>2 DEF Inv, Types
    <3> QED
      BY <1>2, <2>2, <3>1, <3>2 DEF Inv, Types
  <2> QED
    BY <1>1, <2>1, <2>2 DEF QueueIsTail
<1>10. NothingLost'
  BY <1>1, <1>2, <1>4 DEF Inv, Types, NothingLost
<1> QED
  BY <1>5, <1>6, <1>7, <1>8, <1>9, <1>10 DEF Inv

(* The response written is the next one in order.                            *)
LEMMA NextAnswer ==
    ASSUME Inv, Written
    PROVE  /\ Head(queue) = Len(answered) + 1
           /\ answered' \in Seq(1..handled)
           /\ Len(answered') = Len(answered) + 1
           /\ \A i \in DOMAIN answered' : answered'[i] = i
           /\ writes = 1 /\ queue # <<>> /\ Len(answered) + Len(queue) = handled
<1>1. writes = 1 /\ queue # <<>> /\ Len(answered) + Len(queue) = handled
  BY DEF Inv, Written, Types, OneOfEach, WriteHasResponse, NothingLost
<1>2. Head(queue) = Len(answered) + 1
  <2>1. 1 \in DOMAIN queue /\ Head(queue) = queue[1]
    BY <1>1 DEF Inv, Types
  <2> QED
    BY <1>1, <2>1 DEF Inv, QueueIsTail, Types
<1>3. Head(queue) \in 1..handled
  BY <1>1 DEF Inv, Types
<1> QED
  BY <1>1, <1>2, <1>3 DEF Inv, Written, Types, AnswersInOrder

LEMMA OnLastWriteInv ==
    ASSUME Inv, OnLastWrite
    PROVE  Inv'
<1>1. /\ UNCHANGED <<sent, finished, broken, handled, reads, queue>>
      /\ writes' = 0 /\ queue # <<>>
      /\ sending' \in {"closing", "closed"}
      /\ answered' \in Seq(1..handled)
      /\ \A i \in DOMAIN answered' : answered'[i] = i
  BY NextAnswer DEF OnLastWrite, client, DoClose
<1> QED
  BY <1>1 DEF Inv, Types, OneOfEach, BackPressure, AnswersInOrder, QueueIsTail, NothingLost,
     WriteHasResponse

LEMMA OnWriteInv ==
    ASSUME Inv, OnWrite
    PROVE  Inv'
<1> DEFINE q == Tail(queue)
<1>1. /\ Written /\ queue' = q
      /\ UNCHANGED <<sent, finished, broken, handled>>
      /\ reads' = reads + Resumes(queue) /\ writes' = writes - 1 + DoWrite(q)
      /\ sending' \in {sending, "closed"}
  BY DEF OnWrite, client, Pop, PopsOne
<1>2. /\ answered' \in Seq(1..handled) /\ Len(answered') = Len(answered) + 1
      /\ \A i \in DOMAIN answered' : answered'[i] = i
      /\ writes = 1 /\ queue # <<>> /\ Len(answered) + Len(queue) = handled
  BY <1>1, NextAnswer
<1>3. /\ q \in Seq(1..handled) /\ Len(q) = Len(queue) - 1
      /\ \A i \in DOMAIN q : i + 1 \in DOMAIN queue /\ q[i] = queue[i + 1]
  BY <1>2 DEF Inv, Types
<1>4. writes' = IF q = <<>> THEN 0 ELSE 1
  BY <1>1, <1>2 DEF DoWrite
<1>5. reads' \in Nat /\ reads' <= 1 /\ Len(q) + reads' <= QueueLimit
  <2>1. /\ Len(queue) \in Nat /\ Len(queue) + reads <= QueueLimit /\ reads \in 0..1
        /\ QueueLimit \in Nat
    BY GatewayAssumption DEF Inv, Types, OneOfEach, BackPressure
  <2>2. reads' = reads + (IF Len(queue) = QueueLimit THEN 1 ELSE 0)
    BY <1>1 DEF Resumes
  <2>3. Len(q) = Len(queue) - 1
    BY <1>3
  <2> HIDE DEF q
  <2> QED
    BY <2>1, <2>2, <2>3
<1>6a. Types'
  <2>1. sending' \in {"open", "closing", "closed"} /\ writes' \in Nat
    BY <1>1, <1>4 DEF Inv, Types
  <2>2. queue' \in Seq(1..handled') /\ answered' \in Seq(1..handled')
    BY <1>1, <1>2, <1>3
  <2> QED
    BY <1>1, <1>5, <2>1, <2>2 DEF Inv, Types
<1>6b. OneOfEach' /\ BackPressure'
  BY <1>1, <1>4, <1>5 DEF OneOfEach, BackPressure
<1>6c. AnswersInOrder' /\ WriteHasResponse'
  BY <1>1, <1>2, <1>4 DEF AnswersInOrder, WriteHasResponse
<1>7. QueueIsTail'
  BY <1>1, <1>3 DEF Inv, Types, QueueIsTail
<1>8. NothingLost'
  <2>1. Len(answered) \in Nat /\ Len(queue) \in Nat
    BY DEF Inv, Types
  <2>2. Len(answered') + Len(q) = handled
    BY <2>1, <1>2, <1>3
  <2> QED
    BY <2>2, <1>1 DEF NothingLost
<1> QED
  BY <1>6a, <1>6b, <1>6c, <1>7, <1>8 DEF Inv

LEMMA OnWriteErrorInv ==
    ASSUME Inv, OnWriteError
    PROVE  Inv'
  BY DEF Inv, OnWriteError, client, Types, OneOfEach, BackPressure, AnswersInOrder, QueueIsTail,
     NothingLost, WriteHasResponse

LEMMA NextInv == Inv /\ [Next]_vars => Inv'
<1> SUFFICES ASSUME Inv, [Next]_vars PROVE Inv'
  OBVIOUS
<1>1. ASSUME NEW kind \in Kind, Send(kind) PROVE Inv'
  <2>0. sent' \in Seq(Kind) /\ Len(sent') = Len(sent) + 1 /\ Len(sent') <= MaxRequests
    BY <1>1, GatewayAssumption DEF Inv, Types, Send
  <2>1. Types' /\ reads' = reads
    BY <1>1, <2>0 DEF Inv, Types, Send
  <2> QED
    BY <1>1, <2>1, QuietSteps DEF Inv, Types, Send
<1>2. CASE Finish \/ Reset \/ Timeout
  <2>1. Types' /\ reads' = reads
    BY <1>2 DEF Inv, Types, Finish, Reset, Timeout, client
  <2> QED
    BY <1>2, <2>1, QuietSteps DEF Inv, Types, Finish, Reset, Timeout
<1>3. CASE OnRead
  BY <1>3, OnReadInv
<1>4. CASE OnEnd \/ OnReadError
  <2>1. Types' /\ reads' = reads - 1 /\ reads' \in Nat
    BY <1>4 DEF Inv, Types, OnEnd, OnReadError, client, DoClose
  <2> QED
    BY <1>4, <2>1, QuietSteps DEF OnEnd, OnReadError
<1>5. CASE OnLastWrite
  BY <1>5, OnLastWriteInv
<1>6. CASE OnWrite
  BY <1>6, OnWriteInv
<1>7. CASE OnWriteError
  BY <1>7, OnWriteErrorInv
<1>8. CASE UNCHANGED vars
  BY <1>8 DEF vars, Inv, Types, OneOfEach, BackPressure, AnswersInOrder, QueueIsTail, NothingLost,
     WriteHasResponse
<1> QED
  BY <1>1, <1>2, <1>3, <1>4, <1>5, <1>6, <1>7, <1>8 DEF Next

LEMMA Invariance == Spec => []Inv
  BY InitInv, NextInv, PTL DEF Spec

-----------------------------------------------------------------------------
(* Counters, queue and answers keep their types, and no more responses wait  *)
(* than the limit, for every limit (OnRead, OnWrite).                        *)
THEOREM TypeCorrect == Spec => []TypeOK
<1>1. Inv => TypeOK
  BY GatewayAssumption DEF Inv, Types, TypeOK, BackPressure
<1> QED
  BY <1>1, Invariance, PTL

(* OnRead and OnWrite never start a second read, and QueueWrite and OnWrite  *)
(* never a second write.                                                     *)
THEOREM OneReadOneWrite == Spec => []OneOfEach
<1>1. Inv => OneOfEach
  BY DEF Inv
<1> QED
  BY <1>1, Invariance, PTL

(* Reading ahead (OnRead) and reading on after a pause (OnWrite) leave room  *)
(* for the response of the request that is being read.                       *)
THEOREM ReadsHaveRoom == Spec => []BackPressure
<1>1. Inv => BackPressure
  BY DEF Inv
<1> QED
  BY <1>1, Invariance, PTL

(* Responses are written once each and in the order of the requests, however *)
(* many are pipelined (QueueWrite, OnWrite).                                 *)
THEOREM AnswersKeepOrder == Spec => []AnswersInOrder
<1>1. Inv => AnswersInOrder
  BY DEF Inv
<1> QED
  BY <1>1, Invariance, PTL
=============================================================================
