--------------------------- MODULE MCSQSDelivery -----------------------------
(* Three ways to spend the bounds, one of which a behaviour chooses at its    *)
(* start: two messages for one second, one message on its way through the     *)
(* dead-letter queue for two, one message and queues that come and go.        *)
EXTENDS MCSQS

VARIABLE scenario

SendAndReceive == {"idle", "sendGet", "sendCreate", "receiveGet", "receiveReset", "receiveTake"}
Delete == {"deleteCheck", "deleteErase"}
Create == {"createQueue"}
Remove == {"deleteMessages", "deleteQueue", "purge"}

Scenarios ==
    {[labels |-> SendAndReceive \cup Delete,             sends |-> 2, time |-> 1],
     [labels |-> SendAndReceive \cup Delete \cup Create, sends |-> 1, time |-> 2],
     [labels |-> SendAndReceive \cup Create \cup Remove, sends |-> 1, time |-> 1]}

(* Bounds: the steps of requests, how many messages are sent, and the time.   *)
MCInit == Init /\ scenario \in Scenarios
MCNext ==
    /\ Next
    /\ UNCHANGED scenario
    /\ \A c \in Client :
           /\ call'[c].pc \in scenario.labels
           /\ call[c].pc = "idle" /\ call'[c].pc = "receiveGet" => now < scenario.time
    /\ Cardinality(Sending') + Cardinality({m \in Msg : issued'[m] > 0}) <= scenario.sends
    /\ now' <= scenario.time
MCSpec == MCInit /\ [][MCNext]_<<vars, scenario>>
==============================================================================
