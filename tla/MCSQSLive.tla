----------------------------- MODULE MCSQSLive -------------------------------
(* Who makes which requests, chosen at the start of a behaviour: one client   *)
(* makes all of them, or two poll the same queue for the same message.  Only  *)
(* the begin of a request is bounded so: what has begun goes on as in SQS.    *)
EXTENDS MCSQS

CONSTANTS sender, poller

VARIABLE scenario

Sends(r) == r.pc = "sendGet" /\ r.queue = main
Polls(r) == r.pc = "receiveGet" /\ r.queue = main /\ r.timeout > 0

Begins(c, r) ==
    \/ scenario = "one client" /\ c = sender
    \/ scenario = "two polls" /\ (Polls(r) \/ (c = sender /\ Sends(r)))

MCInit == Init /\ scenario \in {"one client", "two polls"}
MCNext ==
    /\ Next
    /\ UNCHANGED scenario
    /\ \A c \in Client : At(c, "idle") /\ call'[c].pc # "idle" => Begins(c, call'[c])
MCSpec == MCInit /\ [][MCNext]_<<vars, scenario>>
MCFairSpec == MCSpec /\ Fairness
==============================================================================
