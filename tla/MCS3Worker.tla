----------------------------- MODULE MCS3Worker ------------------------------
(* Three ways to spend the bounds, one of which a behaviour chooses at its   *)
(* start: two requests for one bucket of any kind, which may ask for hash    *)
(* threads; three puts, copies and batch deletes of it, none of which does;  *)
(* or three puts and batch deletes of two buckets, one request at a time,    *)
(* whose rows cut off the listings of each other.                            *)
EXTENDS MCS3

VARIABLE scenario

Scenarios ==
    {[in |-> {b1}, requests |-> 2, ops |-> Ops],
     [in |-> {b1}, requests |-> 3, ops |-> {"put", "copy", "deleteObjects"}],
     [in |-> Bucket, requests |-> 3, ops |-> {"put", "deleteObjects"}]}

(* Bounds: how many requests, which, and the hash threads: all of these are  *)
(* choices of the clients, who need not send anything.  No more rows exist   *)
(* than requests were sent, and file names, which are random and only        *)
(* compared, are taken in order.                                             *)
MCInit == Init /\ scenario \in Scenarios
MCNext ==
    /\ Next
    /\ UNCHANGED scenario
    /\ requests' <= scenario.requests
    /\ \A c \in Client : call'[c].pc # "idle" => call'[c].op \in scenario.ops
    /\ \A c \in Client : \A l \in ({call'[c].loc} \cup call'[c].keys) \ {NoLoc} :
           l[1] \in scenario.in
    /\ scenario.in = Bucket => \E c \in Client : call'[c].pc = "idle"
    /\ scenario.requests = 3 => hashing' = {}
    /\ \A o \in Oid : Present(o)' => o <= scenario.requests
    /\ \A f, g \in File : f < g /\ disk'[g] # "unused" => disk'[f] # "unused"
MCSpec ==
    /\ MCInit /\ [][MCNext]_<<vars, scenario>>
    /\ Fairness
=============================================================================
