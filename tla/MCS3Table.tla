------------------------------ MODULE MCS3Table ------------------------------
(* Two ways to spend the bounds, one of which a behaviour chooses at its     *)
(* start: two objects in one bucket without versions; or one key in two      *)
(* buckets, one of them versioned, which are deleted and created again.      *)
EXTENDS MCS3

VARIABLE scenario

Scenarios ==
    {[objects |-> {b1} \X Key,
      ops |-> {"put", "copy", "delete", "upload", "complete"}],
     [objects |-> Bucket \X {k1},
      ops |-> {"put", "move", "delete", "upload", "complete", "deleteBucket"}]}

(* Bounds: the objects, and what is asked for.                               *)
MCInit == Init /\ scenario \in Scenarios
MCNext ==
    /\ Next
    /\ UNCHANGED scenario
    /\ \A c \in Client :
           /\ call'[c].op \in scenario.ops \cup {"none", "putVersion"}
           /\ \A l \in {call'[c].loc} \cup call'[c].keys : l \in Loc => l \in scenario.objects
    /\ buckets' # buckets => "deleteBucket" \in scenario.ops
MCSpec == MCInit /\ [][MCNext]_<<vars, scenario>>
=============================================================================
