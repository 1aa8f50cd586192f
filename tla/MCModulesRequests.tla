--------------------------- MODULE MCModulesRequests -------------------------
(* Two ways to spend the bounds, one of which a behaviour chooses at its      *)
(* start: three requests that all name one module, while two of its timers    *)
(* run and the others sleep; or two requests with lists of modules, while all *)
(* timer threads sleep.                                                       *)
EXTENDS MCModules, TLC

Symmetry == Permutations(Client)

VARIABLE scenario

Scenarios ==
    {[lists |-> {<<"sqs">>}, awake |-> {<<"sqs", "server">>, <<"sqs", "worker">>}, requests |-> 3],
     [lists |-> MCBoth, awake |-> {}, requests |-> 2]}

(* Bounds: what requests name, how many come, which timer threads run.        *)
MCInit == Init /\ scenario \in Scenarios
MCNext ==
    /\ Next
    /\ UNCHANGED scenario
    /\ requests' <= scenario.requests
    /\ requests' > requests => \E c \in Client, kind \in Kind, list \in scenario.lists :
           Idle(c) /\ todo'[c] = Request(kind, list)
    /\ \A t \in Timer : t \notin scenario.awake =>
           threads'[t] \in {threads[t], [threads[t] EXCEPT !["sleep"] = @ + 1]}
MCSpec == MCInit /\ [][MCNext]_<<vars, scenario>>
=============================================================================
