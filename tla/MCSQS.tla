--------------------------------- MODULE MCSQS ---------------------------------
(* Instances of SQS for TLC: a source queue and its dead-letter queue.        *)
EXTENDS SQSRefinement, TLC

CONSTANTS main, dlq

MCQueue == {main, dlq}
MCDelaySeconds == [q \in MCQueue |-> IF q = main THEN 1 ELSE 0]
MCNoDelay == [q \in MCQueue |-> 0]
MCRetentionPeriod == [q \in MCQueue |-> IF q = main THEN 1 ELSE 0]
MCDeadLetter == [q \in MCQueue |-> IF q = main THEN dlq ELSE NoQueue]
MCMaxReceiveCount == [q \in MCQueue |-> IF q = main THEN 0 ELSE 1]

MCSingles == {<<m>> : m \in Msg}
MCBatches == MCSingles \cup {b \in Msg \X Msg : b[1] # b[2]}

Symmetry == Permutations(Msg) \cup Permutations(Client)
================================================================================
