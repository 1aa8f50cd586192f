------------------------------ MODULE MCModules ------------------------------
(* Values of the constants of Modules for TLC.                                *)
EXTENDS Modules

MCEach == {<<m>> : m \in Module}
MCBoth == MCEach \cup SetToSeqs(Module)
=============================================================================
