--------------------------- MODULE MCOrchestrator --------------------------
(* Instances of Orchestrator for TLC: the servers and the inputs.           *)
EXTENDS Orchestrator

ThreeServers == 1 .. 3
SomeFlags    == {Kind, {}}
Options      == {Kind, {"zfs"}}
=============================================================================
