---------------------------- MODULE MCSetupKeys ----------------------------
(* Instances of SetupKeys for TLC: which .pub file with_suffix names.       *)
EXTENDS SetupKeys

\* 1 is "px.lan": it looks for the px.pub of 2.
OneDotted == [s \in Server |-> IF s = 1 THEN 2 ELSE s]
=============================================================================
