--------------------------- MODULE MCFileBackups ---------------------------
(* Instances of FileBackups for TLC: how many files of each kind are kept.  *)
EXTENDS FileBackups

OneAndThree == [k \in Kind |-> IF k = "config" THEN 1 ELSE 3]

\* Four calls of the timer, three where they overlap.
EnoughCalls == timer \/ clock <= 2
=============================================================================
