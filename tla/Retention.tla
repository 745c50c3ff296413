----------------------------- MODULE Retention -----------------------------
(***************************************************************************)
(* apply_retention (adapters/backup/retention.py): which files of one      *)
(* directory and glob pattern are deleted, and in which order.  A file is  *)
(* abstracted to what its name sorts by: the rank of the text in front of  *)
(* the time stamp ("<pool>_snapshot_<server>", the ranks numbered in the   *)
(* order of the texts), then the one-second UTC time stamp itself.         *)
(***************************************************************************)
EXTENDS Integers, FiniteSets

Name(Rank, Time) == [rank : Rank, ts : Time]

\* The order of sorted(..., key=lambda p: p.name).
NameBefore(a, b) ==
    \/ a.rank < b.rank
    \/ a.rank = b.rank /\ a.ts < b.ts

\* Mutant: keeps one file less.
ToDeleteOneMore(files, keep) ==
    {f \in files : Cardinality({g \in files : NameBefore(f, g)}) + 1 >= keep}

\* files[: len(files) - keep]: the files with keep or more files after them.
\* keep is any int() of the configuration: zero and negative values delete all.
ToDelete(files, keep) ==
    {f \in files : Cardinality({g \in files : NameBefore(f, g)}) >= keep}

\* f is the next file of the deletion loop, which walks the sorted list.
IsFirst(f, files) ==
    /\ f \in files
    /\ \A g \in files \ {f} : NameBefore(f, g)
=============================================================================
