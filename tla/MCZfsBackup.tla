---------------------------- MODULE MCZfsBackup ----------------------------
(* Instances of ZfsBackup for TLC: who shares a server, a host, a process. *)
EXTENDS ZfsBackup

OneJob  == {"j1"}
TwoJobs == {"j1", "j2"}
First(a, b) == [j \in TwoJobs |-> IF j = "j1" THEN a ELSE b]

OneRun   == [j \in Job |-> "r1"]
TwoRuns  == First("r1", "r2")
OneServer  == [j \in Job |-> "s1"]
TwoServers == First("s1", "s2")
OneHost  == [s \in Server |-> "h1"]
TwoHosts == [s \in Server |-> IF s = "s1" THEN "h1" ELSE "h2"]
AnyPool  == [s \in Server |-> Pool]
=============================================================================
