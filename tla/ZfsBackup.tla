----------------------------- MODULE ZfsBackup -----------------------------
(***************************************************************************)
(* backup_zfs (adapters/backup/zfs_backup.py) on top of the SSH / local    *)
(* transport (adapters/ssh/commands.py) and apply_retention.               *)
(*                                                                         *)
(* A Job is a place from which backup_zfs is called again and again for    *)
(* one configured server: a worker thread of one run of the program.  Jobs *)
(* of one Run share the fate of its process.  Two jobs with the same       *)
(* server are two overlapping runs, two servers with the same host are two *)
(* configuration entries for one machine.                                  *)
(*                                                                         *)
(* snaps is the state of the remote machines: every dataset snapshot whose *)
(* name contains "@pull_backup_".  A pool is a chain of datasets, depth 0  *)
(* the root, so that "-r" has something to recurse into.  file is the      *)
(* state of <backup_dir>/<server>/snapshots.  Every command that the code  *)
(* waits for is one step of its job, so that commands of other jobs, a     *)
(* crash and the clock come between any two of them.                       *)
(***************************************************************************)
EXTENDS Retention

CONSTANTS
    Job, Run, Server, Host,
    Pool,       \* pools, numbered in the order of their names
    RunOf,      \* the run (process) a job is a thread of
    ServerOf,   \* the server a job backs up
    HostOf,     \* ServerConfig.hostname (one value for every local server)
    PoolsOf,    \* the values ServerConfig.zfs_pool has over time
    Keep,       \* zfs_retention_count
    MaxDepth,   \* deepest dataset of a pool
    MaxTime,    \* bound: last second of the clock
    MaxFaults,  \* bound: number of environment faults
    RunGap      \* seconds between two calls for one server: 1 when runs come
                \* from the timer, 0 when two may begin within one second

ASSUME JobAssumption ==
    /\ RunOf \in [Job -> Run]
    /\ ServerOf \in [Job -> Server]
    /\ HostOf \in [Server -> Host]
    /\ PoolsOf \in [Server -> SUBSET Pool]
ASSUME NumberAssumption ==
    /\ Pool \subseteq Nat
    /\ Keep \in Int
    /\ MaxDepth \in Nat /\ MaxTime \in Nat /\ MaxFaults \in Nat
    /\ RunGap \in {0, 1}

VARIABLES
    clock,      \* wall clock, whole seconds (build_timestamp)
    snaps,      \* [Host -> set of snapshots on that machine]
    file,       \* [Server -> [archive name -> content]]
    pc,         \* [Job -> the command the call is about to issue]
    pool,       \* [Job -> server.zfs_pool of the current call]
    ts,         \* [Job -> timestamp of the current call]
    todo,       \* [Job -> stale_snapshots not yet destroyed]
    victims,    \* [Job -> to_delete of apply_retention not yet unlinked]
    failed,     \* [Job -> an exception is leaving the call]
    faults,     \* environment faults so far (bounded)
    hit         \* observability: [Job -> a fault struck the current call]

vars == <<clock, snaps, file, pc, pool, ts, todo, victims, failed, faults, hit>>

Time    == 0 .. MaxTime
Snap    == [pool : Pool, depth : 0 .. MaxDepth, ts : Time]
Archive == Name(Pool, Time)
Content == {"none", "partial", "whole"}

Ended   == {"idle", "done", "crashed"}
Holding == {"open", "send", "stream", "stat", "destroy"}   \* snapshot_created
Label   == Ended \cup Holding \cup {"list", "clean", "retain", "prune"}

TypeOK ==
    /\ clock \in Time
    /\ snaps \in [Host -> SUBSET Snap]
    /\ file \in [Server -> [Archive -> Content]]
    /\ pc \in [Job -> Label]
    /\ pool \in [Job -> Pool]
    /\ ts \in [Job -> Time]
    /\ todo \in [Job -> SUBSET Snap]
    /\ victims \in [Job -> SUBSET Archive]
    /\ failed \in [Job -> BOOLEAN]
    /\ faults \in 0 .. MaxFaults
    /\ hit \in [Job -> BOOLEAN]

Init ==
    /\ clock = 0
    /\ snaps = [h \in Host |-> {}]
    /\ file = [s \in Server |-> [a \in Archive |-> "none"]]
    /\ pc = [j \in Job |-> "idle"]
    /\ pool \in {f \in [Job -> Pool] : \A j \in Job : f[j] \in PoolsOf[ServerOf[j]]}
    /\ ts = [j \in Job |-> 0]
    /\ todo = [j \in Job |-> {}]
    /\ victims = [j \in Job |-> {}]
    /\ failed = [j \in Job |-> FALSE]
    /\ faults = 0
    /\ hit = [j \in Job |-> FALSE]

-----------------------------------------------------------------------------
HostFor(j)  == HostOf[ServerOf[j]]
Own(j)      == [rank |-> pool[j], ts |-> ts[j]]                \* dest_path
OwnSnap(j)  == [pool |-> pool[j], depth |-> 0, ts |-> ts[j]]   \* full_snap
OwnFile(j)  == file[ServerOf[j]][Own(j)]
Present(s)  == {a \in Archive : file[s][a] # "none"}

\* What "zfs snapshot -r" creates and "zfs destroy -r" removes.
Subtree(sn) ==
    {x \in Snap : x.pool = sn.pool /\ x.ts = sn.ts /\ x.depth >= sn.depth}

\* Snapshots a running "zfs send" holds; ZFS refuses to destroy them.
Held(h) == {x \in Snap : \E k \in Job : /\ HostFor(k) = h
                                        /\ pc[k] = "stream"
                                        /\ x \in Subtree(OwnSnap(k))}

\* "zfs destroy -r sn" succeeds: some snapshot has the name, none is held.
Destroyable(h, sn) ==
    /\ Subtree(sn) \cap snaps[h] # {}
    /\ Subtree(sn) \cap Held(h) = {}

\* The order of "zfs list -t snapshot": by dataset name, then by creation.
ListedBefore(x, y) ==
    \/ x.pool < y.pool
    \/ x.pool = y.pool /\ x.depth < y.depth
    \/ x.pool = y.pool /\ x.depth = y.depth /\ x.ts < y.ts
IsNext(sn, S) == sn \in S /\ \A y \in S \ {sn} : ListedBefore(sn, y)

Goto(j, label) == pc' = [pc EXCEPT ![j] = label] /\ UNCHANGED failed
Raise(j, label) == /\ pc' = [pc EXCEPT ![j] = label]
                   /\ failed' = [failed EXCEPT ![j] = TRUE]
Write(j, content) == file' = [file EXCEPT ![ServerOf[j]][Own(j)] = content]

Fault(j) == /\ faults < MaxFaults
            /\ faults' = faults + 1
            /\ hit' = [hit EXCEPT ![j] = TRUE]
NoFault  == UNCHANGED <<faults, hit>>

-----------------------------------------------------------------------------
(* The call, command by command.                                           *)

\* Mutant: the time stamp is rounded up.
StartRoundedUp(j) ==
    /\ pc[j] \in Ended
    /\ \A k \in Job : ServerOf[k] = ServerOf[j] /\ pc[k] # "idle"
                          => clock >= ts[k] + RunGap
    /\ \E p \in PoolsOf[ServerOf[j]] : pool' = [pool EXCEPT ![j] = p]
    /\ ts' = [ts EXCEPT ![j] = clock + 1]
    /\ pc' = [pc EXCEPT ![j] = "list"]
    /\ todo' = [todo EXCEPT ![j] = {}]
    /\ victims' = [victims EXCEPT ![j] = {}]
    /\ failed' = [failed EXCEPT ![j] = FALSE]
    /\ hit' = [hit EXCEPT ![j] = FALSE]
    /\ UNCHANGED <<clock, snaps, file, faults>>

\* build_timestamp and the names derived from it.  With dry_run the code
\* returns here: that call changes nothing, it is a stuttering step.
Start(j) ==
    /\ pc[j] \in Ended
    /\ \A k \in Job : ServerOf[k] = ServerOf[j] /\ pc[k] # "idle"
                          => clock >= ts[k] + RunGap
    /\ \E p \in PoolsOf[ServerOf[j]] : pool' = [pool EXCEPT ![j] = p]
    /\ ts' = [ts EXCEPT ![j] = clock]
    /\ pc' = [pc EXCEPT ![j] = "list"]
    /\ todo' = [todo EXCEPT ![j] = {}]
    /\ victims' = [victims EXCEPT ![j] = {}]
    /\ failed' = [failed EXCEPT ![j] = FALSE]
    /\ hit' = [hit EXCEPT ![j] = FALSE]
    /\ UNCHANGED <<clock, snaps, file, faults>>

\* Mutant: no cleanup.
ListStaleSkipped(j) ==
    /\ pc[j] = "list"
    /\ Goto(j, "clean")
    /\ NoFault
    /\ UNCHANGED <<clock, snaps, file, pool, ts, todo, victims>>

\* Mutant: only the snapshots of the pool this call backs up are listed.
ListStaleOwnPool(j) ==
    /\ pc[j] = "list"
    /\ Goto(j, "clean")
    /\ todo' = [todo EXCEPT ![j] = {x \in snaps[HostFor(j)] : x.pool = pool[j]}]
    /\ NoFault
    /\ UNCHANGED <<clock, snaps, file, pool, ts, victims>>

\* "zfs list | grep '@pull_backup_' || true": every pool of the machine.  When
\* ssh fails the error is swallowed, when zfs fails "|| true" hides it.
ListStale(j) ==
    /\ pc[j] = "list"
    /\ Goto(j, "clean")
    /\ \/ /\ todo' = [todo EXCEPT ![j] = snaps[HostFor(j)]]
          /\ NoFault
       \/ /\ Fault(j)
          /\ UNCHANGED todo
    /\ UNCHANGED <<clock, snaps, file, pool, ts, victims>>

\* One round of the loop over stale_snapshots.  A failing destroy leaves the
\* loop (the except is outside it): the rest of the list is not looked at.  When
\* ssh fails, the destroy has taken effect or not.
DestroyStale(j) ==
    /\ pc[j] = "clean"
    /\ \E sn \in todo[j] :
        /\ IsNext(sn, todo[j])
        /\ \/ /\ Destroyable(HostFor(j), sn)
              /\ snaps' = [snaps EXCEPT ![HostFor(j)] = @ \ Subtree(sn)]
              /\ todo' = [todo EXCEPT ![j] = @ \ {sn}]
              /\ NoFault
           \/ /\ ~Destroyable(HostFor(j), sn)
              /\ todo' = [todo EXCEPT ![j] = {}]
              /\ NoFault
              /\ UNCHANGED snaps
           \/ /\ Fault(j)
              /\ todo' = [todo EXCEPT ![j] = {}]
              /\ \/ UNCHANGED snaps
                 \/ /\ Destroyable(HostFor(j), sn)
                    /\ snaps' = [snaps EXCEPT ![HostFor(j)] = @ \ Subtree(sn)]
    /\ UNCHANGED <<clock, file, pc, pool, ts, victims, failed>>

\* "zfs snapshot -r", all or nothing.  A failure of ssh may come before or
\* after the remote command took effect; snapshot_created stays False.
CreateSnapshot(j) ==
    LET new == Subtree(OwnSnap(j)) IN
    /\ pc[j] = "clean" /\ todo[j] = {}
    /\ \/ /\ new \cap snaps[HostFor(j)] = {}
          /\ snaps' = [snaps EXCEPT ![HostFor(j)] = @ \cup new]
          /\ Goto(j, "open")
          /\ NoFault
       \/ /\ new \cap snaps[HostFor(j)] # {}
          /\ Raise(j, "done")
          /\ NoFault
          /\ UNCHANGED snaps
       \/ /\ Fault(j)
          /\ Raise(j, "done")
          /\ \/ UNCHANGED snaps
             \/ /\ new \cap snaps[HostFor(j)] = {}
                /\ snaps' = [snaps EXCEPT ![HostFor(j)] = @ \cup new]
    /\ UNCHANGED <<clock, file, pool, ts, todo, victims>>

\* mkdir and open("wb"), then Popen.  open truncates.  When mkdir or open
\* fails there is no file; when Popen fails the empty file is left behind.
OpenArchive(j) ==
    /\ pc[j] = "open"
    /\ \/ /\ Write(j, "partial")
          /\ Goto(j, "send")
          /\ NoFault
       \/ /\ Fault(j)
          /\ Raise(j, "destroy")
          /\ Write(j, "partial") \/ UNCHANGED file
    /\ UNCHANGED <<clock, snaps, pool, ts, todo, victims>>

\* "zfs send -R" opens the snapshot.  If it is gone, zfs fails, but gzip ends
\* the pipeline with code 0: the transfer is over and looks complete, unless
\* ssh fails as well.
BeginSend(j) ==
    LET intact == Subtree(OwnSnap(j)) \subseteq snaps[HostFor(j)] IN
    /\ pc[j] = "send"
    /\ \/ /\ intact
          /\ Goto(j, "stream")
          /\ NoFault
          /\ UNCHANGED file
       \/ /\ ~intact
          /\ Goto(j, "stat")
          /\ NoFault
          /\ UNCHANGED file
       \/ /\ ~intact
          /\ Fault(j)
          /\ Write(j, "none")
          /\ Raise(j, "destroy")
    /\ UNCHANGED <<clock, snaps, pool, ts, todo, victims>>

\* The pipeline ends: complete; zfs send died and gzip hid it; or ssh (or
\* gzip) failed and the file is unlinked.  A file unlinked meanwhile by
\* another run is not brought back by writing to it.
EndStream(j) ==
    /\ pc[j] = "stream"
    /\ \/ /\ IF OwnFile(j) = "none" THEN UNCHANGED file ELSE Write(j, "whole")
          /\ Goto(j, "stat")
          /\ NoFault
       \/ /\ Fault(j)
          /\ Goto(j, "stat")
          /\ UNCHANGED file
       \/ /\ Fault(j)
          /\ Write(j, "none")
          /\ Raise(j, "destroy")
    /\ UNCHANGED <<clock, snaps, pool, ts, todo, victims>>

\* dest_path.stat(): FileNotFoundError when another run pruned the file.
StatArchive(j) ==
    /\ pc[j] = "stat"
    /\ IF OwnFile(j) = "none" THEN Raise(j, "destroy") ELSE Goto(j, "destroy")
    /\ NoFault
    /\ UNCHANGED <<clock, snaps, file, pool, ts, todo, victims>>

\* Mutant: no finally, a failed call leaves its snapshot behind.
DestroyOwnOnSuccess(j) ==
    LET h == HostFor(j) IN
    /\ pc[j] = "destroy"
    /\ IF failed[j]
         THEN UNCHANGED snaps
         ELSE snaps' = [snaps EXCEPT ![h] = @ \ Subtree(OwnSnap(j))]
    /\ NoFault
    /\ IF failed[j] THEN Goto(j, "done") ELSE Goto(j, "retain")
    /\ UNCHANGED <<clock, file, pool, ts, todo, victims>>

\* Mutant: apply_retention also runs after a failed transfer.
DestroyOwnThenPrune(j) ==
    /\ pc[j] = "destroy"
    /\ snaps' = [snaps EXCEPT ![HostFor(j)] = @ \ Subtree(OwnSnap(j))]
    /\ NoFault
    /\ Goto(j, "retain")
    /\ UNCHANGED <<clock, file, pool, ts, todo, victims>>

\* The finally clause: a failing destroy, whether it took effect or not, is only
\* logged.  Then the pending exception leaves the call, or apply_retention begins.
DestroyOwn(j) ==
    LET h == HostFor(j) IN
    /\ pc[j] = "destroy"
    /\ \/ /\ Destroyable(h, OwnSnap(j))
          /\ snaps' = [snaps EXCEPT ![h] = @ \ Subtree(OwnSnap(j))]
          /\ NoFault
       \/ /\ ~Destroyable(h, OwnSnap(j))
          /\ UNCHANGED snaps
          /\ NoFault
       \/ /\ Fault(j)
          /\ \/ UNCHANGED snaps
             \/ /\ Destroyable(h, OwnSnap(j))
                /\ snaps' = [snaps EXCEPT ![h] = @ \ Subtree(OwnSnap(j))]
    /\ IF failed[j] THEN Goto(j, "done") ELSE Goto(j, "retain")
    /\ UNCHANGED <<clock, file, pool, ts, todo, victims>>

\* apply_retention reads the directory once and decides what to delete.
ListArchives(j) ==
    /\ pc[j] = "retain"
    /\ victims' = [victims EXCEPT ![j] = ToDelete(Present(ServerOf[j]), Keep)]
    /\ Goto(j, "prune")
    /\ NoFault
    /\ UNCHANGED <<clock, snaps, file, pool, ts, todo>>

\* Mutant: a file that is already gone is waited for.
PruneInsists(j) ==
    /\ pc[j] = "prune"
    /\ \E a \in victims[j] :
        /\ IsFirst(a, victims[j])
        /\ file[ServerOf[j]][a] # "none"
        /\ file' = [file EXCEPT ![ServerOf[j]][a] = "none"]
        /\ victims' = [victims EXCEPT ![j] = @ \ {a}]
    /\ NoFault
    /\ UNCHANGED <<clock, snaps, pc, pool, ts, todo, failed>>

\* One unlink of the deletion loop; OSError, a file that another run already
\* deleted included, ends it with RetentionError.
Prune(j) ==
    /\ pc[j] = "prune"
    /\ \E a \in victims[j] :
        /\ IsFirst(a, victims[j])
        /\ \/ /\ file[ServerOf[j]][a] # "none"
              /\ file' = [file EXCEPT ![ServerOf[j]][a] = "none"]
              /\ victims' = [victims EXCEPT ![j] = @ \ {a}]
              /\ NoFault
              /\ UNCHANGED <<pc, failed>>
           \/ /\ file[ServerOf[j]][a] = "none"
              /\ Raise(j, "done")
              /\ NoFault
              /\ UNCHANGED <<file, victims>>
           \/ /\ Fault(j)
              /\ Raise(j, "done")
              /\ UNCHANGED <<file, victims>>
    /\ UNCHANGED <<clock, snaps, pool, ts, todo>>

Return(j) ==
    /\ pc[j] = "prune" /\ victims[j] = {}
    /\ Goto(j, "done")
    /\ NoFault
    /\ UNCHANGED <<clock, snaps, file, pool, ts, todo, victims>>

-----------------------------------------------------------------------------
(* The environment.                                                        *)

\* The process of a run is killed (SIGKILL, power): no finally clause runs.
\* External: nothing in the code.
Crash(r) ==
    LET hurt == {j \in Job : RunOf[j] = r /\ pc[j] \notin Ended} IN
    /\ hurt # {}
    /\ faults < MaxFaults /\ faults' = faults + 1
    /\ hit' = [j \in Job |-> hit[j] \/ j \in hurt]
    /\ pc' = [j \in Job |-> IF j \in hurt THEN "crashed" ELSE pc[j]]
    /\ UNCHANGED <<clock, snaps, file, pool, ts, todo, victims, failed>>

\* External: the wall clock, bounded by MaxTime.
Tick ==
    /\ clock < MaxTime
    /\ clock' = clock + 1
    /\ UNCHANGED <<snaps, file, pc, pool, ts, todo, victims, failed, faults, hit>>

Step(j) ==
    \/ ListStale(j)
    \/ DestroyStale(j)
    \/ CreateSnapshot(j)
    \/ OpenArchive(j)
    \/ BeginSend(j)
    \/ EndStream(j)
    \/ StatArchive(j)
    \/ DestroyOwn(j)
    \/ ListArchives(j)
    \/ Prune(j)
    \/ Return(j)

Next ==
    \/ \E j \in Job : Start(j) \/ Step(j)
    \/ \E r \in Run : Crash(r)
    \/ Tick

Spec == Init /\ [][Next]_vars

\* Every command ends (no code bounds it in time, but a model without this
\* says nothing about liveness) and somebody keeps starting runs: the timer.
Fairness == \A j \in Job : WF_vars(Start(j)) /\ WF_vars(Step(j))
FairSpec == Spec /\ Fairness

-----------------------------------------------------------------------------
(* Properties.  Deployments they hold in:                                  *)

\* One run at a time, and no machine configured twice.
OneCallPerHost == \A j, k \in Job : HostFor(j) = HostFor(k) => j = k
\* No machine configured twice, whatever runs overlap on it.
OneServerPerHost == \A s, u \in Server : HostOf[s] = HostOf[u] => s = u
\* The zfs_pool of a server is never edited.
OnePoolPerServer == \A s \in Server : \A p, q \in PoolsOf[s] : p = q
\* The deployment the documentation describes: a daily timer, and at least one
\* archive to keep.
Documented == OneCallPerHost /\ OnePoolPerServer /\ RunGap = 1 /\ Keep >= 1

\* A call that met no fault destroyed its snapshot, even if it failed or other
\* runs worked on the same machine.  (The finally clause of backup_zfs.)  Holds
\* with OneServerPerHost and RunGap 1, which give every call a name of its own.
NoSnapshotLeak ==
    \A j \in Job : pc[j] = "done" /\ ~hit[j] =>
        Subtree(OwnSnap(j)) \cap snaps[HostFor(j)] = {}

\* Whatever earlier calls left behind, a call that meets no fault succeeds,
\* has its complete archive on disk and leaves no pull_backup_ snapshot on the
\* machine.  Holds with Documented.
FaultFreeCallHeals ==
    \A j \in Job : pc[j] = "done" /\ ~hit[j] =>
        /\ ~failed[j]
        /\ OwnFile(j) = "whole"
        /\ snaps[HostFor(j)] = {}

\* A call that reports success has not deleted the archive it has just pulled:
\* retention works by name, and no name sorts after the new one.  Holds with
\* OneCallPerHost, OnePoolPerServer, Keep >= 1.
ReportedArchivePresent ==
    \A j \in Job : pc[j] = "done" /\ ~failed[j] => OwnFile(j) # "none"

\* What a success report means to its reader: the archive is complete.  It
\* does not hold: gzip hides the failure of zfs send, whatever made zfs send
\* fail.  One cause needs no fault at all: the cleanup of an overlapping run takes
\* the snapshot of this one for a leftover and destroys it.
ReportedArchiveWhole ==
    \A j \in Job : pc[j] = "done" /\ ~failed[j] => OwnFile(j) = "whole"

\* A complete archive is lost only to the retention of a call for the same
\* server that has its own new archive on disk: a failed run never costs an
\* old archive.  Holds with OneCallPerHost and RunGap 1.
LossOnlyByRetention ==
    [][\A s \in Server, a \in Archive :
          file[s][a] = "whole" /\ file'[s][a] # "whole" =>
              \E j \in Job : /\ ServerOf[j] = s
                             /\ pc[j] = "prune" /\ a \in victims[j]
                             /\ OwnFile(j) # "none"]_vars

\* No deletion leaves fewer than Keep archives, although the directory is read
\* once and the files are deleted one by one.  Holds with OneCallPerHost.
RetentionFloor ==
    [][\A j \in Job :
          pc[j] = "prune" /\ victims'[j] # victims[j] =>
              Cardinality(Present(ServerOf[j])') >= Keep]_vars

\* A call that has begun ends, with a result or with its process, however
\* other runs for the same server delete its snapshot and files.
CallEnds == \A j \in Job : pc[j] = "list" ~> pc[j] \in Ended

\* Every snapshot on a machine is eventually gone: destroyed by its own call,
\* or, after lost replies and crashes, by the cleanup of later calls, although
\* that cleanup stops at the first dataset it finds already destroyed.
LeftoversRemoved ==
    \A h \in Host : \A sn \in Snap : sn \in snaps[h] ~> sn \notin snaps[h]
=============================================================================
