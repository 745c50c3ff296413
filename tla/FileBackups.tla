---------------------------- MODULE FileBackups ----------------------------
(***************************************************************************)
(* backup_config and backup_packages (adapters/backup/config_backup.py and *)
(* packages_backup.py), as backup_server calls them one after the other    *)
(* for one server, on top of adapters/ssh/commands.py and apply_retention. *)
(*                                                                         *)
(* They keep three kinds of files in <backup_dir>/<server>/configs: the    *)
(* tar archive of the configuration and two package lists.  The names of a *)
(* kind differ in the one-second time stamp alone.  A Run is a place from  *)
(* which backup_server is called again and again; with two runs, calls for *)
(* the server overlap.  Every command, every file operation and every      *)
(* unlink of the retention is a step of its own.                           *)
(***************************************************************************)
EXTENDS Retention

CONSTANTS
    Run,
    KeepOf,     \* config_retention_count, packagelist_retention_count
    MaxTime,    \* bound: last second of the clock
    MaxFaults,  \* bound: environment faults
    RunGap      \* seconds between two calls: 1 from the timer, 0 when two may
                \* begin within one second

Kind == {"config", "selections", "list"}
Time == 0 .. MaxTime

ASSUME FileAssumption ==
    /\ KeepOf \in [Kind -> Int]
    /\ MaxTime \in Nat /\ MaxFaults \in Nat /\ RunGap \in {0, 1}

VARIABLES
    timer,      \* calls come from the timer alone, which starts one at a time
    clock,      \* wall clock, whole seconds
    file,       \* [Kind -> [time stamp -> content]]
    pc,         \* [Run -> step it is about to make]
    at,         \* [Run -> kind of file it is at]
    ts,         \* [Run -> timestamp of the current call]
    victims,    \* [Run -> to_delete of apply_retention not yet unlinked]
    outcome,    \* [Run -> [call -> how it ended]]
    faults,
    hit,        \* observability: [Run -> a fault struck the current calls]
    made        \* observability: [Kind -> time stamps of complete files made]

vars == <<timer, clock, file, pc, at, ts, victims, outcome, faults, hit, made>>

Call    == {"config", "packages"}
CallOf  == [k \in Kind |-> IF k = "config" THEN "config" ELSE "packages"]
Content == {"none", "partial", "whole"}
Working == {"open", "stream", "stat", "capture", "create", "fill", "retain", "prune"}

TypeOK ==
    /\ timer \in BOOLEAN
    /\ clock \in Time
    /\ file \in [Kind -> [Time -> Content]]
    /\ pc \in [Run -> Working \cup {"ended"}]
    /\ at \in [Run -> Kind]
    /\ ts \in [Run -> Time]
    /\ victims \in [Run -> SUBSET Name({0}, Time)]
    /\ outcome \in [Run -> [Call -> {"none", "ok", "raised", "killed"}]]
    /\ faults \in 0 .. MaxFaults
    /\ hit \in [Run -> BOOLEAN]
    /\ made \in [Kind -> SUBSET Time]

Init ==
    /\ timer \in BOOLEAN
    /\ clock = 0
    /\ file = [k \in Kind |-> [t \in Time |-> "none"]]
    /\ pc = [r \in Run |-> "ended"]
    /\ at = [r \in Run |-> "config"]
    /\ ts = [r \in Run |-> 0]
    /\ victims = [r \in Run |-> {}]
    /\ outcome = [r \in Run |-> [c \in Call |-> "none"]]
    /\ faults = 0
    /\ hit = [r \in Run |-> FALSE]
    /\ made = [k \in Kind |-> {}]

-----------------------------------------------------------------------------
Own(r)     == file[at[r]][ts[r]]                       \* dest_path
Present(k) == {[rank |-> 0, ts |-> t] : t \in {u \in Time : file[k][u] # "none"}}
Whole(k)   == {t \in Time : file[k][t] = "whole"}
Started(r) == pc[r] # "ended" \/ \E c \in Call : outcome[r][c] # "none"

Fault(r) == /\ faults < MaxFaults /\ faults' = faults + 1
            /\ hit' = [hit EXCEPT ![r] = TRUE]
NoFault  == UNCHANGED <<faults, hit>>

Step(r, from, to) == pc[r] = from /\ pc' = [pc EXCEPT ![r] = to]
InCall == UNCHANGED <<timer, clock, at, ts, outcome>>
Write(r, content) == file' = [file EXCEPT ![at[r]][ts[r]] = content]

\* The last byte is written; a file that another run unlinked meanwhile does
\* not come back.
Complete(r) ==
    IF Own(r) = "none" THEN UNCHANGED <<file, made>>
    ELSE Write(r, "whole") /\ made' = [made EXCEPT ![at[r]] = @ \cup {ts[r]}]

\* Mutant: every dump takes its own time stamp.
LeaveOwnStamps(r, from, result) ==
    /\ pc[r] = from
    /\ LET next == CASE at[r] = "config" -> "selections"
                     [] at[r] = "selections" /\ result = "ok" -> "list"
                     [] OTHER -> "none"
       IN /\ pc' = [pc EXCEPT ![r] = IF next = "none" THEN "ended" ELSE "capture"]
          /\ at' = [at EXCEPT ![r] = IF next = "none" THEN @ ELSE next]
          /\ ts' = [ts EXCEPT ![r] = IF next = "none" THEN @ ELSE clock]
          /\ outcome' = [outcome EXCEPT ![r][CallOf[at[r]]] =
                            IF next = "list" THEN @ ELSE result]
    /\ victims' = [victims EXCEPT ![r] = {}]
    /\ UNCHANGED <<timer, clock, made>>

\* The call of kind at[r] ends and backup_server goes on: after backup_config,
\* raised or not, backup_packages takes its own time stamp; its second dump
\* has that of the first and is not made when the first one raised.
Leave(r, from, result) ==
    /\ pc[r] = from
    /\ LET next == CASE at[r] = "config" -> "selections"
                     [] at[r] = "selections" /\ result = "ok" -> "list"
                     [] OTHER -> "none"
       IN /\ pc' = [pc EXCEPT ![r] = IF next = "none" THEN "ended" ELSE "capture"]
          /\ at' = [at EXCEPT ![r] = IF next = "none" THEN @ ELSE next]
          /\ ts' = [ts EXCEPT ![r] = IF next = "selections" THEN clock ELSE @]
          /\ outcome' = [outcome EXCEPT ![r][CallOf[at[r]]] =
                            IF next = "list" THEN @ ELSE result]
    /\ victims' = [victims EXCEPT ![r] = {}]
    /\ UNCHANGED <<timer, clock, made>>

\* backup_server with the configuration backup enabled.
Start(r) ==
    /\ Step(r, "ended", "open")
    /\ timer => \A q \in Run : pc[q] = "ended"
    /\ \A q \in Run : Started(q) => clock >= ts[q] + RunGap
    /\ at' = [at EXCEPT ![r] = "config"]
    /\ ts' = [ts EXCEPT ![r] = clock]
    /\ outcome' = [outcome EXCEPT ![r] = [c \in Call |-> "none"]]
    /\ hit' = [hit EXCEPT ![r] = FALSE]
    /\ UNCHANGED <<timer, clock, file, victims, faults, made>>

\* ..._pipe_to_file: open("wb") truncates.  When mkdir or open fails there is
\* no file, when the process cannot be started the empty one stays.
OpenArchive(r) ==
    \/ /\ Step(r, "open", "stream") /\ Write(r, "partial")
       /\ NoFault /\ InCall /\ UNCHANGED <<victims, made>>
    \/ /\ Leave(r, "open", "raised") /\ Fault(r)
       /\ Write(r, "partial") \/ UNCHANGED file

\* Mutant: the file of a failed pipe is kept.
EndStreamKeeps(r) ==
    \/ /\ Step(r, "stream", "stat")
       /\ Complete(r)
       /\ NoFault /\ InCall /\ UNCHANGED victims
    \/ /\ Step(r, "stream", "stat")
       /\ Fault(r) /\ InCall /\ UNCHANGED <<file, victims, made>>

\* tar and ssh end.  A failing exit code removes the file, by name.
EndStream(r) ==
    \/ /\ Step(r, "stream", "stat")
       /\ Complete(r)
       /\ NoFault /\ InCall /\ UNCHANGED victims
    \/ Leave(r, "stream", "raised") /\ Fault(r) /\ Write(r, "none")

\* dest_path.stat()
StatArchive(r) ==
    /\ \/ Own(r) # "none" /\ Step(r, "stat", "retain") /\ InCall /\ UNCHANGED <<victims, made>>
       \/ Own(r) = "none" /\ Leave(r, "stat", "raised")
    /\ NoFault /\ UNCHANGED file

\* _run_and_capture: dpkg's whole output is in memory before a file is opened.
CaptureList(r) ==
    /\ \/ Step(r, "capture", "create") /\ NoFault /\ InCall /\ UNCHANGED <<victims, made>>
       \/ Leave(r, "capture", "raised") /\ Fault(r)
    /\ UNCHANGED file

\* mkdir, and write_text opens the file: it truncates.
CreateList(r) ==
    \/ /\ Step(r, "create", "fill") /\ Write(r, "partial")
       /\ NoFault /\ InCall /\ UNCHANGED <<victims, made>>
    \/ Leave(r, "create", "raised") /\ Fault(r) /\ UNCHANGED file

\* write_text fills it; a full disk leaves a part of it.
FillList(r) ==
    \/ /\ Step(r, "fill", "retain")
       /\ Complete(r)
       /\ NoFault /\ InCall /\ UNCHANGED victims
    \/ Leave(r, "fill", "raised") /\ Fault(r) /\ UNCHANGED file

\* apply_retention reads the directory, with the pattern of the kind.
ListFiles(r) ==
    /\ Step(r, "retain", "prune")
    /\ victims' = [victims EXCEPT ![r] = ToDelete(Present(at[r]), KeepOf[at[r]])]
    /\ NoFault /\ InCall /\ UNCHANGED <<file, made>>

\* Mutant: a file that is already gone is waited for.
PruneInsists(r) ==
    \E a \in victims[r] :
        /\ IsFirst(a, victims[r])
        /\ file[at[r]][a.ts] # "none" /\ Step(r, "prune", "prune")
        /\ file' = [file EXCEPT ![at[r]][a.ts] = "none"]
        /\ victims' = [victims EXCEPT ![r] = @ \ {a}]
        /\ NoFault /\ InCall /\ UNCHANGED made

\* One unlink, the oldest first; an OSError, a file already gone included,
\* leaves the call with RetentionError.
Prune(r) ==
    \E a \in victims[r] :
        /\ IsFirst(a, victims[r])
        /\ \/ /\ file[at[r]][a.ts] # "none"
              /\ Step(r, "prune", "prune")
              /\ file' = [file EXCEPT ![at[r]][a.ts] = "none"]
              /\ victims' = [victims EXCEPT ![r] = @ \ {a}]
              /\ NoFault /\ InCall /\ UNCHANGED made
           \/ /\ Leave(r, "prune", "raised") /\ UNCHANGED file
              /\ IF file[at[r]][a.ts] = "none" THEN NoFault ELSE Fault(r)

Return(r) ==
    /\ victims[r] = {} /\ Leave(r, "prune", "ok")
    /\ NoFault /\ UNCHANGED file

-----------------------------------------------------------------------------
\* The process is killed: nothing is cleaned up.  External: the machine.
Crash(r) ==
    /\ pc[r] \in Working
    /\ pc' = [pc EXCEPT ![r] = "ended"]
    /\ victims' = [victims EXCEPT ![r] = {}]
    /\ outcome' = [outcome EXCEPT ![r][CallOf[at[r]]] = "killed"]
    /\ Fault(r) /\ UNCHANGED <<timer, clock, file, at, ts, made>>

\* External: the wall clock, bounded by MaxTime.
Tick ==
    /\ clock < MaxTime
    /\ clock' = clock + 1
    /\ UNCHANGED <<timer, file, pc, at, ts, victims, outcome, faults, hit, made>>

Advance(r) ==
    \/ OpenArchive(r) \/ EndStream(r) \/ StatArchive(r)
    \/ CaptureList(r) \/ CreateList(r) \/ FillList(r)
    \/ ListFiles(r) \/ Prune(r) \/ Return(r)

Next == (\E r \in Run : Start(r) \/ Advance(r) \/ Crash(r)) \/ Tick

Spec == Init /\ [][Next]_vars
FairSpec == Spec /\ \A r \in Run : WF_vars(Advance(r))

-----------------------------------------------------------------------------
(* Properties.                                                             *)

\* One run at a time, as the timer has it, and something to keep.
Documented ==
    /\ timer
    /\ RunGap = 1
    /\ \A k \in Kind : KeepOf[k] >= 1

\* Pulling files implements Vault: whatever fails or crashes between any two
\* steps, the newest complete archive and the newest complete lists are never
\* lost and never a step back.  Holds with Documented.
V == INSTANCE Vault WITH Stamp <- Time,
         copies <- [k \in Kind |-> IF Documented THEN Whole(k) ELSE {}]
KeepsVault == V!Spec

\* Calls that met no fault return, and until the next one begins the newest
\* file of every kind is complete, whatever earlier calls left behind.  The
\* deployment is the documented one.
FaultFreeCallsReturn ==
    \A r \in Run : Documented /\ pc[r] = "ended" /\ Started(r) /\ ~hit[r] =>
        /\ \A c \in Call : outcome[r][c] = "ok"
        /\ (\A q \in Run : pc[q] = "ended" /\ ts[q] <= ts[r]) =>
              \A k \in Kind : \E t \in Whole(k) : \A u \in Time : u > t => file[k][u] = "none"

\* The two package lists of one call belong together, but they are made and
\* pruned one after the other.  With room for two files more than there were
\* faults, a pair of complete lists of the same call is always at hand.  The
\* timer's calls.
PairAtHand ==
    timer /\ made["list"] # {} /\ faults + 2 <= KeepOf["selections"] =>
        Whole("selections") \cap Whole("list") # {}

\* Runs that overlap lose nothing by that alone: as long as nothing fails, at
\* rest every complete file made is there, or a newer complete one
\* (apply_retention under two runs).  Holds with something to keep of each kind.
OverlapLosesNothing ==
    faults = 0 /\ (\A r \in Run : pc[r] = "ended") =>
        \A k \in Kind : \A t \in made[k] : \E u \in Whole(k) : u >= t

\* A call that has begun ends, however overlapping runs unlink its files.
CallsEnd == \A r \in Run : pc[r] = "open" ~> pc[r] = "ended"
=============================================================================
