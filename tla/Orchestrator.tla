---------------------------- MODULE Orchestrator ---------------------------
(***************************************************************************)
(* One run of the "backup" command: cli_backup (adapters/cli/commands/     *)
(* backup.py), backup_all and backup_server (adapters/backup/              *)
(* orchestrator.py) and the summary of domain/models.py and behaviors.py.  *)
(*                                                                         *)
(* The main thread selects the servers, submits one task per server to a   *)
(* thread pool, collects results in the order of completion, sorts them,   *)
(* prints and mails the summary and exits.  Each task calls backup_config, *)
(* backup_packages and backup_zfs, which are here one step each that       *)
(* returns or raises (ZfsBackup opens backup_zfs).  Servers are numbered   *)
(* in the order of their names.                                            *)
(***************************************************************************)
EXTENDS Integers, FiniteSets, Sequences

CONSTANTS
    Server,         \* configured names, as positive numbers
    MaxParallel,    \* max_parallel, when it is a possible pool size
    TypeOption,     \* bound: the values of --type an instance looks at
    Flags           \* bound: the sets of types a server may have enabled

Kind == {"config", "zfs"}
Wanted == {Kind, {"config"}, {"zfs"}}          \* BackupType

ASSUME PoolAssumption ==
    /\ Server \subseteq Nat \ {0}
    /\ MaxParallel \in Nat \ {0}
    /\ TypeOption \subseteq Wanted
    /\ Flags \subseteq SUBSET Kind

VARIABLES
    main,       \* where the main thread is
    asked,      \* servers this run backs up
    enabled,    \* [Server -> backup types its configuration enables]
    want,       \* backup types of --type
    dry,        \* --dry-run
    stage,      \* [Server -> where its task is]
    call,       \* observability: [Server -> [call -> how it ended]]
    ok,         \* [Server -> types whose ..._ok is True]
    skipped,    \* [Server -> types whose ..._skipped is True]
    yielded,    \* futures as_completed has handed out
    results,    \* list of BackupResult
    mail,       \* subject of the summary mail
    code        \* exit code of the process

inputs == <<asked, enabled, want, dry>>
task   == <<stage, call, ok, skipped>>
vars   == <<main, inputs, task, yielded, results, mail, code>>

Working == {"config", "packages", "zfs"}
Finished == {"returned", "raised"}
Stage == {"unsubmitted", "queued"} \cup Working \cup Finished
Result == [server : Server, ok : SUBSET Kind, skipped : SUBSET Kind]

TypeOK ==
    /\ main \in {"select", "settings", "submit", "collect", "report", "mail",
                 "exit", "drain", "ended"}
    /\ asked \in SUBSET Server
    /\ enabled \in [Server -> SUBSET Kind]
    /\ want \in Wanted
    /\ dry \in BOOLEAN
    /\ stage \in [Server -> Stage]
    /\ call \in [Server -> [Working -> {"none", "ok", "raised"}]]
    /\ ok \in [Server -> SUBSET Kind]
    /\ skipped \in [Server -> SUBSET Kind]
    /\ yielded \in SUBSET Server
    /\ results \in Seq(Result)
    /\ mail \in {"none", "OK", "ERROR", "WARNING", "lost"}
    /\ code \in {"none", "success", "general", "invalid", "exception", "interrupted"}

Init ==
    /\ main = "select"
    /\ asked = {}
    /\ enabled = [s \in Server |-> {}]
    /\ want = Kind
    /\ dry = FALSE
    /\ stage = [s \in Server |-> "unsubmitted"]
    /\ call = [s \in Server |-> [k \in Working |-> "none"]]
    /\ ok = [s \in Server |-> {}]
    /\ skipped = [s \in Server |-> {}]
    /\ yielded = {}
    /\ results = <<>>
    /\ mail = "none"
    /\ code = "none"

-----------------------------------------------------------------------------
(* domain/models.py, domain/behaviors.py.                                  *)

HasErrors(r) == ~(Kind \subseteq r.ok \cup r.skipped)
AllOk  == \A i \in DOMAIN results : ~HasErrors(results[i])
Failed == {i \in DOMAIN results : HasErrors(results[i])}

\* Mutant: the two failure tags are told apart by the wrong test.
SubjectAnyError == IF AllOk THEN "OK" ELSE "ERROR"

Subject ==
    IF AllOk THEN "OK"
    ELSE IF Failed = DOMAIN results THEN "ERROR" ELSE "WARNING"

-----------------------------------------------------------------------------
(* A task: backup_server for server s.                                     *)

Busy == {s \in Server : stage[s] \in Working}
Move(s, label) == stage' = [stage EXCEPT ![s] = label]
MainIdle == UNCHANGED <<main, inputs, yielded, results, mail, code>>

\* External: the pool.  A free worker thread takes the oldest item of the
\* queue, whatever the main thread does meanwhile.
Begin(s) ==
    /\ stage[s] = "queued"
    /\ \A t \in Server : stage[t] = "queued" => s <= t
    /\ Cardinality(Busy) < MaxParallel
    /\ Move(s, "config")
    /\ ok' = [ok EXCEPT ![s] = Kind]
    /\ UNCHANGED <<call, skipped>>
    /\ MainIdle

\* The outcomes of one backup call; with --dry-run it returns before it does
\* anything.
Outcome(s, k, result) ==
    /\ result \in IF dry THEN {"none"} ELSE {"ok", "raised"}
    /\ call' = [call EXCEPT ![s][k] = result]

\* "elif not server.backup_...": a type left out by --type is not marked.
Skip(s, k) ==
    /\ skipped' = [skipped EXCEPT ![s] =
                     IF k \in enabled[s] THEN @ ELSE @ \cup {k}]
    /\ UNCHANGED <<call, ok>>

\* Mutant: a failed configuration backup ends the task.
BackupConfigGivesUp(s) ==
    /\ stage[s] = "config"
    /\ IF "config" \in want \cap enabled[s]
         THEN \E result \in {"none", "ok", "raised"} :
                /\ Outcome(s, "config", result)
                /\ ok' = [ok EXCEPT ![s] = IF result = "raised" THEN @ \ {"config"} ELSE @]
                /\ Move(s, IF result = "raised" THEN "returned" ELSE "packages")
                /\ UNCHANGED skipped
         ELSE Skip(s, "config") /\ Move(s, "zfs")
    /\ MainIdle

BackupConfig(s) ==
    /\ stage[s] = "config"
    /\ IF "config" \in want \cap enabled[s]
         THEN \E result \in {"none", "ok", "raised"} :
                /\ Outcome(s, "config", result)
                /\ ok' = [ok EXCEPT ![s] = IF result = "raised" THEN @ \ {"config"} ELSE @]
                /\ Move(s, "packages")
                /\ UNCHANGED skipped
         ELSE Skip(s, "config") /\ Move(s, "zfs")
    /\ MainIdle

\* Mutant: the package list gets a place in the result, as a third type.
BackupPackagesCounted(s) ==
    /\ stage[s] = "packages"
    /\ \E result \in {"none", "ok", "raised"} :
        /\ Outcome(s, "packages", result)
        /\ ok' = [ok EXCEPT ![s] = IF result = "raised" THEN @ ELSE @ \cup {"packages"}]
    /\ Move(s, "zfs")
    /\ UNCHANGED skipped
    /\ MainIdle

\* Its failure is logged and has no place in the result.
BackupPackages(s) ==
    /\ stage[s] = "packages"
    /\ \E result \in {"none", "ok", "raised"} : Outcome(s, "packages", result)
    /\ Move(s, "zfs")
    /\ UNCHANGED <<ok, skipped>>
    /\ MainIdle

\* Mutant: the except clause only logs.
BackupZfsLogged(s) ==
    /\ stage[s] = "zfs"
    /\ IF "zfs" \in want \cap enabled[s]
         THEN /\ \E result \in {"none", "ok", "raised"} : Outcome(s, "zfs", result)
              /\ UNCHANGED <<ok, skipped>>
         ELSE Skip(s, "zfs")
    /\ Move(s, "returned")
    /\ MainIdle

BackupZfs(s) ==
    /\ stage[s] = "zfs"
    /\ IF "zfs" \in want \cap enabled[s]
         THEN \E result \in {"none", "ok", "raised"} :
                /\ Outcome(s, "zfs", result)
                /\ ok' = [ok EXCEPT ![s] = IF result = "raised" THEN @ \ {"zfs"} ELSE @]
                /\ UNCHANGED skipped
         ELSE Skip(s, "zfs")
    /\ Move(s, "returned")
    /\ MainIdle

\* An exception outside the three try blocks leaves backup_server.
Unexpected(s) ==
    /\ stage[s] \in Working
    /\ Move(s, "raised")
    /\ UNCHANGED <<call, ok, skipped>>
    /\ MainIdle

Task(s) ==
    \/ Begin(s)
    \/ BackupConfig(s)
    \/ BackupPackages(s)
    \/ BackupZfs(s)
    \/ Unexpected(s)

-----------------------------------------------------------------------------
(* The main thread.                                                        *)

End(exitcode) == main' = "ended" /\ code' = exitcode

\* _servers_from_config and the options: C is the configuration, f the
\* --server filter or 0.
Select(C, f) ==
    LET chosen == IF f = 0 THEN C ELSE C \cap {f} IN
    /\ main = "select"
    /\ IF chosen = {}
         THEN /\ End(IF C = {} THEN "general" ELSE "invalid")
              /\ UNCHANGED inputs
         ELSE /\ main' = "settings" /\ UNCHANGED code
              /\ asked' = chosen
              /\ \E e \in [chosen -> Flags] :
                    enabled' = [s \in Server |-> IF s \in chosen THEN e[s] ELSE {}]
              /\ want' \in TypeOption
              /\ dry' \in BOOLEAN
    /\ UNCHANGED <<task, yielded, results, mail>>

\* extract_backup_settings and ThreadPoolExecutor(): a value that is no
\* number, or max_parallel below 1, is a ValueError.
ExtractSettings ==
    /\ main = "settings"
    /\ \/ main' = "submit" /\ UNCHANGED code
       \/ End("exception")
    /\ UNCHANGED <<inputs, task, yielded, results, mail>>

Unsubmitted == {s \in asked : stage[s] = "unsubmitted"}

Submit ==
    /\ main = "submit"
    /\ \E s \in Unsubmitted :
        /\ \A t \in Unsubmitted : s <= t
        /\ Move(s, "queued")
        /\ main' = IF Unsubmitted = {s} THEN "collect" ELSE "submit"
    /\ UNCHANGED <<inputs, call, ok, skipped, yielded, results, mail, code>>

\* Mutant: the future's exception is only logged.
CollectLogged(s) ==
    /\ main = "collect"
    /\ s \in asked \ yielded /\ stage[s] \in Finished
    /\ yielded' = yielded \cup {s}
    /\ results' = IF stage[s] = "returned"
                    THEN Append(results, [server |-> s, ok |-> ok[s], skipped |-> skipped[s]])
                    ELSE results
    /\ UNCHANGED <<main, inputs, task, mail, code>>

\* as_completed hands out the finished futures in any order.
Collect(s) ==
    /\ main = "collect"
    /\ s \in asked \ yielded /\ stage[s] \in Finished
    /\ yielded' = yielded \cup {s}
    /\ results' = Append(results,
                    IF stage[s] = "returned"
                      THEN [server |-> s, ok |-> ok[s], skipped |-> skipped[s]]
                      ELSE [server |-> s, ok |-> {}, skipped |-> {}])
    /\ UNCHANGED <<main, inputs, task, mail, code>>

\* results.sort(key=server).
Summarise ==
    LET n == Len(results) IN
    /\ main = "collect" /\ yielded = asked
    /\ \E p \in [1 .. n -> 1 .. n] :
        /\ \A i \in 1 .. n : \E j \in 1 .. n : p[j] = i
        /\ \A i, j \in 1 .. n : i < j => results[p[i]].server < results[p[j]].server
        /\ results' = [i \in 1 .. n |-> results[p[i]]]
    /\ main' = "report"
    /\ UNCHANGED <<inputs, task, yielded, mail, code>>

\* build_summary_report, echo.  A broken pipe ends the run, the mail unsent.
Report ==
    /\ main = "report"
    /\ \/ /\ main' = IF dry THEN "exit" ELSE "mail"
          /\ UNCHANGED code
       \/ End("exception")
    /\ UNCHANGED <<inputs, task, yielded, results, mail>>

\* _send_summary_email: every failure is logged and swallowed.
SendSummary ==
    /\ main = "mail"
    /\ mail' \in {Subject, "lost"}
    /\ main' = "exit"
    /\ UNCHANGED <<inputs, task, yielded, results, code>>

Exit ==
    /\ main = "exit"
    /\ End(IF AllOk THEN "success" ELSE "general")
    /\ UNCHANGED <<inputs, task, yielded, results, mail>>

\* Mutant: the pool is not a context manager, nobody waits for it.
InterruptAtOnce ==
    /\ main \in {"select", "settings", "submit", "collect", "report", "mail", "exit"}
    /\ End("interrupted")
    /\ UNCHANGED <<inputs, task, yielded, results, mail>>

\* KeyboardInterrupt in the main thread.  Inside "with ThreadPoolExecutor" the
\* executor is shut down with wait=True first.
Interrupt ==
    /\ \/ main \in {"submit", "collect"} /\ main' = "drain" /\ UNCHANGED code
       \/ main \in {"select", "settings", "report", "mail", "exit"} /\ End("interrupted")
    /\ UNCHANGED <<inputs, task, yielded, results, mail>>

\* Mutant: the tasks not yet submitted are waited for as well.
DrainAll ==
    /\ main = "drain"
    /\ \A s \in asked : stage[s] \in Finished
    /\ End("interrupted")
    /\ UNCHANGED <<inputs, task, yielded, results, mail>>

\* The exception leaves "with ThreadPoolExecutor": the queue, too, is worked off
\* first.
Drain ==
    /\ main = "drain"
    /\ \A s \in Server : stage[s] \notin {"queued"} \cup Working
    /\ End("interrupted")
    /\ UNCHANGED <<inputs, task, yielded, results, mail>>

Main ==
    \/ \E C \in SUBSET Server, f \in Server \cup {0} : Select(C, f)
    \/ ExtractSettings
    \/ Submit
    \/ \E s \in Server : Collect(s)
    \/ Summarise
    \/ Report
    \/ SendSummary
    \/ Exit
    \/ Drain

Next == Main \/ Interrupt \/ \E s \in Server : Task(s)

Spec == Init /\ [][Next]_vars

\* The main thread and the worker threads run, and every call ends.
Fairness == WF_vars(Main) /\ \A s \in Server : WF_vars(Task(s))
FairSpec == Spec /\ Fairness

-----------------------------------------------------------------------------
(* Properties.                                                             *)

\* The backup of s went wrong as seen from its calls, not from its result.
WentWrong(s) ==
    \/ stage[s] = "raised"
    \/ \E k \in Kind : call[s][k] = "raised"

\* When the summary is made every server asked for has exactly one entry, in
\* the order of the names, and the entry is wrong exactly if the calls were,
\* whatever the order of completion.  (backup_all collects and sorts.)
SummaryComplete ==
    main \in {"report", "mail", "exit"} =>
        /\ Len(results) = Cardinality(asked)
        /\ {results[i].server : i \in DOMAIN results} = asked
        /\ \A i, j \in DOMAIN results : i < j => results[i].server < results[j].server
        /\ \A i \in DOMAIN results :
              HasErrors(results[i]) <=> WentWrong(results[i].server)

\* Exit code 0 after a run without --dry-run means that every backup the
\* options and the configuration ask for was made; the general error code after
\* work means that one was not.  (cli_backup turns summary.all_ok into a code.)
VerdictTruthful ==
    /\ code = "success" =>
         \A s \in asked : \A k \in want \cap enabled[s] : dry \/ call[s][k] = "ok"
    /\ code = "general" /\ asked # {} => \E s \in asked : WentWrong(s)

\* No failure keeps another backup from being tried: not of another type for
\* the same server, not of another server.  (backup_server and backup_all catch
\* per type and per server.)
FailureIsolated ==
    main \in {"report", "mail", "exit"} /\ ~dry =>
        \A s \in asked :
            \/ stage[s] = "raised"
            \/ \A k \in want \cap enabled[s] : call[s][k] # "none"

\* A run that tells success or failure has sent a mail that says the same, or
\* lost it to an error; a dry run mails nothing.  (build_summary_subject and
\* ctx.exit are computed from the summary independently.)
MailTellsVerdict ==
    code \in {"success", "general"} /\ asked # {} =>
        IF dry THEN mail = "none"
        ELSE /\ mail # "none"
             /\ mail = "OK" => code = "success"
             /\ mail = "WARNING" => \E s, t \in asked : WentWrong(s) /\ ~WentWrong(t)
             /\ mail = "ERROR" => \A s \in asked : WentWrong(s)

\* The process ends, interrupted or not: the main thread waits for nothing that
\* the worker threads will not do.  (as_completed, executor shutdown.)
RunEnds == <>(main = "ended")

-----------------------------------------------------------------------------
(* The run implements IndependentBackups.                                  *)

Fates ==
    [s \in Server |->
        IF s \notin asked THEN "unasked"
        ELSE IF stage[s] \in {"unsubmitted", "queued"} THEN "asked"
        ELSE IF stage[s] \in Working THEN "working"
        ELSE IF WentWrong(s) THEN "bad" ELSE "good"]

Verdict ==
    IF code = "none" THEN "pending"
    ELSE IF code = "success" THEN "good"
    ELSE IF code = "general" /\ asked # {} THEN "bad" ELSE "none"

IB == INSTANCE IndependentBackups WITH fate <- Fates, verdict <- Verdict

\* backup_all promises independent backups and one verdict after all of them;
\* an interrupted run leaves no server half way.
Independent == IB!Spec
=============================================================================
