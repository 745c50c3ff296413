# Verification of proxmox_srvbackup

proxmox_srvbackup pulls backups from Proxmox machines. A systemd timer (or an
operator) starts `proxmox-srvbackup backup` on the backup server. The program
logs in to every configured machine over ssh, pulls a tar archive of its
configuration, its package lists and a ZFS snapshot of its root pool, deletes
old archives, and mails a summary. This directory holds TLA+ modules that model
the program, TLC configurations that check them on small instances, and proofs
that TLAPS checks for every size.

Paths below are relative to `src/src/proxmox_srvbackup/` unless they begin with
`src/`.

## Inventory

| component | state | operations | what is hard | module |
|---|---|---|---|---|
| ZFS snapshot backup, `adapters/backup/zfs_backup.py` | remote snapshots `<pool>@pull_backup_<time>`, files in `<dir>/<server>/snapshots`, the local `snapshot_created` | clean up leftovers, create, send, stat, destroy (finally), prune | remote commands that fail before or after they took effect, a pipeline that hides failures, kills, other runs on the same machine or directory | `ZfsBackup` |
| Retention, `adapters/backup/retention.py` | files of one directory | list, sort by name, unlink the oldest | a listing that is stale when used, name order against time order, `keep` at its limits, one unlink of several failing | `Retention`, used by `ZfsBackup` and `FileBackups` |
| Transport, `adapters/ssh/commands.py` | the file being written | run a command, pipe a command into a file, remote and local | truncation on open, unlink on failure, the empty file when nothing could be started, no time limits | `ZfsBackup`, `FileBackups` |
| Configuration and package files, `config_backup.py`, `packages_backup.py` | files in `<dir>/<server>/configs` | pull or capture, write, stat, prune | two lists under one time stamp with failures in between, overlapping runs | `FileBackups`, `Vault` |
| Orchestrator, `adapters/backup/orchestrator.py` | thread pool, futures, result list | submit, collect as completed, sort; per server three calls with handlers | order of completion, exceptions in and outside the handlers, interrupts while threads work | `Orchestrator`, `IndependentBackups` |
| Results and summary, `domain/models.py`, `domain/behaviors.py`, `domain/enums.py` | result records | has_errors, all_ok, failed_servers, subject, names with time stamps | a verdict, a subject and an exit code computed separately must agree | `Orchestrator` |
| backup command, `adapters/cli/commands/backup.py` | - | select servers, run, print, mail, exit code | early exits, a broken pipe before the mail, a mail that fails | `Orchestrator` |
| setup-keys, `adapters/backup/setup_keys.py`, `commands/backup.py` | key files, remote authorized_keys | make a pair, check, append, test | crashes between the steps, two setups at once, lost replies, partial failure | `SetupKeys` |
| CLI session, `adapters/cli/root.py`, `config_load.py`, `main.py`, `context.py`, `adapters/logging/setup.py` | the cache of configurations, the recorded error, logging runtime, LOG_* variables, traceback preference | load, start logging with two fallbacks, dispatch, map exceptions to exit codes, restore | errors recorded now and reported later by some commands only; interrupts; several calls and threads in one process | `CliSession` |
| Loader, deployment, display, `adapters/config/`, `commands/config.py` | configuration files, the cache | load a profile, deploy, show | repair of a broken configuration with the program that cannot read it | `CliSession` |
| Overrides, `adapters/config/overrides.py` | - (pure) | parse, refuse conflicts, nest, merge, provenance | the combination and order of several `--set` values | `Overrides` |
| Email, `adapters/email/`, `adapters/cli/commands/email/` | - | read the section, override, validate, send host by host, map failures | what empty values mean per key, the order of refusals, mail that reached some recipients | `EmailConfig`, `EmailSend` |
| Console, `adapters/cli/safe_console.py` | `sys.stdout` | encode for the stream, write | error handlers whose answer the codec cannot carry | `SafeConsole` |
| Ports, composition, in-memory doubles | - | wiring | - | not modelled |

How they interact: the backup command calls `backup_all`; that runs
`backup_server` in worker threads; each calls `backup_config`,
`backup_packages` and `backup_zfs`; these call the transport and then
`apply_retention`. Threads of one run share nothing but the machines they talk
to and the file system; so do two runs of the program. There is no lock, which is
why the models of the backups and of the keys have actors that meet only in remote
state and directories. Every command runs inside a CLI session, which decides
before the command whether there is a configuration for it; overrides are laid
over that configuration, and the email section of the result is what a mail is
sent with.

What makes each component correct:

* ZFS backup: it leaves no snapshot behind for good, a reported archive is there,
  what one run left broken does not break the next. (That a reported archive is
  also complete is what the program does not achieve; see `zfs_masked`.)
* Retention: it deletes old archives only, never below the configured number.
* Configuration and package files: the newest complete copy is never lost.
* Orchestrator: servers do not affect each other; every server has one entry;
  exit code and mail agree with what happened; the run ends.
* setup-keys: a key reported as working goes on working; a setup can be repeated
  after any interruption and overlap with another.
* CLI session: exactly the right commands refuse a broken configuration, with the
  right code; nothing of a call is left behind in the process.
* Overrides: no option is lost; the shown origin of a value is the layer that set it.
* Email: a refusal comes before any delivery; success means all recipients; no
  setting is ignored, and only a switch written as false lets a mail go without
  its attachment.
* Console: no text aborts a command, and nothing is degraded without need.

The hazards, line by line, are in `PROJECT.json`.

## Plan

| step | modules | state |
|---|---|---|
| 1 | `Retention`, `ZfsBackup`, `MCZfsBackup`, `ZfsBackup_proofs` | done |
| 2 | `IndependentBackups` (abstract), `Orchestrator`, `MCOrchestrator`, `Orchestrator_proofs` | done |
| 3 | `Vault` (abstract), `FileBackups`, `MCFileBackups`, `FileBackups_proofs` | done |
| 4 | `SetupKeys`, `MCSetupKeys`, `SetupKeys_proofs` | done |
| 5 | `CliSession`, `MCCliSession`, `CliSession_proofs` | done |
| 6 | `Overrides`, `EmailConfig`, `EmailSend` with their MC and proof modules | done |
| 7 | `SafeConsole`, `MCSafeConsole`, `SafeConsole_proofs` | done |
| 8 | a composition of `Orchestrator` with the steps of `ZfsBackup` and `FileBackups` | open |

Step 8 is open because the parts meet in little: a worker thread's three calls
share no state but the two directories, and the orchestrator sees of each call
only whether it raised, which is what `Orchestrator` leaves arbitrary. What
the composition would add is one state space for both at a size that TLC cannot
exhaust.

Modules meant for proof use no RECURSIVE operator; parameters are CONSTANTS with
named assumptions; invariants are conjunctions of named parts.

## Modules

In every module an operator with a comment that begins with "Mutant:" is a
plausible bug in the definition after it. It is not part of the model; each
property is known to fail when one of them takes the definition's place.

### `Retention`

A file is the rank of the part of its name before the time stamp, and the time
stamp. `NameBefore` is the sort order, `ToDelete(files, keep)` the slice
`files[: len(files) - keep]`: the files with at least `keep` files after them.
With `keep <= 0` that is every file, as in Python. `IsFirst` is the order of the
unlink loop.

### `ZfsBackup`

A *job* is a worker thread of one *run* (process) that calls `backup_zfs` for one
server again and again. Which job belongs to which run, server and machine is
given by constants, so that one module covers separate machines, overlapping
runs, and two configuration entries for one machine.

| variable | code |
|---|---|
| `clock` | the wall clock in seconds, which `build_timestamp` reads |
| `snaps` | every `@pull_backup_` snapshot on each machine; a pool is a chain of datasets so that `-r` means something |
| `file` | what `<dir>/<server>/snapshots` holds under each name: nothing, part of an archive, a whole one |
| `pc`, `pool`, `ts` | the next command of a call, `server.zfs_pool` and the time stamp it uses |
| `todo`, `victims` | the remainders of `stale_snapshots` and `to_delete` |
| `failed` | an exception is on its way out of the call |
| `faults`, `hit` | bookkeeping of the model: faults so far, and which calls met one |

Every command and file operation is an action: `Start`, `ListStale`,
`DestroyStale` (one round of the loop), `CreateSnapshot`, `OpenArchive`,
`BeginSend`, `EndStream`, `StatArchive`, `DestroyOwn` (the finally clause),
`ListArchives`, `Prune` (one unlink), `Return`. Each has its failure as a
disjunct of its own, guarded by `Fault`, and a second one where the remote command
takes effect although its answer is lost. `Crash(r)` kills all jobs of a run,
`Tick` moves the clock.

What is assumed of ZFS, which is not in the repository: `zfs snapshot -r` is
atomic; `zfs destroy -r` of a name that no dataset below has is an error, and so
is destroying a snapshot that a running `zfs send` reads; `zfs list` lists by
dataset. ssh can lose its answer after the remote command took effect. A command
that is under way when its job is killed took effect before that or not at all,
and a stream ends with its job. `HostOf` gives all local servers one machine.

Left out: wording of log messages, command lines, sizes of files. A dry run
changes nothing and is a stuttering step.

### `FileBackups` and `Vault`

A *run* is a place from which `backup_server` is called again and again for one
server; `timer` says whether calls come from the timer alone, one at a time. The
three kinds of files (the configuration archive, dpkg's selections, the package
list) are in `file`, by time stamp; `at` is the kind a call is at, `ts` its time
stamp. `Leave` is the way out of one kind into the next: `backup_packages` takes a time
stamp of its own, its second dump has that of the first, and an exception in the
first leaves the second undone. The configuration archive is piped
(`OpenArchive`, `EndStream`, `StatArchive`), a list is first captured whole and then
written (`CaptureList`, `CreateList`, `FillList`); both end in `ListFiles`,
`Prune`, `Return`. A completed write to a file that another run has unlinked makes
nothing: `Complete`. `Crash` and `Tick` are the environment.

`Vault` is what pulling files promises: per kind, a set of complete copies, which
grows by a newest one and shrinks only by one that has a newer one. `FileBackups`
implements it in the documented deployment (`KeepsVault`).

### `Orchestrator` and `IndependentBackups`

`Orchestrator` is one run of the `backup` command. `main` is where the main
thread is, `stage[s]` where the task of server `s` is; `ok`, `skipped` and
`results` are the fields the code computes with, `call` records for the
properties how each backup call ended. Actions of the main thread: `Select`
(configuration and options, with the two early exits), `ExtractSettings` (may be
a ValueError), `Submit`, `Collect` (in any order, by result or by exception),
`Summarise` (the sort, stated as an ordered permutation), `Report` (may hit a
broken pipe), `SendSummary` (may lose the mail), `Exit`, `Interrupt` and `Drain`.
Actions of a task: `Begin`, `BackupConfig`, `BackupPackages`, `BackupZfs`,
`Unexpected` (an exception outside the handlers). The order in which
`as_completed` hands out finished futures is taken as arbitrary. A worker thread
that cannot be started is not modelled, nor a process killed from outside (it
leaves no state in this module; in `ZfsBackup` and `FileBackups` it is `Crash`).

`IndependentBackups` is what the run promises: every server asked for is worked
on independently and settles good or bad, and one verdict is told when none is
half way. `Orchestrator` maps into it with `Fates` and `Verdict`; `Fates` looks at
the calls and not at the result records, so that the mapping also checks that
the records tell the truth.

### `SetupKeys`

A *setup* is a place from which `setup-keys` is started again and again: the
service's `ExecStartPre` line, or an operator. A key is a number; `priv` and `pub`
are the two files ssh-keygen writes, `auth` counts the lines of authorized_keys
on each machine. `TakeServer` is the head of the loop (local servers need no key),
then `MakePrivate`, `MakePublic`, `ReadPublic`, `CheckPresent`, `AppendKey`,
`TestKey`; `Finish` makes the exit code; `Stop` is a kill or an OSError that leaves
the loop. Check and append are two ssh commands with anything in between, and an
append may take effect although its connection is lost. `LooksFor` says which
`.pub` file `with_suffix(".pub")` names: for a server name with a dot it is that of
another server, or none.

### `CliSession`

One process that runs `main()` again and again, from one or more threads; only the
main thread's calls stop the logging runtime. The content of a profile's files is
one of four: it loads, it is not readable, it loads but the logging library refuses
it, or it loads but its permission settings are refused by a deploy (`"unsafe"`).
`outside` says whether such a setting stands where the deploy does not write, in the
environment or in another layer's file. A LOG_* variable has a name, and a value that
is the process's own or came from the `.env`, good or bad, so that one value in the
place of another shows. The variables are what the process keeps (`cache`, `runtime`, `environ`, `tb`) and what a call keeps (`config`,
`error`, `saved`, `hidden`, `code`).

| actions | code |
|---|---|
| `Begin`, `Finish`, `Interrupt` | `main()` and its finally block, `_run_cli` |
| `CheckCommandLine`, `LoadRoot` | `config_load.py`, the cached loader |
| `InitLogging`, `StartConfigured`, `StartDefaultLogging`, `StartTwice` | `logging/setup.py`: the start with the settings, with the defaults, and the refusal of a second one |
| `ListLogVariables`, `PopMissing`, `HideLogVariables`, `StartHidden`, `StartHiddenRefused` | `log_variables_hidden`: list the names, pop them one by one, start, put them back |
| `Store` | the context and the traceback preference |
| `RequireConfig`, `ResolveConfig`, `Run` | the commands that read the configuration |
| `RefuseOptions`, `PermissionOverrides`, `PermissionsRefused`, `ExecuteDeploy` | config-deploy and what it refuses |
| `Plain`, `BindFails`, `StopForDemo`, `Logdemo` | the commands that do not read it |
| `Edit`, `NewProcess` | an operator and the end of the process |

The pops come before the `try` of `log_variables_hidden`. An interrupt there, or a
variable that another thread has popped meanwhile (a KeyError), loses what has
been popped; `lost` records that it happened. A deploy is refused (78) for a
`--set` of `lib_layered_config.default_permissions` that is no table or has a refused
value, and, unless both modes or `--no-permissions` are given, for a refused value
`outside` or in the file that it does not replace.

### `Overrides`

A configuration is its leaves, a function from dotted paths. `Check` parses all
options and refuses conflicting ones, `Nest` lays one option after the other into a
tree, `ApplyOverrides` merges that over the files (`Merged`, what
lib_layered_config's `with_overrides` does) and rebuilds the provenance. The value of
a leaf is the number of the option that gave it, so that a lost or mixed up
option shows.

### `EmailConfig` and `EmailSend`

`EmailConfig` is the way from the `[email]` section to an `EmailConfig` object as
operators: which keys are refused, which values mean "not set", which are
rewritten, what the model accepts. One key stands for each class of keys the code
tells apart, the switches `raise_on_missing_attachments` and
`raise_on_security_violation` among them. `EmailSend` is one mail on top of it, sent by `send-email`,
`send-notification` or as the summary of a backup: load, override, the refusals in
the order of the code, the checks of the mail library (external), and one step per
delivery attempt, host by host and recipient by recipient. With its switch off a
missing or barred attachment is left out (`enclosed`) and the mail goes on. A
recipient whose last host fails is noted (`failed`) and the next one is tried; the
library's error for all of them comes at the end.

### `SafeConsole`

A stream is a codec and an error handler, a character a member of a class of
characters. `EncodeSafe`, `AsciiFallback` and `Rewritten` are the functions of
`safe_console.py`; `Write` is what Python's encoder does with the result on that
stream. Texts keep their positions: what becomes of character `i` stands at position
`i` of what is shown, and a character that is left out leaves an empty place there. The handlers are those of Python's codecs;
`backslashreplace`, `xmlcharrefreplace` and `namereplace` answer alike with ASCII text.
`Swap` lets a capture replace the stream between two writes.

### MC modules and `_proofs` modules

An MC module defines the constants of the instances and nothing else. A `_proofs`
module holds the theorems about its component; see "What is proved".

## Runs

| run | instance | question |
|---|---|---|
| `zfs_apart` | two servers on two machines, one process, two faults or crashes anywhere, three seconds, `Keep = 1` | Are archives and retention sound, and does a call without a fault repair what others left? |
| `zfs_overlap` | two overlapping runs for one server, one fault | What remains when runs destroy each other's snapshots: no call leaks its own, every call ends. |
| `zfs_live` | one server with two pools, three faults, calls without end | Is every leftover eventually destroyed? |
| `zfs_masked` | two overlapping runs for one server, no fault at all | Is a reported archive complete? No. |
| `files` | two runs, one fault or kill; one archive and three package lists of each sort are kept | Is the newest complete copy of each kind safe, also when runs overlap, and does every call end? |
| `run_pool` | three servers on two threads; types, options, failures, interrupts | Do summary, mail, exit code and servers stay independent and truthful in any order of completion? |
| `keys` | two setups, repeated for ever, three servers (one local, one with a dot), two faults | Do keys keep working, are copies bounded, does everybody get one in the end? |
| `session_alone` | two calls, two profiles, two LOG_* variables, fourteen command lines, one edit, interrupts, restarts | Does the right call refuse, with the right code, is a repair always possible, and is the process left as it was? |
| `session_threads` | two threads, three calls, one bad LOG_* variable and another bad value in the `.env` | Does a thread ever work on the stand-in for a broken configuration? |
| `set_options` | up to three of sixteen options over every configuration of six leaves | Is an option lost, or something else changed? |
| `mail_send` | a working section with any two keys changed or one in the wrong table, all options, two hosts, two recipients | Is a refusal always before a delivery, is every key in force, and what lets a mail go without its attachment? |
| `console` | texts of up to three characters, four codecs with nine error handlers each | Does a text abort, or degrade more than it must? |

`zfs_apart`: `FaultFreeCallHeals` (whatever was left behind, a call without a fault succeeds with
a whole archive and leaves no snapshot), `ReportedArchivePresent`,
`LossOnlyByRetention`, `RetentionFloor`.

`zfs_live`: `LeftoversRemoved` is not obvious: the cleanup destroys a parent
recursively, then fails on the child it listed as well, and stops; it still removes
the first pool each time, so leftovers of the second go in a later call. Here the
clock ends but calls go on within the last second (`RunGap = 0`), so that the run is
infinite; deadlock is checked.

`files`: `PairAtHand` is about the two package lists of one call, which are made and
pruned one after the other: with room for two files more than there were faults, a
pair that belongs together is at hand. With three kept and one fault the first list of
a call may come to nothing of the second, and the kept sets drift apart, before calls
push the old pair out. The calls of the timer get a second more than those that
overlap (`EnoughCalls`), since a pair is pushed out only by the fourth.

`keys`: `CopiesCostFaults` bounds the lines of authorized_keys by the number of
setups and of faults; each of both really costs one. `FaultFreeSetupHeals` and
`EveryServerServed` except two cases that the program does not heal: half a key
pair, and a server name with a dot.

`session_alone` and `session_threads` divide the commands and contents between them
so that each instance can be exhausted. `LogVariablesKept` is about one thread: with
two it does not hold (see below). `RepairNeverBlocked` names the only refusals with 78 that
a deploy may end with: those of permission settings it cannot get past.

One run must find a violation, which shows the two findings in `PROJECT.json`: `zfs_masked`
(`ReportedArchiveWhole`). `zfs send | gzip -1` has the exit code of gzip. When zfs send
dies, the truncated archive is reported as a success. And it dies without any fault
when the cleanup of an overlapping run, which is meant for leftovers of failed runs,
destroys the snapshot of this one before `zfs send` opens it.

### Seen while modelling

These follow from the models as they are; no run is spent on them.

* Two configured servers on one machine, or a manual run beside the timer's: the
  cleanup of one call destroys the snapshot of the other
  (`adapters/backup/zfs_backup.py:74`). Therefore `CallHeals` and the theorems beside it
  need `OneCallPerHost`.
* After `zfs_pool` is changed to a name that sorts earlier, retention deletes the
  archive just pulled, on every run (`retention.py:42`). `ReportedArchivePresent`
  needs `OnePoolPerServer`.
* Types left out by `--type` are not marked as skipped in the result
  (`orchestrator.py:142`), although the docstring of `BackupResult` reads as if they were.
* Retention counts partial files: one that a kill left takes the place of a backup
  until newer ones push it out.
* A failing check in setup-keys counts as "missing" and leads to another copy of the
  key (`setup_keys.py:100`); half a key pair is never repaired (`setup_keys.py:51`);
  `with_suffix` looks for the wrong public key when the name has a dot
  (`setup_keys.py:78`).
* With two threads a LOG_* variable can be replaced or lost for the rest of the process
  (`logging/setup.py:215-237`). While one thread hides its own bad value, the other takes
  the bad line of the `.env` for it, is refused too, hides that, and puts it back
  last. Or both list the same names, and the second to pop one ends with a KeyError
  before the `try`. An interrupt between the pops and the `try` loses it as well.
* The end of the main thread's call stops logging under a call of another thread
  (`cli/main.py:119`), which then ends with a general error.
* The leaves of a table given with `--set` are not named as the CLI's, only a key
  given a value is; `NoOptionLost` asks for the origin of the latter.
* With the configuration as shipped, which names no mail host, the summary mail is an
  error in the log after every run, while `src/README.md:760` says that it is silently skipped.

### Bounds

`MaxTime` bounds the clock; with `RunGap = 1` it bounds the number of calls per
server: three of them are enough for a leftover of one, a repair and a
retention that must choose. `MaxFaults` bounds faults and crashes; two let a
fault hit the repair of another fault. `MaxDepth = 1` gives a parent and a child
dataset, the smallest shape on which the recursive destroy makes the next
destroy fail. `KeepOf` differs between the kinds of files, so that a retention of one
and one of three, the least that leaves room for two files and a fault, is checked at once. `TypeOption` and `Flags` bound the inputs of
`Orchestrator`. `MaxKeys` bounds the key pairs made; two are needed, since two servers
are not local. `MaxCalls` and `MaxEdits` bound the calls of a process and the edits of
a file: two calls with an edit between them are the shortest case of a stale cache. Of the two
LOG_* variables the process has one, so that a `.env` can both replace and add.
`MaxOptions = 3` lets an option come between two that concern each other.
`Hosts` and `Rcpts`: with two of each, a second host can save a recipient and a second
recipient can fail after the first has the mail. In `EmailConfig`, `CliSession` and
`SafeConsole` one member stands for each class the code tells apart, since the code
treats the members of a class alike. All these are constants of the modules.

Deadlock checking is off where the clock's last second or the program's end ends the
instance: `zfs_apart`, `zfs_overlap`, `zfs_masked`, `files`, `run_pool`, `set_options`,
`mail_send`.

### Fairness

* `ZfsBackup`: weak fairness of each job's next call and of each job's next step. The
  first is the timer; the second says that commands end. No code enforces that: ssh
  has a connection timeout and keep-alives, but nothing limits a remote command. The
  liveness results are therefore about the program's own logic.
* `FileBackups`: weak fairness of the steps of a call, on the same ground; nobody has
  to start one.
* `Orchestrator`: weak fairness of the main thread and of every task; interrupts are
  never forced.
* `SetupKeys`: weak fairness of the steps, strong fairness of a start with a bootstrap
  key: the service starts the command every day, so that it is started again however
  often it was started without a key or killed in between.

## What is proved

All for any number of actors and any value of the bounds. `Documented` is, for
`ZfsBackup`, one call per machine at a time, one pool per server, calls of one server
at least a second apart and `Keep >= 1`; for `FileBackups`, calls from the timer and
something to keep of each kind.

| module | theorem | states | assumes |
|---|---|---|---|
| `ZfsBackup_proofs` | `TypeCorrect` | `[]TypeOK` | - |
| | `CallHeals` | `[]FaultFreeCallHeals` | `Documented` |
| | `ArchiveSurvives` | `[]ReportedArchivePresent` | `Documented` |
| | `LossExplained` | `LossOnlyByRetention` | `Documented` |
| | `NoLeak` | `[]NoSnapshotLeak` | `OneServerPerHost`, `RunGap = 1`; any overlap |
| | `FloorHolds` | `RetentionFloor` | `OneCallPerHost`, finitely many pools |
| | `ArchivesBounded` | `[]ArchivesNeverPileUp` | `OneCallPerHost`, finitely many pools |
| | `CallsComeToAnEnd` | `StepsBringCloser` | finitely many pools; any overlap |
| | `LoopsGoOn` | `[]LoopsFindTheNext` | - |
| `FileBackups_proofs` | `CallsReturn` | `[]FaultFreeCallsReturn` | (`Documented` is in the property) |
| | `ImplementsVault` | `KeepsVault` | (`Documented` is in the mapping) |
| | `OverlapKept` | `[]OverlapLosesNothing` | something to keep; any overlap |
| | `PairStays` | `[]PairAtHand` | something to keep, `RunGap = 1` |
| | `DirectoryBounded` | `[]FilesNeverPileUp` | (`Documented` is in the property) |
| | `CallsComeToAnEnd` | `StepsBringCloser` | - ; any overlap |
| | `LoopGoesOn` | `[]LoopFindsTheNext` | - |
| `Orchestrator_proofs` | `RunTypeCorrect` | `[]TypeOK` | - |
| | `VerdictHolds` | `[]VerdictTruthful` | - |
| | `FailuresIsolated` | `[]FailureIsolated` | - |
| | `MailTruthful` | `[]MailTellsVerdict` | - |
| | `ResultsComplete` | `[]SummaryComplete` | finitely many servers |
| | `ImplementsIndependent` | `Independent` | - |
| | `RunNeverStuck` | `[]SomebodyCanMove` | finitely many servers |
| | `RunComesToAnEnd` | `EveryStepCounts` | - |
| `SetupKeys_proofs` | `KeysWork` | `[]ReportedKeyWorks` | - |
| | `CopiesBounded` | `[]CopiesCostFaults` | finitely many setups |
| | `SetupHeals` | `[]FaultFreeSetupHeals` | - |
| | `SettledStays` | `SettledForGood` | - |
| | `SetupsComeToAnEnd` | `StepsBringCloser` | finitely many servers |
| `CliSession_proofs` | `EmptyNeverRun` | `[]NeverRunsOnEmpty` | - |
| | `OwnVariablesKept` | `[]LogVariablesKept` | `Thread = {Main}` |
| | `RepairPossible` | `RepairNeverBlocked` | - |
| | `NothingLeft` | `[]NothingLeftBehind` | `Thread = {Main}` |
| | `UsageFirst` | `[]UsageErrorFirst` | `Thread = {Main}` |
| | `FaultsRefused` | `[]RefusedIffFaulty` | `Thread = {Main}` |
| | `CallNeverStuck` | `[]EveryCallGoesOn` | - |
| | `CallsComeToAnEnd` | `StepsBringCloser` | - |
| `Overrides_proofs` | `OptionsKept` | `[]NoOptionLost` | - |
| | `OthersKept` | `[]OthersUntouched` | - |
| `EmailSend_proofs` | `RefusalsDeliverNothing` | `[]RefusedBeforeDelivery` | - |
| | `ProtectionHolds` | `[]ProtectionNeverOff` | - |
| | `SuccessComplete` | `[]SuccessReachesAll` | - |
| | `SettingsInForce` | `[]NoSettingIgnored` | - |
| | `SendingComesToAnEnd` | `EveryAttemptCounts` | - |
| | `TypeCorrect` | `[]TypeOK` | - |
| `SafeConsole_proofs` | `EveryTextIsWritten` | `[]NothingAborts` | - |
| | `NothingDegradedWithoutNeed` | `[]PrintableKept` | - |
| | `PathBytesReachTheStream` | `[]PathBytesKept` | - |

Beside these, every theorem rests on the named assumptions of the component's
constants. The assumptions on the deployment are those without which the property
fails; "Seen while modelling" says how.

The arguments, one per module:

`ZfsBackup_proofs`. Under `OneCallPerHost` no other job touches the machine (`Apart`,
`Frame`), and no own step between the creation and the finally clause removes
datasets: the lemma `SnapshotIntact`. The two theorems about ended calls are not inductive; the strengthening `CallInv` says
for every label of the call what is known at that point: after the listing,
`todo` holds every snapshot of the machine if no fault struck; once the loop is
through, none is left; all files of the server are older than the current
time stamp until the archive is opened, so that the new archive is last in name
order and `ToDelete` with `Keep >= 1` cannot contain it. The loop is the hard
part: a destroy fails without a fault if an ancestor took the snapshot along.
`DestroyKeepsRoots` and `AbortedCleanup` show that, in a deployment with one
pool per server, what is left on the machine is then already clean. `NoLeak` holds
under overlap and has an invariant of its own, `LeakInv`: no two calls for a server
have one time stamp (`Stamps`), no snapshot is younger than the latest of them
(`Sourced`), so a new call finds none of its own name (`Unmade`) and what its finally
clause destroys stays gone (`Gone`). `FloorHolds` needs to count:
the last of the files to be deleted has `keep` files after it, none of them to be
deleted (`KeepsEnough`, by the well-foundedness of the strict subset order), and an
unlink takes the same file from the files present and from those to be deleted.

`FileBackups_proofs`. Two invariants. In the documented deployment `DocInv` says
where the running call is and that its own file is the newest of its kind
(`Position`), and what it has achieved if no fault struck (`Results`); each step is
then a step of `Vault` (`VaultStep`). For overlapping runs without faults,
`KeptInv`: a file is alive if it is complete or about to be; every file there is
alive, everything about to be unlinked has a later one that is alive, and
so has every complete file that is gone. An unlink may take the witness of
another file, but the witness has a later one itself (`KeptUnlink`).

`Orchestrator_proofs`. What a result record says of a server is only useful if it
agrees with what the calls did, and the verdict is computed from the records only.
The inductive invariant `IInv` follows this chain: `TaskInv` relates, for each stage
of a task, `ok` and `skipped` to the recorded calls; `ResultsInv` says that every
record is that of a finished task and that every server handed out has one; `MainInv`
says which servers are finished at each label of the main thread; `CodeInv`
relates the exit code to the calls. `AllOkTruthful` is the link: with all servers
handed out, `AllOk` holds exactly if no call went wrong. The sort keeps it because
a permutation keeps the set of records. `MailInv` does the same for the subject,
`OrderInv` for the number of the entries. A worker thread and the main thread write
disjoint variables, so `TaskFrame` and `TasksKept` reduce each step to what it
writes. For the refinement, `FateStep` and `FatesKept` say what a step can do to
`Fates`; `TaskImplements` and `MainImplements` map every action to a step of
`IndependentBackups` or to a stutter.

`SetupKeys_proofs`. `ReportInv`: a private key, once written, stays, and lines only
enter authorized_keys; so what the test saw stays true. `CopiesInv` counts the copies made
together with those that setups between check and append are about to make (`Pending`):
the checks that found nothing are at most one per setup, every other one was paid for by
a fault. `HealInv` follows a call through its
steps: a public file is that of the private file beside it (`PairsMatch`), the key
read, checked and appended is that one (`Reached`), two setups at once both know that
they were not alone (`AloneOrHit`), and an undisturbed failure means half a pair that
nobody will complete (`HalfForGood`).

`CliSession_proofs`. For any threads: the empty configuration and the recorded error
go together (`EmptyRecorded`); each step that ends a call with 78 is that of a command
that reads the configuration, or of a deploy at a setting it cannot get past
(`Blames`). With one thread, `AloneInv` says at each step of the call
what of the process differs from its start (`Restored`), where the process's own LOG_*
values are while they are hidden (`Hidden`), what has been checked of the
line (`LineChecked`), and that a fault seen is a fault recorded (`FaultRecorded`).

`Overrides_proofs`. `NestInv`: after `n` options, a leaf of the tree is that of an
option among them (`Known`), the leaves of every option are in place unless a later
one with the same key took them (`Placed`), and no leaf is under another (`Flat`). The
lemmas before it are about prefixes of sequences.

`EmailSend_proofs`. `RefusalInv`: nobody has the mail before `deliver`, no step
from there refuses, and a mail that gets there without its attachment has an excuse:
a switch that the section or the option writes as false (`Excused`). `ReachInv`: those
who have the mail, those it failed for and those in the queue are the
recipients. `Loaded`: the fields are the translation of a section no key of which
is refused; `SettingsInForce` is then about the operators of `EmailConfig`.

`SafeConsole_proofs`. Position by position: what the encoder writes for a character the
codec rejects is something the codec has, or the character itself where the stream's
own handler carries it, and if it carries anything less the text is rewritten as for a
strict stream, where that cannot happen. The lists of codecs and handlers are those of the
model; the texts and their length are arbitrary.

### Bounds on what piles up

`PairStays`, `DirectoryBounded` and `ArchivesBounded` are about numbers of files, which
grow with each call and each fault. `CountInv` (and `Crowd` in `ZfsBackup_proofs`) says
for each label of the call how many files there may be: one more than are kept
from the creation to the end of the retention, and one for every fault that left a file
behind or kept the retention from its work. A retention that ends brings the number back to
`KeepOf`, whatever it was; a list that is read lets the unlinks count down with the list of
victims. `PairStays` counts over one list and concludes about
both: `PairInv` names a pair that is complete and has at most one newer selections file
for every fault and for the call at work (`Pair`), each of those being the selections of
a call whose second list failed; with two places more than faults the
retention spares it, until a newer pair takes its part. `FilesNeverPileUp` and
`ArchivesNeverPileUp` are stated in the proof modules.

### Steps towards an end

Liveness and ENABLED are out of the prover's reach. What the liveness properties
`CallEnds`, `CallsEnd`, `RunEnds` and `EveryServerServed` rest on is not, and is proved for
every size:

* *Every step counts.* `StepsBringCloser` and `EveryStepCounts` give each call,
  run and setup a measure that each of its steps lowers and no step of another actor
  raises: the files or servers left, then the commands left. With it, a call that keeps
  taking steps is over after finitely many, which is what weak fairness is for. The same
  for `main()`, with at most nine steps, and for a mail, with at most one attempt per
  recipient and host.
* *Somebody has a step to take.* `RunNeverStuck` (the main thread and the thread pool),
  `CallNeverStuck` (a handler for every command line) and `LoopsGoOn`, `LoopGoesOn` (a
  loop over a list finds its next element). The conditions of the actions are written
  out in `SomebodyCanMove` and `EveryCallGoesOn`; for `Orchestrator` and `CliSession` TLC
  has compared them with ENABLED on the instances of the runs.
* *For good.* `SettledStays` is the `[]` in the `<>[]` of `EveryServerServed`.

## What is only model-checked

The liveness properties themselves: `CallEnds`, `LeftoversRemoved`, `CallsEnd`, `RunEnds`
and `EveryServerServed`. For `LeftoversRemoved` and for the `<>` of
`EveryServerServed` no part is proved beyond that: they are about many calls
in a row, under the fairness of their starts. `TypeOK` of
`FileBackups`, `SetupKeys` and `CliSession` is proved on the way and not listed in the
table; `Overrides` and `SafeConsole` state none.

## Not modelled

* Ports, composition and in-memory doubles: type declarations, wiring and test code.
* The libraries (click, lib_layered_config, lib_log_rich, btx_lib_mail), ssh, ZFS and
  tar, other than by what the modelled code needs of them. The layering of files,
  the rendering of the `config` command and click's own output are theirs.
* Wording, layout and formats: log messages, the report, the mail's text, help.
* `_servers_from_config`: the coercion of configured values to types. It is a pure
  function of one entry without an interaction that a property would be about.
* The scalar coercion of `--set` values; an option's value is a number or a table that
  is not empty.
* Which key ssh offers first: `setup-keys` tests without `IdentitiesOnly`
  (`setup_keys.py:132`), so that a key of an agent or a default identity may answer in
  the place of the one tested. `SetupKeys` assumes that there is none.
* What else click refuses about a command line than the model's `bad` names; it is
  refused at the same places, with the same code.
* The upgrade of the tool that the service runs before each backup; systemd's own
  behaviour, of which `TimeoutStartSec` is a kill and the timer is `RunGap` and the
  fairness of a start.
* That a failing package list is only logged is in `Orchestrator` (it does not count
  for the verdict); that it should count is no claim of the code.
* Two calls for one server within the same second that unlink each other's file by
  name (`adapters/ssh/commands.py:142`) are possible in `FileBackups` with
  `RunGap = 0`; no run uses it with overlap, since the timer starts one run at a time.
* The traceback preference when several threads change it: it is a setting of the
  process, and the last call to end wins.
* Time limits: nothing in the code ends a command that hangs.
