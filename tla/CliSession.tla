----------------------------- MODULE CliSession -----------------------------
(***************************************************************************)
(* One process that runs main() again and again: the root group, the       *)
(* configuration cache, the start of logging and the commands that show,   *)
(* deploy or need the configuration (adapters/cli, adapters/config,        *)
(* adapters/logging/setup.py).  A Thread makes one call at a time; only    *)
(* calls of Main stop the logging runtime when they end.  An operator      *)
(* edits the files between any two steps, a call is interrupted or the     *)
(* process dies and a new one starts.                                      *)
(*                                                                         *)
(* The content of the files of a profile is one of                         *)
(*    "good"     it loads and logging starts with it,                      *)
(*    "broken"   no loader reads it (ConfigError, OSError),                *)
(*    "refused"  it loads, but lib_log_rich refuses [lib_log_rich],        *)
(*    "unsafe"   it loads and logging starts with it, but its              *)
(*               [lib_layered_config.default_permissions] are refused.     *)
(* A LOG_* variable is unset, holds a value of the process's own or one    *)
(* the .env gave it, and lib_log_rich refuses the bad ones.                *)
(***************************************************************************)
EXTENDS Integers, FiniteSets

CONSTANTS
    Thread, Main,   \* the calling threads; the main thread of the process
    Profile,        \* profile names, "none" (no --profile) among them
    Line,           \* command lines main() is called with
    Content,        \* contents the files of a profile have
    LogName,        \* names of LOG_* variables
    OwnLog,         \* LOG_* variables a process is started with
    EnvFile,        \* LOG_* lines of the nearest .env, or Unreadable
    MaxCalls,       \* bound: calls of main()
    MaxEdits        \* bound: edits of a file by an operator

Command == {"plain", "fail", "backup", "config", "deploy", "logdemo"}

\* bad: what is wrong with the line: the root's part of it, the options of the
\* command, or the name that config --profile gives (an empty one is none
\* there and a wrong one elsewhere).  For config-deploy, force: --force with a
\* target that holds the profile's file; past: both modes or --no-permissions,
\* which get past the configured permission settings; set: --set leaves
\* lib_layered_config.default_permissions in order, makes it something other
\* than a table, or gives it a refused value.
CommandLine ==
    {l \in [cmd : Command, profile : Profile, over : Profile, flag : BOOLEAN,
            bad : {"no", "root", "sub", "profile"}, force : BOOLEAN, past : BOOLEAN,
            set : {"fine", "scalar", "refused"}] :
        /\ l.over # "none" => l.cmd \in {"config", "deploy"}
        /\ l.force \/ l.past \/ l.set # "fine" => l.cmd = "deploy"
        /\ l.bad = "profile" => l.cmd = "config" /\ l.over # "none"}

LogState == [LogName -> {"unset", "own", "own_bad", "file", "file_bad"}]

NoVariables == [n \in LogName |-> "unset"]
Unreadable  == [n \in LogName |-> "unreadable"]

ASSUME SessionAssumption ==
    /\ "none" \in Profile
    /\ Line \subseteq CommandLine
    /\ "good" \in Content /\ Content \subseteq {"good", "broken", "refused", "unsafe"}
    /\ OwnLog \subseteq [LogName -> {"unset", "own", "own_bad"}]
    /\ EnvFile \subseteq [LogName -> {"unset", "file", "file_bad"}] \cup {Unreadable}
    /\ MaxCalls \in Nat /\ MaxEdits \in Nat

VARIABLES
    disk,       \* [Profile -> content of its configuration files]
    outside,    \* a permission setting of the environment or of a file the deploy
                \* does not write is refused
    dotenv,     \* the LOG_* lines of the nearest .env, or Unreadable
    environ,    \* the LOG_* variables of the process
    cache,      \* [Profile -> content in the lru_cache, or "none"]
    runtime,    \* lib_log_rich's runtime
    tb,         \* lib_cli_exit_tools.config.traceback
    pc,         \* [Thread -> step its call is about to make]
    line,       \* [Thread -> command line]
    config,     \* [Thread -> content the context holds]
    error,      \* [Thread -> recorded config_error]
    saved,      \* [Thread -> previous_state of main()]
    hidden,     \* [Thread -> LOG_* taken out of the environment]
    code,       \* [Thread -> exit code of its last call]
    calls, edits,
    environ0,   \* observability: LOG_* when the process started
    lost,       \* observability: log_variables_hidden ended before its try
    fresh,      \* observability: [Thread -> nothing was cached for its call]
    fault       \* observability: [Thread -> what it read was at fault]

own     == <<environ0, lost>>
process == <<environ, cache, runtime, tb, own>>
files   == <<disk, outside, dotenv, edits>>
seen    == <<fresh, fault>>
vars    == <<disk, outside, dotenv, environ, cache, runtime, tb, pc, line, config,
             error, saved, hidden, code, calls, edits, environ0, lost, fresh, fault>>

Codes == {"none", "ok", "general", "usage", "denied", "argument", "config",
          "signal"}

Steps == {"load", "log", "init", "hiding", "defaults", "stored", "command", "run", "demo"}

TypeOK ==
    /\ disk \in [Profile -> Content]
    /\ outside \in BOOLEAN /\ dotenv \in EnvFile
    /\ environ \in LogState /\ environ0 \in OwnLog /\ lost \in BOOLEAN
    /\ cache \in [Profile -> {"none", "good", "refused", "unsafe"}]
    /\ runtime \in {"off", "configured", "defaults"}
    /\ tb \in BOOLEAN
    /\ pc \in [Thread -> Steps \cup {"idle", "ended"}]
    /\ line \in [Thread -> CommandLine]
    /\ config \in [Thread -> {"empty", "good", "refused", "unsafe"}]
    /\ error \in [Thread -> {"none", "load", "logging"}]
    /\ saved \in [Thread -> BOOLEAN]
    /\ hidden \in [Thread -> LogState]
    /\ code \in [Thread -> Codes]
    /\ calls \in 0 .. MaxCalls /\ edits \in 0 .. MaxEdits
    /\ fresh \in [Thread -> BOOLEAN] /\ fault \in [Thread -> BOOLEAN]

NoLine == [cmd |-> "plain", profile |-> "none", over |-> "none", flag |-> FALSE,
           bad |-> "no", force |-> FALSE, past |-> FALSE, set |-> "fine"]

All(v) == [t \in Thread |-> v]

Init ==
    /\ disk \in [Profile -> Content]
    /\ outside \in BOOLEAN /\ dotenv \in EnvFile
    /\ environ \in OwnLog /\ environ0 = environ /\ lost = FALSE
    /\ cache = [p \in Profile |-> "none"]
    /\ runtime = "off" /\ tb = FALSE
    /\ pc = All("idle") /\ line = All(NoLine) /\ code = All("none")
    /\ config = All("empty") /\ error = All("none")
    /\ saved = All(FALSE) /\ hidden = All(NoVariables)
    /\ fresh = All(FALSE) /\ fault = All(FALSE)
    /\ calls = 0 /\ edits = 0

-----------------------------------------------------------------------------
(* main.py: main(), _run_cli()                                             *)

Goto(t, step) == pc' = [pc EXCEPT ![t] = step]

Exit(t, c) ==
    /\ Goto(t, "ended")
    /\ code' = [code EXCEPT ![t] = c]

\* previous_state = snapshot_traceback_state()
Begin(t) ==
    /\ pc[t] = "idle" /\ calls < MaxCalls
    /\ calls' = calls + 1
    /\ \E l \in Line : line' = [line EXCEPT ![t] = l]
    /\ saved' = [saved EXCEPT ![t] = tb]
    /\ code' = [code EXCEPT ![t] = "none"]
    /\ fresh' = [fresh EXCEPT ![t] = FALSE] /\ fault' = [fault EXCEPT ![t] = FALSE]
    /\ Goto(t, "load")
    /\ UNCHANGED <<process, files, config, error, hidden>>

\* Mutant: logging is stopped only after a call that ended well.
FinishAfterSuccess(t) ==
    /\ pc[t] = "ended"
    /\ tb' = saved[t]
    /\ runtime' = IF t = Main /\ code[t] = "ok" THEN "off" ELSE runtime
    /\ Goto(t, "idle")
    /\ UNCHANGED <<environ, cache, own, files, line, config, error, saved,
                   hidden, code, calls, seen>>

\* The finally block of main(); the context of the call is gone with it.
Finish(t) ==
    /\ pc[t] = "ended"
    /\ tb' = saved[t]
    /\ runtime' = IF t = Main THEN "off" ELSE runtime
    /\ Goto(t, "idle")
    /\ config' = [config EXCEPT ![t] = "empty"]
    /\ error' = [error EXCEPT ![t] = "none"]
    /\ saved' = [saved EXCEPT ![t] = FALSE]
    /\ hidden' = [hidden EXCEPT ![t] = NoVariables]
    /\ UNCHANGED <<environ, cache, own, files, line, code, calls, seen>>

Listed(t) == {n \in LogName : hidden[t][n] # "unset"}

\* os.environ.update(hidden)
PutBack(t) == [n \in LogName |-> IF n \in Listed(t) THEN hidden[t][n] ELSE environ[n]]

\* Some of the listed variables are popped and the try is not entered.
PoppedSome(t) ==
    \E popped \in SUBSET Listed(t) :
        /\ environ' = [n \in LogName |-> IF n \in popped THEN "unset" ELSE environ[n]]
        /\ lost' = (lost \/ popped # {})

\* KeyboardInterrupt reaches the catch-all of _run_cli; the block that hides
\* the LOG_* variables puts them back on its way out, once it is entered.
Interrupt(t) ==
    /\ t = Main /\ pc[t] \in Steps
    /\ Exit(t, "signal")
    /\ IF pc[t] = "hiding" THEN PoppedSome(t)
       ELSE /\ environ' = IF pc[t] = "defaults" THEN PutBack(t) ELSE environ
            /\ lost' = lost
    /\ UNCHANGED <<cache, runtime, tb, environ0, files, line, config, error,
                   saved, hidden, calls, seen>>

-----------------------------------------------------------------------------
(* config_load.py and loader.py                                            *)

\* _check_command_line runs before anything is loaded.
CheckCommandLine(t) ==
    /\ pc[t] = "load" /\ line[t].bad = "root"
    /\ Exit(t, "usage")
    /\ UNCHANGED <<process, files, line, config, error, saved, hidden, calls, seen>>

\* read_config reads the files and the .env; lru_cache keeps what it returns
\* and nothing of a call that raised.
Readable(p) == disk[p] # "broken" /\ dotenv # Unreadable
Loads(p)    == cache[p] # "none" \/ Readable(p)
GetConfig(p) == IF cache[p] # "none" THEN cache[p] ELSE disk[p]

LoadConfig(t, p) ==
    IF Loads(p)
    THEN /\ config' = [config EXCEPT ![t] = GetConfig(p)]
         /\ cache' = [cache EXCEPT ![p] = GetConfig(p)]
         /\ error' = error
    ELSE /\ config' = [config EXCEPT ![t] = "empty"]
         /\ error' = [error EXCEPT ![t] = "load"]
         /\ cache' = cache

\* Mutant: the command line is not checked before loading.
LoadRootUnchecked(t) ==
    /\ pc[t] = "load"
    /\ LoadConfig(t, line[t].profile)
    /\ Goto(t, "log")
    /\ UNCHANGED <<environ, runtime, tb, own, files, line, saved, hidden,
                   code, calls, seen>>

LoadRoot(t) ==
    /\ pc[t] = "load" /\ line[t].bad # "root"
    /\ LoadConfig(t, line[t].profile)
    /\ Goto(t, "log")
    /\ fresh' = [fresh EXCEPT ![t] =
           cache[line[t].profile] = "none" /\ runtime = "off"]
    /\ fault' = [fault EXCEPT ![t] =
           ~Readable(line[t].profile) \/ disk[line[t].profile] = "refused"]
    /\ UNCHANGED <<environ, runtime, tb, own, files, line, saved, hidden,
                   code, calls>>

-----------------------------------------------------------------------------
(* logging/setup.py: init_logging and what it calls                        *)

\* Mutant: the .env replaces what is set.
LoadLogVariablesOver ==
    environ' = [n \in LogName |->
        IF dotenv # Unreadable /\ dotenv[n] # "unset" THEN dotenv[n] ELSE environ[n]]

\* os.environ.setdefault for the LOG_* lines; a .env that is not read is skipped.
LoadLogVariables ==
    environ' = [n \in LogName |->
        IF environ[n] = "unset" /\ dotenv # Unreadable THEN dotenv[n] ELSE environ[n]]

Bad(variables) == \E n \in LogName : variables[n] \in {"own_bad", "file_bad"}

\* init_logging returns at once when the runtime is running.
InitLogging(t) ==
    /\ pc[t] = "log"
    /\ IF runtime # "off"
       THEN Goto(t, "stored") /\ UNCHANGED <<environ, fault>>
       ELSE /\ LoadLogVariables
            /\ Goto(t, "init")
            /\ fault' = [fault EXCEPT ![t] = @ \/ Bad(environ')]
    /\ UNCHANGED <<cache, runtime, tb, own, files, line, config, error,
                   saved, hidden, code, calls, fresh>>

Refused(t) == config[t] = "refused" \/ Bad(environ)

\* Mutant: the refusal is not recorded.
StartLoggingForgets(t) ==
    /\ config' = [config EXCEPT ![t] = "empty"]
    /\ error' = error

\* The first recorded failure wins; the configuration is empty either way.
StartLogging(t) ==
    /\ config' = [config EXCEPT ![t] = "empty"]
    /\ error' = [error EXCEPT ![t] = IF @ = "none" THEN "logging" ELSE @]

\* lib_log_rich refuses to start twice: the RuntimeError ends the call.
StartTwice(t) ==
    /\ pc[t] \in {"init", "defaults"} /\ runtime # "off"
    /\ Exit(t, "general")
    /\ environ' = IF pc[t] = "defaults" THEN PutBack(t) ELSE environ
    /\ UNCHANGED <<cache, runtime, tb, own, files, line, config, error,
                   saved, hidden, calls, seen>>

StartConfigured(t) ==
    /\ pc[t] = "init" /\ runtime = "off" /\ ~Refused(t)
    /\ runtime' = "configured"
    /\ Goto(t, "stored")
    /\ UNCHANGED <<environ, cache, tb, own, files, line, config, error,
                   saved, hidden, code, calls, seen>>

\* _start_default_logging with the LOG_* variables: they were not what was refused.
StartDefaultLogging(t) ==
    /\ pc[t] = "init" /\ runtime = "off" /\ Refused(t) /\ ~Bad(environ)
    /\ runtime' = "defaults"
    /\ StartLogging(t)
    /\ Goto(t, "stored")
    /\ UNCHANGED <<environ, cache, tb, own, files, line, saved, hidden,
                   code, calls, seen>>

\* Refused again: log_variables_hidden lists the variables ...
ListLogVariables(t) ==
    /\ pc[t] = "init" /\ runtime = "off" /\ Bad(environ)
    /\ hidden' = [hidden EXCEPT ![t] = environ]
    /\ Goto(t, "hiding")
    /\ UNCHANGED <<process, files, line, config, error, saved, code, calls, seen>>

\* ... pops them one by one; one that another thread has popped is a KeyError,
\* before the try that would put the others back ...
PopMissing(t) ==
    /\ pc[t] = "hiding" /\ \E n \in Listed(t) : environ[n] = "unset"
    /\ PoppedSome(t)
    /\ Exit(t, "general")
    /\ UNCHANGED <<cache, runtime, tb, environ0, files, line, config, error,
                   saved, hidden, calls, seen>>

HideLogVariables(t) ==
    /\ pc[t] = "hiding" /\ \A n \in Listed(t) : environ[n] # "unset"
    /\ hidden' = [hidden EXCEPT ![t] =
           [n \in LogName |-> IF n \in Listed(t) THEN environ[n] ELSE "unset"]]
    /\ environ' = [n \in LogName |-> IF n \in Listed(t) THEN "unset" ELSE environ[n]]
    /\ Goto(t, "defaults")
    /\ UNCHANGED <<cache, runtime, tb, own, files, line, config, error,
                   saved, code, calls, seen>>

\* ... for the start, and puts them back.
StartHidden(t) ==
    /\ pc[t] = "defaults" /\ runtime = "off" /\ ~Bad(environ)
    /\ runtime' = "defaults"
    /\ environ' = PutBack(t)
    /\ hidden' = [hidden EXCEPT ![t] = NoVariables]
    /\ StartLogging(t)
    /\ Goto(t, "stored")
    /\ UNCHANGED <<cache, tb, own, files, line, saved, code, calls, seen>>

\* A bad value that another thread set meanwhile: the ValueError ends the call.
StartHiddenRefused(t) ==
    /\ pc[t] = "defaults" /\ runtime = "off" /\ Bad(environ)
    /\ environ' = PutBack(t)
    /\ Exit(t, "argument")
    /\ UNCHANGED <<cache, runtime, tb, own, files, line, config, error,
                   saved, hidden, calls, seen>>

\* Mutant: the root group refuses what its commands should.
StoreRefusing(t) ==
    /\ pc[t] = "stored"
    /\ tb' = line[t].flag
    /\ IF error[t] # "none" THEN Exit(t, "config") ELSE Goto(t, "command") /\ code' = code
    /\ UNCHANGED <<environ, cache, runtime, own, files, line, config, error,
                   saved, hidden, calls, seen>>

\* store_cli_context; apply_traceback_preferences
Store(t) ==
    /\ pc[t] = "stored"
    /\ tb' = line[t].flag
    /\ Goto(t, "command")
    /\ UNCHANGED <<environ, cache, runtime, own, files, line, config, error,
                   saved, hidden, code, calls, seen>>

-----------------------------------------------------------------------------
(* The commands                                                            *)

Same == UNCHANGED <<environ, tb, own, outside, dotenv, line, saved, hidden, calls>>

At(t, cmds) == pc[t] = "command" /\ line[t].cmd \in cmds

\* The parser, an option's callback or the check of --no-permissions refuses
\* the command's own options.
RefuseOptions(t) ==
    /\ At(t, Command) /\ line[t].bad = "sub"
    /\ Exit(t, "usage")
    /\ UNCHANGED <<process, files, line, config, error, saved, hidden, calls, seen>>

\* runtime.bind raises when no runtime is live.
BindFails(t) ==
    /\ runtime = "off"
    /\ \/ At(t, {"plain", "fail", "deploy"}) /\ line[t].bad = "no"
       \/ pc[t] = "run"
    /\ Exit(t, "general")
    /\ UNCHANGED <<process, files, line, config, error, saved, hidden, calls, seen>>

\* info, hello, config-generate-examples and no command at all; fail
Plain(t) ==
    /\ At(t, {"plain", "fail"}) /\ line[t].bad = "no" /\ runtime # "off"
    /\ Exit(t, IF line[t].cmd = "plain" THEN "ok" ELSE "general")
    /\ UNCHANGED <<process, files, line, config, error, saved, hidden, calls, seen>>

\* Mutant: only a failure to load counts.
RequireConfigLoaded(t) ==
    /\ At(t, {"backup", "config"}) /\ line[t].bad = "no" /\ line[t].over = "none"
    /\ IF error[t] = "load" THEN Exit(t, "config") ELSE Goto(t, "run") /\ code' = code
    /\ UNCHANGED <<process, files, line, config, error, saved, hidden, calls, seen>>

\* require_config: exit 78 on a recorded failure.
RequireConfig(t) ==
    /\ At(t, {"backup", "config"}) /\ line[t].bad = "no" /\ line[t].over = "none"
    /\ IF error[t] # "none" THEN Exit(t, "config") ELSE Goto(t, "run") /\ code' = code
    /\ UNCHANGED <<process, files, line, config, error, saved, hidden, calls, seen>>

\* _resolve_config with a profile of its own: the root's failure does not
\* count; load_config checks the line again, check_logging the settings.
ResolveConfig(t) ==
    LET p == line[t].over IN
    /\ At(t, {"config"}) /\ line[t].bad # "sub" /\ p # "none"
    /\ IF line[t].bad = "profile"
       THEN Exit(t, "usage") /\ UNCHANGED <<config, error, cache, seen>>
       ELSE /\ LoadConfig(t, p)
            /\ IF ~Loads(p) \/ config'[t] = "refused" \/ Bad(environ)
               THEN Exit(t, "config")
               ELSE Goto(t, "run") /\ code' = code
            /\ fresh' = [fresh EXCEPT ![t] = cache[p] = "none"]
            /\ fault' = [fault EXCEPT ![t] =
                   ~Readable(p) \/ disk[p] = "refused" \/ Bad(environ)]
    /\ Same /\ UNCHANGED <<runtime, disk, edits>>

\* The command proper: display_config refuses an unknown section, backup and
\* setup-keys an unknown server or a failing one.
Run(t) ==
    /\ pc[t] = "run" /\ runtime # "off"
    /\ \E c \in {"ok", "argument"} \cup (IF line[t].cmd = "config" THEN {} ELSE {"general"}) :
           Exit(t, c)
    /\ UNCHANGED <<process, files, line, config, error, saved, hidden, calls, seen>>

\* _permission_overrides: the section must be a table.
PermissionOverrides(t) ==
    /\ At(t, {"deploy"}) /\ runtime # "off" /\ line[t].bad = "no"
    /\ line[t].set = "scalar"
    /\ Exit(t, "config")
    /\ UNCHANGED <<process, files, line, config, error, saved, hidden, calls, seen>>

\* _execute_deploy and the library's own check before it writes anything.  The
\* permission settings come from --set, from the environment and from the files
\* the deploy does not replace, never from the .env; past passes over what is
\* configured, and nothing over a refused --set.
PermissionsRefused(t, p) ==
    \/ line[t].set = "refused"
    \/ /\ ~line[t].past
       /\ outside \/ (~line[t].force /\ disk[p] \in {"broken", "unsafe"})

\* A missing right or another failure ends the deploy before or after the
\* faulty file was replaced.
ExecuteDeploy(t) ==
    LET p == IF line[t].over # "none" THEN line[t].over ELSE line[t].profile
        replaced == IF line[t].force THEN [disk EXCEPT ![p] = "good"] ELSE disk
    IN
    /\ At(t, {"deploy"}) /\ runtime # "off" /\ line[t].bad = "no"
    /\ line[t].set # "scalar"
    /\ IF PermissionsRefused(t, p)
       THEN Exit(t, "config") /\ disk' = disk
       ELSE \/ Exit(t, "ok") /\ disk' = replaced
            \/ /\ \E c \in {"denied", "general"} : Exit(t, c)
               /\ disk' \in {disk, replaced}
    /\ Same /\ UNCHANGED <<cache, runtime, config, error, edits, seen>>

\* run_logdemo stops a running runtime, whoever started it; the demo starts
\* and stops one of its own.
StopForDemo(t) ==
    /\ At(t, {"logdemo"}) /\ line[t].bad = "no"
    /\ runtime' = "off"
    /\ Goto(t, "demo")
    /\ Same /\ UNCHANGED <<cache, config, error, code, disk, edits, seen>>

Logdemo(t) ==
    /\ pc[t] = "demo"
    /\ Exit(t, IF runtime # "off" THEN "general"
               ELSE IF Bad(environ) THEN "config" ELSE "ok")
    /\ UNCHANGED <<process, files, line, config, error, saved, hidden, calls, seen>>

-----------------------------------------------------------------------------
(* The environment                                                         *)

\* An operator rewrites a file.
Edit ==
    /\ edits < MaxEdits
    /\ edits' = edits + 1
    /\ \/ \E p \in Profile, c \in Content :
             disk' = [disk EXCEPT ![p] = c] /\ UNCHANGED <<outside, dotenv>>
       \/ outside' = ~outside /\ UNCHANGED <<disk, dotenv>>
       \/ dotenv' \in EnvFile /\ UNCHANGED <<disk, outside>>
    /\ UNCHANGED <<process, pc, line, config, error, saved, hidden, code, calls, seen>>

CallsOver ==
    /\ pc' = All("idle") /\ line' = All(NoLine) /\ code' = All("none")
    /\ config' = All("empty") /\ error' = All("none")
    /\ saved' = All(FALSE) /\ hidden' = All(NoVariables)
    /\ fresh' = All(FALSE) /\ fault' = All(FALSE)

\* The process ends, between calls or killed in one; the files stay and the next one is
\* started with the same environment.
NewProcess ==
    /\ environ' = environ0 /\ environ0' = environ0 /\ lost' = FALSE
    /\ runtime' = "off" /\ tb' = FALSE
    /\ cache' = [p \in Profile |-> "none"]
    /\ CallsOver
    /\ UNCHANGED <<files, calls>>

Start(t) == \/ CheckCommandLine(t) \/ LoadRoot(t) \/ InitLogging(t)
            \/ StartTwice(t) \/ StartConfigured(t) \/ StartDefaultLogging(t)
            \/ ListLogVariables(t) \/ PopMissing(t) \/ HideLogVariables(t)
            \/ StartHidden(t) \/ StartHiddenRefused(t) \/ Store(t)

Commands(t) == \/ RefuseOptions(t) \/ BindFails(t) \/ Plain(t)
               \/ RequireConfig(t) \/ ResolveConfig(t) \/ Run(t)
               \/ PermissionOverrides(t) \/ ExecuteDeploy(t)
               \/ StopForDemo(t) \/ Logdemo(t)

Call(t) == Begin(t) \/ Start(t) \/ Commands(t) \/ Finish(t)

Next ==
    \/ \E t \in Thread : Call(t) \/ Interrupt(t)
    \/ Edit
    \/ NewProcess

Spec == Init /\ [][Next]_vars

-----------------------------------------------------------------------------
(* Properties                                                              *)

Ended(t) == pc[t] = "idle" /\ code[t] \notin {"none", "signal"}

\* The first call of a process that uses a profile refuses exactly what is at
\* fault: a command that reads the configuration exits 78 when a file did not
\* load or a logging setting was refused, and never when all was well
\* (require_config, _resolve_config).
RefusedIffFaulty ==
    \A t \in Thread :
        Ended(t) /\ fresh[t] /\ line[t].bad = "no" /\ line[t].cmd \in {"backup", "config"}
            => (code[t] = "config" <=> fault[t])

\* What is wrong with the command line is a usage error (exit 2) whatever the
\* state of the files and of the logging settings (_check_command_line).
UsageErrorFirst ==
    \A t \in Thread : Ended(t) => (code[t] = "usage" <=> line[t].bad # "no")

\* What the root could not load, or start logging with, stops no command that
\* does not read the configuration: such a call never ends with 78, and a deploy
\* does so only for the permission settings it cannot get past, which are not
\* those of a file that --force replaces nor any when both modes are given
\* (require_config is not called, _refuse_permission_settings is).
RepairNeverBlocked ==
    [][\A t \in Thread :
        code'[t] = "config" /\ code[t] # "config" =>
            /\ line[t].cmd \notin {"plain", "fail"}
            /\ line[t].cmd = "deploy" /\ line[t].set = "fine" =>
                   /\ ~line[t].past
                   /\ line[t].force => outside]_vars

\* Between calls the process is as it was before the first: the traceback
\* preference is restored and the main thread's runtime is stopped, also after
\* a refusal, an error or an interrupt (the finally block of main()).
NothingLeftBehind ==
    (\A t \in Thread : pc[t] = "idle") => tb = FALSE /\ runtime = "off"

\* A LOG_* variable the process was started with keeps its value over all its
\* calls in one thread: a .env never replaces it, and hiding it for a start with
\* the defaults ends with it in place, unless an interrupt comes between the
\* removal and the try (_load_log_variables, log_variables_hidden).
LogVariablesKept ==
    ~lost /\ (\A t \in Thread : pc[t] # "defaults") =>
        \A n \in LogName : environ0[n] # "unset" => environ[n] = environ0[n]

\* No command proper runs on the empty configuration that stands in for one
\* that did not load, whatever the other threads do.
NeverRunsOnEmpty ==
    \A t \in Thread : pc[t] = "run" => config[t] # "empty"
=============================================================================
