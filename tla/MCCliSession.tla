---------------------------- MODULE MCCliSession ----------------------------
(***************************************************************************)
(* Instances of CliSession for TLC.                                        *)
(***************************************************************************)
EXTENDS CliSession

\* One thread: the commands that read or replace the files, and one that does
\* neither.  All but the deploy are called with --traceback; a wrong line has no
\* other options; a --set that is refused comes with all that gets past others.
AloneLines ==
    {l \in CommandLine :
        /\ l.cmd \in {"plain", "backup", "config", "deploy"}
        /\ l.flag = (l.cmd # "deploy")
        /\ l.profile # "none" => l.cmd = "backup"
        /\ l.bad = "root" => l.cmd = "config" /\ l.over # "none"
        /\ l.bad = "sub" => l.cmd = "deploy" /\ ~l.force /\ ~l.past /\ l.set = "fine"
        /\ l.cmd = "deploy" => l.over = "none"
        /\ l.set # "fine" => l.force /\ l.past}

\* Two threads: right lines of the commands that start, stop or need logging.
ThreadLines ==
    {l \in CommandLine : l.cmd \in {"plain", "backup", "logdemo"} /\ l.bad = "no" /\ ~l.flag}

OfX(x, v) == [NoVariables EXCEPT ![x] = v]

\* The process has LOG_X.
OwnX    == {OfX("X", "own"), OfX("X", "own_bad")}
OwnBadX == {OfX("X", "own_bad")}

\* The .env says nothing of them, or would replace LOG_X and gives LOG_Y a bad
\* value, or cannot be read.
EnvXY == {NoVariables, [OfX("X", "file") EXCEPT !["Y"] = "file_bad"], Unreadable}
EnvX  == {OfX("X", "file_bad"), Unreadable}
=============================================================================
