------------------------ MODULE CliSession_proofs ---------------------------
(***************************************************************************)
(* Proofs about CliSession for every set of threads, profiles, commands    *)
(* and file contents, and for any number of calls and edits.               *)
(***************************************************************************)
EXTENDS CliSession, TLAPS

\* What the fields of a command line are, and how they go together.
LEMMA LineFields ==
    ASSUME NEW l \in CommandLine
    PROVE  /\ l.cmd \in Command /\ l.profile \in Profile /\ l.over \in Profile
           /\ l.flag \in BOOLEAN /\ l.bad \in {"no", "root", "sub", "profile"}
           /\ l.force \in BOOLEAN /\ l.past \in BOOLEAN
           /\ l.set \in {"fine", "scalar", "refused"}
           /\ l.over # "none" => l.cmd \in {"config", "deploy"}
           /\ l.bad = "profile" => l.cmd = "config" /\ l.over # "none"
  BY DEF CommandLine

\* The line without a command line is one.
LEMMA NoLineTypes == NoLine \in CommandLine
  BY SessionAssumption DEF NoLine, CommandLine, Command

\* What a context holds, and what the cache does.
Loaded == {"empty", "good", "refused", "unsafe"}
Cached == {"none", "good", "refused", "unsafe"}

\* No variable, what the process has of its own and what the .env would make of
\* a variable are states of the LOG_* variables.
LEMMA LogTypes ==
    /\ NoVariables \in LogState
    /\ OwnLog \subseteq LogState
    /\ \A d \in EnvFile \ {Unreadable} : d \in LogState
  BY SessionAssumption DEF NoVariables, LogState

\* The context of calls that are over is typed.
LEMMA OverTypes ==
    ASSUME CallsOver
    PROVE  /\ pc' \in [Thread -> Steps \cup {"idle", "ended"}]
           /\ line' \in [Thread -> CommandLine]
           /\ config' \in [Thread -> Loaded]
           /\ error' \in [Thread -> {"none", "load", "logging"}]
           /\ saved' \in [Thread -> BOOLEAN] /\ hidden' \in [Thread -> LogState]
           /\ code' \in [Thread -> Codes]
           /\ fresh' \in [Thread -> BOOLEAN] /\ fault' \in [Thread -> BOOLEAN]
  BY NoLineTypes, LogTypes DEF CallsOver, All, Codes, Loaded

\* The initial states are typed.
LEMMA InitTypes == Init => TypeOK
<1> SUFFICES ASSUME Init PROVE TypeOK
  OBVIOUS
<1>1. /\ disk \in [Profile -> Content] /\ dotenv \in EnvFile
      /\ environ \in LogState /\ environ0 \in OwnLog /\ lost \in BOOLEAN
      /\ outside \in BOOLEAN
      /\ cache \in [Profile -> Cached]
      /\ runtime \in {"off", "configured", "defaults"} /\ tb \in BOOLEAN
  BY LogTypes DEF Init, Cached
<1>2. /\ pc \in [Thread -> Steps \cup {"idle", "ended"}]
      /\ line \in [Thread -> CommandLine]
      /\ config \in [Thread -> Loaded]
      /\ error \in [Thread -> {"none", "load", "logging"}]
  BY NoLineTypes DEF Init, All, Loaded
<1>3. /\ saved \in [Thread -> BOOLEAN] /\ hidden \in [Thread -> LogState]
      /\ code \in [Thread -> Codes]
      /\ fresh \in [Thread -> BOOLEAN] /\ fault \in [Thread -> BOOLEAN]
  BY LogTypes DEF Init, All, Codes
<1>4. calls \in 0 .. MaxCalls /\ edits \in 0 .. MaxEdits
  BY SessionAssumption DEF Init
<1>5. QED
  BY <1>1, <1>2, <1>3, <1>4 DEF TypeOK, Loaded, Cached

\* Ending a call, and going on in one, keep the types of pc and code.
LEMMA ExitTypes ==
    ASSUME TypeOK, NEW t \in Thread, NEW c \in Codes, Exit(t, c)
    PROVE  /\ pc' \in [Thread -> Steps \cup {"idle", "ended"}]
           /\ code' \in [Thread -> Codes]
  BY DEF Exit, Goto, TypeOK

\* Going on in a call keeps the types of pc and code.
LEMMA GotoTypes ==
    ASSUME TypeOK, NEW t \in Thread, NEW step \in Steps \cup {"idle", "ended"}, Goto(t, step)
    PROVE  pc' \in [Thread -> Steps \cup {"idle", "ended"}]
  BY DEF Goto, TypeOK

\* What is loaded has a content the files had.
LEMMA LoadTypes ==
    ASSUME TypeOK, NEW t \in Thread, NEW p \in Profile, LoadConfig(t, p)
    PROVE  /\ config' \in [Thread -> Loaded]
           /\ error' \in [Thread -> {"none", "load", "logging"}]
           /\ cache' \in [Profile -> Cached]
<1>1. CASE Loads(p)
  <2>1. GetConfig(p) \in {"good", "refused", "unsafe"}
    BY <1>1, SessionAssumption DEF Loads, Readable, GetConfig, TypeOK
  <2>2. QED
    BY <1>1, <2>1 DEF LoadConfig, TypeOK, Loaded, Cached
<1>2. CASE ~Loads(p)
  BY <1>2 DEF LoadConfig, TypeOK, Loaded, Cached
<1>3. QED
  BY <1>1, <1>2

\* What the steps that touch LOG_* variables make of them is typed.
LEMMA PutBackTypes ==
    ASSUME TypeOK, NEW t \in Thread
    PROVE  PutBack(t) \in LogState
  BY DEF PutBack, TypeOK, LogState

\* So is what is left when some are popped.
LEMMA PoppedTypes ==
    ASSUME TypeOK, NEW t \in Thread, PoppedSome(t)
    PROVE  environ' \in LogState /\ lost' \in BOOLEAN
  BY DEF PoppedSome, TypeOK, LogState

\* The steps that load the configuration and start logging keep the types.
LEMMA StartKeepsTypes ==
    ASSUME TypeOK, NEW t \in Thread, Start(t)
    PROVE  TypeOK'
<1> USE DEF process, own, files, seen
<1>1. CASE CheckCommandLine(t)
  BY <1>1, ExitTypes DEF CheckCommandLine, TypeOK, Codes
<1>2. CASE LoadRoot(t)
  <2>1. line[t].profile \in Profile
    BY LineFields DEF TypeOK
  <2>2. LoadConfig(t, line[t].profile) /\ Goto(t, "log")
    BY <1>2 DEF LoadRoot
  <2>3. fresh' \in [Thread -> BOOLEAN] /\ fault' \in [Thread -> BOOLEAN]
    BY <1>2 DEF LoadRoot, TypeOK
  <2>4. QED
    BY <1>2, <2>1, <2>2, <2>3, LoadTypes, GotoTypes DEF LoadRoot, TypeOK, Steps, Loaded, Cached
<1>3. CASE InitLogging(t)
  <2>1. environ' \in LogState
    <3>1. dotenv # Unreadable => dotenv \in LogState
      BY LogTypes DEF TypeOK
    <3>2. environ' = environ \/ LoadLogVariables
      BY <1>3 DEF InitLogging
    <3>3. environ \in LogState
      BY DEF TypeOK
    <3>4. ASSUME NEW n \in LogName, LoadLogVariables
          PROVE  environ'[n] \in {"unset", "own", "own_bad", "file", "file_bad"}
      BY <3>1, <3>3, <3>4 DEF LoadLogVariables, LogState
    <3>5. LoadLogVariables => environ' \in LogState
      BY <3>4 DEF LoadLogVariables, LogState
    <3>6. QED
      BY <3>2, <3>3, <3>5
  <2>2. pc' \in [Thread -> Steps \cup {"idle", "ended"}]
    BY <1>3, GotoTypes DEF InitLogging, Steps
  <2>3. fault' \in [Thread -> BOOLEAN]
    BY <1>3 DEF InitLogging, TypeOK
  <2>4. QED
    BY <1>3, <2>1, <2>2, <2>3 DEF InitLogging, TypeOK
<1>4. CASE StartTwice(t)
  BY <1>4, ExitTypes, PutBackTypes DEF StartTwice, TypeOK, Codes
<1>5. CASE StartConfigured(t)
  BY <1>5, GotoTypes DEF StartConfigured, TypeOK, Steps
<1>6. CASE StartDefaultLogging(t)
  <2>1. config' \in [Thread -> Loaded]
        /\ error' \in [Thread -> {"none", "load", "logging"}]
    BY <1>6 DEF StartDefaultLogging, StartLogging, TypeOK, Loaded
  <2>2. QED
    BY <1>6, <2>1, GotoTypes DEF StartDefaultLogging, TypeOK, Steps, Loaded
<1>7. CASE ListLogVariables(t)
  <2>1. hidden' \in [Thread -> LogState]
    BY <1>7 DEF ListLogVariables, TypeOK
  <2>2. QED
    BY <1>7, <2>1, GotoTypes DEF ListLogVariables, TypeOK, Steps
<1>8. CASE PopMissing(t)
  BY <1>8, ExitTypes, PoppedTypes DEF PopMissing, TypeOK, Codes
<1>9. CASE HideLogVariables(t)
  <2>1. hidden' \in [Thread -> LogState] /\ environ' \in LogState
    BY <1>9 DEF HideLogVariables, TypeOK, LogState
  <2>2. QED
    BY <1>9, <2>1, GotoTypes DEF HideLogVariables, TypeOK, Steps
<1>10. CASE StartHidden(t)
  <2>1. config' \in [Thread -> Loaded]
        /\ error' \in [Thread -> {"none", "load", "logging"}]
    BY <1>10 DEF StartHidden, StartLogging, TypeOK, Loaded
  <2>2. hidden' \in [Thread -> LogState] /\ environ' \in LogState
    BY <1>10, LogTypes, PutBackTypes DEF StartHidden, TypeOK
  <2>3. QED
    BY <1>10, <2>1, <2>2, GotoTypes DEF StartHidden, TypeOK, Steps, Loaded
<1>11. CASE StartHiddenRefused(t)
  BY <1>11, ExitTypes, PutBackTypes DEF StartHiddenRefused, TypeOK, Codes
<1>12. CASE Store(t)
  <2>1. line[t].flag \in BOOLEAN
    BY LineFields DEF TypeOK
  <2>2. QED
    BY <1>12, <2>1, GotoTypes DEF Store, TypeOK, Steps
<1>13. QED
  BY <1>1, <1>2, <1>3, <1>4, <1>5, <1>6, <1>7, <1>8, <1>9, <1>10, <1>11, <1>12 DEF Start

\* The commands keep the types.
LEMMA CommandsKeepTypes ==
    ASSUME TypeOK, NEW t \in Thread, Commands(t)
    PROVE  TypeOK'
<1> USE DEF process, own, files, seen
<1>1. CASE RefuseOptions(t) \/ BindFails(t)
  BY <1>1, ExitTypes DEF RefuseOptions, BindFails, TypeOK, Codes
<1>2. CASE Plain(t)
  <2>1. PICK c \in Codes : Exit(t, c)
    BY <1>2 DEF Plain, Codes
  <2>2. QED
    BY <1>2, <2>1, ExitTypes DEF Plain, TypeOK
<1>3. CASE RequireConfig(t)
  <2>1. /\ pc' \in [Thread -> Steps \cup {"idle", "ended"}]
        /\ code' \in [Thread -> Codes]
    BY <1>3, ExitTypes, GotoTypes DEF RequireConfig, TypeOK, Codes, Steps
  <2>2. QED
    BY <1>3, <2>1 DEF RequireConfig, TypeOK
<1>4. CASE ResolveConfig(t)
  <2>1. line[t].over \in Profile
    BY LineFields DEF TypeOK
  <2>2. \/ Exit(t, "usage") /\ UNCHANGED <<config, error, cache, seen>>
        \/ LoadConfig(t, line[t].over) /\ (Exit(t, "config") \/ (Goto(t, "run") /\ code' = code))
    BY <1>4 DEF ResolveConfig
  <2>3. /\ pc' \in [Thread -> Steps \cup {"idle", "ended"}]
        /\ code' \in [Thread -> Codes]
    BY <2>2, ExitTypes, GotoTypes DEF TypeOK, Codes, Steps
  <2>4. /\ config' \in [Thread -> Loaded]
        /\ error' \in [Thread -> {"none", "load", "logging"}]
        /\ cache' \in [Profile -> Cached]
    BY <2>1, <2>2, LoadTypes DEF TypeOK, Loaded, Cached
  <2>5. fresh' \in [Thread -> BOOLEAN] /\ fault' \in [Thread -> BOOLEAN]
    BY <1>4 DEF ResolveConfig, TypeOK
  <2>6. QED
    BY <1>4, <2>3, <2>4, <2>5 DEF ResolveConfig, Same, TypeOK, Loaded, Cached
<1>5. CASE Run(t)
  <2>1. PICK c \in Codes : Exit(t, c)
    BY <1>5 DEF Run, Codes
  <2>2. QED
    BY <1>5, <2>1, ExitTypes DEF Run, TypeOK
<1>6. CASE PermissionOverrides(t)
  BY <1>6, ExitTypes DEF PermissionOverrides, TypeOK, Codes
<1>7. CASE ExecuteDeploy(t)
  <2>1. PICK c \in Codes : Exit(t, c)
    BY <1>7 DEF ExecuteDeploy, Codes
  <2>2. disk' \in [Profile -> Content]
    BY <1>7, SessionAssumption DEF ExecuteDeploy, TypeOK
  <2>3. QED
    BY <1>7, <2>1, <2>2, ExitTypes DEF ExecuteDeploy, Same, TypeOK
<1>8. CASE StopForDemo(t)
  BY <1>8, GotoTypes DEF StopForDemo, Same, TypeOK, Steps
<1>9. CASE Logdemo(t)
  <2>1. PICK c \in Codes : Exit(t, c)
    BY <1>9 DEF Logdemo, Codes
  <2>2. QED
    BY <1>9, <2>1, ExitTypes DEF Logdemo, TypeOK
<1>10. QED
  BY <1>1, <1>2, <1>3, <1>4, <1>5, <1>6, <1>7, <1>8, <1>9 DEF Commands

\* So does every step.
LEMMA StepTypes == TypeOK /\ [Next]_vars => TypeOK'
<1> SUFFICES ASSUME TypeOK, [Next]_vars PROVE TypeOK'
  OBVIOUS
<1>1. ASSUME NEW t \in Thread, Begin(t) PROVE TypeOK'
  <2>1. pc' \in [Thread -> Steps \cup {"idle", "ended"}]
    BY <1>1, GotoTypes DEF Begin, Steps
  <2>2. line' \in [Thread -> CommandLine] /\ saved' \in [Thread -> BOOLEAN]
    BY <1>1, SessionAssumption DEF Begin, TypeOK
  <2>3. /\ code' \in [Thread -> Codes]
        /\ fresh' \in [Thread -> BOOLEAN] /\ fault' \in [Thread -> BOOLEAN]
    BY <1>1 DEF Begin, TypeOK, Codes
  <2>4. calls' \in 0 .. MaxCalls
    BY <1>1, SessionAssumption DEF Begin, TypeOK
  <2>5. QED
    BY <1>1, <2>1, <2>2, <2>3, <2>4 DEF Begin, TypeOK, process, own, files
<1>2. ASSUME NEW t \in Thread, Finish(t) PROVE TypeOK'
  <2>1. pc' \in [Thread -> Steps \cup {"idle", "ended"}]
    BY <1>2, GotoTypes DEF Finish, Steps
  <2>2. /\ config' \in [Thread -> Loaded]
        /\ error' \in [Thread -> {"none", "load", "logging"}]
        /\ saved' \in [Thread -> BOOLEAN] /\ hidden' \in [Thread -> LogState]
    BY <1>2, LogTypes DEF Finish, TypeOK, Loaded
  <2>3. QED
    BY <1>2, <2>1, <2>2 DEF Finish, TypeOK, own, files, seen, Loaded
<1>3. ASSUME NEW t \in Thread, Interrupt(t) PROVE TypeOK'
  <2>1. environ' \in LogState /\ lost' \in BOOLEAN
    BY <1>3, PutBackTypes, PoppedTypes DEF Interrupt, TypeOK
  <2>2. QED
    BY <1>3, <2>1, ExitTypes DEF Interrupt, TypeOK, Codes, files, seen
<1>4. CASE Edit
  <2>1. disk' \in [Profile -> Content] /\ outside' \in BOOLEAN /\ dotenv' \in EnvFile
    BY <1>4 DEF Edit, TypeOK
  <2>2. edits' \in 0 .. MaxEdits
    BY <1>4, SessionAssumption DEF Edit, TypeOK
  <2>3. QED
    BY <1>4, <2>1, <2>2 DEF Edit, TypeOK, process, own, seen
<1>5. CASE NewProcess
  <2>1. cache' \in [Profile -> Cached]
    BY <1>5 DEF NewProcess, Cached
  <2>2. QED
    BY <1>5, <2>1, OverTypes, LogTypes DEF NewProcess, TypeOK, files, Loaded, Cached
<1>6. CASE UNCHANGED vars
  BY <1>6 DEF vars, TypeOK
<1>7. QED
  BY <1>1, <1>2, <1>3, <1>4, <1>5, <1>6, StartKeepsTypes, CommandsKeepTypes DEF Next, Call

\* A step of one thread's call leaves the call of another alone.
LEMMA OthersKeep ==
    ASSUME TypeOK, NEW t \in Thread, NEW q \in Thread, q # t, Call(t) \/ Interrupt(t)
    PROVE  /\ pc'[q] = pc[q] /\ line'[q] = line[q] /\ config'[q] = config[q]
           /\ error'[q] = error[q] /\ code'[q] = code[q] /\ saved'[q] = saved[q]
           /\ hidden'[q] = hidden[q] /\ fresh'[q] = fresh[q] /\ fault'[q] = fault[q]
<1> USE DEF Exit, Goto, process, files, seen
<1>1. CASE Begin(t) \/ Finish(t) \/ Interrupt(t)
  BY <1>1 DEF Begin, Finish, Interrupt, TypeOK
<1>2. CASE CheckCommandLine(t) \/ InitLogging(t) \/ StartTwice(t) \/ StartConfigured(t)
  BY <1>2 DEF CheckCommandLine, InitLogging, StartTwice, StartConfigured, TypeOK
<1>3. CASE LoadRoot(t)
  BY <1>3 DEF LoadRoot, LoadConfig, TypeOK
<1>4. CASE StartDefaultLogging(t) \/ StartHidden(t) \/ Store(t)
  BY <1>4 DEF StartDefaultLogging, StartHidden, Store, StartLogging, TypeOK
<1>10. CASE ListLogVariables(t) \/ PopMissing(t) \/ HideLogVariables(t) \/ StartHiddenRefused(t)
  BY <1>10 DEF ListLogVariables, PopMissing, HideLogVariables, StartHiddenRefused, TypeOK
<1>5. CASE RefuseOptions(t) \/ BindFails(t) \/ Plain(t) \/ RequireConfig(t)
  BY <1>5 DEF RefuseOptions, BindFails, Plain, RequireConfig, TypeOK
<1>6. CASE ResolveConfig(t)
  <2>1. /\ pc'[q] = pc[q] /\ code'[q] = code[q]
        /\ fresh'[q] = fresh[q] /\ fault'[q] = fault[q]
    BY <1>6 DEF ResolveConfig, TypeOK
  <2>2. config'[q] = config[q] /\ error'[q] = error[q]
    BY <1>6 DEF ResolveConfig, LoadConfig, TypeOK
  <2>3. QED
    BY <1>6, <2>1, <2>2 DEF ResolveConfig, Same
<1>7. CASE Run(t) \/ PermissionOverrides(t) \/ ExecuteDeploy(t)
  BY <1>7 DEF Run, PermissionOverrides, ExecuteDeploy, Same, TypeOK
<1>8. CASE StopForDemo(t) \/ Logdemo(t)
  BY <1>8 DEF StopForDemo, Logdemo, Same, TypeOK
<1>9. QED
  BY <1>1, <1>2, <1>3, <1>4, <1>5, <1>6, <1>7, <1>8, <1>10 DEF Call, Start, Commands

-----------------------------------------------------------------------------
Started == {"log", "init", "hiding", "defaults", "stored", "command"}

\* The empty configuration comes with a recorded failure, and the failure
\* keeps the command from running.
EmptyRecorded(t) ==
    /\ pc[t] = "run" => config[t] # "empty"
    /\ pc[t] \in Started /\ config[t] = "empty" => error[t] # "none"

\* What a load leaves behind: a configuration that is not empty, or a failure.
LEMMA LoadRecords ==
    ASSUME TypeOK, NEW t \in Thread, NEW p \in Profile, LoadConfig(t, p)
    PROVE  /\ Loads(p) => config'[t] # "empty"
           /\ config'[t] = "empty" => error'[t] # "none"
<1>1. CASE Loads(p)
  <2>1. GetConfig(p) \in {"good", "refused", "unsafe"}
    BY <1>1, SessionAssumption DEF Loads, Readable, GetConfig, TypeOK
  <2>2. QED
    BY <1>1, <2>1 DEF LoadConfig, TypeOK
<1>2. CASE ~Loads(p)
  BY <1>2 DEF LoadConfig, TypeOK
<1>3. QED
  BY <1>1, <1>2

\* The thread's own steps keep its empty configuration accounted for.
LEMMA OwnEmptyRecorded ==
    ASSUME TypeOK, NEW t \in Thread, EmptyRecorded(t), Call(t) \/ Interrupt(t)
    PROVE  EmptyRecorded(t)'
<1> USE DEF Exit, Goto, process, files, seen, Started
<1>1. CASE Begin(t) \/ Finish(t) \/ Interrupt(t)
  BY <1>1 DEF Begin, Finish, Interrupt, TypeOK, EmptyRecorded
<1>2. CASE CheckCommandLine(t) \/ InitLogging(t) \/ StartTwice(t) \/ StartConfigured(t)
  BY <1>2 DEF CheckCommandLine, InitLogging, StartTwice, StartConfigured, TypeOK,
     EmptyRecorded
<1>3. CASE LoadRoot(t)
  <2>1. line[t].profile \in Profile
    BY LineFields DEF TypeOK
  <2>2. pc'[t] = "log"
    BY <1>3 DEF LoadRoot, TypeOK
  <2>3. QED
    BY <1>3, <2>1, <2>2, LoadRecords DEF LoadRoot, EmptyRecorded
<1>4. CASE StartDefaultLogging(t) \/ StartHidden(t)
  <2>1. pc'[t] = "stored" /\ error'[t] # "none"
    BY <1>4 DEF StartDefaultLogging, StartHidden, StartLogging, TypeOK
  <2>2. QED
    BY <2>1 DEF EmptyRecorded
<1>5. CASE ListLogVariables(t) \/ HideLogVariables(t) \/ Store(t)
  BY <1>5 DEF ListLogVariables, HideLogVariables, Store, TypeOK, EmptyRecorded
<1>11. CASE PopMissing(t) \/ StartHiddenRefused(t)
  BY <1>11 DEF PopMissing, StartHiddenRefused, TypeOK, EmptyRecorded
<1>6. CASE RefuseOptions(t) \/ BindFails(t) \/ Plain(t) \/ RequireConfig(t)
  BY <1>6 DEF RefuseOptions, BindFails, Plain, RequireConfig, At, TypeOK, EmptyRecorded
<1>7. CASE ResolveConfig(t)
  <2>1. line[t].over \in Profile
    BY LineFields DEF TypeOK
  <2>2. \/ pc'[t] = "ended"
        \/ LoadConfig(t, line[t].over) /\ Loads(line[t].over) /\ pc'[t] = "run"
    BY <1>7 DEF ResolveConfig, TypeOK
  <2>3. QED
    BY <2>1, <2>2, LoadRecords DEF EmptyRecorded
<1>8. CASE Run(t) \/ PermissionOverrides(t) \/ ExecuteDeploy(t)
  BY <1>8 DEF Run, PermissionOverrides, ExecuteDeploy, TypeOK, EmptyRecorded
<1>9. CASE StopForDemo(t) \/ Logdemo(t)
  BY <1>9 DEF StopForDemo, Logdemo, TypeOK, EmptyRecorded
<1>10. QED
  BY <1>1, <1>2, <1>3, <1>4, <1>5, <1>6, <1>7, <1>8, <1>9, <1>11 DEF Call, Start, Commands

\* No command proper runs on the empty configuration that stands in for one
\* that did not load, with any number of threads.
THEOREM EmptyNeverRun == Spec => []NeverRunsOnEmpty
<1> DEFINE Inv == TypeOK /\ \A t \in Thread : EmptyRecorded(t)
<1>1. Init => Inv
  BY InitTypes DEF Init, All, EmptyRecorded, Started
<1>2. Inv /\ [Next]_vars => Inv'
  <2> SUFFICES ASSUME Inv, [Next]_vars, NEW q \in Thread PROVE EmptyRecorded(q)'
    BY StepTypes
  <2>1. ASSUME NEW t \in Thread, Call(t) \/ Interrupt(t) PROVE EmptyRecorded(q)'
    <3>1. CASE q = t
      BY <2>1, <3>1, OwnEmptyRecorded
    <3>2. CASE q # t
      BY <2>1, <3>2, OthersKeep DEF EmptyRecorded
    <3>3. QED
      BY <3>1, <3>2
  <2>2. CASE Edit \/ UNCHANGED vars
    BY <2>2 DEF Edit, vars, process, own, EmptyRecorded
  <2>3. CASE NewProcess
    BY <2>3 DEF NewProcess, CallsOver, All, EmptyRecorded, Started
  <2>4. QED
    BY <2>1, <2>2, <2>3 DEF Next
<1>3. Inv => NeverRunsOnEmpty
  BY DEF EmptyRecorded, NeverRunsOnEmpty
<1>4. QED
  BY <1>1, <1>2, <1>3, PTL DEF Spec

-----------------------------------------------------------------------------
\* A call that ends with 78 reads the configuration, or is a deploy that its
\* permission settings stop, or a demo that meets a bad LOG_* variable.
Blames(t) ==
    \/ line[t].cmd \in {"backup", "config", "logdemo"}
    \/ /\ line[t].cmd = "deploy"
       /\ line[t].set = "fine" => ~line[t].past /\ (line[t].force => outside)

\* The step a demo is at belongs to a demo.
DemoIsOne(t) == pc[t] = "demo" => line[t].cmd = "logdemo"

\* The thread's own steps keep it so, and end with 78 only where there is blame.
LEMMA OwnBlames ==
    ASSUME TypeOK, NEW t \in Thread, DemoIsOne(t), Call(t) \/ Interrupt(t)
    PROVE  /\ DemoIsOne(t)'
           /\ code'[t] = "config" /\ code[t] # "config" => Blames(t)
<1> USE DEF Exit, Goto, process, own, files, seen
<1>1. CASE Begin(t) \/ Finish(t) \/ Interrupt(t)
  BY <1>1 DEF Begin, Finish, Interrupt, TypeOK, DemoIsOne
<1>2. CASE CheckCommandLine(t) \/ LoadRoot(t) \/ InitLogging(t) \/ StartTwice(t)
  BY <1>2 DEF CheckCommandLine, LoadRoot, InitLogging, StartTwice, TypeOK, DemoIsOne
<1>3. CASE StartConfigured(t) \/ StartDefaultLogging(t) \/ ListLogVariables(t) \/ PopMissing(t)
  BY <1>3 DEF StartConfigured, StartDefaultLogging, ListLogVariables, PopMissing, TypeOK,
     DemoIsOne
<1>4. CASE HideLogVariables(t) \/ StartHidden(t) \/ StartHiddenRefused(t) \/ Store(t)
  BY <1>4 DEF HideLogVariables, StartHidden, StartHiddenRefused, Store, TypeOK, DemoIsOne
<1>5. CASE RefuseOptions(t) \/ BindFails(t) \/ Plain(t) \/ Run(t)
  BY <1>5 DEF RefuseOptions, BindFails, Plain, Run, TypeOK, DemoIsOne
<1>6. CASE RequireConfig(t) \/ ResolveConfig(t)
  <2>1. line[t].cmd \in {"backup", "config"} /\ pc'[t] \in {"ended", "run"}
    BY <1>6 DEF RequireConfig, ResolveConfig, At, TypeOK
  <2>2. QED
    BY <2>1 DEF Blames, DemoIsOne
<1>7. CASE PermissionOverrides(t)
  BY <1>7 DEF PermissionOverrides, At, TypeOK, Blames, DemoIsOne
<1>8. CASE ExecuteDeploy(t)
  <2>1. line[t].cmd = "deploy" /\ pc'[t] = "ended"
    BY <1>8 DEF ExecuteDeploy, At, TypeOK
  <2>2. PICK p \in Profile : code'[t] = "config" => PermissionsRefused(t, p)
    <3>1. line[t].over \in Profile /\ line[t].profile \in Profile
      BY LineFields DEF TypeOK
    <3>2. QED
      BY <1>8, <3>1 DEF ExecuteDeploy, TypeOK
  <2>3. QED
    BY <2>1, <2>2 DEF PermissionsRefused, Blames, DemoIsOne
<1>9. CASE StopForDemo(t) \/ Logdemo(t)
  BY <1>9 DEF StopForDemo, Logdemo, At, Same, TypeOK, Blames, DemoIsOne
<1>10. QED
  BY <1>1, <1>2, <1>3, <1>4, <1>5, <1>6, <1>7, <1>8, <1>9 DEF Call, Start, Commands

\* What the root could not load, or start logging with, stops no command that
\* does not read the configuration, the deploy over the faulty file above all:
\* only the permission settings it cannot get past do.
THEOREM RepairPossible == Spec => RepairNeverBlocked
<1> DEFINE Inv == TypeOK /\ \A t \in Thread : DemoIsOne(t)
           Step(q) == code'[q] = "config" /\ code[q] # "config" => Blames(q)
<1>1. Init => Inv
  BY InitTypes DEF Init, All, DemoIsOne
<1>2. Inv /\ [Next]_vars => Inv'
  <2> SUFFICES ASSUME Inv, [Next]_vars, NEW q \in Thread PROVE DemoIsOne(q)'
    BY StepTypes
  <2>1. ASSUME NEW t \in Thread, Call(t) \/ Interrupt(t) PROVE DemoIsOne(q)'
    <3>1. CASE q = t
      BY <2>1, <3>1, OwnBlames
    <3>2. CASE q # t
      BY <2>1, <3>2, OthersKeep DEF DemoIsOne
    <3>3. QED
      BY <3>1, <3>2
  <2>2. CASE Edit \/ UNCHANGED vars
    BY <2>2 DEF Edit, vars, DemoIsOne
  <2>3. CASE NewProcess
    BY <2>3 DEF NewProcess, CallsOver, All, DemoIsOne
  <2>4. QED
    BY <2>1, <2>2, <2>3 DEF Next
<1>3. Inv /\ Next => \A q \in Thread : Step(q)
  <2> SUFFICES ASSUME Inv, Next, NEW q \in Thread PROVE Step(q)
    OBVIOUS
  <2>1. ASSUME NEW t \in Thread, Call(t) \/ Interrupt(t) PROVE Step(q)
    <3>1. CASE q = t
      BY <2>1, <3>1, OwnBlames
    <3>2. CASE q # t
      BY <2>1, <3>2, OthersKeep
    <3>3. QED
      BY <3>1, <3>2
  <2>2. CASE Edit
    BY <2>2 DEF Edit
  <2>3. CASE NewProcess
    BY <2>3 DEF NewProcess, CallsOver, All
  <2>4. QED
    BY <2>1, <2>2, <2>3 DEF Next
<1>4. ASSUME Inv, [Next]_vars
      PROVE  [\A t \in Thread :
                 code'[t] = "config" /\ code[t] # "config" =>
                     /\ line[t].cmd \notin {"plain", "fail"}
                     /\ line[t].cmd = "deploy" /\ line[t].set = "fine" =>
                            /\ ~line[t].past
                            /\ line[t].force => outside]_vars
  BY <1>3, <1>4 DEF Blames
<1>5. QED
  BY <1>1, <1>2, <1>4, PTL DEF Spec, RepairNeverBlocked

-----------------------------------------------------------------------------
(* From here on: one thread, as the command line has it.                   *)

\* The runtime is off until this call starts it, and the preference saved at
\* the start of a call is the one of a process between calls.
Restored(t) ==
    /\ pc[t] \in {"idle", "load", "log", "init", "hiding", "defaults"} => runtime = "off"
    /\ pc[t] \in {"idle", "load", "log", "init", "hiding", "defaults"} => tb = FALSE
    /\ saved[t] = FALSE

\* The variables listed are the ones there are, and all of them are hidden; what
\* the process was started with is among them, or back in its place, unless an
\* interrupt came between the removal and the try.
OwnInPlace(variables) ==
    \A n \in LogName : environ0[n] # "unset" => variables[n] = environ0[n]

Hidden(t) ==
    /\ pc[t] = "hiding" => hidden[t] = environ
    /\ pc[t] = "defaults" => environ = NoVariables
    /\ ~lost => IF pc[t] = "defaults" THEN OwnInPlace(hidden[t]) ELSE OwnInPlace(environ)

\* A wrong line ends in a usage error and runs nothing.
LineChecked(t) ==
    /\ pc[t] \in Started => line[t].bad # "root"
    /\ pc[t] \in {"run", "demo"} => line[t].bad = "no"
    /\ pc[t] = "demo" => line[t].cmd = "logdemo"
    /\ pc[t] \in {"ended", "idle"} /\ code[t] \notin {"none", "signal"}
           => (code[t] = "usage" <=> line[t].bad # "no")

\* The main thread's own steps keep both.
LEMMA OwnRestored ==
    ASSUME TypeOK, Main \in Thread, Restored(Main), Call(Main) \/ Interrupt(Main)
    PROVE  Restored(Main)'
<1> USE DEF Exit, Goto, process, files, seen
<1>1. CASE Begin(Main) \/ Finish(Main) \/ Interrupt(Main)
  BY <1>1 DEF Begin, Finish, Interrupt, TypeOK, Restored
<1>2. CASE CheckCommandLine(Main) \/ LoadRoot(Main) \/ InitLogging(Main)
  BY <1>2 DEF CheckCommandLine, LoadRoot, InitLogging, TypeOK, Restored
<1>3. CASE StartTwice(Main) \/ StartConfigured(Main) \/ StartDefaultLogging(Main)
  BY <1>3 DEF StartTwice, StartConfigured, StartDefaultLogging, TypeOK, Restored
<1>4. CASE ListLogVariables(Main) \/ HideLogVariables(Main) \/ StartHidden(Main) \/ Store(Main)
  BY <1>4 DEF ListLogVariables, HideLogVariables, StartHidden, Store, TypeOK, Restored
<1>7. CASE PopMissing(Main) \/ StartHiddenRefused(Main)
  BY <1>7 DEF PopMissing, StartHiddenRefused, TypeOK, Restored
<1>5. CASE Commands(Main)
  <2>1. saved' = saved /\ pc'[Main] \in {"ended", "run", "demo"}
    BY <1>5 DEF Commands, RefuseOptions, BindFails, Plain, RequireConfig, ResolveConfig, Run,
       PermissionOverrides, ExecuteDeploy, StopForDemo, Logdemo, Same, TypeOK
  <2>2. QED
    BY <2>1 DEF Restored
<1>6. QED
  BY <1>1, <1>2, <1>3, <1>4, <1>5, <1>7 DEF Call, Start

\* Alone, a thread finds every variable it listed.
LEMMA NeverMissing ==
    ASSUME Main \in Thread, Hidden(Main)
    PROVE  ~PopMissing(Main) /\ ~StartHiddenRefused(Main)
  BY DEF Hidden, PopMissing, StartHiddenRefused, Listed, Bad, NoVariables

\* Putting back, where all are hidden, gives what was hidden.
LEMMA PutBackWhole ==
    ASSUME TypeOK, Main \in Thread, environ = NoVariables
    PROVE  PutBack(Main) = hidden[Main]
<1>1. hidden[Main] \in LogState
  BY DEF TypeOK
<1>2. \A n \in LogName : PutBack(Main)[n] = hidden[Main][n]
  BY <1>1 DEF PutBack, Listed, NoVariables, LogState
<1>3. QED
  BY <1>1, <1>2 DEF PutBack, LogState

\* The main thread's own steps keep its variables, hidden or in place.
LEMMA OwnHidden ==
    ASSUME TypeOK, Main \in Thread, Restored(Main), Hidden(Main),
           Call(Main) \/ Interrupt(Main)
    PROVE  Hidden(Main)'
<1> USE DEF Exit, Goto, process, own, files, seen
<1>1. CASE InitLogging(Main)
  <2>1. runtime = "off" /\ pc[Main] = "log" /\ pc'[Main] = "init" /\ LoadLogVariables
    BY <1>1 DEF InitLogging, Restored, TypeOK
  <2>2. environ0' = environ0 /\ lost' = lost
    BY <1>1 DEF InitLogging
  <2>3. \A n \in LogName : environ[n] # "unset" => environ'[n] = environ[n]
    BY <2>1 DEF LoadLogVariables
  <2>4. QED
    BY <2>1, <2>2, <2>3 DEF Hidden, OwnInPlace
<1>2. CASE ListLogVariables(Main)
  BY <1>2 DEF ListLogVariables, TypeOK, Hidden, OwnInPlace
<1>3. CASE HideLogVariables(Main)
  <2>1. /\ hidden[Main] = environ /\ pc[Main] = "hiding" /\ pc'[Main] = "defaults"
        /\ environ0' = environ0 /\ lost' = lost /\ environ \in LogState
    BY <1>3 DEF HideLogVariables, Hidden, TypeOK
  <2>2. \A n \in LogName : n \notin Listed(Main) => environ[n] = "unset"
    BY <2>1 DEF Listed
  <2>3. environ' = NoVariables
    BY <1>3, <2>2 DEF HideLogVariables, NoVariables
  <2>4. \A n \in LogName : hidden'[Main][n] = environ[n]
    BY <1>3, <2>2 DEF HideLogVariables, TypeOK
  <2>5. QED
    BY <2>1, <2>3, <2>4 DEF Hidden, OwnInPlace
<1>4. CASE StartHidden(Main)
  <2>1. /\ pc[Main] = "defaults" /\ pc'[Main] = "stored" /\ environ' = hidden[Main]
        /\ environ0' = environ0 /\ lost' = lost
    BY <1>4, PutBackWhole DEF StartHidden, Hidden, TypeOK
  <2>2. QED
    BY <2>1 DEF Hidden, OwnInPlace
<1>5. CASE Interrupt(Main)
  <2>0. pc'[Main] = "ended" /\ environ0' = environ0
    BY <1>5 DEF Interrupt, TypeOK
  <2>1. CASE pc[Main] = "hiding"
    <3>1. PICK popped \in SUBSET Listed(Main) :
              /\ environ' = [n \in LogName |-> IF n \in popped THEN "unset" ELSE environ[n]]
              /\ lost' = (lost \/ popped # {})
      BY <1>5, <2>1 DEF Interrupt, PoppedSome
    <3>2. ~lost' => ~lost /\ \A n \in LogName : environ'[n] = environ[n]
      BY <3>1
    <3>3. QED
      BY <2>0, <2>1, <3>2 DEF Hidden, OwnInPlace
  <2>2. CASE pc[Main] = "defaults"
    <3>1. environ' = hidden[Main] /\ lost' = lost
      BY <1>5, <2>2, PutBackWhole DEF Interrupt, Hidden
    <3>2. QED
      BY <2>0, <2>2, <3>1 DEF Hidden, OwnInPlace
  <2>3. CASE pc[Main] \notin {"hiding", "defaults"}
    BY <1>5, <2>0, <2>3 DEF Interrupt, Hidden, OwnInPlace
  <2>4. QED
    BY <2>1, <2>2, <2>3
<1>6. CASE StartTwice(Main)
  BY <1>6 DEF StartTwice, Restored
<1>7. ASSUME UNCHANGED <<environ, environ0, lost>>, pc[Main] # "defaults",
             pc'[Main] \notin {"hiding", "defaults"}
      PROVE  Hidden(Main)'
  BY <1>7 DEF Hidden, OwnInPlace
<1>8. CASE Begin(Main) \/ Finish(Main)
  BY <1>7, <1>8 DEF Begin, Finish, TypeOK
<1>9. CASE CheckCommandLine(Main) \/ LoadRoot(Main) \/ StartConfigured(Main)
           \/ StartDefaultLogging(Main) \/ Store(Main)
  BY <1>7, <1>9 DEF CheckCommandLine, LoadRoot, StartConfigured, StartDefaultLogging, Store,
     TypeOK
<1>10. CASE RefuseOptions(Main) \/ BindFails(Main) \/ Plain(Main) \/ RequireConfig(Main)
            \/ Run(Main)
  BY <1>7, <1>10 DEF RefuseOptions, BindFails, Plain, RequireConfig, Run, At, TypeOK
<1>11. CASE ResolveConfig(Main)
  BY <1>7, <1>11 DEF ResolveConfig, At, Same, TypeOK
<1>12. CASE PermissionOverrides(Main) \/ ExecuteDeploy(Main) \/ StopForDemo(Main)
            \/ Logdemo(Main)
  BY <1>7, <1>12 DEF PermissionOverrides, ExecuteDeploy, StopForDemo, Logdemo, At, Same, TypeOK
<1>13. QED
  BY <1>1, <1>2, <1>3, <1>4, <1>5, <1>6, <1>8, <1>9, <1>10, <1>11, <1>12, NeverMissing
     DEF Call, Start, Commands

\* The command line of the one thread was checked before its configuration was
\* loaded, and stays so.
LEMMA OwnLineChecked ==
    ASSUME TypeOK, Main \in Thread, Restored(Main), Hidden(Main), LineChecked(Main),
           Call(Main) \/ Interrupt(Main)
    PROVE  LineChecked(Main)'
<1> USE DEF Exit, Goto, process, files, seen
<1>0. /\ line[Main].bad \in {"no", "root", "sub", "profile"}
      /\ line[Main].bad = "profile" => line[Main].cmd = "config" /\ line[Main].over # "none"
  BY LineFields DEF TypeOK
<1>1. CASE Begin(Main) \/ Finish(Main) \/ Interrupt(Main)
  BY <1>1 DEF Begin, Finish, Interrupt, TypeOK, LineChecked, Started
<1>2. CASE CheckCommandLine(Main) \/ LoadRoot(Main) \/ InitLogging(Main)
  BY <1>2 DEF CheckCommandLine, LoadRoot, InitLogging, TypeOK, LineChecked, Started
<1>3. CASE StartTwice(Main)
  BY <1>3 DEF StartTwice, Restored
<1>4. CASE StartConfigured(Main) \/ StartDefaultLogging(Main)
  BY <1>4 DEF StartConfigured, StartDefaultLogging, TypeOK, LineChecked, Started
<1>5. CASE ListLogVariables(Main) \/ HideLogVariables(Main) \/ StartHidden(Main) \/ Store(Main)
  BY <1>5 DEF ListLogVariables, HideLogVariables, StartHidden, Store, TypeOK, LineChecked, Started
<1>6. CASE RefuseOptions(Main) \/ BindFails(Main) \/ Plain(Main)
  BY <1>0, <1>6 DEF RefuseOptions, BindFails, Plain, At, TypeOK, LineChecked, Started
<1>7. CASE RequireConfig(Main) \/ ResolveConfig(Main)
  BY <1>0, <1>7 DEF RequireConfig, ResolveConfig, At, Same, TypeOK, LineChecked, Started
<1>8. CASE Run(Main)
  BY <1>8 DEF Run, TypeOK, LineChecked, Started
<1>9. CASE PermissionOverrides(Main) \/ ExecuteDeploy(Main)
  BY <1>9 DEF PermissionOverrides, ExecuteDeploy, At, Same, TypeOK, LineChecked, Started
<1>10. CASE StopForDemo(Main) \/ Logdemo(Main)
  BY <1>0, <1>10 DEF StopForDemo, Logdemo, At, Same, TypeOK, LineChecked, Started
<1>11. QED
  BY <1>1, <1>2, <1>3, <1>4, <1>5, <1>6, <1>7, <1>8, <1>9, <1>10, NeverMissing
     DEF Call, Start, Commands

\* The recorded failure of a call for which nothing was cached says whether
\* what it read was at fault, step by step.
FaultRecorded(t) ==
    /\ pc[t] \in {"idle", "load"} => error[t] = "none"
    /\ pc[t] \in {"log", "init"} => error[t] # "logging"
    /\ pc[t] = "log" /\ fresh[t] => (fault[t] <=> error[t] = "load" \/ config[t] = "refused")
    /\ pc[t] = "init" /\ fresh[t] => (fault[t] <=> error[t] = "load" \/ Refused(t))
    /\ pc[t] \in {"hiding", "defaults"} /\ fresh[t] => fault[t]
    /\ pc[t] \in {"stored", "command"} /\ fresh[t] => (fault[t] <=> error[t] # "none")
    /\ pc[t] = "run" /\ fresh[t] => ~fault[t]
    /\ pc[t] \in {"ended", "idle"} /\ fresh[t] /\ code[t] \notin {"none", "signal"}
          /\ line[t].bad = "no" /\ line[t].cmd \in {"backup", "config"}
           => (code[t] = "config" <=> fault[t])

\* The load of the root group records its failure,
LEMMA LoadRootRecorded ==
    ASSUME TypeOK, Main \in Thread, FaultRecorded(Main), LoadRoot(Main)
    PROVE  FaultRecorded(Main)'
<1> DEFINE p == line[Main].profile
<1>1. p \in Profile
  BY LineFields DEF TypeOK
<1>2. pc[Main] = "load" /\ pc'[Main] = "log" /\ error[Main] = "none"
  BY DEF LoadRoot, Goto, FaultRecorded, TypeOK
<1>3. fresh'[Main] => cache[p] = "none"
  BY DEF LoadRoot, TypeOK
<1>4. fault'[Main] <=> (~Readable(p) \/ disk[p] = "refused")
  BY DEF LoadRoot, TypeOK
<1>5. CASE cache[p] = "none" /\ Readable(p)
  <2>1. config'[Main] = disk[p] /\ error'[Main] = "none"
    BY <1>1, <1>2, <1>5 DEF LoadRoot, LoadConfig, Loads, GetConfig, TypeOK
  <2>2. QED
    BY <1>2, <1>4, <1>5, <2>1 DEF FaultRecorded
<1>6. CASE cache[p] = "none" /\ ~Readable(p)
  <2>1. error'[Main] = "load"
    BY <1>1, <1>6 DEF LoadRoot, LoadConfig, Loads, TypeOK
  <2>2. QED
    BY <1>2, <1>4, <1>6, <2>1 DEF FaultRecorded
<1>7. CASE cache[p] # "none"
  <2>1. error'[Main] = "none"
    BY <1>2, <1>7 DEF LoadRoot, LoadConfig, Loads, TypeOK
  <2>2. QED
    BY <1>2, <1>3, <1>7, <2>1 DEF FaultRecorded
<1>8. QED
  BY <1>5, <1>6, <1>7

\* ... the load of a subcommand refuses on the spot what is at fault,
LEMMA ResolveRecorded ==
    ASSUME TypeOK, Main \in Thread, FaultRecorded(Main), ResolveConfig(Main)
    PROVE  FaultRecorded(Main)'
<1> DEFINE p == line[Main].over
<1>1. p \in Profile /\ line' = line /\ disk' = disk
  BY LineFields DEF ResolveConfig, Same, TypeOK
<1>2. CASE line[Main].bad = "profile"
  <2>1. pc'[Main] = "ended"
    BY <1>2 DEF ResolveConfig, Exit, Goto, TypeOK
  <2>2. QED
    BY <1>1, <1>2, <2>1 DEF FaultRecorded
<1>3. CASE line[Main].bad # "profile"
  <2>1. /\ LoadConfig(Main, p)
        /\ fresh'[Main] => cache[p] = "none"
        /\ fault'[Main] <=> (~Readable(p) \/ disk[p] = "refused" \/ Bad(environ))
    BY <1>3 DEF ResolveConfig, TypeOK
  <2>2. cache[p] = "none" /\ Readable(p) => config'[Main] = disk[p]
    BY <1>1, <2>1 DEF LoadConfig, Loads, GetConfig, TypeOK
  <2>3. cache[p] = "none" => (Loads(p) <=> Readable(p))
    BY DEF Loads
  <2>4. CASE ~Loads(p) \/ config'[Main] = "refused" \/ Bad(environ)
    <3>1. pc'[Main] = "ended" /\ code'[Main] = "config"
      BY <1>3, <2>4 DEF ResolveConfig, Exit, Goto, TypeOK
    <3>2. fresh'[Main] => fault'[Main]
      BY <2>1, <2>2, <2>3, <2>4
    <3>3. QED
      BY <3>1, <3>2 DEF FaultRecorded
  <2>5. CASE ~(~Loads(p) \/ config'[Main] = "refused" \/ Bad(environ))
    <3>1. pc'[Main] = "run"
      BY <1>3, <2>5 DEF ResolveConfig, Exit, Goto, TypeOK
    <3>2. fresh'[Main] => ~fault'[Main]
      BY <2>1, <2>2, <2>3, <2>5
    <3>3. QED
      BY <3>1, <3>2 DEF FaultRecorded
  <2>6. QED
    BY <2>4, <2>5
<1>4. QED
  BY <1>2, <1>3

\* ... and so does every other step of the main thread.
LEMMA OwnFaultRecorded ==
    ASSUME TypeOK, Main \in Thread, Restored(Main), Hidden(Main), LineChecked(Main),
           FaultRecorded(Main), Call(Main) \/ Interrupt(Main)
    PROVE  FaultRecorded(Main)'
<1> USE DEF Exit, Goto, process, files, seen
<1>1. CASE Begin(Main) \/ Finish(Main) \/ Interrupt(Main)
  BY <1>1 DEF Begin, Finish, Interrupt, TypeOK, FaultRecorded
<1>2. CASE CheckCommandLine(Main)
  BY <1>2 DEF CheckCommandLine, TypeOK, FaultRecorded
<1>3. CASE InitLogging(Main)
  <2>1. runtime = "off" /\ pc[Main] = "log"
    BY <1>3 DEF InitLogging, Restored
  <2>2. /\ pc'[Main] = "init"
        /\ fault'[Main] <=> (fault[Main] \/ Bad(environ'))
        /\ fresh' = fresh /\ error' = error /\ config' = config
    BY <1>3, <2>1 DEF InitLogging, TypeOK
  <2>3. QED
    BY <2>1, <2>2 DEF FaultRecorded, Refused
<1>4. CASE StartTwice(Main)
  BY <1>4 DEF StartTwice, Restored
<1>5. CASE StartConfigured(Main)
  <2>1. /\ pc[Main] = "init" /\ ~Refused(Main) /\ pc'[Main] = "stored"
        /\ fresh' = fresh /\ error' = error /\ fault' = fault
    BY <1>5 DEF StartConfigured, TypeOK
  <2>2. QED
    BY <2>1 DEF FaultRecorded, TypeOK
<1>6. CASE StartDefaultLogging(Main)
  <2>1. /\ pc[Main] = "init" /\ Refused(Main) /\ pc'[Main] = "stored"
        /\ fresh' = fresh /\ fault' = fault /\ error'[Main] # "none"
    BY <1>6 DEF StartDefaultLogging, StartLogging, TypeOK
  <2>2. QED
    BY <2>1 DEF FaultRecorded, TypeOK
<1>7. CASE ListLogVariables(Main)
  <2>1. /\ pc[Main] = "init" /\ Refused(Main) /\ pc'[Main] = "hiding"
        /\ fresh' = fresh /\ fault' = fault
    BY <1>7 DEF ListLogVariables, Refused, TypeOK
  <2>2. QED
    BY <2>1 DEF FaultRecorded, TypeOK
<1>17. CASE HideLogVariables(Main)
  <2>1. /\ pc[Main] = "hiding" /\ pc'[Main] = "defaults"
        /\ fresh' = fresh /\ fault' = fault
    BY <1>17 DEF HideLogVariables, TypeOK
  <2>2. QED
    BY <2>1 DEF FaultRecorded, TypeOK
<1>8. CASE StartHidden(Main)
  <2>1. /\ pc[Main] = "defaults" /\ pc'[Main] = "stored"
        /\ fresh' = fresh /\ fault' = fault /\ error'[Main] # "none"
    BY <1>8 DEF StartHidden, StartLogging, TypeOK
  <2>2. QED
    BY <2>1 DEF FaultRecorded, TypeOK
<1>9. CASE Store(Main)
  BY <1>9 DEF Store, TypeOK, FaultRecorded
<1>10. CASE RefuseOptions(Main) \/ Plain(Main)
  BY <1>10 DEF RefuseOptions, Plain, At, TypeOK, FaultRecorded
<1>11. CASE BindFails(Main)
  BY <1>11 DEF BindFails, At, TypeOK, FaultRecorded
<1>12. CASE RequireConfig(Main)
  BY <1>12 DEF RequireConfig, At, TypeOK, FaultRecorded
<1>13. CASE Run(Main)
  BY <1>13 DEF Run, TypeOK, FaultRecorded
<1>14. CASE PermissionOverrides(Main) \/ ExecuteDeploy(Main) \/ StopForDemo(Main)
  BY <1>14 DEF PermissionOverrides, ExecuteDeploy, StopForDemo, At, Same, TypeOK, FaultRecorded
<1>15. CASE Logdemo(Main)
  <2>1. pc[Main] = "demo" /\ pc'[Main] = "ended" /\ line' = line
    BY <1>15 DEF Logdemo, TypeOK
  <2>2. line[Main].cmd = "logdemo"
    BY <2>1 DEF LineChecked
  <2>3. QED
    BY <2>1, <2>2 DEF FaultRecorded
<1>16. QED
  BY <1>1, <1>2, <1>3, <1>4, <1>5, <1>6, <1>7, <1>8, <1>9, <1>10, <1>11, <1>12, <1>13, <1>14,
     <1>15, <1>17, NeverMissing, LoadRootRecorded, ResolveRecorded DEF Call, Start, Commands

\* With one thread the four accounts are kept.
AloneInv ==
    TypeOK /\ Restored(Main) /\ Hidden(Main) /\ LineChecked(Main) /\ FaultRecorded(Main)

\* Every step of the one thread keeps AloneInv.
LEMMA AloneInvariant == ASSUME Thread = {Main} PROVE Spec => []AloneInv
<1>1. Init => AloneInv
  BY InitTypes DEF Init, All, NoLine, AloneInv, Restored, Hidden, OwnInPlace, LineChecked,
     FaultRecorded, Started
<1>2. AloneInv /\ [Next]_vars => AloneInv'
  <2> SUFFICES ASSUME AloneInv, [Next]_vars
      PROVE  Restored(Main)' /\ Hidden(Main)' /\ LineChecked(Main)' /\ FaultRecorded(Main)'
    BY StepTypes DEF AloneInv
  <2>1. CASE Call(Main) \/ Interrupt(Main)
    BY <2>1, OwnRestored, OwnHidden, OwnLineChecked, OwnFaultRecorded DEF AloneInv
  <2>2. CASE Edit \/ UNCHANGED vars
    BY <2>2 DEF Edit, vars, process, own, seen, AloneInv, Restored, Hidden, OwnInPlace,
       LineChecked, FaultRecorded, Refused, Bad
  <2>3. CASE NewProcess
    BY <2>3 DEF NewProcess, CallsOver, All, Restored, Hidden, OwnInPlace, LineChecked,
       FaultRecorded, Started
  <2>4. QED
    BY <2>1, <2>2, <2>3 DEF Next
<1>3. QED
  BY <1>1, <1>2, PTL DEF Spec

\* A LOG_* variable the process was started with keeps its value over all its
\* calls in one thread, whatever the .env says and whatever is refused, but for
\* an interrupt between the removal and the try.
THEOREM OwnVariablesKept == ASSUME Thread = {Main} PROVE Spec => []LogVariablesKept
<1>1. AloneInv => LogVariablesKept
  BY DEF AloneInv, Hidden, OwnInPlace, LogVariablesKept
<1>2. QED
  BY <1>1, AloneInvariant, PTL

\* Between calls the process is as it was before the first.
THEOREM NothingLeft == ASSUME Thread = {Main} PROVE Spec => []NothingLeftBehind
<1>1. AloneInv => NothingLeftBehind
  BY DEF AloneInv, Restored, NothingLeftBehind
<1>2. QED
  BY <1>1, AloneInvariant, PTL

\* What is wrong with the command line is a usage error, whatever the state of
\* the files and of the logging settings.
THEOREM UsageFirst == ASSUME Thread = {Main} PROVE Spec => []UsageErrorFirst
<1>1. AloneInv => UsageErrorFirst
  BY DEF AloneInv, LineChecked, UsageErrorFirst, Ended
<1>2. QED
  BY <1>1, AloneInvariant, PTL

\* The first call of a process that uses a profile refuses exactly what is at
\* fault, however the operator edits the files meanwhile.
THEOREM FaultsRefused == ASSUME Thread = {Main} PROVE Spec => []RefusedIffFaulty
<1>1. AloneInv => RefusedIffFaulty
  BY DEF AloneInv, FaultRecorded, RefusedIffFaulty, Ended
<1>2. QED
  BY <1>1, AloneInvariant, PTL

-----------------------------------------------------------------------------
(* Every call has a way on, and comes to an end.                           *)

\* The conditions of the actions a call can take at the step it is at, those
\* of its thread alone: an interrupt or the end of the process does not count.
CanLoad(t) == pc[t] = "load" /\ line[t].bad \in {"root", "no", "sub", "profile"}

\* Logging starts with the settings, with the defaults, with the defaults and
\* without the LOG_* variables, or ends the call because it runs already.
CanStartLogging(t) ==
    \/ pc[t] = "log"
    \/ pc[t] = "init" /\ runtime # "off"
    \/ pc[t] = "init" /\ runtime = "off" /\ (~Refused(t) \/ ~Bad(environ))
    \/ pc[t] = "init" /\ runtime = "off" /\ Bad(environ)
    \/ pc[t] = "hiding" /\ \E n \in Listed(t) : environ[n] = "unset"
    \/ pc[t] = "hiding" /\ \A n \in Listed(t) : environ[n] # "unset"
    \/ pc[t] = "defaults" /\ runtime # "off"
    \/ pc[t] = "defaults" /\ runtime = "off" /\ ~Bad(environ)
    \/ pc[t] = "defaults" /\ runtime = "off" /\ Bad(environ)

\* The handlers of the commands, by what tells them apart.
CanCommand(t) ==
    \/ At(t, Command) /\ line[t].bad = "sub"
    \/ At(t, {"plain", "fail", "logdemo", "deploy"}) /\ line[t].bad = "no"
    \/ At(t, {"backup", "config"}) /\ line[t].bad = "no" /\ line[t].over = "none"
    \/ At(t, {"config"}) /\ line[t].bad # "sub" /\ line[t].over # "none"
    \/ pc[t] \in {"run", "demo"}

CanGoOn(t) ==
    CanLoad(t) \/ CanStartLogging(t) \/ pc[t] = "stored" \/ CanCommand(t) \/ pc[t] = "ended"

\* Whatever line, files and settings a call met and whatever other threads did
\* to the runtime meanwhile, there is a handler for what it is at: no line
\* falls between the commands, none waits for another thread.
EveryCallGoesOn == \A t \in Thread : pc[t] # "idle" => CanGoOn(t)

\* How far a call is from its end.
StepsLeft ==
    [l \in Steps \cup {"idle", "ended"} |->
        CASE l = "load" -> 9 [] l = "log" -> 8 [] l = "init" -> 7 [] l = "hiding" -> 6
          [] l = "defaults" -> 5 [] l = "stored" -> 4 [] l = "command" -> 3 [] l \in {"run", "demo"} -> 2
          [] l = "ended" -> 1 [] l = "idle" -> 0]

\* Every step of a call brings it closer to its end and no step of another
\* thread, edit or interrupt takes it back: main() has at most nine steps.
StepsBringCloser ==
    [][\A t \in Thread :
          /\ Start(t) \/ Commands(t) \/ Finish(t) \/ Interrupt(t)
                 => StepsLeft[pc'[t]] < StepsLeft[pc[t]]
          /\ pc[t] # "idle" => StepsLeft[pc'[t]] <= StepsLeft[pc[t]]]_vars

\* The root's part of the line is in order once the configuration is loaded.
RootChecked(t) == pc[t] \notin {"idle", "load", "ended"} => line[t].bad # "root"

\* The thread's own steps keep it checked.
LEMMA OwnRootChecked ==
    ASSUME TypeOK, NEW t \in Thread, RootChecked(t), Call(t) \/ Interrupt(t)
    PROVE  RootChecked(t)'
<1> USE DEF Exit, Goto, process, files, seen
<1>1. CASE Begin(t) \/ Finish(t) \/ Interrupt(t)
  BY <1>1 DEF Begin, Finish, Interrupt, TypeOK, RootChecked
<1>2. CASE Start(t)
  BY <1>2 DEF Start, CheckCommandLine, LoadRoot, InitLogging, StartTwice, StartConfigured,
     StartDefaultLogging, ListLogVariables, PopMissing, HideLogVariables, StartHidden,
     StartHiddenRefused, Store, TypeOK, RootChecked
<1>3. CASE RefuseOptions(t) \/ BindFails(t) \/ Plain(t) \/ Run(t) \/ RequireConfig(t)
  BY <1>3 DEF RefuseOptions, BindFails, Plain, Run, RequireConfig, At, TypeOK, RootChecked
<1>4. CASE ResolveConfig(t)
  BY <1>4 DEF ResolveConfig, Same, At, TypeOK, RootChecked
<1>5. CASE PermissionOverrides(t) \/ ExecuteDeploy(t)
  BY <1>5 DEF PermissionOverrides, ExecuteDeploy, At, Same, TypeOK, RootChecked
<1>6. CASE StopForDemo(t) \/ Logdemo(t)
  BY <1>6 DEF StopForDemo, Logdemo, At, Same, TypeOK, RootChecked
<1>7. QED
  BY <1>1, <1>2, <1>3, <1>4, <1>5, <1>6 DEF Call, Commands

\* No call is stuck, whatever its line and whatever the other threads do.
THEOREM CallNeverStuck == Spec => []EveryCallGoesOn
<1> DEFINE Inv == TypeOK /\ \A t \in Thread : RootChecked(t)
<1>1. Init => Inv
  BY InitTypes DEF Init, All, RootChecked
<1>2. Inv /\ [Next]_vars => Inv'
  <2> SUFFICES ASSUME Inv, [Next]_vars, NEW q \in Thread PROVE RootChecked(q)'
    BY StepTypes
  <2>1. ASSUME NEW t \in Thread, Call(t) \/ Interrupt(t) PROVE RootChecked(q)'
    <3>1. CASE q = t
      BY <2>1, <3>1, OwnRootChecked
    <3>2. CASE q # t
      BY <2>1, <3>2, OthersKeep DEF RootChecked
    <3>3. QED
      BY <3>1, <3>2
  <2>2. CASE Edit \/ UNCHANGED vars
    BY <2>2 DEF Edit, vars, process, own, RootChecked
  <2>3. CASE NewProcess
    BY <2>3 DEF NewProcess, CallsOver, All, RootChecked
  <2>4. QED
    BY <2>1, <2>2, <2>3 DEF Next
<1>3. Inv => EveryCallGoesOn
  <2> SUFFICES ASSUME Inv, NEW t \in Thread, pc[t] # "idle" PROVE CanGoOn(t)
    BY DEF EveryCallGoesOn
  <2>1. pc[t] \in Steps \cup {"ended"} /\ line[t] \in CommandLine
    BY DEF TypeOK
  <2>2. CASE pc[t] = "command"
    <3>1. /\ line[t].cmd \in Command
          /\ line[t].bad \in {"no", "root", "sub", "profile"}
          /\ line[t].over # "none" => line[t].cmd \in {"config", "deploy"}
          /\ line[t].bad = "profile" => line[t].cmd = "config" /\ line[t].over # "none"
      BY <2>1, LineFields
    <3>2. line[t].bad # "root"
      BY <2>2 DEF RootChecked
    <3>3. CanCommand(t)
      BY <2>2, <3>1, <3>2 DEF CanCommand, At, Command
    <3>4. QED
      BY <3>3 DEF CanGoOn
  <2>3. CASE pc[t] = "load"
    BY <2>1, <2>3, LineFields DEF CanGoOn, CanLoad
  <2>4. CASE pc[t] \notin {"load", "command"}
    BY <2>1, <2>4 DEF CanGoOn, CanStartLogging, CanCommand, Steps
  <2>5. QED
    BY <2>2, <2>3, <2>4
<1>4. QED
  BY <1>1, <1>2, <1>3, PTL DEF Spec

\* A step of the thread's own goes to a later step of the call.
LEMMA OwnCloser ==
    ASSUME TypeOK, NEW t \in Thread,
           Start(t) \/ Commands(t) \/ Finish(t) \/ Interrupt(t)
    PROVE  StepsLeft[pc'[t]] < StepsLeft[pc[t]]
<1> USE DEF Exit, Goto
<1>0. /\ StepsLeft["load"] = 9 /\ StepsLeft["log"] = 8 /\ StepsLeft["init"] = 7
      /\ StepsLeft["hiding"] = 6 /\ StepsLeft["defaults"] = 5 /\ StepsLeft["stored"] = 4 /\ StepsLeft["command"] = 3
      /\ StepsLeft["run"] = 2 /\ StepsLeft["demo"] = 2
      /\ StepsLeft["ended"] = 1 /\ StepsLeft["idle"] = 0
  BY DEF StepsLeft, Steps
<1>1. CASE Finish(t) \/ Interrupt(t)
  <2>1. \/ pc[t] = "ended" /\ pc'[t] = "idle"
        \/ pc[t] \in Steps /\ pc'[t] = "ended"
    BY <1>1 DEF Finish, Interrupt, TypeOK
  <2>2. QED
    BY <1>0, <2>1 DEF Steps
<1>2. CASE CheckCommandLine(t) \/ LoadRoot(t) \/ InitLogging(t)
  <2>1. \/ pc[t] = "load" /\ pc'[t] \in {"ended", "log"}
        \/ pc[t] = "log" /\ pc'[t] \in {"stored", "init"}
    BY <1>2 DEF CheckCommandLine, LoadRoot, InitLogging, TypeOK
  <2>2. QED
    BY <1>0, <2>1
<1>3. CASE StartTwice(t) \/ StartConfigured(t) \/ StartDefaultLogging(t)
  <2>1. \/ pc[t] \in {"init", "defaults"} /\ pc'[t] = "ended"
        \/ pc[t] = "init" /\ pc'[t] = "stored"
    BY <1>3 DEF StartTwice, StartConfigured, StartDefaultLogging, TypeOK
  <2>2. QED
    BY <1>0, <2>1
<1>4. CASE HideLogVariables(t) \/ StartHidden(t) \/ Store(t)
  <2>1. \/ pc[t] = "hiding" /\ pc'[t] = "defaults"
        \/ pc[t] = "defaults" /\ pc'[t] = "stored"
        \/ pc[t] = "stored" /\ pc'[t] = "command"
    BY <1>4 DEF HideLogVariables, StartHidden, Store, TypeOK
  <2>2. QED
    BY <1>0, <2>1
<1>5. CASE RefuseOptions(t) \/ BindFails(t) \/ Plain(t) \/ Run(t) \/ RequireConfig(t)
  <2>1. \/ pc[t] \in {"command", "run"} /\ pc'[t] = "ended"
        \/ pc[t] = "command" /\ pc'[t] = "run"
    BY <1>5 DEF RefuseOptions, BindFails, Plain, Run, RequireConfig, At, TypeOK
  <2>2. QED
    BY <1>0, <2>1
<1>6. CASE ResolveConfig(t)
  <2>1. pc[t] = "command" /\ pc'[t] \in {"ended", "run"}
    BY <1>6 DEF ResolveConfig, At, TypeOK
  <2>2. QED
    BY <1>0, <2>1
<1>7. CASE PermissionOverrides(t) \/ ExecuteDeploy(t) \/ StopForDemo(t) \/ Logdemo(t)
  <2>1. \/ pc[t] \in {"command", "demo"} /\ pc'[t] = "ended"
        \/ pc[t] = "command" /\ pc'[t] = "demo"
    BY <1>7 DEF PermissionOverrides, ExecuteDeploy, StopForDemo, Logdemo, At, TypeOK
  <2>2. QED
    BY <1>0, <2>1
<1>8. CASE ListLogVariables(t) \/ PopMissing(t) \/ StartHiddenRefused(t)
  <2>1. \/ pc[t] = "init" /\ pc'[t] = "hiding"
        \/ pc[t] \in {"hiding", "defaults"} /\ pc'[t] = "ended"
    BY <1>8 DEF ListLogVariables, PopMissing, StartHiddenRefused, TypeOK
  <2>2. QED
    BY <1>0, <2>1
<1>9. QED
  BY <1>1, <1>2, <1>3, <1>4, <1>5, <1>6, <1>7, <1>8 DEF Start, Commands

\* A call has at most nine steps, however many threads call and whatever an
\* operator edits meanwhile.
THEOREM CallsComeToAnEnd == Spec => StepsBringCloser
<1> DEFINE Goes(t) ==
        /\ Start(t) \/ Commands(t) \/ Finish(t) \/ Interrupt(t)
               => StepsLeft[pc'[t]] < StepsLeft[pc[t]]
        /\ pc[t] # "idle" => StepsLeft[pc'[t]] <= StepsLeft[pc[t]]
<1>1. Init => TypeOK
  BY InitTypes
<1>2. TypeOK /\ TypeOK' /\ [Next]_vars => [\A t \in Thread : Goes(t)]_vars
  <2> SUFFICES ASSUME TypeOK, TypeOK', Next, NEW t \in Thread PROVE Goes(t)
    OBVIOUS
  <2>0. /\ \A l \in Steps \cup {"idle", "ended"} : StepsLeft[l] \in Nat
        /\ StepsLeft["idle"] = 0
        /\ pc[t] \in Steps \cup {"idle", "ended"} /\ pc'[t] \in Steps \cup {"idle", "ended"}
    BY DEF StepsLeft, Steps, TypeOK
  <2>1. Start(t) \/ Commands(t) \/ Finish(t) \/ Interrupt(t)
            => StepsLeft[pc'[t]] < StepsLeft[pc[t]]
    BY OwnCloser
  <2>2. ASSUME pc[t] # "idle" PROVE StepsLeft[pc'[t]] <= StepsLeft[pc[t]]
    <3>1. CASE Call(t) \/ Interrupt(t)
      <4>1. ~Begin(t)
        BY <2>2 DEF Begin
      <4>2. QED
        BY <2>0, <2>1, <3>1, <4>1 DEF Call
    <3>2. ASSUME NEW q \in Thread, q # t, Call(q) \/ Interrupt(q)
          PROVE  StepsLeft[pc'[t]] <= StepsLeft[pc[t]]
      <4>1. pc'[t] = pc[t]
        BY <3>2, OthersKeep
      <4>2. QED
        BY <2>0, <4>1
    <3>3. CASE Edit
      BY <2>0, <3>3 DEF Edit
    <3>4. CASE NewProcess
      <4>1. pc'[t] = "idle"
        BY <3>4 DEF NewProcess, CallsOver, All
      <4>2. QED
        BY <2>0, <4>1
    <3>5. QED
      BY <3>1, <3>2, <3>3, <3>4 DEF Next
  <2>3. QED
    BY <2>1, <2>2
<1>3. QED
  BY <1>1, <1>2, StepTypes, PTL DEF Spec, StepsBringCloser
=============================================================================
