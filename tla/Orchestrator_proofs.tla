------------------------ MODULE Orchestrator_proofs ------------------------
(***************************************************************************)
(* Proofs about Orchestrator, for every set of servers, every pool size    *)
(* and every input.                                                        *)
(***************************************************************************)
EXTENDS Orchestrator, FiniteSetTheorems, TLAPS

-----------------------------------------------------------------------------
(* The inductive invariant.                                                *)

\* The fields of the result that belong to type k say what its call did.
Told(s, k) ==
    /\ call[s][k] = "raised" <=> k \notin ok[s] \cup skipped[s]
    /\ k \in want \cap enabled[s] => dry \/ call[s][k] \in {"ok", "raised"}

\* A task has done what its stage says, and no task of another server exists.
TaskInv(s) ==
    /\ s \notin asked => stage[s] = "unsubmitted"
    /\ stage[s] \in {"unsubmitted", "queued", "config"} =>
         /\ \A k \in Working : call[s][k] = "none"
         /\ skipped[s] = {}
    /\ stage[s] = "config" => ok[s] = Kind
    /\ stage[s] \in {"packages", "zfs"} =>
         /\ Told(s, "config")
         /\ "zfs" \in ok[s] /\ "zfs" \notin skipped[s]
         /\ call[s]["zfs"] = "none"
    /\ stage[s] = "returned" => \A k \in Kind : Told(s, k)

\* How far the tasks are where the main thread is.
MainInv ==
    /\ code = "none" <=> main # "ended"
    /\ main = "select" => asked = {}
    /\ main \in {"select", "settings"} => \A s \in Server : stage[s] = "unsubmitted"
    /\ main \in {"settings", "submit", "collect", "report", "mail", "exit"} => asked # {}
    /\ main \in {"collect", "report", "mail", "exit"} =>
         \A s \in asked : stage[s] # "unsubmitted"
    /\ yielded \subseteq asked
    /\ \A s \in yielded : stage[s] \in Finished
    /\ main \in {"report", "mail", "exit"} => yielded = asked
    /\ main = "ended" => \A s \in Server : stage[s] \in {"unsubmitted"} \cup Finished

\* The results are those of the futures handed out, and they tell the truth.
ResultsInv ==
    /\ \A s \in yielded : \E i \in DOMAIN results : results[i].server = s
    /\ \A i \in DOMAIN results :
         /\ results[i].server \in yielded
         /\ HasErrors(results[i]) <=> WentWrong(results[i].server)

\* The verdict is about tasks that are finished.
CodeInv ==
    /\ code = "success" =>
         /\ asked # {}
         /\ \A s \in asked : stage[s] = "returned" /\ ~WentWrong(s)
    /\ code = "general" /\ asked # {} =>
         /\ \A s \in asked : stage[s] \in Finished
         /\ \E s \in asked : WentWrong(s)

IInv ==
    /\ TypeOK
    /\ \A s \in Server : TaskInv(s)
    /\ MainInv
    /\ ResultsInv
    /\ CodeInv

-----------------------------------------------------------------------------
(* Types.                                                                  *)

\* TypeOK is inductive without any help.
LEMMA TypesStep ==
    /\ Init => TypeOK
    /\ TypeOK /\ [Next]_vars => TypeOK'
<1>1. Init => TypeOK
  <2>. HAVE Init
  <2>1. want \in Wanted /\ dry \in BOOLEAN
    BY DEF Init, Wanted
  <2>2. results \in Seq(Result)
    BY DEF Init
  <2>3. stage \in [Server -> Stage] /\ call \in [Server -> [Working -> {"none", "ok", "raised"}]]
    BY DEF Init, Stage
  <2>4. QED
    BY <2>1, <2>2, <2>3 DEF Init, TypeOK
<1>2. TypeOK /\ [Next]_vars => TypeOK'
  <2>. SUFFICES ASSUME TypeOK, [Next]_vars PROVE TypeOK'
    OBVIOUS
  <2>. USE DEF TypeOK
  <2>1. ASSUME NEW s \in Server, Task(s) PROVE TypeOK'
    <3>. USE DEF MainIdle, inputs, Move, Stage, Finished
    <3>1. CASE Begin(s)
      BY <3>1 DEF Begin, Working
    <3>2. CASE BackupConfig(s)
      <4>1. CASE "config" \in want \cap enabled[s]
        <5>1. PICK result \in {"none", "ok", "raised"} :
                /\ call' = [call EXCEPT ![s]["config"] = result]
                /\ ok' = [ok EXCEPT ![s] = IF result = "raised" THEN @ \ {"config"} ELSE @]
          BY <3>2, <4>1 DEF BackupConfig, Outcome
        <5>2. call' \in [Server -> [Working -> {"none", "ok", "raised"}]]
          BY <5>1 DEF Working
        <5>3. ok' \in [Server -> SUBSET Kind]
          BY <5>1
        <5>4. QED
          BY <3>2, <4>1, <5>2, <5>3 DEF BackupConfig, Working
      <4>2. CASE "config" \notin want \cap enabled[s]
        <5>1. "config" \in Kind
          BY DEF Kind
        <5>2. skipped' \in [Server -> SUBSET Kind]
          BY <3>2, <4>2, <5>1 DEF BackupConfig, Skip
        <5>3. QED
          BY <3>2, <4>2, <5>2 DEF BackupConfig, Skip, Working
      <4>3. QED
        BY <4>1, <4>2
    <3>3. CASE BackupPackages(s)
      BY <3>3 DEF BackupPackages, Outcome, Working
    <3>4. CASE BackupZfs(s)
      <4>1. CASE "zfs" \in want \cap enabled[s]
        <5>1. PICK result \in {"none", "ok", "raised"} :
                /\ call' = [call EXCEPT ![s]["zfs"] = result]
                /\ ok' = [ok EXCEPT ![s] = IF result = "raised" THEN @ \ {"zfs"} ELSE @]
          BY <3>4, <4>1 DEF BackupZfs, Outcome
        <5>2. call' \in [Server -> [Working -> {"none", "ok", "raised"}]]
          BY <5>1 DEF Working
        <5>3. ok' \in [Server -> SUBSET Kind]
          BY <5>1
        <5>4. QED
          BY <3>4, <4>1, <5>2, <5>3 DEF BackupZfs, Working
      <4>2. CASE "zfs" \notin want \cap enabled[s]
        <5>1. "zfs" \in Kind
          BY DEF Kind
        <5>2. skipped' \in [Server -> SUBSET Kind]
          BY <3>4, <4>2, <5>1 DEF BackupZfs, Skip
        <5>3. QED
          BY <3>4, <4>2, <5>2 DEF BackupZfs, Skip, Working
      <4>3. QED
        BY <4>1, <4>2
    <3>5. CASE Unexpected(s)
      BY <3>5 DEF Unexpected
    <3>6. QED
      BY <2>1, <3>1, <3>2, <3>3, <3>4, <3>5 DEF Task
  <2>2. CASE Main
    <3>. USE DEF End, inputs, task
    <3>1. ASSUME NEW C \in SUBSET Server, NEW f \in Server \cup {0}, Select(C, f)
          PROVE  TypeOK'
      BY <3>1, PoolAssumption DEF Select
    <3>2. CASE ExtractSettings
      BY <3>2 DEF ExtractSettings
    <3>3. CASE Submit
      BY <3>3 DEF Submit, Move, Stage, Unsubmitted
    <3>4. ASSUME NEW s \in Server, Collect(s) PROVE TypeOK'
      BY <3>4 DEF Collect, Result
    <3>5. CASE Summarise
      BY <3>5 DEF Summarise
    <3>6. CASE Report
      BY <3>6 DEF Report
    <3>7. CASE SendSummary
      BY <3>7 DEF SendSummary, Subject
    <3>8. CASE Exit
      BY <3>8 DEF Exit
    <3>9. CASE Drain
      BY <3>9 DEF Drain
    <3>10. QED
      BY <2>2, <3>1, <3>2, <3>3, <3>4, <3>5, <3>6, <3>7, <3>8, <3>9 DEF Main
  <2>3. CASE Interrupt
    BY <2>3 DEF Interrupt, End, inputs, task
  <2>4. CASE UNCHANGED vars
    BY <2>4 DEF vars, inputs, task
  <2>5. QED
    BY <2>1, <2>2, <2>3, <2>4 DEF Next
<1>3. QED
  BY <1>1, <1>2

\* Every variable keeps its type, the list of results included.
THEOREM RunTypeCorrect == Spec => []TypeOK
  BY TypesStep, PTL DEF Spec

-----------------------------------------------------------------------------
(* Steps of a task.                                                        *)

\* What the state of server t's task is made of.
Same(t) ==
    /\ stage'[t] = stage[t] /\ call'[t] = call[t]
    /\ ok'[t] = ok[t] /\ skipped'[t] = skipped[t]

\* The invariant of a task looks at that task and the inputs only.
LEMMA SameTask ==
    ASSUME NEW t \in Server, TaskInv(t), Same(t), UNCHANGED inputs
    PROVE  TaskInv(t)'
  BY DEF TaskInv, Told, Same, inputs

\* Whether a backup went wrong depends on its own task only.
LEMMA SameFate ==
    ASSUME NEW t, stage'[t] = stage[t], call'[t] = call[t]
    PROVE  WentWrong(t)' <=> WentWrong(t)
  BY DEF WentWrong

\* A step of a task that is queued or working changes nothing that the other
\* tasks, the results or the verdict depend on.
LEMMA TaskFrame ==
    ASSUME IInv, NEW s \in Server, MainIdle,
           stage[s] \in {"queued"} \cup Working,
           stage'[s] \in Working \cup Finished,
           \A t \in Server \ {s} : Same(t)
    PROVE  /\ \A t \in Server \ {s} : TaskInv(t)'
           /\ MainInv' /\ ResultsInv' /\ CodeInv'
<1>. USE DEF IInv
<1>1. \A t \in Server \ {s} : TaskInv(t)'
  BY SameTask DEF MainIdle
<1>2. main \notin {"select", "settings", "report", "mail", "exit", "ended"} /\ s \notin yielded
  BY DEF MainInv, TaskInv, Working, Finished
<1>3. MainInv'
  BY <1>2 DEF MainInv, MainIdle, inputs, Same, TypeOK, Working, Finished
<1>4. ResultsInv'
  <2>1. \A t \in yielded : WentWrong(t)' <=> WentWrong(t)
    BY <1>2, SameFate DEF TypeOK, Same
  <2>2. QED
    BY <2>1 DEF ResultsInv, MainIdle, HasErrors
<1>5. CodeInv'
  BY <1>2 DEF CodeInv, MainInv, MainIdle, TypeOK
<1>6. QED
  BY <1>1, <1>3, <1>4, <1>5

\* A task that starts has called nothing yet: ok is set to both types.
LEMMA BeginInv ==
    ASSUME IInv, NEW s \in Server, Begin(s)
    PROVE  (\A t \in Server : TaskInv(t)') /\ MainInv' /\ ResultsInv' /\ CodeInv'
<1>1. \A t \in Server \ {s} : Same(t)
  BY DEF Begin, Move, IInv, TypeOK, Same
<1>2. stage'[s] = "config" /\ ok'[s] = Kind /\ s \in asked
  BY DEF Begin, Move, IInv, TypeOK, TaskInv
<1>3. TaskInv(s)'
  BY <1>2 DEF Begin, MainIdle, inputs, IInv, TaskInv
<1>4. QED
  BY <1>1, <1>2, <1>3, TaskFrame DEF Begin, Working

\* Called or left out, the fields of type config agree with the call.
LEMMA BackupConfigInv ==
    ASSUME IInv, NEW s \in Server, BackupConfig(s)
    PROVE  (\A t \in Server : TaskInv(t)') /\ MainInv' /\ ResultsInv' /\ CodeInv'
<1>. USE DEF IInv, TypeOK
<1>1. \A t \in Server \ {s} : Same(t)
  BY DEF BackupConfig, Outcome, Skip, Move, Same
<1>2. s \in asked /\ ok[s] = Kind /\ skipped[s] = {} /\ \A k \in Working : call[s][k] = "none"
  BY DEF BackupConfig, TaskInv
<1>3. UNCHANGED inputs
  BY DEF BackupConfig, MainIdle
<1>4. TaskInv(s)'
  <2>1. CASE "config" \in want \cap enabled[s]
    <3>1. PICK result \in IF dry THEN {"none"} ELSE {"ok", "raised"} :
            /\ call'[s] = [call[s] EXCEPT !["config"] = result]
            /\ ok'[s] = IF result = "raised" THEN Kind \ {"config"} ELSE Kind
            /\ stage'[s] = "packages" /\ skipped'[s] = {}
      BY <1>2, <2>1 DEF BackupConfig, Outcome, Move
    <3>2. call'[s]["config"] = result /\ call'[s]["zfs"] = "none"
      BY <1>2, <3>1 DEF Working
    <3>3. Told(s, "config")'
      BY <1>3, <3>1, <3>2 DEF Told, Kind, inputs
    <3>4. QED
      BY <1>2, <1>3, <3>1, <3>2, <3>3 DEF TaskInv, Kind, inputs
  <2>2. CASE "config" \notin want \cap enabled[s]
    <3>1. /\ call'[s] = call[s] /\ ok'[s] = Kind /\ stage'[s] = "zfs"
          /\ skipped'[s] \subseteq {"config"}
      BY <1>2, <2>2 DEF BackupConfig, Skip, Move
    <3>2. Told(s, "config")'
      BY <1>2, <1>3, <2>2, <3>1 DEF Told, Kind, Working, inputs
    <3>3. QED
      BY <1>2, <1>3, <3>1, <3>2 DEF TaskInv, Kind, Working, inputs
  <2>3. QED
    BY <2>1, <2>2
<1>5. stage'[s] \in Working /\ stage[s] \in Working
  BY DEF BackupConfig, Move, Working
<1>6. QED
  BY <1>1, <1>4, <1>5, TaskFrame DEF BackupConfig

\* The package list touches no field of a result.
LEMMA BackupPackagesInv ==
    ASSUME IInv, NEW s \in Server, BackupPackages(s)
    PROVE  (\A t \in Server : TaskInv(t)') /\ MainInv' /\ ResultsInv' /\ CodeInv'
<1>. USE DEF IInv, TypeOK
<1>1. \A t \in Server \ {s} : Same(t)
  BY DEF BackupPackages, Outcome, Move, Same
<1>2. /\ stage[s] = "packages" /\ stage'[s] = "zfs"
      /\ call'[s]["config"] = call[s]["config"] /\ call'[s]["zfs"] = call[s]["zfs"]
      /\ UNCHANGED <<inputs, ok, skipped>>
  BY DEF BackupPackages, Outcome, Move, MainIdle, Working
<1>3. TaskInv(s)'
  BY <1>2 DEF TaskInv, Told, inputs
<1>4. QED
  BY <1>1, <1>2, <1>3, TaskFrame DEF BackupPackages, Working

\* After the third call the fields of both types agree with the calls.
LEMMA BackupZfsInv ==
    ASSUME IInv, NEW s \in Server, BackupZfs(s)
    PROVE  (\A t \in Server : TaskInv(t)') /\ MainInv' /\ ResultsInv' /\ CodeInv'
<1>. USE DEF IInv, TypeOK
<1>1. \A t \in Server \ {s} : Same(t)
  BY DEF BackupZfs, Outcome, Skip, Move, Same
<1>2. /\ s \in asked /\ Told(s, "config") /\ "zfs" \in ok[s] /\ "zfs" \notin skipped[s]
      /\ call[s]["zfs"] = "none"
  BY DEF BackupZfs, TaskInv
<1>3. UNCHANGED inputs /\ stage[s] = "zfs" /\ stage'[s] = "returned"
  BY DEF BackupZfs, MainIdle, Move
<1>4. Told(s, "config")' /\ Told(s, "zfs")'
  <2>1. CASE "zfs" \in want \cap enabled[s]
    <3>1. PICK result \in IF dry THEN {"none"} ELSE {"ok", "raised"} :
            /\ call'[s] = [call[s] EXCEPT !["zfs"] = result]
            /\ ok'[s] = IF result = "raised" THEN ok[s] \ {"zfs"} ELSE ok[s]
            /\ skipped'[s] = skipped[s]
      BY <2>1 DEF BackupZfs, Outcome
    <3>2. call'[s]["zfs"] = result /\ call'[s]["config"] = call[s]["config"]
      BY <3>1 DEF Working
    <3>3. QED
      BY <1>2, <1>3, <3>1, <3>2 DEF Told, inputs
  <2>2. CASE "zfs" \notin want \cap enabled[s]
    <3>1. /\ call'[s] = call[s] /\ ok'[s] = ok[s]
          /\ skipped'[s] \in {skipped[s], skipped[s] \cup {"zfs"}}
      BY <2>2 DEF BackupZfs, Skip
    <3>2. QED
      BY <1>2, <1>3, <2>2, <3>1 DEF Told, inputs
  <2>3. QED
    BY <2>1, <2>2
<1>5. TaskInv(s)'
  BY <1>2, <1>3, <1>4 DEF TaskInv, Kind, inputs
<1>6. QED
  BY <1>1, <1>3, <1>5, TaskFrame DEF BackupZfs, Working, Finished

\* A task that dies is finished, and its fields no longer count.
LEMMA UnexpectedInv ==
    ASSUME IInv, NEW s \in Server, Unexpected(s)
    PROVE  (\A t \in Server : TaskInv(t)') /\ MainInv' /\ ResultsInv' /\ CodeInv'
<1>1. \A t \in Server \ {s} : Same(t)
  BY DEF Unexpected, Move, IInv, TypeOK, Same
<1>2. stage'[s] = "raised" /\ s \in asked
  BY DEF Unexpected, Move, IInv, TypeOK, TaskInv, Working
<1>3. TaskInv(s)'
  BY <1>2 DEF Unexpected, MainIdle, inputs, TaskInv
<1>4. QED
  BY <1>1, <1>2, <1>3, TaskFrame DEF Unexpected, Finished

-----------------------------------------------------------------------------
(* Steps of the main thread.                                               *)

\* The main thread does not touch the tasks.
LEMMA TasksKept ==
    ASSUME IInv, UNCHANGED <<inputs, task>>
    PROVE  \A t \in Server : TaskInv(t)' /\ (WentWrong(t)' <=> WentWrong(t))
  BY SameTask, SameFate DEF IInv, Same, task

\* A main thread that also leaves the results alone.
LEMMA ResultsKept ==
    ASSUME IInv, UNCHANGED <<inputs, task, yielded, results>>
    PROVE  ResultsInv'
  BY TasksKept DEF IInv, TypeOK, ResultsInv, HasErrors

\* The selection leaves every task unsubmitted, and an early exit asks for none.
LEMMA SelectInv ==
    ASSUME IInv, NEW C \in SUBSET Server, NEW f \in Server \cup {0}, Select(C, f)
    PROVE  (\A t \in Server : TaskInv(t)') /\ MainInv' /\ ResultsInv' /\ CodeInv'
<1>1. /\ \A s \in Server : stage[s] = "unsubmitted"
      /\ asked = {} /\ yielded = {} /\ code = "none" /\ main = "select"
  BY DEF Select, IInv, MainInv
<1>2. UNCHANGED <<stage, call, ok, skipped, yielded, results>>
  BY DEF Select, task
<1>3. \A t \in Server : TaskInv(t)'
  BY <1>1, <1>2 DEF IInv, TaskInv, Working, Finished
<1>4. ResultsInv'
  BY <1>1, <1>2 DEF IInv, ResultsInv
<1>5. MainInv' /\ CodeInv'
  BY <1>1, <1>2 DEF Select, End, inputs, MainInv, CodeInv
<1>6. QED
  BY <1>3, <1>4, <1>5

\* Refused settings end the run before any task is submitted.
LEMMA ExtractSettingsInv ==
    ASSUME IInv, ExtractSettings
    PROVE  (\A t \in Server : TaskInv(t)') /\ MainInv' /\ ResultsInv' /\ CodeInv'
<1>1. MainInv' /\ CodeInv'
  BY DEF ExtractSettings, End, inputs, task, IInv, MainInv, CodeInv
<1>2. QED
  BY <1>1, TasksKept, ResultsKept DEF ExtractSettings

\* When the last server is submitted, none that was asked for is left out.
LEMMA SubmitInv ==
    ASSUME IInv, Submit
    PROVE  (\A t \in Server : TaskInv(t)') /\ MainInv' /\ ResultsInv' /\ CodeInv'
<1>. USE DEF IInv, TypeOK
<1>1. PICK s \in Unsubmitted :
        /\ Move(s, "queued")
        /\ main' = IF Unsubmitted = {s} THEN "collect" ELSE "submit"
  BY DEF Submit
<1>2. s \in asked /\ stage[s] = "unsubmitted" /\ s \in Server
  BY DEF Unsubmitted
<1>3. UNCHANGED <<asked, enabled, want, dry, call, ok, skipped, yielded, results, code>>
  BY DEF Submit, inputs
<1>4. /\ stage'[s] = "queued"
      /\ \A t \in Server \ {s} : stage'[t] = stage[t]
  BY <1>1, <1>2 DEF Move
<1>5. \A t \in Server : TaskInv(t)'
  <2>1. TaskInv(s)'
    BY <1>2, <1>3, <1>4 DEF TaskInv
  <2>2. ASSUME NEW t \in Server \ {s} PROVE TaskInv(t)'
    BY <1>3, <1>4, SameTask DEF Same, inputs
  <2>3. QED
    BY <2>1, <2>2
<1>6. s \notin yielded
  BY <1>2 DEF MainInv, Finished
<1>7. MainInv'
  <2>1. main = "submit" /\ code = "none"
    BY DEF Submit, MainInv
  <2>2. main' = "collect" => \A t \in asked : stage'[t] # "unsubmitted"
    BY <1>1, <1>2, <1>4 DEF Unsubmitted
  <2>3. QED
    BY <1>1, <1>2, <1>3, <1>4, <1>6, <2>1, <2>2 DEF MainInv
<1>8. ResultsInv'
  <2>1. \A t \in yielded : WentWrong(t)' <=> WentWrong(t)
    BY <1>3, <1>4, <1>6, SameFate
  <2>2. QED
    BY <1>3, <2>1 DEF ResultsInv, HasErrors
<1>9. CodeInv'
  BY <1>3 DEF Submit, MainInv, CodeInv
<1>10. QED
  BY <1>5, <1>7, <1>8, <1>9

\* The result record of a finished task is wrong if the task was.
LEMMA EntryTruthful ==
    ASSUME IInv, NEW s \in Server, stage[s] = "returned"
    PROVE  Kind \subseteq ok[s] \cup skipped[s] <=> ~WentWrong(s)
  BY DEF IInv, TaskInv, Told, WentWrong, Kind

\* The entry that is appended is that of a finished task, and it tells the truth.
LEMMA CollectInv ==
    ASSUME IInv, NEW s \in Server, Collect(s)
    PROVE  (\A t \in Server : TaskInv(t)') /\ MainInv' /\ ResultsInv' /\ CodeInv'
<1>. USE DEF IInv, TypeOK
<1>1. PICK r \in Result :
        /\ r.server = s /\ results' = Append(results, r)
        /\ HasErrors(r) <=> WentWrong(s)
  <2>1. CASE stage[s] = "returned"
    <3>. DEFINE r == [server |-> s, ok |-> ok[s], skipped |-> skipped[s]]
    <3>1. r \in Result /\ r.server = s /\ results' = Append(results, r)
      BY <2>1 DEF Collect, Result
    <3>2. HasErrors(r) <=> WentWrong(s)
      BY <2>1, EntryTruthful DEF HasErrors
    <3>3. QED
      BY <3>1, <3>2
  <2>2. CASE stage[s] = "raised"
    <3>. DEFINE r == [server |-> s, ok |-> {}, skipped |-> {}]
    <3>1. r \in Result /\ r.server = s /\ results' = Append(results, r)
      BY <2>2 DEF Collect, Result
    <3>2. HasErrors(r) /\ WentWrong(s)
      BY <2>2 DEF HasErrors, WentWrong, Kind
    <3>3. QED
      BY <3>1, <3>2
  <2>3. QED
    BY <2>1, <2>2 DEF Collect, Finished
<1>2. UNCHANGED <<main, inputs, task, code>> /\ yielded' = yielded \cup {s}
  BY DEF Collect
<1>3. main = "collect" /\ s \in asked /\ stage[s] \in Finished
  BY DEF Collect
<1>4. MainInv' /\ CodeInv'
  BY <1>2, <1>3 DEF MainInv, CodeInv, inputs, task
<1>5. ResultsInv'
  <2>. DEFINE n == Len(results)
  <2>1. /\ n \in Nat /\ DOMAIN results = 1 .. n /\ DOMAIN results' = 1 .. n + 1
        /\ results'[n + 1] = r
        /\ \A i \in 1 .. n : results'[i] = results[i]
    BY <1>1
  <2>2. \A t \in yielded' : \E i \in DOMAIN results' : results'[i].server = t
    <3>1. results'[n + 1].server = s /\ n + 1 \in DOMAIN results'
      BY <1>1, <2>1
    <3>2. ASSUME NEW t \in yielded
          PROVE  \E i \in DOMAIN results' : results'[i].server = t
      <4>1. PICK i \in DOMAIN results : results[i].server = t
        BY DEF ResultsInv
      <4>2. QED
        BY <2>1, <4>1
    <3>3. QED
      BY <1>2, <3>1, <3>2
  <2>3. ASSUME NEW i \in DOMAIN results'
        PROVE  /\ results'[i].server \in yielded'
               /\ HasErrors(results'[i]) <=> WentWrong(results'[i].server)
    <3>1. CASE i = n + 1
      BY <1>1, <1>2, <2>1, <3>1
    <3>2. CASE i \in 1 .. n
      BY <1>2, <2>1, <3>2 DEF ResultsInv
    <3>3. QED
      BY <2>1, <3>1, <3>2
  <2>4. \A t \in yielded' : WentWrong(t)' <=> WentWrong(t)
    BY <1>2, <1>3, TasksKept
  <2>5. QED
    BY <2>2, <2>3, <2>4 DEF ResultsInv, HasErrors
<1>6. QED
  BY <1>2, <1>4, <1>5, TasksKept

\* Sorting keeps the set of entries.
LEMMA SummariseInv ==
    ASSUME IInv, Summarise
    PROVE  (\A t \in Server : TaskInv(t)') /\ MainInv' /\ ResultsInv' /\ CodeInv'
<1>. USE DEF IInv, TypeOK
<1>. DEFINE n == Len(results)
<1>1. PICK p \in [1 .. n -> 1 .. n] :
        /\ \A i \in 1 .. n : \E j \in 1 .. n : p[j] = i
        /\ results' = [i \in 1 .. n |-> results[p[i]]]
  BY DEF Summarise
<1>2. UNCHANGED <<inputs, task, yielded, code>> /\ main = "collect" /\ main' = "report"
  BY DEF Summarise
<1>3. DOMAIN results = 1 .. n /\ DOMAIN results' = 1 .. n
  BY <1>1
<1>4. MainInv' /\ CodeInv'
  BY <1>2 DEF Summarise, MainInv, CodeInv, inputs, task
<1>5. ResultsInv'
  <2>1. ASSUME NEW t \in yielded
        PROVE  \E i \in DOMAIN results' : results'[i].server = t
    <3>1. PICK i \in 1 .. n : results[i].server = t
      BY <1>3 DEF ResultsInv
    <3>2. PICK j \in 1 .. n : p[j] = i
      BY <1>1
    <3>3. QED
      BY <1>1, <1>3, <3>1, <3>2
  <2>2. ASSUME NEW i \in DOMAIN results'
        PROVE  /\ results'[i].server \in yielded
               /\ HasErrors(results'[i]) <=> WentWrong(results'[i].server)
    BY <1>1, <1>3 DEF ResultsInv
  <2>3. \A t \in yielded : WentWrong(t)' <=> WentWrong(t)
    BY <1>2, TasksKept
  <2>4. QED
    BY <1>2, <2>1, <2>2, <2>3 DEF ResultsInv, HasErrors
<1>6. QED
  BY <1>2, <1>4, <1>5, TasksKept

\* At the report all tasks are finished, so the run may end there.
LEMMA ReportInv ==
    ASSUME IInv, Report \/ SendSummary
    PROVE  (\A t \in Server : TaskInv(t)') /\ MainInv' /\ ResultsInv' /\ CodeInv'
<1>1. UNCHANGED <<inputs, task, yielded, results>>
  BY DEF Report, SendSummary
<1>2. \A s \in Server : stage[s] \in {"unsubmitted"} \cup Finished
  BY DEF Report, SendSummary, IInv, MainInv, TaskInv
<1>3. MainInv' /\ CodeInv'
  BY <1>1, <1>2 DEF Report, SendSummary, End, inputs, task, IInv, TypeOK, MainInv, CodeInv
<1>4. QED
  BY <1>1, <1>3, TasksKept, ResultsKept

\* The summary is all right if and only if every task was.
LEMMA AllOkTruthful ==
    ASSUME IInv, yielded = asked
    PROVE  AllOk <=> \A s \in asked : ~WentWrong(s)
  BY DEF IInv, ResultsInv, AllOk

\* The exit code is computed from entries that tell the truth.
LEMMA ExitInv ==
    ASSUME IInv, Exit
    PROVE  (\A t \in Server : TaskInv(t)') /\ MainInv' /\ ResultsInv' /\ CodeInv'
<1>. USE DEF IInv, TypeOK
<1>1. UNCHANGED <<inputs, task, yielded, results>>
  BY DEF Exit
<1>2. /\ yielded = asked /\ asked # {}
      /\ \A s \in asked : stage[s] \in Finished
      /\ \A s \in Server \ asked : stage[s] = "unsubmitted"
  BY DEF Exit, MainInv, TaskInv
<1>3. MainInv'
  BY <1>1, <1>2 DEF Exit, End, inputs, task, MainInv
<1>4. CodeInv'
  <2>1. \A s \in asked : WentWrong(s)' <=> WentWrong(s)
    BY <1>1, TasksKept
  <2>2. \A s \in asked : ~WentWrong(s) => stage[s] = "returned"
    BY <1>2 DEF WentWrong, Finished
  <2>3. code' = IF \A s \in asked : ~WentWrong(s) THEN "success" ELSE "general"
    BY <1>2, AllOkTruthful DEF Exit, End
  <2>4. QED
    BY <1>1, <1>2, <2>1, <2>2, <2>3 DEF CodeInv, inputs, task
<1>5. QED
  BY <1>1, <1>3, <1>4, TasksKept, ResultsKept

\* An interrupted run ends only when no task is queued or working.
LEMMA InterruptInv ==
    ASSUME IInv, Interrupt \/ Drain
    PROVE  (\A t \in Server : TaskInv(t)') /\ MainInv' /\ ResultsInv' /\ CodeInv'
<1>. USE DEF IInv, TypeOK
<1>1. UNCHANGED <<inputs, task, yielded, results>> /\ code' \in {"interrupted", code}
  BY DEF Interrupt, Drain, End
<1>2. main' = "ended" => \A s \in Server : stage[s] \in {"unsubmitted"} \cup Finished
  <2>1. CASE Drain
    BY <2>1 DEF Drain, Stage
  <2>2. CASE main \in {"select", "settings"}
    BY <2>2 DEF MainInv
  <2>3. CASE main \in {"report", "mail", "exit"}
    BY <2>3 DEF MainInv, TaskInv
  <2>4. CASE main \in {"submit", "collect"} /\ Interrupt
    BY <2>4 DEF Interrupt
  <2>5. QED
    BY <2>1, <2>2, <2>3, <2>4 DEF Interrupt
<1>3. MainInv' /\ CodeInv'
  BY <1>1, <1>2 DEF Interrupt, Drain, End, inputs, task, MainInv, CodeInv
<1>4. QED
  BY <1>1, <1>3, TasksKept, ResultsKept

\* IInv is inductive: one case per action.
LEMMA RunInductive ==
    /\ Init => IInv
    /\ IInv /\ [Next]_vars => IInv'
<1>1. Init => IInv
  <2>. HAVE Init
  <2>1. TypeOK
    BY TypesStep
  <2>2. \A s \in Server : TaskInv(s)
    BY DEF Init, TaskInv
  <2>3. MainInv /\ ResultsInv /\ CodeInv
    BY DEF Init, MainInv, ResultsInv, CodeInv
  <2>4. QED
    BY <2>1, <2>2, <2>3 DEF IInv
<1>2. IInv /\ [Next]_vars => IInv'
  <2>. SUFFICES ASSUME IInv, [Next]_vars PROVE IInv'
    OBVIOUS
  <2>1. TypeOK'
    BY TypesStep DEF IInv
  <2>. DEFINE Rest == /\ \A t \in Server : TaskInv(t)
                      /\ MainInv /\ ResultsInv /\ CodeInv
  <2>. SUFFICES Rest'
    BY <2>1 DEF IInv
  <2>2. ASSUME NEW s \in Server, Task(s) PROVE Rest'
    BY <2>2, BeginInv, BackupConfigInv, BackupPackagesInv, BackupZfsInv, UnexpectedInv
    DEF Task
  <2>3. CASE Main
    <3>1. ASSUME NEW C \in SUBSET Server, NEW f \in Server \cup {0}, Select(C, f) PROVE Rest'
      BY <3>1, SelectInv
    <3>2. CASE ExtractSettings
      BY <3>2, ExtractSettingsInv
    <3>3. CASE Submit
      BY <3>3, SubmitInv
    <3>4. ASSUME NEW s \in Server, Collect(s) PROVE Rest'
      BY <3>4, CollectInv
    <3>5. CASE Summarise
      BY <3>5, SummariseInv
    <3>6. CASE Report \/ SendSummary
      BY <3>6, ReportInv
    <3>7. CASE Exit
      BY <3>7, ExitInv
    <3>8. CASE Drain
      BY <3>8, InterruptInv
    <3>9. QED
      BY <2>3, <3>1, <3>2, <3>3, <3>4, <3>5, <3>6, <3>7, <3>8 DEF Main
  <2>4. CASE Interrupt
    BY <2>4, InterruptInv
  <2>5. CASE UNCHANGED vars
    <3>1. UNCHANGED <<inputs, task, yielded, results>>
      BY <2>5 DEF vars
    <3>2. MainInv' /\ CodeInv'
      BY <2>5 DEF vars, inputs, task, IInv, MainInv, CodeInv, WentWrong
    <3>3. \A t \in Server : TaskInv(t)'
      BY <3>1, TasksKept
    <3>4. ResultsInv'
      BY <3>1, ResultsKept
    <3>5. QED
      BY <3>2, <3>3, <3>4
  <2>6. QED
    BY <2>2, <2>3, <2>4, <2>5 DEF Next
<1>3. QED
  BY <1>1, <1>2

\* IInv holds in every reachable state.
LEMMA RunInvariant == Spec => []IInv
  BY RunInductive, PTL DEF Spec

-----------------------------------------------------------------------------
(* What follows from the invariant.                                        *)

\* The exit code tells the truth about the calls: success means that every
\* backup asked for was made, the general error code that one failed.
THEOREM VerdictHolds == Spec => []VerdictTruthful
<1>1. IInv => VerdictTruthful
  <2>. SUFFICES ASSUME IInv PROVE VerdictTruthful
    OBVIOUS
  <2>1. ASSUME code = "success", NEW s \in asked, NEW k \in want \cap enabled[s]
        PROVE  dry \/ call[s][k] = "ok"
    <3>1. s \in Server /\ k \in Kind
      BY DEF IInv, TypeOK, Wanted, Kind
    <3>2. stage[s] = "returned" /\ ~WentWrong(s)
      BY <2>1 DEF IInv, CodeInv
    <3>3. Told(s, k)
      BY <3>1, <3>2 DEF IInv, TaskInv
    <3>4. QED
      BY <3>1, <3>2, <3>3 DEF Told, WentWrong
  <2>2. QED
    BY <2>1 DEF VerdictTruthful, IInv, CodeInv
<1>2. QED
  BY RunInvariant, <1>1, PTL

\* When the summary is made, every backup asked for was tried for every server
\* whose task did not die, whatever failed before.
THEOREM FailuresIsolated == Spec => []FailureIsolated
<1>1. IInv => FailureIsolated
  <2>. SUFFICES ASSUME IInv, main \in {"report", "mail", "exit"}, ~dry,
                       NEW s \in asked, stage[s] # "raised",
                       NEW k \in want \cap enabled[s]
                PROVE  call[s][k] # "none"
    BY DEF FailureIsolated
  <2>1. s \in Server /\ k \in Kind
    BY DEF IInv, TypeOK, Wanted, Kind
  <2>2. stage[s] = "returned"
    BY DEF IInv, MainInv, Finished
  <2>3. Told(s, k)
    BY <2>1, <2>2 DEF IInv, TaskInv
  <2>4. QED
    BY <2>3 DEF Told
<1>2. QED
  BY RunInvariant, <1>1, PTL

\* When mail has gone out, its subject is about the tasks.
MailInv ==
    /\ main \notin {"exit", "ended"} => mail = "none"
    /\ dry => mail = "none" /\ main # "mail"
    /\ main = "exit" /\ ~dry => mail # "none"
    /\ code \in {"success", "general"} /\ asked # {} /\ ~dry => mail # "none"
    /\ mail \in {"OK", "WARNING", "ERROR"} => \A s \in asked : stage[s] \in Finished
    /\ mail = "OK" => \A s \in asked : ~WentWrong(s)
    /\ mail = "WARNING" => \E s, t \in asked : WentWrong(s) /\ ~WentWrong(t)
    /\ mail = "ERROR" => \A s \in asked : WentWrong(s)

\* The tag in the subject agrees with the calls when all results are in.
LEMMA SubjectTruthful ==
    ASSUME IInv, yielded = asked
    PROVE  /\ Subject = "OK" => \A s \in asked : ~WentWrong(s)
           /\ Subject = "WARNING" => \E s, t \in asked : WentWrong(s) /\ ~WentWrong(t)
           /\ Subject = "ERROR" => \A s \in asked : WentWrong(s)
<1>1. Subject = "OK" => AllOk
  BY DEF Subject
<1>2. ASSUME Subject = "WARNING"
      PROVE  \E s, t \in asked : WentWrong(s) /\ ~WentWrong(t)
  <2>1. PICK i \in DOMAIN results : HasErrors(results[i])
    BY <1>2 DEF Subject, AllOk
  <2>2. PICK j \in DOMAIN results : ~HasErrors(results[j])
    BY <1>2 DEF Subject, Failed
  <2>3. QED
    BY <2>1, <2>2 DEF IInv, ResultsInv
<1>3. ASSUME Subject = "ERROR", NEW s \in asked PROVE WentWrong(s)
  <2>1. PICK i \in DOMAIN results : results[i].server = s
    BY DEF IInv, ResultsInv
  <2>2. HasErrors(results[i])
    BY <1>3 DEF Subject, Failed
  <2>3. QED
    BY <2>1, <2>2 DEF IInv, ResultsInv
<1>4. QED
  BY <1>1, <1>2, <1>3, AllOkTruthful

\* The subject of the mail, the exit code and the calls agree.
THEOREM MailTruthful == Spec => []MailTellsVerdict
<1>1. Init => MailInv
  BY DEF Init, MailInv
<1>2. IInv /\ MailInv /\ [Next]_vars => MailInv'
  <2>. SUFFICES ASSUME IInv, MailInv, [Next]_vars PROVE MailInv'
    OBVIOUS
  <2>1. ASSUME NEW s \in Server, Task(s) PROVE MailInv'
    <3>1. MainIdle /\ stage[s] \in {"queued"} \cup Working
      BY <2>1 DEF Task, Begin, BackupConfig, BackupPackages, BackupZfs, Unexpected, Working
    <3>2. main \notin {"exit", "ended"} /\ code \notin {"success", "general"}
      BY <3>1 DEF IInv, MainInv, TaskInv, Working, Finished
    <3>3. QED
      BY <3>1, <3>2 DEF MailInv, MainIdle, inputs
  <2>2. ASSUME NEW C \in SUBSET Server, NEW f \in Server \cup {0}, Select(C, f)
        PROVE  MailInv'
    BY <2>2 DEF Select, End, inputs, MailInv, IInv, MainInv
  <2>3. CASE ExtractSettings
    BY <2>3 DEF ExtractSettings, End, MailInv, inputs, task
  <2>4. CASE Submit \/ \E s \in Server : Collect(s)
    BY <2>4 DEF Submit, Collect, MailInv, inputs, IInv, MainInv
  <2>5. CASE Summarise
    BY <2>5 DEF Summarise, MailInv, inputs, IInv, MainInv
  <2>6. CASE Report
    BY <2>6 DEF Report, End, MailInv, inputs, task, IInv, MainInv
  <2>7. CASE SendSummary
    <3>1. UNCHANGED <<inputs, task, code>> /\ mail' \in {Subject, "lost"} /\ main' = "exit"
      BY <2>7 DEF SendSummary
    <3>2. /\ yielded = asked /\ code = "none" /\ main = "mail"
          /\ \A s \in asked : stage[s] \in Finished
      BY <2>7 DEF SendSummary, IInv, MainInv
    <3>3. ~dry
      BY <3>2 DEF MailInv
    <3>4. \A s \in asked : WentWrong(s)' <=> WentWrong(s)
      BY <3>1, TasksKept DEF IInv, TypeOK
    <3>5. Subject # "none"
      BY DEF Subject
    <3>6. QED
      BY <3>1, <3>2, <3>3, <3>4, <3>5, SubjectTruthful DEF MailInv, inputs, task
  <2>8. CASE Exit
    BY <2>8 DEF Exit, End, MailInv, WentWrong, inputs, task
  <2>9. CASE Interrupt \/ Drain
    BY <2>9 DEF Interrupt, Drain, End, MailInv, WentWrong, inputs, task
  <2>10. CASE UNCHANGED vars
    BY <2>10 DEF vars, MailInv, WentWrong, inputs, task
  <2>11. QED
    BY <2>1, <2>2, <2>3, <2>4, <2>5, <2>6, <2>7, <2>8, <2>9, <2>10 DEF Next, Main
<1>3. IInv /\ MailInv => MailTellsVerdict
  BY DEF MailInv, MailTellsVerdict, IInv, CodeInv, TypeOK
<1>4. QED
  BY RunInvariant, <1>1, <1>2, <1>3, PTL DEF Spec

-----------------------------------------------------------------------------
(* Every step of the run is a step of IndependentBackups or none.          *)

\* Functions with one domain are equal if they agree pointwise.
LEMMA SameFunction ==
    ASSUME NEW S, NEW f, NEW g, f = [x \in S |-> f[x]], g = [x \in S |-> g[x]],
           \A x \in S : f[x] = g[x]
    PROVE  f = g
  OBVIOUS

\* Fates is unchanged if it is for each server.
LEMMA FatesEqual ==
    ASSUME \A t \in Server : Fates'[t] = Fates[t]
    PROVE  Fates' = Fates
<1>1. Fates = [t \in Server |-> Fates[t]]
  BY DEF Fates
<1>2. Fates' = [t \in Server |-> Fates'[t]]
  BY DEF Fates
<1>3. QED
  BY <1>1, <1>2, SameFunction

\* A step of one task changes at most the fate of its own server.
LEMMA FateStep ==
    ASSUME IInv, NEW s \in Server, MainIdle, s \in asked,
           \A t \in Server \ {s} : Same(t)
    PROVE  /\ Fates' = [Fates EXCEPT ![s] = Fates'[s]]
           /\ \A t \in Server \ {s} : Fates'[t] = Fates[t]
           /\ Verdict' = Verdict
           /\ Verdict = "pending" <=> code = "none"
<1>1. asked' = asked /\ code' = code
  BY DEF MainIdle, inputs
<1>2. \A t \in Server \ {s} : Fates'[t] = Fates[t]
  BY <1>1, SameFate DEF Fates, Same
<1>3. Fates' = [Fates EXCEPT ![s] = Fates'[s]]
  BY <1>2 DEF Fates
<1>4. QED
  BY <1>1, <1>2, <1>3 DEF Verdict

\* Each action of a task is Work, Settle or a stutter.
LEMMA TaskImplements ==
    ASSUME IInv, NEW s \in Server, Task(s)
    PROVE  [IB!Next]_(IB!vars)
<1>. USE DEF IInv, TypeOK
<1>1. /\ MainIdle /\ s \in asked /\ \A t \in Server \ {s} : Same(t)
      /\ code = "none"
  <2>1. MainIdle /\ stage[s] \in {"queued"} \cup Working
    BY DEF Task, Begin, BackupConfig, BackupPackages, BackupZfs, Unexpected, Working
  <2>2. \A t \in Server \ {s} : Same(t)
    BY DEF Task, Begin, BackupConfig, BackupPackages, BackupZfs, Unexpected,
           Outcome, Skip, Move, Same
  <2>3. s \in asked /\ code = "none"
    BY <2>1 DEF TaskInv, MainInv, Working, Finished
  <2>4. QED
    BY <2>1, <2>2, <2>3
<1>2. asked' = asked
  BY <1>1 DEF MainIdle, inputs
<1>3. CASE Begin(s)
  <2>1. Fates[s] = "asked" /\ Fates'[s] = "working"
    BY <1>1, <1>2, <1>3 DEF Begin, Move, Fates, Working
  <2>2. IB!Work(s)
    BY <1>1, <2>1, FateStep DEF IB!Work, Verdict
  <2>3. QED
    BY <2>2 DEF IB!Next
<1>4. CASE BackupConfig(s) \/ BackupPackages(s)
  <2>3. stage[s] \in Working /\ stage'[s] \in Working
    <3>1. CASE BackupConfig(s)
      <4>1. stage[s] = "config" /\ (Move(s, "packages") \/ Move(s, "zfs"))
        BY <3>1, Zenon DEF BackupConfig
      <4>2. QED
        BY <4>1 DEF Move, Working
    <3>2. CASE BackupPackages(s)
      BY <3>2 DEF BackupPackages, Move, Working
    <3>3. QED
      BY <1>4, <3>1, <3>2
  <2>1. Fates[s] = "working" /\ Fates'[s] = "working"
    BY <1>1, <1>2, <2>3 DEF Fates, Working
  <2>2. Fates' = Fates
    BY <1>1, <2>1, FateStep, FatesEqual
  <2>4. QED
    BY <1>1, <2>2, FateStep DEF IB!vars
<1>5. CASE BackupZfs(s) \/ Unexpected(s)
  <2>1. Fates[s] = "working" /\ Fates'[s] \in {"good", "bad"}
    BY <1>1, <1>2, <1>5 DEF BackupZfs, Unexpected, Move, Fates, Working
  <2>2. IB!Settle(s)
    BY <1>1, <2>1, FateStep DEF IB!Settle, IB!Settled, Verdict
  <2>3. QED
    BY <2>2 DEF IB!Next
<1>6. QED
  BY <1>3, <1>4, <1>5 DEF Task

\* The main thread does not change what becomes of a server once it is asked.
LEMMA FatesKept ==
    ASSUME IInv, UNCHANGED <<inputs, task>>
    PROVE  Fates' = Fates
  BY TasksKept DEF Fates, inputs, task

\* A run that ends without a verdict leaves no server half way.
LEMMA GivesUp ==
    ASSUME IInv, UNCHANGED <<inputs, task>>, code = "none",
           code' \in {"exception", "interrupted"},
           \A s \in Server : stage[s] \notin Working
    PROVE  IB!Next
<1>1. \A s \in Server : Fates[s] # "working"
  BY DEF Fates
<1>2. Verdict = "pending" /\ Verdict' = "none"
  BY DEF Verdict
<1>3. IB!GiveUp
  BY <1>1, <1>2, FatesKept DEF IB!GiveUp
<1>4. QED
  BY <1>3 DEF IB!Next

\* Each action of the main thread is Ask, Tell, GiveUp or a stutter.
LEMMA MainImplements ==
    ASSUME IInv, Main \/ Interrupt
    PROVE  [IB!Next]_(IB!vars)
<1>. USE DEF IInv, TypeOK
<1>1. main # "ended" /\ code = "none"
  BY DEF Main, Select, ExtractSettings, Submit, Collect, Summarise, Report,
         SendSummary, Exit, Drain, Interrupt, MainInv
<1>2. Verdict = "pending"
  BY <1>1 DEF Verdict
<1>3. ASSUME NEW C \in SUBSET Server, NEW f \in Server \cup {0}, Select(C, f)
      PROVE  [IB!Next]_(IB!vars)
  <2>1. asked = {} /\ (\A s \in Server : stage[s] = "unsubmitted") /\ UNCHANGED task
    BY <1>3 DEF Select, MainInv
  <2>2. Fates = [s \in Server |-> "unasked"]
    BY <2>1 DEF Fates
  <2>. DEFINE chosen == IF f = 0 THEN C ELSE C \cap {f}
  <2>3. CASE chosen = {}
    <3>1. UNCHANGED inputs /\ code' \in {"general", "invalid"}
      BY <1>3, <2>3 DEF Select, End
    <3>2. Verdict' = "none"
      BY <2>1, <3>1 DEF Verdict, inputs
    <3>3. IB!GiveUp
      BY <1>2, <2>1, <2>2, <3>1, <3>2, FatesKept DEF IB!GiveUp
    <3>4. QED
      BY <3>3 DEF IB!Next
  <2>4. CASE chosen # {}
    <3>1. asked' = chosen /\ code' = code
      BY <1>3, <2>4 DEF Select
    <3>2. Fates' = [s \in Server |-> IF s \in chosen THEN "asked" ELSE "unasked"]
      BY <2>1, <3>1 DEF Fates, task
    <3>3. IB!Ask(chosen)
      BY <1>1, <1>2, <2>2, <3>1, <3>2 DEF IB!Ask, Verdict
    <3>4. chosen \in SUBSET Server
      OBVIOUS
    <3>5. QED
      BY <3>3, <3>4 DEF IB!Next
  <2>5. QED
    BY <2>3, <2>4
<1>4. CASE Submit
  <2>1. /\ UNCHANGED <<asked, call, code>>
        /\ \A s \in Server : \/ stage'[s] = stage[s]
                             \/ stage[s] = "unsubmitted" /\ stage'[s] = "queued"
    <3>1. PICK t \in Unsubmitted : stage' = [stage EXCEPT ![t] = "queued"]
      BY <1>4, Zenon DEF Submit, Move
    <3>2. t \in Server /\ stage[t] = "unsubmitted"
      BY DEF Unsubmitted
    <3>3. UNCHANGED <<asked, call, code>>
      BY <1>4 DEF Submit, inputs
    <3>4. QED
      BY <3>1, <3>2, <3>3
  <2>2. \A s \in Server : Fates'[s] = Fates[s]
    BY <2>1 DEF Fates, WentWrong, Working
  <2>3. Fates' = Fates /\ Verdict' = Verdict
    BY <2>1, <2>2, FatesEqual DEF Verdict
  <2>4. QED
    BY <2>3 DEF IB!vars
<1>5. CASE Exit
  <2>1. /\ yielded = asked /\ asked # {} /\ UNCHANGED <<inputs, task>>
        /\ \A s \in asked : stage[s] \in Finished
    BY <1>5 DEF Exit, MainInv
  <2>2. code' = IF \A s \in asked : ~WentWrong(s) THEN "success" ELSE "general"
    BY <1>5, <2>1, AllOkTruthful DEF Exit, End
  <2>3. \A s \in asked : Fates[s] = IF WentWrong(s) THEN "bad" ELSE "good"
    BY <2>1 DEF Fates, Finished, Working
  <2>4. \A s \in Server \ asked : Fates[s] = "unasked"
    BY DEF Fates
  <2>5. Verdict' = IF \E s \in Server : Fates[s] = "bad" THEN "bad" ELSE "good"
    BY <2>1, <2>2, <2>3, <2>4 DEF Verdict, inputs
  <2>6. IB!Tell
    BY <1>2, <2>1, <2>3, <2>4, <2>5, FatesKept DEF IB!Tell, IB!Settled
  <2>7. QED
    BY <2>6 DEF IB!Next
<1>6. CASE /\ UNCHANGED <<inputs, task>>
           /\ \/ UNCHANGED code
              \/ /\ code' \in {"exception", "interrupted"}
                 /\ \A s \in Server : stage[s] \notin Working
  <2>1. CASE UNCHANGED code
    <3>1. Verdict' = Verdict
      BY <1>6, <2>1 DEF Verdict, inputs
    <3>2. QED
      BY <1>6, <3>1, FatesKept DEF IB!vars
  <2>2. CASE ~UNCHANGED code
    BY <1>1, <1>6, <2>2, GivesUp
  <2>3. QED
    BY <2>1, <2>2
<1>7. CASE \/ ExtractSettings \/ Report \/ SendSummary \/ Summarise
           \/ Drain \/ Interrupt \/ \E s \in Server : Collect(s)
  <2>1. main \in {"select", "settings", "report", "mail", "exit"} =>
          \A s \in Server : stage[s] \notin Working
    BY DEF MainInv, TaskInv, Working, Finished
  <2>2. QED
    BY <1>6, <1>7, <2>1 DEF ExtractSettings, Report, SendSummary, Summarise,
       Drain, Interrupt, Collect, End
<1>8. QED
  BY <1>3, <1>4, <1>5, <1>7 DEF Main

\* One run of the command implements IndependentBackups: the servers settle
\* independently, and the verdict is told when none is half way.
THEOREM ImplementsIndependent == Spec => Independent
<1>1. Init => IB!Init
  BY DEF Init, IB!Init, Fates, Verdict
<1>2. IInv /\ [Next]_vars => [IB!Next]_(IB!vars)
  <2>. SUFFICES ASSUME IInv, [Next]_vars PROVE [IB!Next]_(IB!vars)
    OBVIOUS
  <2>1. CASE UNCHANGED vars
    BY <2>1 DEF vars, inputs, task, IB!vars, Fates, Verdict, WentWrong
  <2>2. CASE Next
    BY <2>2, TaskImplements, MainImplements DEF Next
  <2>3. QED
    BY <2>1, <2>2
<1>3. QED
  BY RunInvariant, <1>1, <1>2, PTL DEF Spec, Independent, IB!Spec

-----------------------------------------------------------------------------
(* The summary.                                                            *)

\* One entry for each future handed out, and sorted once the loop is over.
OrderInv ==
    /\ IInv
    /\ Len(results) = Cardinality(yielded)
    /\ main \in {"report", "mail", "exit"} =>
         \A i, j \in DOMAIN results : i < j => results[i].server < results[j].server

\* A future that is collected adds its entry.
LEMMA CollectCounts ==
    ASSUME IsFiniteSet(Server), OrderInv, NEW s \in Server, Collect(s)
    PROVE  Len(results') = Cardinality(yielded') /\ main' = "collect"
<1>1. yielded \in SUBSET Server /\ results \in Seq(Result)
  BY DEF OrderInv, IInv, TypeOK
<1>2. IsFiniteSet(yielded)
  BY <1>1, FS_Subset
<1>3. Cardinality(yielded \cup {s}) = Cardinality(yielded) + 1
  BY <1>2, FS_AddElement DEF Collect
<1>4. PICK r : results' = Append(results, r)
  BY DEF Collect
<1>5. Len(results') = Len(results) + 1
  BY <1>1, <1>4
<1>6. QED
  BY <1>3, <1>5 DEF Collect, OrderInv

\* The sort orders what there is.
LEMMA SummariseOrders ==
    ASSUME OrderInv, Summarise
    PROVE  /\ Len(results') = Len(results)
           /\ \A i, j \in DOMAIN results' : i < j => results'[i].server < results'[j].server
<1> DEFINE n == Len(results)
<1>1. n \in Nat
  BY DEF OrderInv, IInv, TypeOK
<1>2. PICK p \in [1 .. n -> 1 .. n] :
        /\ \A i, j \in 1 .. n : i < j => results[p[i]].server < results[p[j]].server
        /\ results' = [i \in 1 .. n |-> results[p[i]]]
  BY DEF Summarise
<1>3. results' \in Seq(Result)
  <2>1. TypeOK /\ Next
    BY DEF OrderInv, IInv, Next, Main
  <2>2. TypeOK'
    BY <2>1, TypesStep
  <2>3. QED
    BY <2>2 DEF TypeOK
<1>4. DOMAIN results' = 1 .. n /\ Len(results') = n
  BY <1>1, <1>2, <1>3
<1>5. QED
  BY <1>2, <1>4

\* OrderInv holds in every reachable state.
LEMMA OrderInvariant ==
    ASSUME IsFiniteSet(Server) PROVE Spec => []OrderInv
<1>1. Init => OrderInv
  BY RunInductive, FS_EmptySet DEF Init, OrderInv
<1>2. OrderInv /\ [Next]_vars => OrderInv'
  <2> SUFFICES ASSUME OrderInv, [Next]_vars PROVE OrderInv'
    OBVIOUS
  <2>1. IInv'
    BY RunInductive DEF OrderInv
  <2>2. ASSUME NEW s \in Server, Collect(s) PROVE OrderInv'
    BY <2>1, <2>2, CollectCounts DEF OrderInv
  <2>3. CASE Summarise
    <3>1. UNCHANGED yielded
      BY <2>3 DEF Summarise
    <3>2. QED
      BY <2>1, <2>3, <3>1, SummariseOrders DEF OrderInv
  <2>4. CASE /\ UNCHANGED <<yielded, results>>
             /\ main' \in {"report", "mail", "exit"} => main \in {"report", "mail", "exit"}
    BY <2>1, <2>4 DEF OrderInv
  <2>5. ASSUME NEW s \in Server, Task(s) PROVE UNCHANGED <<yielded, results, main>>
    BY <2>5 DEF Task, Begin, BackupConfig, BackupPackages, BackupZfs, Unexpected, MainIdle
  <2>6. CASE UNCHANGED vars
    BY <2>4, <2>6 DEF vars
  <2>7. CASE Interrupt \/ Drain \/ Report \/ SendSummary \/ Exit
    BY <2>4, <2>7 DEF Interrupt, Drain, Report, SendSummary, Exit, End
  <2>8. ASSUME NEW C \in SUBSET Server, NEW f \in Server \cup {0}, Select(C, f) PROVE OrderInv'
    BY <2>4, <2>8 DEF Select, End
  <2>9. CASE ExtractSettings \/ Submit
    BY <2>4, <2>9 DEF ExtractSettings, Submit, End
  <2>10. QED
    BY <2>2, <2>3, <2>4, <2>5, <2>6, <2>7, <2>8, <2>9 DEF Next, Main
<1>3. QED
  BY <1>1, <1>2, PTL DEF Spec

\* When the summary is made every server asked for has exactly one entry, in the
\* order of the names, wrong exactly if its calls were.
THEOREM ResultsComplete ==
    ASSUME IsFiniteSet(Server) PROVE Spec => []SummaryComplete
<1>1. OrderInv => SummaryComplete
  BY DEF OrderInv, IInv, MainInv, ResultsInv, SummaryComplete
<1>2. QED
  BY <1>1, OrderInvariant, PTL

-----------------------------------------------------------------------------
(* The run comes to an end: nobody waits for what does not come, and every *)
(* step counts.                                                            *)

\* The results can be sorted: the condition under which Summarise can be taken.
Sortable ==
    \E p \in [1 .. Len(results) -> 1 .. Len(results)] :
        /\ \A i \in 1 .. Len(results) : \E j \in 1 .. Len(results) : p[j] = i
        /\ \A i, j \in 1 .. Len(results) :
              i < j => results[p[i]].server < results[p[j]].server

\* The conditions under which the main thread has something to do.
MainCanMove ==
    \/ main \in {"select", "settings", "report", "mail", "exit"}
    \/ main = "submit" /\ \E s \in Unsubmitted : \A t \in Unsubmitted : s <= t
    \/ main = "collect" /\ \E s \in asked \ yielded : stage[s] \in Finished
    \/ main = "collect" /\ yielded = asked /\ Sortable
    \/ main = "drain" /\ \A s \in Server : stage[s] \notin {"queued"} \cup Working

\* Those under which a task has: it is at work, or next in the queue and a
\* worker thread is free.
TaskCanMove(s) ==
    \/ stage[s] \in Working
    \/ /\ stage[s] = "queued"
       /\ \A t \in Server : stage[t] = "queued" => s <= t
       /\ Cardinality(Busy) < MaxParallel

\* Until the process ends somebody has something to do: the main thread never
\* waits for a future that no worker thread will finish, and no worker thread
\* waits for the main thread.  (as_completed, shutdown(wait=True).)
SomebodyCanMove == main # "ended" => MainCanMove \/ \E s \in Server : TaskCanMove(s)

MainLeft ==
    [m \in {"select", "settings", "submit", "collect", "report", "mail", "exit", "drain", "ended"} |->
        CASE m = "select"  -> 7 [] m = "settings" -> 6 [] m = "submit" -> 5
          [] m = "collect" -> 4 [] m = "report"   -> 3 [] m = "mail"   -> 2
          [] m \in {"exit", "drain"} -> 1 [] m = "ended" -> 0]
StageLeft ==
    [l \in Stage |->
        CASE l = "unsubmitted" -> 5 [] l = "queued" -> 4 [] l = "config" -> 3
          [] l = "packages" -> 2 [] l = "zfs" -> 1 [] l \in Finished -> 0]

\* Every step takes the main thread, a task or the collection of the results
\* forward, and none takes anything back: no backup is made twice, no future
\* is handed out twice, and a run over n servers has at most 7 + 6 n steps.
EveryStepCounts ==
    [][/\ MainLeft[main'] <= MainLeft[main]
       /\ \A s \in Server : StageLeft[stage'[s]] <= StageLeft[stage[s]]
       /\ yielded \subseteq yielded'
       /\ \/ MainLeft[main'] < MainLeft[main]
          \/ \E s \in Server : StageLeft[stage'[s]] < StageLeft[stage[s]]
          \/ yielded' # yielded]_vars

\* The least of some natural numbers.
LEMMA LeastNumber ==
    ASSUME NEW S, S \subseteq Nat, S # {}
    PROVE  \E m \in S : \A n \in S : m <= n
<1>1. PICK m \in S : \A n \in S : <<n, m>> \notin OpToRel(<, Nat)
  BY WFMin, NatLessThanWellFounded, Zenon
<1>2. \A n \in S : ~(n < m)
  BY <1>1 DEF OpToRel
<1>3. QED
  BY <1>2

\* Different numbers can be sorted: the place of each is the number of those
\* before it.
LEMMA CanBeSorted ==
    ASSUME NEW n \in Nat, NEW name \in [1 .. n -> Nat],
           \A i, j \in 1 .. n : i # j => name[i] # name[j]
    PROVE  \E p \in [1 .. n -> 1 .. n] :
              /\ \A i \in 1 .. n : \E j \in 1 .. n : p[j] = i
              /\ \A i, j \in 1 .. n : i < j => name[p[i]] < name[p[j]]
<1> DEFINE I == 1 .. n
           Before(i) == {k \in I : name[k] < name[i]}
<1>1. IsFiniteSet(I) /\ Cardinality(I) = n
  BY FS_Interval
<1>2. \A i \in I : Before(i) \subseteq I \ {i}
  OBVIOUS
<1>3. \A i, j \in I : name[i] < name[j] => Before(i) \subseteq Before(j) \ {i} /\ i \in Before(j)
  OBVIOUS
<1>4. n \in Nat /\ I \subseteq Int /\ \A k \in Nat : k < n => k + 1 \in I
  OBVIOUS
<1> DEFINE size(i) == Cardinality(Before(i))
<1> HIDE DEF Before, I
<1>5. ASSUME NEW i \in I
      PROVE  IsFiniteSet(Before(i)) /\ size(i) \in Nat /\ size(i) < n
  <2>1. IsFiniteSet(I \ {i}) /\ Cardinality(I \ {i}) = n - 1
    BY <1>1, FS_RemoveElement
  <2>2. IsFiniteSet(Before(i)) /\ size(i) <= n - 1
    BY <1>2, <2>1, FS_Subset
  <2>3. size(i) \in Nat
    BY <2>2, FS_CardinalityType
  <2>4. QED
    BY <1>4, <2>2, <2>3
<1>6. ASSUME NEW i \in I, NEW j \in I, name[i] < name[j]
       PROVE  size(i) < size(j)
  <2>1. Before(i) \subseteq Before(j) \ {i} /\ i \in Before(j)
    BY <1>3, <1>6
  <2>2. IsFiniteSet(Before(j) \ {i}) /\ Cardinality(Before(j) \ {i}) = size(j) - 1
    BY <1>5, <2>1, FS_RemoveElement
  <2>3. size(i) <= size(j) - 1
    BY <2>1, <2>2, FS_Subset
  <2>4. QED
    BY <1>5, <2>3
<1> DEFINE place == [i \in I |-> size(i) + 1]
<1> HIDE DEF size
<1>7. /\ place \in [I -> I]
      /\ \A i, j \in I : name[i] < name[j] => place[i] < place[j]
  <2>1. \A i \in I : place[i] = size(i) + 1
    OBVIOUS
  <2>2. \A i \in I : place[i] \in I
    BY <1>4, <1>5, <2>1
  <2>3. \A i, j \in I : name[i] < name[j] => place[i] < place[j]
    BY <1>5, <1>6, <2>1
  <2>4. QED
    BY <2>2, <2>3
<1> HIDE DEF place
<1>8. \A i \in I : name[i] \in Nat
  BY DEF I
<1>9. place \in Injection(I, I)
  <2>1. ASSUME NEW i \in I, NEW j \in I, i # j PROVE place[i] # place[j]
    <3>1. name[i] < name[j] \/ name[j] < name[i]
      BY <1>8, <2>1 DEF I
    <3>2. place[i] \in Int /\ place[j] \in Int
      BY <1>4, <1>7
    <3>3. QED
      BY <1>7, <3>1, <3>2
  <2>2. QED
    BY <1>7, <2>1 DEF Injection, IsInjective
<1>10. place \in Surjection(I, I)
  BY <1>1, <1>9, FS_Injection
<1>11. \A k \in I : \E i \in I : place[i] = k
  BY <1>10 DEF Surjection
<1> DEFINE order == [k \in I |-> CHOOSE i \in I : place[i] = k]
<1>12. order \in [I -> I] /\ \A k \in I : order[k] \in I /\ place[order[k]] = k
  BY <1>11
<1> HIDE DEF order
<1>13. \A i \in I : order[place[i]] = i
  <2> SUFFICES ASSUME NEW i \in I PROVE order[place[i]] = i
    OBVIOUS
  <2>1. place[i] \in I /\ order[place[i]] \in I /\ place[order[place[i]]] = place[i]
    BY <1>7, <1>12
  <2>2. QED
    BY <1>9, <2>1 DEF Injection, IsInjective
<1>14. ASSUME NEW i \in I, NEW j \in I, i < j PROVE name[order[i]] < name[order[j]]
  <2>1. order[i] \in I /\ order[j] \in I /\ place[order[i]] = i /\ place[order[j]] = j
    BY <1>12
  <2>2. i \in Int /\ j \in Int /\ name[order[i]] \in Nat /\ name[order[j]] \in Nat
    BY <1>4, <1>8, <2>1
  <2>3. name[order[j]] < name[order[i]] => place[order[j]] < place[order[i]]
    BY <1>7, <2>1
  <2>4. ~(name[order[j]] < name[order[i]])
    BY <1>14, <2>1, <2>2, <2>3
  <2>5. order[i] # order[j]
    BY <1>14, <2>1, <2>2
  <2>6. name[order[i]] # name[order[j]]
    BY <2>1, <2>5 DEF I
  <2>7. QED
    BY <2>2, <2>6, <2>4
<1>15. \A i \in I : \E j \in I : order[j] = i
  BY <1>7, <1>13
<1>16. QED
  BY <1>12, <1>14, <1>15 DEF I

\* The tasks that are submitted last end the loop.
StillToSubmit == main = "submit" => Unsubmitted # {}

\* The loop over the servers is left with the last of them.
LEMMA SubmitGoesOn == IInv /\ StillToSubmit /\ [Next]_vars => StillToSubmit'
<1> SUFFICES ASSUME IInv, StillToSubmit, [Next]_vars, main' = "submit"
             PROVE  Unsubmitted' # {}
  BY DEF StillToSubmit
<1>1. \/ ExtractSettings \/ Submit
      \/ main' = main /\ (UNCHANGED vars \/ \E s \in Server : Task(s))
  <2>1. \A s \in Server : ~Collect(s)
    BY DEF Collect
  <2>2. \A C, f : ~Select(C, f)
    BY DEF Select, End
  <2>3. ~(Summarise \/ Report \/ SendSummary \/ Exit \/ Interrupt \/ Drain)
    BY DEF Summarise, Report, SendSummary, Exit, Interrupt, Drain, End
  <2>4. \A s \in Server : Task(s) => main' = main
    BY DEF Task, Begin, BackupConfig, BackupPackages, BackupZfs, Unexpected, MainIdle
  <2>5. UNCHANGED vars => main' = main
    BY DEF vars
  <2>6. QED
    BY <2>1, <2>2, <2>3, <2>4, <2>5 DEF Next, Main
<1>2. CASE ExtractSettings
  <2>1. asked # {} /\ (\A s \in Server : stage[s] = "unsubmitted") /\ asked \subseteq Server
    BY <1>2 DEF ExtractSettings, IInv, MainInv, TypeOK
  <2>2. UNCHANGED <<asked, stage>>
    BY <1>2 DEF ExtractSettings, inputs, task
  <2>3. QED
    BY <2>1, <2>2 DEF Unsubmitted
<1>3. CASE Submit
  <2>1. PICK s \in Unsubmitted : /\ stage' = [stage EXCEPT ![s] = "queued"]
                                 /\ ~(Unsubmitted = {s})
    BY <1>3 DEF Submit, Move
  <2>2. asked' = asked /\ stage \in [Server -> Stage] /\ asked \subseteq Server
    BY <1>3 DEF Submit, inputs, IInv, TypeOK
  <2>3. PICK t \in Unsubmitted : t # s
    BY <2>1
  <2>4. stage'[t] = "unsubmitted" /\ t \in asked'
    BY <2>1, <2>2, <2>3 DEF Unsubmitted
  <2>5. QED
    BY <2>4 DEF Unsubmitted
<1>4. CASE main' = main /\ (UNCHANGED vars \/ \E s \in Server : Task(s))
  <2>1. PICK t \in Unsubmitted : TRUE
    BY <1>4 DEF StillToSubmit
  <2>2. asked' = asked
    BY <1>4 DEF vars, inputs, Task, Begin, BackupConfig, BackupPackages, BackupZfs,
                Unexpected, MainIdle
  <2>3. ASSUME NEW s \in Server, Task(s) PROVE stage'[t] = stage[t]
    <3>1. stage[s] # "unsubmitted"
      BY <2>3 DEF Task, Begin, BackupConfig, BackupPackages, BackupZfs, Unexpected, Working
    <3>2. t # s
      BY <3>1 DEF Unsubmitted
    <3>3. t \in Server /\ stage \in [Server -> Stage]
      BY DEF Unsubmitted, IInv, TypeOK
    <3>4. QED
      BY <2>3, <3>2, <3>3 DEF Task, Begin, BackupConfig, BackupPackages, BackupZfs,
                              Unexpected, Move
  <2>4. stage'[t] = stage[t]
    BY <1>4, <2>3 DEF vars, task
  <2>5. QED
    BY <2>2, <2>4 DEF Unsubmitted
<1>5. QED
  BY <1>1, <1>2, <1>3, <1>4

\* A queued task or one at work means that a worker thread can go on.
LEMMA WorkersGoOn ==
    ASSUME TypeOK, \E s \in Server : stage[s] \in {"queued"} \cup Working
    PROVE  \E s \in Server : TaskCanMove(s)
<1>1. CASE Busy # {}
  BY <1>1 DEF Busy, TaskCanMove
<1>2. CASE Busy = {}
  <2> DEFINE Queue == {s \in Server : stage[s] = "queued"}
  <2>1. Queue # {} /\ Queue \subseteq Nat
    BY <1>2, PoolAssumption DEF Busy
  <2>2. PICK s \in Queue : \A t \in Queue : s <= t
    <3> HIDE DEF Queue
    <3>1. QED
      BY <2>1, LeastNumber
  <2>3. Cardinality(Busy) < MaxParallel
    BY <1>2, FS_EmptySet, PoolAssumption
  <2>4. TaskCanMove(s)
    BY <2>2, <2>3 DEF TaskCanMove
  <2>5. QED
    BY <2>4
<1>3. QED
  BY <1>1, <1>2

\* Once every future is handed out the results have different names, and can
\* be sorted.
LEMMA ResultsSortable ==
    ASSUME IsFiniteSet(Server), OrderInv
    PROVE  Sortable
<1> DEFINE n == Len(results)
           name == [i \in 1 .. n |-> results[i].server]
<1>1. /\ n \in Nat /\ results \in Seq(Result) /\ DOMAIN results = 1 .. n
      /\ yielded \subseteq Server
  BY DEF OrderInv, IInv, TypeOK
<1>2. /\ \A i \in 1 .. n : results[i].server \in yielded
      /\ \A s \in yielded : \E i \in 1 .. n : results[i].server = s
  BY <1>1 DEF OrderInv, IInv, ResultsInv
<1>3. name \in Surjection(1 .. n, yielded)
  BY <1>2 DEF Surjection
<1>4. IsFiniteSet(1 .. n) /\ Cardinality(1 .. n) = n /\ Cardinality(yielded) = n
  BY <1>1, FS_Interval DEF OrderInv
<1>5. name \in Injection(1 .. n, yielded)
  BY <1>3, <1>4, FS_SurjSameCardinalityImpliesInj
<1>6. name \in [1 .. n -> Nat]
  BY <1>1, <1>2, PoolAssumption
<1>7. \A i, j \in 1 .. n : i # j => name[i] # name[j]
  BY <1>5 DEF Injection, IsInjective
<1>8. PICK p \in [1 .. n -> 1 .. n] :
         /\ \A i \in 1 .. n : \E j \in 1 .. n : p[j] = i
         /\ \A i, j \in 1 .. n : i < j => name[p[i]] < name[p[j]]
  <2> HIDE DEF name, n
  <2>1. QED
    BY <1>1, <1>6, <1>7, CanBeSorted
<1>9. \A i, j \in 1 .. n : i < j => results[p[i]].server < results[p[j]].server
  BY <1>8
<1>10. QED
  BY <1>8, <1>9 DEF Sortable

\* The run is never stuck, for any finite set of servers, any pool size and
\* however the backups end, interrupted or not.
THEOREM RunNeverStuck ==
    ASSUME IsFiniteSet(Server) PROVE Spec => []SomebodyCanMove
<1>1. Init => StillToSubmit
  BY DEF Init, StillToSubmit
<1>2. OrderInv /\ StillToSubmit => SomebodyCanMove
  <2> SUFFICES ASSUME OrderInv, StillToSubmit, main # "ended"
               PROVE  MainCanMove \/ \E s \in Server : TaskCanMove(s)
    BY DEF SomebodyCanMove
  <2>1. IInv /\ TypeOK /\ MainInv
    BY DEF OrderInv, IInv
  <2>2. CASE main \in {"select", "settings", "report", "mail", "exit"}
    BY <2>2 DEF MainCanMove
  <2>3. CASE main = "submit"
    <3>1. Unsubmitted # {} /\ Unsubmitted \subseteq Nat
      BY <2>1, <2>3, PoolAssumption DEF StillToSubmit, Unsubmitted, TypeOK
    <3>2. \E s \in Unsubmitted : \A t \in Unsubmitted : s <= t
      BY <3>1, LeastNumber
    <3>3. QED
      BY <2>3, <3>2 DEF MainCanMove
  <2>4. CASE main = "collect"
    <3>1. CASE yielded = asked
      BY <2>4, <3>1, ResultsSortable DEF MainCanMove
    <3>2. CASE \E s \in asked \ yielded : stage[s] \in Finished
      BY <2>4, <3>2 DEF MainCanMove
    <3>3. CASE yielded # asked /\ \A s \in asked \ yielded : stage[s] \notin Finished
      <4>1. PICK s \in asked : s \notin yielded
        BY <2>1, <3>3 DEF MainInv
      <4>2. s \in Server /\ stage[s] \in Stage /\ stage[s] # "unsubmitted" /\ stage[s] \notin Finished
        BY <2>1, <2>4, <3>3, <4>1 DEF MainInv, TypeOK
      <4>3. stage[s] \in {"queued"} \cup Working
        BY <4>2 DEF Stage
      <4>4. QED
        BY <2>1, <4>2, <4>3, WorkersGoOn
    <3>4. QED
      BY <3>1, <3>2, <3>3
  <2>5. CASE main = "drain"
    <3>1. CASE \A s \in Server : stage[s] \notin {"queued"} \cup Working
      BY <2>5, <3>1 DEF MainCanMove
    <3>2. CASE \E s \in Server : stage[s] \in {"queued"} \cup Working
      BY <2>1, <3>2, WorkersGoOn
    <3>3. QED
      BY <3>1, <3>2
  <2>6. QED
    BY <2>1, <2>2, <2>3, <2>4, <2>5 DEF TypeOK
<1>3. Spec => []OrderInv
  BY OrderInvariant
<1>4. Spec => []StillToSubmit
  BY RunInvariant, SubmitGoesOn, <1>1, PTL DEF Spec
<1>5. QED
  BY <1>2, <1>3, <1>4, PTL

\* A task goes forward, one stage or to its end.
LEMMA TaskForward ==
    ASSUME TypeOK, TypeOK', NEW s \in Server, Task(s)
    PROVE  /\ StageLeft[stage'[s]] < StageLeft[stage[s]]
           /\ \A t \in Server \ {s} : stage'[t] = stage[t]
           /\ main' = main /\ yielded' = yielded
<1>1. \A t \in Server \ {s} : stage'[t] = stage[t]
  BY DEF TypeOK, Task, Begin, BackupConfig, BackupPackages, BackupZfs, Unexpected, Move
<1>2. main' = main /\ yielded' = yielded
  BY DEF Task, Begin, BackupConfig, BackupPackages, BackupZfs, Unexpected, MainIdle
<1>3. \/ stage[s] = "queued" /\ stage'[s] = "config"
      \/ stage[s] = "config" /\ stage'[s] \in {"packages", "zfs"}
      \/ stage[s] = "packages" /\ stage'[s] = "zfs"
      \/ stage[s] = "zfs" /\ stage'[s] = "returned"
      \/ stage[s] \in Working /\ stage'[s] = "raised"
  BY DEF TypeOK, Task, Begin, BackupConfig, BackupPackages, BackupZfs, Unexpected, Move
<1>4. StageLeft[stage'[s]] < StageLeft[stage[s]]
  BY <1>3 DEF StageLeft, Stage, Working, Finished
<1>5. QED
  BY <1>1, <1>2, <1>4

\* The main thread goes forward, submits a task, or takes a result.
LEMMA MainForward ==
    ASSUME TypeOK, TypeOK', Main \/ Interrupt
    PROVE  /\ MainLeft[main'] <= MainLeft[main]
           /\ \A s \in Server : StageLeft[stage'[s]] <= StageLeft[stage[s]]
           /\ yielded \subseteq yielded'
           /\ \/ MainLeft[main'] < MainLeft[main]
              \/ \E s \in Server : StageLeft[stage'[s]] < StageLeft[stage[s]]
              \/ yielded' # yielded
<1>1. \A s \in Server : StageLeft[stage[s]] \in 0 .. 5
  BY DEF TypeOK, StageLeft, Stage, Working, Finished
<1>2. CASE Submit
  <2>1. PICK s \in Unsubmitted :
           /\ stage' = [stage EXCEPT ![s] = "queued"]
           /\ main = "submit" /\ main' \in {"collect", "submit"} /\ yielded' = yielded
    BY <1>2 DEF Submit, Move
  <2>2. s \in Server /\ stage[s] = "unsubmitted" /\ stage'[s] = "queued"
        /\ \A t \in Server \ {s} : stage'[t] = stage[t]
    BY <2>1 DEF Unsubmitted, TypeOK
  <2>3. StageLeft[stage'[s]] = 4 /\ StageLeft[stage[s]] = 5
    BY <2>2 DEF StageLeft, Stage, Working, Finished
  <2>4. MainLeft["submit"] = 5 /\ MainLeft["collect"] = 4
    BY DEF MainLeft
  <2>5. \A t \in Server : StageLeft[stage'[t]] <= StageLeft[stage[t]]
    BY <1>1, <2>2, <2>3
  <2>6. QED
    BY <2>1, <2>2, <2>3, <2>4, <2>5
<1>3. CASE \E s \in Server : Collect(s)
  <2>1. PICK s \in Server : s \notin yielded /\ yielded' = yielded \cup {s}
    BY <1>3 DEF Collect
  <2>2. main = "collect" /\ main' = main /\ stage' = stage
    BY <1>3 DEF Collect, task
  <2>3. MainLeft["collect"] = 4
    BY DEF MainLeft
  <2>4. QED
    BY <1>1, <2>1, <2>2, <2>3
<1>4. ASSUME UNCHANGED <<task, yielded>>, MainLeft[main'] < MainLeft[main]
      PROVE  /\ MainLeft[main'] <= MainLeft[main]
             /\ \A s \in Server : StageLeft[stage'[s]] <= StageLeft[stage[s]]
             /\ yielded \subseteq yielded'
  <2>1. stage' = stage /\ yielded' = yielded
    BY <1>4 DEF task
  <2>2. MainLeft[main] \in Int /\ MainLeft[main'] \in Int
    BY DEF TypeOK, MainLeft
  <2>3. QED
    BY <1>1, <1>4, <2>1, <2>2
<1>5. CASE ~Submit /\ ~(\E s \in Server : Collect(s))
  <2>1. /\ UNCHANGED <<task, yielded>>
        /\ \/ main = "select"   /\ main' \in {"settings", "ended"}
           \/ main = "settings" /\ main' \in {"submit", "ended"}
           \/ main = "submit"   /\ main' = "drain"
           \/ main = "collect"  /\ main' \in {"report", "drain"}
           \/ main = "report"   /\ main' \in {"exit", "mail", "ended"}
           \/ main = "mail"     /\ main' \in {"exit", "ended"}
           \/ main \in {"exit", "drain"} /\ main' = "ended"
    <3>1. ASSUME NEW C \in SUBSET Server, NEW f \in Server \cup {0}, Select(C, f)
          PROVE  UNCHANGED <<task, yielded>> /\ main = "select" /\ main' \in {"settings", "ended"}
      BY <3>1 DEF Select, End
    <3>2. ASSUME ExtractSettings
          PROVE  UNCHANGED <<task, yielded>> /\ main = "settings" /\ main' \in {"submit", "ended"}
      BY <3>2 DEF ExtractSettings, End
    <3>3. ASSUME Summarise
          PROVE  UNCHANGED <<task, yielded>> /\ main = "collect" /\ main' = "report"
      BY <3>3 DEF Summarise
    <3>4. ASSUME Report
          PROVE  UNCHANGED <<task, yielded>> /\ main = "report" /\ main' \in {"exit", "mail", "ended"}
      BY <3>4 DEF Report, End
    <3>5. ASSUME SendSummary
          PROVE  UNCHANGED <<task, yielded>> /\ main = "mail" /\ main' = "exit"
      BY <3>5 DEF SendSummary
    <3>6. ASSUME Exit \/ Drain
          PROVE  UNCHANGED <<task, yielded>> /\ main \in {"exit", "drain"} /\ main' = "ended"
      BY <3>6 DEF Exit, Drain, End
    <3>7. ASSUME Interrupt
          PROVE  /\ UNCHANGED <<task, yielded>>
                 /\ \/ main \in {"submit", "collect"} /\ main' = "drain"
                    \/ main \in {"select", "settings", "report", "mail", "exit"} /\ main' = "ended"
      BY <3>7 DEF Interrupt, End
    <3>8. QED
      BY <1>5, <3>1, <3>2, <3>3, <3>4, <3>5, <3>6, <3>7 DEF Main
  <2>2. MainLeft[main'] < MainLeft[main]
    BY <2>1 DEF MainLeft
  <2>3. QED
    BY <1>4, <2>1, <2>2
<1>6. QED
  BY <1>2, <1>3, <1>5

\* The run has a bounded number of steps, for any servers and any pool size.
THEOREM RunComesToAnEnd == Spec => EveryStepCounts
<1> DEFINE Counts ==
       /\ MainLeft[main'] <= MainLeft[main]
       /\ \A s \in Server : StageLeft[stage'[s]] <= StageLeft[stage[s]]
       /\ yielded \subseteq yielded'
       /\ \/ MainLeft[main'] < MainLeft[main]
          \/ \E s \in Server : StageLeft[stage'[s]] < StageLeft[stage[s]]
          \/ yielded' # yielded
<1>1. TypeOK /\ TypeOK' /\ [Next]_vars => [Counts]_vars
  <2> SUFFICES ASSUME TypeOK, TypeOK', Next PROVE Counts
    OBVIOUS
  <2>1. CASE Main \/ Interrupt
    BY <2>1, MainForward
  <2>2. ASSUME NEW s \in Server, Task(s) PROVE Counts
    <3>1. \A t \in Server : StageLeft[stage[t]] \in Int /\ StageLeft[stage'[t]] \in Int
      BY DEF TypeOK, StageLeft, Stage, Working, Finished
    <3>2. MainLeft[main] \in Int
      BY DEF TypeOK, MainLeft
    <3>3. QED
      BY <2>2, <3>1, <3>2, TaskForward
  <2>3. QED
    BY <2>1, <2>2 DEF Next
<1>2. QED
  BY <1>1, RunTypeCorrect, PTL DEF Spec, EveryStepCounts
=============================================================================
