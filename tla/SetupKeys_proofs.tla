------------------------- MODULE SetupKeys_proofs -------------------------
(***************************************************************************)
(* Proofs about SetupKeys, for any number of setups, servers, keys and     *)
(* faults.                                                                 *)
(***************************************************************************)
EXTENDS SetupKeys, FiniteSetTheorems, TLAPS

-----------------------------------------------------------------------------
(* Types.                                                                  *)

\* Counting a fault keeps the types of the bookkeeping.
LEMMA FaultTypes ==
    ASSUME TypeOK, NEW p \in Setup, Fault(p) \/ NoFault
    PROVE  /\ faults' \in 0 .. MaxFaults /\ hit' \in [Setup -> BOOLEAN]
           /\ faults' >= faults
<1>1. CASE NoFault
  BY <1>1 DEF NoFault, TypeOK
<1>2. CASE Fault(p)
  <2>1. faults' \in 0 .. MaxFaults /\ faults' >= faults
    BY <1>2, SetupAssumption DEF Fault, TypeOK
  <2>2. hit' \in [Setup -> BOOLEAN]
    BY <1>2 DEF Fault, TypeOK
  <2>3. QED
    BY <2>1, <2>2
<1>3. QED
  BY <1>1, <1>2

\* So does ending the work on a server, with any result ...
LEMMA SettleTypes ==
    ASSUME TypeOK, NEW p \in Setup, NEW s \in Server, NEW from,
           NEW result \in {"ok", "failed"}, Settle(p, s, from, result)
    PROVE  /\ pc' \in [Setup -> Running \cup {"ended"}]
           /\ todo' \in [Setup -> SUBSET Server]
           /\ report' \in [Setup -> [Server -> {"none", "ok", "failed"}]]
           /\ UNCHANGED <<text, code>>
<1>1. pc' \in [Setup -> Running \cup {"ended"}]
  BY DEF Settle, Step, TypeOK, Running
<1>2. todo' \in [Setup -> SUBSET Server]
  BY DEF Settle, TypeOK
<1>3. report' \in [Setup -> [Server -> {"none", "ok", "failed"}]]
  BY DEF Settle, TypeOK
<1>4. QED
  BY <1>1, <1>2, <1>3 DEF Settle

\* ... and going on with it.
LEMMA ContinueTypes ==
    ASSUME TypeOK, NEW p \in Setup, NEW from, NEW to \in Running, Continue(p, from, to)
    PROVE  /\ pc' \in [Setup -> Running \cup {"ended"}]
           /\ UNCHANGED <<text, todo, report, code>>
  BY DEF Continue, Step, TypeOK, Running

\* A step of the loop keeps every type.
LEMMA ServerTypes ==
    ASSUME TypeOK, NEW p \in Setup, NEW s \in Server,
           \/ TakeServer(p, s) \/ MakePrivate(p, s) \/ MakePublic(p, s)
           \/ ReadPublic(p, s) \/ CheckPresent(p, s) \/ AppendKey(p, s)
           \/ TestKey(p, s)
    PROVE  TypeOK'
<1>1. CASE TakeServer(p, s)
  <2>1. CASE Settle(p, s, "next", "ok")
    BY <1>1, <2>1, SettleTypes, FaultTypes DEF TakeServer, TypeOK, files
  <2>2. CASE Continue(p, "next", "keygen") \/ Continue(p, "next", "read")
    BY <1>1, <2>2, ContinueTypes, FaultTypes DEF TakeServer, TypeOK, files, Running
  <2>3. QED
    BY <1>1, <2>1, <2>2 DEF TakeServer
<1>2. CASE MakePrivate(p, s)
  <2>1. CASE Continue(p, "keygen", "pair")
    <3>1. CASE priv' = [priv EXCEPT ![s] = made + 1]
      <4>1. made + 1 \in Key
        <5>1. made < MaxKeys
          BY <1>2, <2>1 DEF MakePrivate, Continue, Settle, Step, TypeOK
        <5>2. QED
          BY <5>1, SetupAssumption DEF TypeOK, Key
      <4>2. priv' \in [Server -> Key \cup {0}]
        BY <3>1, <4>1 DEF TypeOK
      <4>3. QED
        BY <1>2, <2>1, <4>1, <4>2, ContinueTypes, FaultTypes
        DEF MakePrivate, TypeOK, Running, Continue, Step, Settle, files
    <3>2. QED
      BY <1>2, <2>1, <3>1 DEF MakePrivate, Continue, Settle, Step, TypeOK
  <2>2. CASE Settle(p, s, "keygen", "failed") /\ UNCHANGED files
    BY <1>2, <2>2, SettleTypes, FaultTypes DEF MakePrivate, TypeOK, files
  <2>3. QED
    BY <1>2, <2>1, <2>2 DEF MakePrivate
<1>3. CASE MakePublic(p, s)
  <2>1. CASE Continue(p, "pair", "read") /\ pub' = [pub EXCEPT ![s] = priv[s]]
                /\ NoFault /\ UNCHANGED <<priv, auth, made>>
    BY <2>1, ContinueTypes, FaultTypes DEF TypeOK, Running
  <2>2. CASE Settle(p, s, "pair", "failed") /\ Fault(p) /\ UNCHANGED files
    BY <2>2, SettleTypes, FaultTypes DEF TypeOK, files
  <2>3. QED
    BY <1>3, <2>1, <2>2 DEF MakePublic
<1>4. CASE ReadPublic(p, s)
  <2> DEFINE found == IF LooksFor[s] = 0 THEN 0 ELSE pub[LooksFor[s]]
  <2>1. CASE Settle(p, s, "read", "failed")
    BY <1>4, <2>1, SettleTypes, FaultTypes DEF ReadPublic, TypeOK, files
  <2>2. CASE /\ Step(p, "read", "check")
             /\ text' = [text EXCEPT ![p] = found]
             /\ UNCHANGED <<todo, report, code>>
    <3>1. found \in Key \cup {0}
      BY SetupAssumption DEF TypeOK
    <3>2. text' \in [Setup -> Key \cup {0}]
      BY <2>2, <3>1 DEF TypeOK
    <3>3. pc' \in [Setup -> Running \cup {"ended"}]
      BY <2>2 DEF Step, TypeOK, Running
    <3>4. QED
      BY <1>4, <2>2, <3>2, <3>3, FaultTypes DEF ReadPublic, TypeOK, files
  <2>3. QED
    BY <1>4, <2>1, <2>2 DEF ReadPublic
<1>5. CASE CheckPresent(p, s)
  BY <1>5, ContinueTypes, FaultTypes DEF CheckPresent, TypeOK, files, Running
<1>6. CASE AppendKey(p, s)
  <2>1. auth' \in [Server -> [Key -> Nat]]
    <3>1. CASE UNCHANGED auth
      BY <3>1 DEF TypeOK
    <3>2. CASE auth' = [auth EXCEPT ![s][text[p]] = @ + 1]
      <4> DEFINE mine == [auth[s] EXCEPT ![text[p]] = auth[s][text[p]] + 1]
      <4>1. auth' = [auth EXCEPT ![s] = mine]
        BY <3>2
      <4>2. mine \in [Key -> Nat]
        <5>1. auth[s] \in [Key -> Nat]
          BY DEF TypeOK
        <5>2. CASE text[p] \in Key
          BY <5>1, <5>2
        <5>3. CASE text[p] \notin Key
          BY <5>1, <5>3
        <5>4. QED
          BY <5>2, <5>3
      <4>3. QED
        BY <4>1, <4>2 DEF TypeOK
    <3>3. QED
      BY <1>6, <3>1, <3>2 DEF AppendKey
  <2>2. CASE Continue(p, "append", "test") /\ NoFault
    BY <1>6, <2>1, <2>2, ContinueTypes, FaultTypes DEF AppendKey, TypeOK, Running
  <2>3. CASE Settle(p, s, "append", "failed") /\ Fault(p)
    BY <1>6, <2>1, <2>3, SettleTypes, FaultTypes DEF AppendKey, TypeOK
  <2>4. QED
    BY <1>6, <2>2, <2>3 DEF AppendKey
<1>7. CASE TestKey(p, s)
  BY <1>7, SettleTypes, FaultTypes DEF TestKey, TypeOK, files
<1>8. QED
  BY <1>1, <1>2, <1>3, <1>4, <1>5, <1>6, <1>7

\* Every step keeps every type.
LEMMA StepTypes ==
    ASSUME TypeOK, [Next]_vars PROVE TypeOK'
<1>1. ASSUME NEW p \in Setup, Start(p) PROVE TypeOK'
  <2>1. pc' \in [Setup -> Running \cup {"ended"}] /\ code' \in [Setup -> {"none", "success", "general", "exception"}]
    BY <1>1 DEF Start, Step, TypeOK, Running
  <2>2. todo' \in [Setup -> SUBSET Server] /\ hit' \in [Setup -> BOOLEAN]
    BY <1>1 DEF Start, TypeOK
  <2>3. report' \in [Setup -> [Server -> {"none", "ok", "failed"}]]
    BY <1>1 DEF Start, TypeOK
  <2>4. QED
    BY <1>1, <2>1, <2>2, <2>3 DEF Start, TypeOK, files
<1>2. ASSUME NEW p \in Setup, NEW s \in Server,
             \/ TakeServer(p, s) \/ MakePrivate(p, s) \/ MakePublic(p, s)
             \/ ReadPublic(p, s) \/ CheckPresent(p, s) \/ AppendKey(p, s)
             \/ TestKey(p, s)
      PROVE  TypeOK'
  BY <1>2, ServerTypes
<1>3. ASSUME NEW p \in Setup, Finish(p) PROVE TypeOK'
  <2>1. pc' \in [Setup -> Running \cup {"ended"}] /\ code' \in [Setup -> {"none", "success", "general", "exception"}]
    BY <1>3 DEF Finish, Step, TypeOK, Running
  <2>2. QED
    BY <1>3, <2>1, FaultTypes DEF Finish, TypeOK, files
<1>4. ASSUME NEW p \in Setup, Stop(p) PROVE TypeOK'
  <2>1. pc' \in [Setup -> Running \cup {"ended"}] /\ code' \in [Setup -> {"none", "success", "general", "exception"}]
    BY <1>4 DEF Stop, TypeOK, Running
  <2>2. QED
    BY <1>4, <2>1, FaultTypes DEF Stop, TypeOK, files
<1>5. ASSUME UNCHANGED vars PROVE TypeOK'
  BY <1>5 DEF vars, files, TypeOK
<1>6. QED
  BY <1>1, <1>2, <1>3, <1>4, <1>5 DEF Next, Advance

\* The first state is well typed.
LEMMA InitTypes == Init => TypeOK
<1> SUFFICES ASSUME Init PROVE TypeOK
  OBVIOUS
<1>1. auth \in [Server -> [Key -> Nat]]
  BY DEF Init
<1>2. QED
  BY <1>1, SetupAssumption DEF Init, TypeOK, Running

\* Every variable keeps its type, for every number of setups.
THEOREM TypeCorrect == Spec => []TypeOK
<1>1. Init => TypeOK
  BY InitTypes
<1>2. TypeOK /\ [Next]_vars => TypeOK'
  BY StepTypes
<1>3. QED
  BY <1>1, <1>2, PTL DEF Spec

-----------------------------------------------------------------------------
(* What a step of the loop does to the bookkeeping and to the files.       *)

\* The step of setup p, at server s.
AtServer(p, s) ==
    \/ TakeServer(p, s) \/ MakePrivate(p, s) \/ MakePublic(p, s)
    \/ ReadPublic(p, s) \/ CheckPresent(p, s) \/ AppendKey(p, s)
    \/ TestKey(p, s)

\* The step ends the work on s, with "ok" only for a key that works, or leaves
\* what the command will tell alone.
LEMMA ServerShape ==
    ASSUME NEW p \in Setup, NEW s \in Server, AtServer(p, s)
    PROVE  /\ code' = code
           /\ pc[p] \in Running
           /\ \/ UNCHANGED <<todo, report>>
              \/ \E r \in {"ok", "failed"} :
                    /\ report' = [report EXCEPT ![p][s] = r]
                    /\ todo' = [todo EXCEPT ![p] = @ \ {s}]
                    /\ r = "ok" => Works(s)
           /\ \E from, to \in Running : Step(p, from, to)
<1> DEFINE Told == \/ UNCHANGED <<todo, report>>
                   \/ \E r \in {"ok", "failed"} :
                        /\ report' = [report EXCEPT ![p][s] = r]
                        /\ todo' = [todo EXCEPT ![p] = @ \ {s}]
                        /\ r = "ok" => Works(s)
<1> DEFINE Moved == \E from, to \in Running : Step(p, from, to)
<1>1. ASSUME NEW from \in Running, NEW to \in Running, Continue(p, from, to)
      PROVE  code' = code /\ pc[p] \in Running /\ Told /\ Moved
  BY <1>1 DEF Continue, Step
<1>2. ASSUME NEW from \in Running, Settle(p, s, from, "failed")
      PROVE  code' = code /\ pc[p] \in Running /\ Told /\ Moved
  <2>1. Told
    BY <1>2 DEF Settle
  <2>2. "next" \in Running
    BY DEF Running
  <2>3. QED
    BY <1>2, <2>1, <2>2 DEF Settle, Step
<1>3. ASSUME NEW from \in Running, Settle(p, s, from, "ok"), Works(s)
      PROVE  code' = code /\ pc[p] \in Running /\ Told /\ Moved
  <2>1. Told
    BY <1>3 DEF Settle
  <2>2. "next" \in Running
    BY DEF Running
  <2>3. QED
    BY <1>3, <2>1, <2>2 DEF Settle, Step
<1>4. Running = {"next", "keygen", "pair", "read", "check", "append", "test"}
  BY DEF Running
<1>5. CASE TakeServer(p, s)
  BY <1>1, <1>3, <1>4, <1>5 DEF TakeServer, Works
<1>6. CASE MakePrivate(p, s)
  BY <1>1, <1>2, <1>4, <1>6 DEF MakePrivate
<1>7. CASE MakePublic(p, s)
  BY <1>1, <1>2, <1>4, <1>7 DEF MakePublic
<1>8. CASE ReadPublic(p, s)
  <2>1. CASE Settle(p, s, "read", "failed")
    BY <1>2, <1>4, <2>1
  <2>2. CASE Step(p, "read", "check") /\ UNCHANGED <<todo, report, code>>
    <3>1. Moved /\ pc[p] \in Running
      BY <1>4, <2>2 DEF Step
    <3>2. QED
      BY <2>2, <3>1
  <2>3. QED
    BY <1>8, <2>1, <2>2 DEF ReadPublic
<1>9. CASE CheckPresent(p, s)
  BY <1>1, <1>4, <1>9 DEF CheckPresent
<1>10. CASE AppendKey(p, s)
  BY <1>1, <1>2, <1>4, <1>10 DEF AppendKey
<1>11. CASE TestKey(p, s)
  BY <1>2, <1>3, <1>4, <1>11 DEF TestKey
<1>12. QED
  BY <1>5, <1>6, <1>7, <1>8, <1>9, <1>10, <1>11 DEF AtServer

\* A private key that is there stays, and no line of authorized_keys is lost.
LEMMA ServerFiles ==
    ASSUME TypeOK, NEW p \in Setup, NEW s \in Server, AtServer(p, s),
           NEW t \in Server
    PROVE  /\ priv[t] # 0 => priv'[t] = priv[t]
           /\ \A k \in Key : auth'[t][k] >= auth[t][k]
<1>1. CASE UNCHANGED <<priv, auth>>
  <2>1. \A k \in Key : auth[t][k] \in Nat
    BY DEF TypeOK
  <2>2. QED
    BY <1>1, <2>1
<1>2. CASE UNCHANGED auth /\ priv[s] = 0 /\ priv' = [priv EXCEPT ![s] = made + 1]
  <2>1. \A k \in Key : auth[t][k] \in Nat
    BY DEF TypeOK
  <2>2. QED
    BY <1>2, <2>1 DEF TypeOK
<1>3. CASE UNCHANGED priv /\ auth' = [auth EXCEPT ![s][text[p]] = @ + 1]
  <2>1. auth[t] \in [Key -> Nat] /\ auth[s] \in [Key -> Nat]
    BY DEF TypeOK
  <2>2. ASSUME NEW k \in Key PROVE auth'[t][k] >= auth[t][k]
    <3>1. auth[t][k] \in Nat
      BY <2>1
    <3>2. auth'[t][k] = auth[t][k] \/ auth'[t][k] = auth[t][k] + 1
      BY <1>3, <2>1 DEF TypeOK
    <3>3. QED
      BY <3>1, <3>2
  <2>3. QED
    BY <1>3, <2>2
<1>4. QED
  BY <1>1, <1>2, <1>3 DEF AtServer, TakeServer, MakePrivate, MakePublic,
     ReadPublic, CheckPresent, AppendKey, TestKey, files

\* So a key that works goes on working.
LEMMA WorksStays ==
    ASSUME TypeOK, NEW t \in Server, Works(t), TypeOK',
           \/ UNCHANGED files
           \/ \E p \in Setup, s \in Server : AtServer(p, s)
    PROVE  Works(t)'
<1>1. CASE UNCHANGED files
  BY <1>1 DEF files, Works
<1>2. CASE \E p \in Setup, s \in Server : AtServer(p, s)
  <2>1. PICK p \in Setup, s \in Server : AtServer(p, s)
    BY <1>2
  <2>2. priv[t] # 0 => priv'[t] = priv[t]
    BY <2>1, ServerFiles
  <2>3. \A k \in Key : auth'[t][k] >= auth[t][k]
    BY <2>1, ServerFiles
  <2>4. CASE t \in Local
    BY <2>4 DEF Works
  <2>5. CASE priv[t] # 0 /\ auth[t][priv[t]] > 0
    <3>1. priv[t] \in Key
      BY <2>5 DEF TypeOK
    <3>2. auth[t][priv[t]] \in Nat /\ auth'[t][priv[t]] \in Nat
      BY <3>1 DEF TypeOK
    <3>3. auth'[t][priv[t]] > 0
      BY <2>3, <2>5, <3>1, <3>2
    <3>4. QED
      BY <2>2, <2>5, <3>3 DEF Works
  <2>6. QED
    BY <2>4, <2>5 DEF Works
<1>3. QED
  BY <1>1, <1>2

-----------------------------------------------------------------------------
(* A key that was reported goes on working.                                *)

\* A result "ok" and an exit code 0 stand for keys that work, and the loop has
\* a result for every server it has finished.
ReportInv ==
    /\ TypeOK
    /\ \A p \in Setup, s \in Server : report[p][s] = "ok" => Works(s)
    /\ \A p \in Setup : code[p] = "success" => \A s \in Server : Works(s)
    /\ \A p \in Setup : pc[p] \in Running =>
          \A s \in Server \ todo[p] : report[p][s] # "none"

\* A step of the loop keeps it.
LEMMA ServerReports ==
    ASSUME ReportInv, TypeOK', NEW p \in Setup, NEW s \in Server, AtServer(p, s)
    PROVE  ReportInv'
<1>1. \A t \in Server : Works(t) => Works(t)'
  BY WorksStays DEF ReportInv
<1>2. ASSUME NEW q \in Setup, NEW t \in Server, report'[q][t] = "ok" PROVE Works(t)'
  <2>1. CASE report'[q][t] = report[q][t]
    BY <1>1, <1>2, <2>1 DEF ReportInv
  <2>2. CASE report'[q][t] # report[q][t]
    <3>1. PICK r \in {"ok", "failed"} :
              report' = [report EXCEPT ![p][s] = r] /\ (r = "ok" => Works(s))
      BY <2>2, ServerShape
    <3>2. q = p /\ t = s /\ r = "ok"
      BY <1>2, <2>2, <3>1 DEF ReportInv, TypeOK
    <3>3. QED
      BY <1>1, <3>1, <3>2
  <2>3. QED
    BY <2>1, <2>2
<1>3. ASSUME NEW q \in Setup, code'[q] = "success", NEW t \in Server PROVE Works(t)'
  BY <1>1, <1>3, ServerShape DEF ReportInv
<1>4. ASSUME NEW q \in Setup, pc'[q] \in Running, NEW t \in Server \ todo'[q]
      PROVE  report'[q][t] # "none"
  <2>1. pc[q] \in Running
    <3>1. pc[p] \in Running
      BY ServerShape
    <3>2. CASE q # p
      BY <1>4, <3>2, ServerShape DEF Step, ReportInv, TypeOK
    <3>3. QED
      BY <3>1, <3>2
  <2>2. CASE UNCHANGED <<todo, report>>
    BY <1>4, <2>1, <2>2 DEF ReportInv
  <2>3. CASE \E r \in {"ok", "failed"} : /\ report' = [report EXCEPT ![p][s] = r]
                                         /\ todo' = [todo EXCEPT ![p] = @ \ {s}]
    <3>1. PICK r \in {"ok", "failed"} : /\ report' = [report EXCEPT ![p][s] = r]
                                        /\ todo' = [todo EXCEPT ![p] = @ \ {s}]
      BY <2>3
    <3>2. CASE q = p /\ t = s
      BY <3>1, <3>2 DEF ReportInv, TypeOK
    <3>3. CASE ~(q = p /\ t = s)
      <4>1. t \notin todo[q]
        BY <1>4, <3>1, <3>3 DEF ReportInv, TypeOK
      <4>2. report'[q][t] = report[q][t]
        BY <3>1, <3>3 DEF ReportInv, TypeOK
      <4>3. QED
        BY <1>4, <2>1, <4>1, <4>2 DEF ReportInv
    <3>4. QED
      BY <3>2, <3>3
  <2>4. QED
    BY <2>2, <2>3, ServerShape
<1>5. QED
  BY <1>2, <1>3, <1>4 DEF ReportInv

\* So do a start, an end and a kill.
LEMMA OtherReports ==
    ASSUME ReportInv, TypeOK', NEW p \in Setup, Start(p) \/ Finish(p) \/ Stop(p)
    PROVE  ReportInv'
<1>1. UNCHANGED files
  BY DEF Start, Finish, Stop
<1>2. \A t \in Server : Works(t) => Works(t)'
  BY <1>1, WorksStays DEF ReportInv
<1>3. CASE Start(p)
  <2>1. \A q \in Setup, t \in Server : report'[q][t] = "ok" => report[q][t] = "ok"
    BY <1>3 DEF Start, ReportInv, TypeOK
  <2>2. \A q \in Setup : code'[q] = "success" => code[q] = "success"
    BY <1>3 DEF Start, ReportInv, TypeOK
  <2>3. ASSUME NEW q \in Setup, pc'[q] \in Running, NEW t \in Server \ todo'[q]
        PROVE  report'[q][t] # "none"
    <3>1. q # p
      BY <1>3, <2>3 DEF Start, ReportInv, TypeOK
    <3>2. pc'[q] = pc[q] /\ todo'[q] = todo[q] /\ report'[q] = report[q]
      BY <1>3, <3>1 DEF Start, Step, ReportInv, TypeOK
    <3>3. QED
      BY <2>3, <3>2 DEF ReportInv
  <2>4. QED
    BY <1>2, <2>1, <2>2, <2>3 DEF ReportInv
<1>4. CASE Finish(p)
  <2>1. UNCHANGED <<todo, report>>
    BY <1>4 DEF Finish
  <2>2. \A q \in Setup : pc'[q] \in Running => pc[q] \in Running
    BY <1>4 DEF Finish, Step, ReportInv, TypeOK, Running
  <2>3. ASSUME NEW q \in Setup, code'[q] = "success", NEW t \in Server PROVE Works(t)
    <3>1. CASE q # p
      BY <1>4, <2>3, <3>1 DEF Finish, ReportInv, TypeOK
    <3>2. CASE q = p
      <4>1. report[p][t] # "failed"
        BY <1>4, <2>3, <3>2 DEF Finish, ReportInv, TypeOK
      <4>2. report[p][t] # "none"
        BY <1>4 DEF Finish, Step, ReportInv, Running
      <4>3. report[p][t] \in {"none", "ok", "failed"}
        BY DEF ReportInv, TypeOK
      <4>4. QED
        BY <4>1, <4>2, <4>3 DEF ReportInv
    <3>3. QED
      BY <3>1, <3>2
  <2>4. QED
    BY <1>2, <2>1, <2>2, <2>3 DEF ReportInv
<1>5. CASE Stop(p)
  <2>1. UNCHANGED <<todo, report>>
    BY <1>5 DEF Stop
  <2>2. \A q \in Setup : pc'[q] \in Running => pc[q] \in Running
    BY <1>5 DEF Stop, ReportInv, TypeOK
  <2>3. \A q \in Setup : code'[q] = "success" => code[q] = "success"
    BY <1>5 DEF Stop, ReportInv, TypeOK
  <2>4. QED
    BY <1>2, <2>1, <2>2, <2>3 DEF ReportInv
<1>6. QED
  BY <1>3, <1>4, <1>5

\* A step is a start, an end, a kill or a step of the loop.
LEMMA StepKinds ==
    ASSUME Next
    PROVE  \/ \E p \in Setup : Start(p) \/ Finish(p) \/ Stop(p)
           \/ \E p \in Setup, s \in Server : AtServer(p, s)
  BY DEF Next, Advance, AtServer

\* Whatever later or overlapping setups do and wherever they die, a key that
\* was reported as working goes on working.
THEOREM KeysWork == Spec => []ReportedKeyWorks
<1>1. Init => ReportInv
  <2> SUFFICES ASSUME Init PROVE ReportInv
    OBVIOUS
  <2>1. TypeOK
    BY InitTypes
  <2>2. QED
    BY <2>1 DEF Init, ReportInv, Running
<1>2. ReportInv /\ [Next]_vars => ReportInv'
  <2> SUFFICES ASSUME ReportInv, [Next]_vars PROVE ReportInv'
    OBVIOUS
  <2>1. TypeOK'
    BY StepTypes DEF ReportInv
  <2>2. CASE UNCHANGED vars
    BY <2>2 DEF ReportInv, TypeOK, vars, files, Works
  <2>3. CASE Next
    BY <2>1, <2>3, StepKinds, ServerReports, OtherReports
  <2>4. QED
    BY <2>2, <2>3
<1>3. ReportInv => ReportedKeyWorks
  BY DEF ReportInv, ReportedKeyWorks
<1>4. QED
  BY <1>1, <1>2, <1>3, PTL DEF Spec

-----------------------------------------------------------------------------
(* Copies of a key in authorized_keys.                                     *)

\* The setups that are about to append key k on machine s.
Pending(s, k) == {p \in Setup : pc[p] = "append" /\ At(p, s) /\ text[p] = k}

\* Every copy, made or about to be, was paid for by a setup or by a fault.
CopiesInv ==
    /\ TypeOK
    /\ \A s \in Server, k \in Key :
          auth[s][k] + Cardinality(Pending(s, k)) <= Cardinality(Setup) + faults

\* Pending sets are finite, and no larger than there are setups.
LEMMA PendingFinite ==
    ASSUME IsFiniteSet(Setup), NEW P \in SUBSET Setup
    PROVE  /\ IsFiniteSet(P) /\ Cardinality(P) \in Nat
           /\ Cardinality(Setup) \in Nat /\ Cardinality(P) <= Cardinality(Setup)
  BY FS_Subset, FS_CardinalityType

\* No setup but p begins to wait for an append when p makes a step ...
LEMMA OthersPend ==
    ASSUME TypeOK, NEW p \in Setup, NEW s \in Server, NEW k \in Key,
           \/ AtServer(p, s) \/ Start(p) \/ Finish(p) \/ Stop(p),
           NEW t \in Server, NEW q \in Setup, q # p
    PROVE  (q \in Pending(t, k)') <=> (q \in Pending(t, k))
<1>1. pc'[q] = pc[q]
  <2>1. CASE AtServer(p, s)
    BY <2>1, ServerShape DEF Step, TypeOK
  <2>2. CASE Start(p) \/ Finish(p) \/ Stop(p)
    BY <2>2 DEF Start, Finish, Stop, Step, TypeOK
  <2>3. QED
    BY <2>1, <2>2
<1>2. todo'[q] = todo[q]
  <2>1. CASE AtServer(p, s)
    BY <2>1, ServerShape DEF TypeOK
  <2>2. CASE Start(p) \/ Finish(p) \/ Stop(p)
    BY <2>2 DEF Start, Finish, Stop, TypeOK
  <2>3. QED
    BY <2>1, <2>2
<1>3. text'[q] = text[q]
  <2>1. CASE ReadPublic(p, s)
    BY <2>1 DEF ReadPublic, Settle, TypeOK
  <2>2. CASE ~ReadPublic(p, s)
    BY <2>2 DEF AtServer, TakeServer, MakePrivate, MakePublic, CheckPresent,
       AppendKey, TestKey, Settle, Continue, Start, Finish, Stop
  <2>3. QED
    BY <2>1, <2>2
<1>4. QED
  BY <1>1, <1>2, <1>3 DEF Pending, At

\* ... and p itself only by a check that did not find the key, or failed.
LEMMA OwnPend ==
    ASSUME TypeOK, NEW p \in Setup, NEW s \in Server, NEW k \in Key, NEW t \in Server,
           \/ AtServer(p, s) \/ Start(p) \/ Finish(p) \/ Stop(p),
           p \in Pending(t, k)'
    PROVE  /\ CheckPresent(p, s) /\ t = s /\ text[p] = k
           /\ (auth[t][k] = 0 /\ faults' = faults) \/ faults' = faults + 1
<1>1. pc'[p] = "append"
  BY DEF Pending
<1>2. CheckPresent(p, s)
  BY <1>1 DEF AtServer, TakeServer, MakePrivate, MakePublic, ReadPublic, AppendKey,
     TestKey, Settle, Continue, Step, Start, Finish, Stop, TypeOK
<1>3. todo' = todo /\ text' = text
  BY <1>2 DEF CheckPresent, Continue
<1>4. At(p, s) /\ At(p, t)
  BY <1>2, <1>3 DEF CheckPresent, Pending, At
<1>5. t = s
  BY <1>4, SetupAssumption DEF At, TypeOK
<1>6. text[p] = k
  BY <1>3 DEF Pending
<1>7. (auth[s][text[p]] = 0 /\ faults' = faults) \/ faults' = faults + 1
  BY <1>1, <1>2 DEF CheckPresent, Continue, Step, NoFault, Fault, TypeOK
<1>8. QED
  BY <1>2, <1>5, <1>6, <1>7

\* Faults are counted one at a time.
LEMMA FaultsGrow ==
    ASSUME NEW p \in Setup, NEW s \in Server,
           \/ AtServer(p, s) \/ Start(p) \/ Finish(p) \/ Stop(p)
    PROVE  faults' = faults \/ faults' = faults + 1
<1>1. CASE TakeServer(p, s)
  BY <1>1 DEF TakeServer, NoFault
<1>2. CASE MakePrivate(p, s)
  BY <1>2 DEF MakePrivate, NoFault, Fault
<1>3. CASE MakePublic(p, s)
  BY <1>3 DEF MakePublic, NoFault, Fault
<1>4. CASE ReadPublic(p, s)
  BY <1>4 DEF ReadPublic, NoFault
<1>5. CASE CheckPresent(p, s) \/ AppendKey(p, s) \/ TestKey(p, s)
  BY <1>5 DEF CheckPresent, AppendKey, TestKey, NoFault, Fault
<1>6. CASE Start(p) \/ Finish(p) \/ Stop(p)
  BY <1>6 DEF Start, Finish, Stop, NoFault, Fault
<1>7. QED
  BY <1>1, <1>2, <1>3, <1>4, <1>5, <1>6 DEF AtServer

\* authorized_keys grows one line at a time.
LEMMA LinesGrow ==
    ASSUME TypeOK, NEW p \in Setup, NEW s \in Server, NEW t \in Server, NEW k \in Key,
           \/ AtServer(p, s) \/ Start(p) \/ Finish(p) \/ Stop(p)
    PROVE  auth'[t][k] = auth[t][k] \/ auth'[t][k] = auth[t][k] + 1
<1>1. CASE AppendKey(p, s)
  <2>1. CASE auth' = [auth EXCEPT ![s][text[p]] = @ + 1]
    <3>1. auth \in [Server -> [Key -> Nat]]
      BY DEF TypeOK
    <3>2. QED
      BY <2>1, <3>1
  <2>2. QED
    BY <1>1, <2>1 DEF AppendKey
<1>2. CASE ~AppendKey(p, s)
  <2>1. auth' = auth
    BY <1>2 DEF AtServer, TakeServer, MakePrivate, MakePublic, ReadPublic, CheckPresent,
       TestKey, Start, Finish, Stop, files
  <2>2. QED
    BY <2>1
<1>3. QED
  BY <1>1, <1>2

\* A step of p keeps the account of machine t and key k.
LEMMA AccountKept ==
    ASSUME IsFiniteSet(Setup), CopiesInv, TypeOK',
           NEW p \in Setup, NEW s \in Server, NEW t \in Server, NEW k \in Key,
           \/ AtServer(p, s) \/ Start(p) \/ Finish(p) \/ Stop(p)
    PROVE  auth'[t][k] + Cardinality(Pending(t, k)') <= Cardinality(Setup) + faults'
<1> DEFINE P == Pending(t, k)
           Q == Pending(t, k)'
           N == Cardinality(Setup)
<1>1. /\ P \in SUBSET Setup /\ Q \in SUBSET Setup
      /\ auth[t][k] \in Nat /\ auth'[t][k] \in Nat
      /\ faults \in Nat /\ faults' \in Nat
  BY SetupAssumption DEF Pending, CopiesInv, TypeOK
<1>2. /\ IsFiniteSet(P) /\ Cardinality(P) \in Nat
      /\ IsFiniteSet(Q) /\ Cardinality(Q) \in Nat /\ N \in Nat /\ Cardinality(Q) <= N
  BY <1>1, PendingFinite
<1>3. auth[t][k] + Cardinality(P) <= N + faults
  BY DEF CopiesInv
<1>4. \A q \in Setup \ {p} : q \in Q <=> q \in P
  BY OthersPend DEF CopiesInv
<1>5. faults' >= faults
  <2>1. faults' = faults \/ faults' = faults + 1
    BY FaultsGrow
  <2>2. faults \in Nat
    BY <1>1
  <2>3. QED
    BY <2>1, <2>2
<1>6. CASE p \in Q
  <2>1. /\ CheckPresent(p, s) /\ t = s /\ text[p] = k
        /\ (auth[t][k] = 0 /\ faults' = faults) \/ faults' = faults + 1
    BY <1>6, OwnPend DEF CopiesInv
  <2>2. auth' = auth
    BY <2>1 DEF CheckPresent, files
  <2>3. CASE auth[t][k] = 0
    BY <1>1, <1>2, <2>2, <2>3
  <2>4. CASE faults' = faults + 1
    <3>1. Q = P \cup {p}
      <4>1. p \notin P
        BY <2>1 DEF CheckPresent, Pending
      <4>2. QED
        BY <1>1, <1>4, <1>6
    <3>2. Cardinality(Q) <= Cardinality(P) + 1
      BY <1>2, <3>1, FS_AddElement
    <3>3. QED
      BY <1>1, <1>2, <1>3, <2>2, <2>4, <3>2
  <2>5. QED
    BY <2>1, <2>3, <2>4
<1>7. CASE p \notin Q /\ p \notin P
  <2>1. Q = P
    BY <1>1, <1>4, <1>7
  <2>2. CASE auth'[t][k] = auth[t][k]
    BY <1>1, <1>2, <1>3, <1>5, <2>1, <2>2
  <2>3. CASE auth'[t][k] # auth[t][k]
    <3>1. AppendKey(p, s)
      BY <2>3 DEF AtServer, TakeServer, MakePrivate, MakePublic, ReadPublic,
         CheckPresent, TestKey, Start, Finish, Stop, files
    <3>2. t = s /\ text[p] = k
      BY <2>3, <3>1 DEF AppendKey, CopiesInv, TypeOK
    <3>3. QED
      BY <1>7, <3>1, <3>2 DEF AppendKey, Pending
  <2>4. QED
    BY <2>2, <2>3
<1>8. CASE p \notin Q /\ p \in P
  <2>1. Q = P \ {p}
    BY <1>1, <1>4, <1>8
  <2>2. Cardinality(Q) = Cardinality(P) - 1
    BY <1>2, <1>8, <2>1, FS_RemoveElement
  <2>3. auth'[t][k] <= auth[t][k] + 1
    <3>1. auth'[t][k] = auth[t][k] \/ auth'[t][k] = auth[t][k] + 1
      BY LinesGrow DEF CopiesInv
    <3>2. auth[t][k] \in Nat
      BY <1>1
    <3>3. QED
      BY <3>1, <3>2
  <2>4. QED
    BY <1>1, <1>2, <1>3, <1>5, <2>2, <2>3
<1>9. QED
  BY <1>6, <1>7, <1>8

\* However often the command is repeated, a key is in authorized_keys at most
\* once for every setup and once for every fault.
THEOREM CopiesBounded ==
    ASSUME IsFiniteSet(Setup) PROVE Spec => []CopiesCostFaults
<1>1. Init => CopiesInv
  <2> SUFFICES ASSUME Init PROVE CopiesInv
    OBVIOUS
  <2>1. TypeOK
    BY InitTypes
  <2>2. ASSUME NEW s \in Server, NEW k \in Key
        PROVE  auth[s][k] + Cardinality(Pending(s, k)) <= Cardinality(Setup) + faults
    <3>1. Pending(s, k) = {} /\ auth[s][k] = 0 /\ faults = 0
      BY DEF Init, Pending
    <3>2. QED
      BY <3>1, PendingFinite, FS_EmptySet
  <2>3. QED
    BY <2>1, <2>2 DEF CopiesInv
<1>2. CopiesInv /\ [Next]_vars => CopiesInv'
  <2> SUFFICES ASSUME CopiesInv, [Next]_vars PROVE CopiesInv'
    OBVIOUS
  <2>1. TypeOK'
    BY StepTypes DEF CopiesInv
  <2>2. CASE UNCHANGED vars
    BY <2>1, <2>2 DEF CopiesInv, vars, files, Pending, At
  <2>3. CASE Next
    <3>1. ASSUME NEW t \in Server, NEW k \in Key
          PROVE  auth'[t][k] + Cardinality(Pending(t, k)') <= Cardinality(Setup) + faults'
      BY <2>1, <2>3, StepKinds, AccountKept
    <3>2. QED
      BY <2>1, <3>1 DEF CopiesInv
  <2>4. QED
    BY <2>2, <2>3
<1>3. CopiesInv => CopiesCostFaults
  <2> SUFFICES ASSUME CopiesInv, NEW s \in Server, NEW k \in Key
      PROVE  auth[s][k] <= Cardinality(Setup) + faults
    BY DEF CopiesCostFaults
  <2>1. Pending(s, k) \in SUBSET Setup
    BY DEF Pending
  <2>2. Cardinality(Pending(s, k)) \in Nat /\ Cardinality(Setup) \in Nat
    BY <2>1, PendingFinite
  <2>3. QED
    BY <2>2, SetupAssumption DEF CopiesInv, TypeOK
<1>4. QED
  BY <1>1, <1>2, <1>3, PTL DEF Spec

-----------------------------------------------------------------------------
(* A setup that was not disturbed repairs what it can.                     *)

\* A public file is the one of the private file beside it.
PairsMatch == \A s \in Server : pub[s] # 0 => pub[s] = priv[s]

\* Two setups that run at the same time have both noticed it.
AloneOrHit ==
    \A p \in Setup : pc[p] # "ended" /\ ~hit[p] => \A q \in Setup \ {p} : pc[q] = "ended"

\* What setup p has reached on server s.
Reached(p, s) ==
    /\ pc[p] = "keygen" /\ ~hit[p] => priv[s] = 0
    /\ pc[p] \in {"pair", "read", "check", "append", "test"} => priv[s] # 0
    /\ pc[p] \in {"check", "append", "test"} /\ ~Dotted(s) => text[p] = priv[s]
    /\ pc[p] = "test" /\ ~Dotted(s) => auth[s][priv[s]] > 0

\* Half a pair that no setup is about to complete.
HalfForGood(s) == HalfPair(s) /\ \A q \in Setup : pc[q] = "pair" => ~At(q, s)

HealInv ==
    /\ TypeOK
    /\ PairsMatch
    /\ AloneOrHit
    /\ \A p \in Setup, s \in Server : At(p, s) => Reached(p, s)
    /\ \A p \in Setup, s \in Server :
          report[p][s] = "failed" /\ ~hit[p] /\ ~Dotted(s) => HalfForGood(s)

\* The step leaves the other setups where they are.
LEMMA OthersStay ==
    ASSUME TypeOK, NEW p \in Setup, NEW s \in Server, AtServer(p, s),
           NEW q \in Setup, q # p
    PROVE  /\ pc'[q] = pc[q] /\ todo'[q] = todo[q]
           /\ text'[q] = text[q] /\ report'[q] = report[q]
<1>1. pc'[q] = pc[q]
  BY ServerShape DEF Step, TypeOK
<1>2. todo'[q] = todo[q] /\ report'[q] = report[q]
  BY ServerShape DEF TypeOK
<1>3. text'[q] = text[q]
  <2>1. CASE ReadPublic(p, s)
    BY <2>1 DEF ReadPublic, Settle, TypeOK
  <2>2. CASE ~ReadPublic(p, s)
    BY <2>2 DEF AtServer, TakeServer, MakePrivate, MakePublic, CheckPresent,
       AppendKey, TestKey, Settle, Continue
  <2>3. QED
    BY <2>1, <2>2
<1>4. QED
  BY <1>1, <1>2, <1>3

\* A fault is noticed, and noticed for good while the setup runs.
LEMMA HitsStay ==
    ASSUME TypeOK, NEW p \in Setup, NEW s \in Server, AtServer(p, s)
    PROVE  /\ hit' = hit \/ hit' = [hit EXCEPT ![p] = TRUE]
           /\ \A q \in Setup : hit[q] => hit'[q]
<1>1. hit' = hit \/ hit' = [hit EXCEPT ![p] = TRUE]
  BY DEF AtServer, TakeServer, MakePrivate, MakePublic, ReadPublic, CheckPresent,
     AppendKey, TestKey, NoFault, Fault
<1>2. QED
  BY <1>1 DEF TypeOK

\* Key files come in matching pairs.
LEMMA ServerPairs ==
    ASSUME TypeOK, PairsMatch, NEW p \in Setup, NEW s \in Server, AtServer(p, s)
    PROVE  PairsMatch'
<1> SUFFICES ASSUME NEW t \in Server, pub'[t] # 0 PROVE pub'[t] = priv'[t]
  BY DEF PairsMatch
<1>1. CASE UNCHANGED <<priv, pub>>
  BY <1>1 DEF PairsMatch
<1>2. CASE UNCHANGED pub /\ priv[s] = 0 /\ priv' = [priv EXCEPT ![s] = made + 1]
  BY <1>2 DEF PairsMatch, TypeOK
<1>3. CASE UNCHANGED priv /\ pub' = [pub EXCEPT ![s] = priv[s]]
  BY <1>3 DEF PairsMatch, TypeOK
<1>4. QED
  BY <1>1, <1>2, <1>3 DEF AtServer, TakeServer, MakePrivate, MakePublic,
     ReadPublic, CheckPresent, AppendKey, TestKey, files

\* Whoever runs undisturbed runs alone.
LEMMA ServerAlone ==
    ASSUME TypeOK, AloneOrHit, NEW p \in Setup, NEW s \in Server, AtServer(p, s)
    PROVE  AloneOrHit'
<1> SUFFICES ASSUME NEW q \in Setup, pc'[q] # "ended", ~hit'[q],
                    NEW r \in Setup \ {q}
             PROVE  pc'[r] = "ended"
  BY DEF AloneOrHit
<1>1. ~hit[q]
  BY HitsStay
<1>2. pc[p] # "ended"
  BY ServerShape DEF Running
<1>3. CASE q = p
  BY <1>1, <1>2, <1>3, OthersStay DEF AloneOrHit
<1>4. CASE q # p
  BY <1>1, <1>2, <1>4, OthersStay DEF AloneOrHit
<1>5. QED
  BY <1>3, <1>4

\* The loop is at one server at a time.
LEMMA OneServer ==
    ASSUME TypeOK, NEW p \in Setup, NEW s \in Server, NEW t \in Server, At(p, s), At(p, t)
    PROVE  s = t
  BY SetupAssumption DEF At, TypeOK

\* What another setup has reached on a server stays reached.
LEMMA OthersReach ==
    ASSUME TypeOK, TypeOK', AloneOrHit, NEW p \in Setup, NEW s \in Server, AtServer(p, s),
           NEW q \in Setup, q # p, NEW t \in Server, Reached(q, t), At(q, t)
    PROVE  Reached(q, t)'
<1>1. pc'[q] = pc[q] /\ text'[q] = text[q]
  BY OthersStay
<1>2. priv[t] # 0 => priv'[t] = priv[t]
  BY ServerFiles
<1>3. pc'[q] = "keygen" /\ ~hit'[q] => priv'[t] = 0
  <2>1. pc[p] # "ended"
    BY ServerShape DEF Running
  <2>2. pc[q] = "keygen" => hit[q]
    BY <2>1 DEF AloneOrHit
  <2>3. QED
    BY <1>1, <2>2, HitsStay
<1>4. priv[t] # 0 /\ auth[t][priv[t]] > 0 => auth'[t][priv[t]] > 0
  <2> SUFFICES ASSUME priv[t] # 0, auth[t][priv[t]] > 0 PROVE auth'[t][priv[t]] > 0
    OBVIOUS
  <2>1. priv[t] \in Key
    BY DEF TypeOK
  <2>2. auth[t][priv[t]] \in Nat /\ auth'[t][priv[t]] \in Nat
    BY <2>1 DEF TypeOK
  <2>3. auth'[t][priv[t]] >= auth[t][priv[t]]
    BY <2>1, ServerFiles
  <2>4. QED
    BY <2>2, <2>3
<1>5. QED
  BY <1>1, <1>2, <1>3, <1>4 DEF Reached, Dotted

\* What the setup that makes the step has reached.
LEMMA OwnReach ==
    ASSUME TypeOK, TypeOK', PairsMatch, NEW p \in Setup, NEW s \in Server, AtServer(p, s),
           Reached(p, s), NEW t \in Server, At(p, t)'
    PROVE  Reached(p, t)'
<1>1. CASE \E from : \E r \in {"ok", "failed"} : Settle(p, s, from, r)
  <2>1. pc'[p] = "next"
    BY <1>1 DEF Settle, Step, TypeOK
  <2>2. QED
    BY <2>1 DEF Reached
<1>2. CASE ~\E from : \E r \in {"ok", "failed"} : Settle(p, s, from, r)
  <2>1. At(p, s)
    BY DEF AtServer, TakeServer, MakePrivate, MakePublic, ReadPublic, CheckPresent,
       AppendKey, TestKey
  <2>2. todo' = todo
    BY <1>2 DEF AtServer, TakeServer, MakePrivate, MakePublic, ReadPublic, CheckPresent,
       AppendKey, TestKey, Continue
  <2>3. t = s
    <3>1. At(p, t)
      BY <2>2 DEF At
    <3>2. QED
      BY <2>1, <3>1, OneServer
  <2>4. CASE TakeServer(p, s)
    BY <1>2, <2>3, <2>4 DEF TakeServer, Continue, Step, Reached, TypeOK, files
  <2>5. CASE MakePrivate(p, s)
    <3>1. ~Settle(p, s, "keygen", "failed")
      BY <1>2
    <3>2. pc'[p] = "pair" /\ priv'[s] = made + 1
      BY <2>5, <3>1 DEF MakePrivate, Continue, Step, TypeOK
    <3>3. made + 1 # 0
      BY SetupAssumption DEF TypeOK, Key
    <3>4. QED
      BY <2>3, <3>2, <3>3 DEF Reached
  <2>6. CASE MakePublic(p, s)
    BY <1>2, <2>3, <2>6 DEF MakePublic, Continue, Step, Reached, TypeOK
  <2>7. CASE ReadPublic(p, s)
    <3>1. pc[p] = "read" /\ pc'[p] = "check"
      BY <1>2, <2>7 DEF ReadPublic, Step, TypeOK
    <3>2. UNCHANGED priv
      BY <2>7 DEF ReadPublic, files
    <3>3. ~Dotted(s) => text'[p] = priv[s]
      BY <1>2, <2>7 DEF ReadPublic, Dotted, PairsMatch, TypeOK
    <3>4. QED
      BY <2>3, <3>1, <3>2, <3>3 DEF Reached, Dotted
  <2>8. CASE CheckPresent(p, s)
    <3>1. pc[p] = "check" /\ UNCHANGED <<priv, auth, text>>
      BY <2>8 DEF CheckPresent, Continue, files
    <3>2. \/ pc'[p] = "append"
          \/ pc'[p] = "test" /\ auth[s][text[p]] > 0
      BY <2>8 DEF CheckPresent, Continue, Step, TypeOK
    <3>3. QED
      BY <2>3, <3>1, <3>2 DEF Reached, Dotted
  <2>9. CASE AppendKey(p, s)
    <3>1. Continue(p, "append", "test") /\ NoFault
      BY <1>2, <2>9 DEF AppendKey
    <3>2. auth' = [auth EXCEPT ![s][text[p]] = @ + 1]
      BY <2>9, <3>1 DEF AppendKey, NoFault
    <3>3. pc[p] = "append" /\ pc'[p] = "test" /\ UNCHANGED <<priv, text>>
      BY <2>9, <3>1 DEF AppendKey, Continue, Step, TypeOK
    <3>4. ~Dotted(s) => text[p] = priv[s]
      BY <3>3 DEF Reached
    <3>5. priv[s] # 0 /\ priv[s] \in Key
      BY <3>3 DEF Reached, TypeOK
    <3>6. ~Dotted(s) => auth'[s][priv[s]] > 0
      <4>1. auth[s] \in [Key -> Nat] /\ auth[s][priv[s]] \in Nat
        BY <3>5 DEF TypeOK
      <4>2. ~Dotted(s) => auth'[s][priv[s]] = auth[s][priv[s]] + 1
        BY <3>2, <3>4, <3>5, <4>1 DEF TypeOK
      <4>3. QED
        BY <4>1, <4>2
    <3>7. QED
      BY <2>3, <3>3, <3>4, <3>5, <3>6 DEF Reached, Dotted
  <2>10. CASE TestKey(p, s)
    BY <1>2, <2>10 DEF TestKey
  <2>11. QED
    BY <2>4, <2>5, <2>6, <2>7, <2>8, <2>9, <2>10 DEF AtServer
<1>3. QED
  BY <1>1, <1>2

\* Half a pair that no setup is at work on stays one.
LEMMA HalfStays ==
    ASSUME TypeOK, NEW p \in Setup, NEW s \in Server, AtServer(p, s),
           NEW t \in Server, HalfForGood(t)
    PROVE  HalfForGood(t)'
<1>1. pc[p] = "pair" => s # t
  BY DEF HalfForGood, AtServer, TakeServer, MakePrivate, MakePublic, ReadPublic,
     CheckPresent, AppendKey, TestKey
<1>2. priv'[t] = priv[t]
  BY ServerFiles DEF HalfForGood, HalfPair
<1>3. pub'[t] = pub[t]
  <2>1. CASE MakePublic(p, s)
    <3>1. pc[p] = "pair"
      BY <2>1 DEF MakePublic, Continue, Settle, Step
    <3>2. QED
      BY <1>1, <2>1, <3>1 DEF MakePublic, TypeOK, files
  <2>2. CASE ~MakePublic(p, s)
    BY <2>2 DEF AtServer, TakeServer, MakePrivate, ReadPublic, CheckPresent,
       AppendKey, TestKey, files
  <2>3. QED
    BY <2>1, <2>2
<1>4. ASSUME NEW q \in Setup, pc'[q] = "pair", At(q, t)' PROVE FALSE
  <2>1. CASE q # p
    <3>1. pc[q] = "pair" /\ At(q, t)
      BY <1>4, <2>1, OthersStay DEF At
    <3>2. QED
      BY <3>1 DEF HalfForGood
  <2>2. CASE q = p
    <3>1. MakePrivate(p, s) /\ Continue(p, "keygen", "pair") /\ priv[s] = 0
      BY <1>4, <2>2 DEF AtServer, TakeServer, MakePrivate, MakePublic, ReadPublic,
         CheckPresent, AppendKey, TestKey, Settle, Continue, Step, TypeOK
    <3>2. At(p, s) /\ At(p, t)
      BY <1>4, <2>2, <3>1 DEF MakePrivate, Continue, At
    <3>3. QED
      BY <3>1, <3>2, OneServer DEF HalfForGood, HalfPair
  <2>3. QED
    BY <2>1, <2>2
<1>5. QED
  BY <1>2, <1>3, <1>4 DEF HalfForGood, HalfPair

\* A failure without a fault is that of half a pair.
LEMMA OwnFailure ==
    ASSUME TypeOK, AloneOrHit, NEW p \in Setup, NEW s \in Server, AtServer(p, s),
           Reached(p, s), NEW from, Settle(p, s, from, "failed"), ~hit'[p], ~Dotted(s)
    PROVE  HalfForGood(s)'
<1>1. ~hit[p] /\ pc[p] # "ended"
  BY HitsStay, ServerShape DEF Running
<1>2. \A q \in Setup \ {p} : pc[q] = "ended"
  BY <1>1 DEF AloneOrHit
<1>3. pc'[p] = "next"
  BY DEF Settle, Step, TypeOK
<1>4. ~TakeServer(p, s)
  <2>1. report'[p][s] = "failed"
    BY DEF Settle, TypeOK
  <2>2. TakeServer(p, s) => \/ report'[p][s] = "ok"
                            \/ pc'[p] # "next"
    BY DEF TakeServer, Settle, Continue, Step, TypeOK
  <2>3. QED
    BY <1>3, <2>1, <2>2
<1>5. ~MakePrivate(p, s)
  BY <1>1, <1>3 DEF MakePrivate, Continue, Step, Settle, Fault, Reached, TypeOK
<1>6. ~MakePublic(p, s)
  BY <1>1, <1>3 DEF MakePublic, Continue, Step, Settle, Fault, TypeOK
<1>7. ~CheckPresent(p, s)
  BY <1>3 DEF CheckPresent, Continue, Step, TypeOK
<1>8. ~AppendKey(p, s)
  BY <1>1, <1>3 DEF AppendKey, Continue, Step, Settle, Fault, TypeOK
<1>9. ~TestKey(p, s)
  <2>1. ASSUME TestKey(p, s) PROVE FALSE
    <3>1. pc[p] = "test"
      BY <2>1 DEF TestKey, Settle, Step
    <3>2. Works(s)
      BY <3>1 DEF Reached, Works
    <3>3. report'[p][s] = "failed"
      BY DEF Settle, TypeOK
    <3>4. ~Fault(p)
      BY <1>1 DEF Fault, TypeOK
    <3>5. Settle(p, s, "test", "ok")
      BY <2>1, <3>2, <3>4 DEF TestKey
    <3>6. QED
      BY <3>3, <3>5 DEF Settle, TypeOK
  <2>2. QED
    BY <2>1
<1>10. ReadPublic(p, s)
  BY <1>4, <1>5, <1>6, <1>7, <1>8, <1>9 DEF AtServer
<1>11. pc[p] = "read" /\ pub[s] = 0 /\ UNCHANGED <<priv, pub>>
  <2>1. LooksFor[s] = s /\ s # 0
    BY SetupAssumption DEF Dotted
  <2>2. ~Step(p, "read", "check")
    BY <1>3 DEF Step, TypeOK
  <2>3. QED
    BY <1>10, <2>1, <2>2 DEF ReadPublic, Settle, Step, files
<1>12. priv[s] # 0
  BY <1>11 DEF Reached
<1>13. \A q \in Setup : pc'[q] # "pair"
  BY <1>2, <1>3, OthersStay
<1>14. QED
  BY <1>11, <1>12, <1>13 DEF HalfForGood, HalfPair

\* A step of the loop keeps the invariant.
LEMMA ServerHeals ==
    ASSUME HealInv, TypeOK', NEW p \in Setup, NEW s \in Server, AtServer(p, s)
    PROVE  HealInv'
<1> USE DEF HealInv
<1>1. At(p, s)
  BY DEF AtServer, TakeServer, MakePrivate, MakePublic, ReadPublic, CheckPresent,
     AppendKey, TestKey
<1>2. Reached(p, s)
  BY <1>1
<1>3. ASSUME NEW q \in Setup, NEW t \in Server, At(q, t)' PROVE Reached(q, t)'
  <2>1. CASE q = p
    BY <1>2, <1>3, <2>1, OwnReach
  <2>2. CASE q # p
    <3>1. At(q, t)
      BY <1>3, <2>2, OthersStay DEF At
    <3>2. QED
      BY <2>2, <3>1, OthersReach
  <2>3. QED
    BY <2>1, <2>2
<1>4. ASSUME NEW q \in Setup, NEW t \in Server,
             report'[q][t] = "failed", ~hit'[q], ~Dotted(t)
      PROVE  HalfForGood(t)'
  <2>1. ~hit[q]
    BY <1>4, HitsStay
  <2>2. CASE report'[q][t] = report[q][t]
    BY <1>4, <2>1, <2>2, HalfStays
  <2>3. CASE report'[q][t] # report[q][t]
    <3>1. q = p
      BY <2>3, OthersStay
    <3>2. t = s /\ report' = [report EXCEPT ![p][s] = "failed"] /\ report' # report
      BY <1>4, <2>3, <3>1, ServerShape DEF TypeOK
    <3>3. \E from : Settle(p, s, from, "failed")
      BY <1>4, <3>1, <3>2 DEF AtServer, TakeServer, MakePrivate, MakePublic, ReadPublic,
         CheckPresent, AppendKey, TestKey, Continue, Settle, TypeOK
    <3>4. QED
      BY <1>2, <1>4, <3>1, <3>2, <3>3, OwnFailure
  <2>4. QED
    BY <2>2, <2>3
<1>5. (\A q \in Setup, t \in Server : At(q, t) => Reached(q, t))'
  BY <1>3
<1>6. (\A q \in Setup, t \in Server :
          report[q][t] = "failed" /\ ~hit[q] /\ ~Dotted(t) => HalfForGood(t))'
  BY <1>4 DEF Dotted
<1>7. QED
  BY <1>5, <1>6, ServerPairs, ServerAlone

\* So do a start, an end and a kill.
LEMMA OtherHeals ==
    ASSUME HealInv, TypeOK', NEW p \in Setup, Start(p) \/ Finish(p) \/ Stop(p)
    PROVE  HealInv'
<1> USE DEF HealInv
<1>1. UNCHANGED <<files, text>>
  BY DEF Start, Finish, Stop
<1>2. \A q \in Setup \ {p} : pc'[q] = pc[q] /\ todo'[q] = todo[q] /\ report'[q] = report[q]
  BY DEF Start, Finish, Stop, Step, TypeOK
<1>3. pc'[p] \in {"next", "ended"}
  BY DEF Start, Finish, Stop, Step, TypeOK
<1>4. \A q \in Setup \ {p} : hit[q] => hit'[q]
  BY DEF Start, Finish, Stop, NoFault, Fault, TypeOK
<1>5. PairsMatch'
  BY <1>1 DEF PairsMatch, files
<1>6. AloneOrHit'
  <2> SUFFICES ASSUME NEW q \in Setup, pc'[q] # "ended", ~hit'[q], NEW r \in Setup \ {q}
               PROVE  pc'[r] = "ended"
    BY DEF AloneOrHit
  <2>1. CASE Start(p)
    <3>1. CASE q = p
      <4>1. pc[r] = "ended"
        BY <2>1, <3>1 DEF Start, TypeOK
      <4>2. QED
        BY <1>2, <3>1, <4>1
    <3>2. CASE q # p
      <4>1. pc[q] = "ended"
        BY <2>1, <3>2 DEF Start, TypeOK
      <4>2. QED
        BY <1>2, <3>2, <4>1
    <3>3. QED
      BY <3>1, <3>2
  <2>2. CASE Finish(p) \/ Stop(p)
    <3>1. pc'[p] = "ended"
      BY <2>2 DEF Finish, Stop, Step, TypeOK
    <3>2. q # p
      BY <3>1
    <3>3. ~hit[q] /\ pc[q] # "ended"
      BY <1>2, <1>4, <3>2
    <3>4. QED
      BY <1>2, <3>1, <3>3 DEF AloneOrHit
  <2>3. QED
    BY <2>1, <2>2
<1>7. ASSUME NEW q \in Setup, NEW t \in Server, At(q, t)' PROVE Reached(q, t)'
  <2>1. CASE q = p
    BY <1>3, <2>1 DEF Reached
  <2>2. CASE q # p
    <3>1. At(q, t) /\ Reached(q, t)
      BY <1>2, <1>7, <2>2 DEF At
    <3>2. QED
      BY <1>1, <1>2, <1>4, <2>2, <3>1 DEF Reached, Dotted, files
  <2>3. QED
    BY <2>1, <2>2
<1>8. ASSUME NEW t \in Server, HalfForGood(t) PROVE HalfForGood(t)'
  <2>1. ASSUME NEW q \in Setup, pc'[q] = "pair" PROVE ~At(q, t)'
    BY <1>2, <1>3, <1>8, <2>1 DEF HalfForGood, At
  <2>2. QED
    BY <1>1, <1>8, <2>1 DEF HalfForGood, HalfPair, files
<1>9. ASSUME NEW q \in Setup, NEW t \in Server,
             report'[q][t] = "failed", ~hit'[q], ~Dotted(t)
      PROVE  HalfForGood(t)'
  <2>1. CASE q # p
    BY <1>2, <1>4, <1>8, <1>9, <2>1
  <2>2. CASE q = p
    <3>1. ~Start(p)
      <4>1. Start(p) => report'[p] = [u \in Server |-> "none"]
        BY DEF Start, TypeOK
      <4>2. QED
        BY <1>9, <2>2, <4>1
    <3>2. report' = report /\ ~hit[p]
      BY <1>9, <2>2, <3>1 DEF Finish, Stop, NoFault, Fault, TypeOK
    <3>3. QED
      BY <1>8, <1>9, <2>2, <3>2
  <2>3. QED
    BY <2>1, <2>2
<1>10. (\A q \in Setup, t \in Server : At(q, t) => Reached(q, t))'
  BY <1>7
<1>11. (\A q \in Setup, t \in Server :
          report[q][t] = "failed" /\ ~hit[q] /\ ~Dotted(t) => HalfForGood(t))'
  BY <1>9 DEF Dotted
<1>12. QED
  BY <1>5, <1>6, <1>10, <1>11

\* A setup that met no fault and ran alone succeeds for every server whose pair
\* is complete, whatever earlier setups left behind.
THEOREM SetupHeals == Spec => []FaultFreeSetupHeals
<1>1. Init => HealInv
  <2> SUFFICES ASSUME Init PROVE HealInv
    OBVIOUS
  <2>1. TypeOK
    BY InitTypes
  <2>2. QED
    BY <2>1 DEF Init, HealInv, PairsMatch, AloneOrHit, At
<1>2. HealInv /\ [Next]_vars => HealInv'
  <2> SUFFICES ASSUME HealInv, [Next]_vars PROVE HealInv'
    OBVIOUS
  <2>1. TypeOK'
    BY StepTypes DEF HealInv
  <2>2. CASE UNCHANGED vars
    BY <2>1, <2>2 DEF HealInv, PairsMatch, AloneOrHit, At, Reached, HalfForGood, HalfPair,
       Dotted, vars, files
  <2>3. CASE Next
    BY <2>1, <2>3, StepKinds, ServerHeals, OtherHeals
  <2>4. QED
    BY <2>2, <2>3
<1>3. HealInv => FaultFreeSetupHeals
  BY DEF HealInv, HalfForGood, FaultFreeSetupHeals
<1>4. QED
  BY <1>1, <1>2, <1>3, PTL DEF Spec

-----------------------------------------------------------------------------
(* What is settled stays settled, and every setup comes to an end.         *)

\* A key that works goes on working, and half a pair that no setup is about to
\* complete is never completed: once a server is served, or beyond what the
\* command repairs, no repetition, overlap or kill changes that.
SettledForGood ==
    [][\A s \in Server : /\ Works(s) => Works(s)'
                         /\ HalfForGood(s) => HalfForGood(s)']_vars

\* How far a setup is from the end of its round of the loop.
StepsLeft ==
    [l \in Running \cup {"ended"} |->
        CASE l = "next" -> 7 [] l = "keygen" -> 6 [] l = "pair" -> 5 [] l = "read" -> 4
          [] l = "check" -> 3 [] l = "append" -> 2 [] l = "test" -> 1 [] l = "ended" -> 0]

\* A step brings a setup closer to its end: fewer servers are left, or as many
\* and fewer steps for the one it is at.
Closer(p) ==
    \/ Cardinality(todo'[p]) < Cardinality(todo[p])
    \/ todo'[p] = todo[p] /\ StepsLeft[pc'[p]] < StepsLeft[pc[p]]

\* Every step of a setup brings it closer to its end, and no other setup takes
\* it back: it is at every server once, whatever the others do to its files.
StepsBringCloser ==
    [][\A p \in Setup :
          /\ Advance(p) \/ Stop(p) => Closer(p)
          /\ pc[p] # "ended" => Closer(p) \/ (pc'[p] = pc[p] /\ todo'[p] = todo[p])]_vars

\* No setup takes back what is settled, for any number of setups and servers.
THEOREM SettledStays == Spec => SettledForGood
<1> DEFINE Stays == \A s \in Server : /\ Works(s) => Works(s)'
                                      /\ HalfForGood(s) => HalfForGood(s)'
<1>1. TypeOK /\ TypeOK' /\ [Next]_vars => [Stays]_vars
  <2> SUFFICES ASSUME TypeOK, TypeOK', Next, NEW t \in Server
               PROVE  /\ Works(t) => Works(t)'
                      /\ HalfForGood(t) => HalfForGood(t)'
    OBVIOUS
  <2>1. CASE \E p \in Setup, s \in Server : AtServer(p, s)
    BY <2>1, WorksStays, HalfStays
  <2>2. ASSUME NEW p \in Setup, Start(p) \/ Finish(p) \/ Stop(p)
        PROVE  /\ Works(t) => Works(t)'
               /\ HalfForGood(t) => HalfForGood(t)'
    <3>1. UNCHANGED files
      BY <2>2 DEF Start, Finish, Stop
    <3>2. Works(t) => Works(t)'
      BY <3>1, WorksStays
    <3>3. \A q \in Setup : pc'[q] = "pair" => pc[q] = "pair" /\ todo'[q] = todo[q]
      BY <2>2 DEF Start, Finish, Stop, Step, TypeOK
    <3>4. HalfForGood(t) => HalfForGood(t)'
      BY <3>1, <3>3 DEF HalfForGood, HalfPair, At, files
    <3>5. QED
      BY <3>2, <3>4
  <2>3. QED
    BY <2>1, <2>2, StepKinds
<1>2. QED
  BY <1>1, TypeCorrect, PTL DEF Spec, SettledForGood

\* A step of the loop goes on at its server, or is done with it.
LEMMA ServerCloser ==
    ASSUME TypeOK, TypeOK', IsFiniteSet(Server), NEW p \in Setup, NEW s \in Server, AtServer(p, s)
    PROVE  Closer(p)
<1>1. s \in todo[p] /\ todo[p] \subseteq Server
  BY DEF AtServer, TakeServer, MakePrivate, MakePublic, ReadPublic, CheckPresent,
     AppendKey, TestKey, At, TypeOK
<1>2. IsFiniteSet(todo[p]) /\ Cardinality(todo[p]) \in Nat
  BY <1>1, FS_Subset, FS_CardinalityType
<1>3. Cardinality(todo[p] \ {s}) = Cardinality(todo[p]) - 1
  BY <1>1, <1>2, FS_RemoveElement
<1>4. ASSUME NEW from, NEW result, Settle(p, s, from, result) PROVE Closer(p)
  BY <1>2, <1>3, <1>4 DEF Settle, Closer, TypeOK
<1>5. ASSUME NEW from \in Running, NEW to \in Running, Step(p, from, to), todo' = todo,
             StepsLeft[to] < StepsLeft[from]
      PROVE  Closer(p)
  BY <1>5 DEF Step, Closer, TypeOK
<1>6. /\ "next" \in Running /\ "keygen" \in Running /\ "pair" \in Running /\ "read" \in Running
      /\ "check" \in Running /\ "append" \in Running /\ "test" \in Running
      /\ StepsLeft["next"] = 7 /\ StepsLeft["keygen"] = 6 /\ StepsLeft["pair"] = 5
      /\ StepsLeft["read"] = 4 /\ StepsLeft["check"] = 3 /\ StepsLeft["append"] = 2
      /\ StepsLeft["test"] = 1
  BY DEF Running, StepsLeft
<1>7. CASE TakeServer(p, s)
  BY <1>4, <1>5, <1>6, <1>7 DEF TakeServer, Continue
<1>8. CASE MakePrivate(p, s)
  BY <1>4, <1>5, <1>6, <1>8 DEF MakePrivate, Continue
<1>9. CASE MakePublic(p, s)
  BY <1>4, <1>5, <1>6, <1>9 DEF MakePublic, Continue
<1>10. CASE ReadPublic(p, s)
  BY <1>4, <1>5, <1>6, <1>10 DEF ReadPublic
<1>11. CASE CheckPresent(p, s)
  BY <1>4, <1>5, <1>6, <1>11 DEF CheckPresent, Continue
<1>12. CASE AppendKey(p, s)
  BY <1>4, <1>5, <1>6, <1>12 DEF AppendKey, Continue
<1>13. CASE TestKey(p, s)
  BY <1>4, <1>13 DEF TestKey
<1>14. QED
  BY <1>7, <1>8, <1>9, <1>10, <1>11, <1>12, <1>13 DEF AtServer

\* A setup has a bounded number of steps, for any finite set of servers and
\* any number of setups beside it.
THEOREM SetupsComeToAnEnd ==
    ASSUME IsFiniteSet(Server) PROVE Spec => StepsBringCloser
<1> DEFINE Goes(p) == /\ Advance(p) \/ Stop(p) => Closer(p)
                      /\ pc[p] # "ended" => Closer(p) \/ (pc'[p] = pc[p] /\ todo'[p] = todo[p])
<1>1. TypeOK /\ TypeOK' /\ [Next]_vars => [\A p \in Setup : Goes(p)]_vars
  <2> SUFFICES ASSUME TypeOK, TypeOK', Next, NEW p \in Setup PROVE Goes(p)
    OBVIOUS
  <2>1. ASSUME Finish(p) \/ Stop(p) PROVE Closer(p)
    <3>1. pc[p] \in Running /\ pc'[p] = "ended" /\ todo'[p] = todo[p]
      BY <2>1 DEF Finish, Stop, Step, TypeOK, Running
    <3>2. QED
      BY <3>1 DEF Closer, StepsLeft, Running
  <2>2. Advance(p) \/ Stop(p) => Closer(p)
    BY <2>1, ServerCloser DEF Advance, AtServer
  <2>3. ASSUME pc[p] # "ended", ~(Advance(p) \/ Stop(p))
        PROVE  pc'[p] = pc[p] /\ todo'[p] = todo[p]
    <3>1. ~Start(p)
      BY <2>3 DEF Start, Step
    <3>2. PICK q \in Setup : Start(q) \/ Advance(q) \/ Stop(q)
      BY DEF Next
    <3>3. q # p
      BY <2>3, <3>1, <3>2
    <3>4. CASE Start(q) \/ Finish(q) \/ Stop(q)
      BY <3>3, <3>4 DEF Start, Finish, Stop, Step, TypeOK
    <3>5. CASE \E s \in Server : AtServer(q, s)
      BY <3>3, <3>5, OthersStay
    <3>6. QED
      BY <3>2, <3>4, <3>5 DEF Advance, AtServer
  <2>4. QED
    BY <2>2, <2>3
<1>2. QED
  BY <1>1, TypeCorrect, PTL DEF Spec, StepsBringCloser
=============================================================================
