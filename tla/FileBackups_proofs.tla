------------------------ MODULE FileBackups_proofs --------------------------
(***************************************************************************)
(* Proofs about FileBackups for every number of runs, every retention, any *)
(* number of faults and any length of time.                                *)
(***************************************************************************)
EXTENDS FileBackups, FiniteSetTheorems, TLAPS

\* A write touches one file.
LEMMA WriteEffect ==
    ASSUME TypeOK, NEW r \in Run, NEW c \in Content, Write(r, c)
    PROVE  /\ file' \in [Kind -> [Time -> Content]]
           /\ file'[at[r]][ts[r]] = c
           /\ \A t \in Time \ {ts[r]} : file'[at[r]][t] = file[at[r]][t]
           /\ \A k \in Kind \ {at[r]} : file'[k] = file[k]
  BY DEF Write, TypeOK

\* Completing a file touches that file and the record of complete ones.
LEMMA CompleteEffect ==
    ASSUME TypeOK, NEW r \in Run, Complete(r)
    PROVE  /\ file' \in [Kind -> [Time -> Content]]
           /\ made' \in [Kind -> SUBSET Time]
           /\ Own(r) # "none" => Write(r, "whole")
<1>1. CASE Own(r) = "none"
  BY <1>1 DEF Complete, TypeOK
<1>2. CASE Own(r) # "none"
  <2>1. Write(r, "whole") /\ made' = [made EXCEPT ![at[r]] = @ \cup {ts[r]}]
    BY <1>2 DEF Complete
  <2>2. "whole" \in Content
    BY DEF Content
  <2>3. file' \in [Kind -> [Time -> Content]]
    BY <2>1, <2>2, WriteEffect
  <2>4. made' \in [Kind -> SUBSET Time]
    BY <2>1 DEF TypeOK
  <2>5. QED
    BY <2>1, <2>3, <2>4
<1>3. QED
  BY <1>1, <1>2

\* How a call of each kind is left.
LEMMA LeaveEffect ==
    ASSUME TypeOK, NEW r \in Run, NEW from, NEW result \in {"ok", "raised"},
           Leave(r, from, result)
    PROVE  /\ pc[r] = from
           /\ pc' \in [Run -> Working \cup {"ended"}] /\ at' \in [Run -> Kind]
           /\ ts' \in [Run -> Time] /\ victims' \in [Run -> SUBSET Name({0}, Time)]
           /\ outcome' \in [Run -> [Call -> {"none", "ok", "raised", "killed"}]]
           /\ timer' = timer /\ clock' = clock /\ made' = made
           /\ \A q \in Run \ {r} : /\ pc'[q] = pc[q] /\ at'[q] = at[q] /\ ts'[q] = ts[q]
                                   /\ outcome'[q] = outcome[q]
           /\ at[r] = "config" =>
                 /\ pc'[r] = "capture" /\ at'[r] = "selections" /\ ts'[r] = clock
                 /\ outcome'[r]["config"] = result
           /\ at[r] = "selections" /\ result = "ok" =>
                 /\ pc'[r] = "capture" /\ at'[r] = "list" /\ ts'[r] = ts[r]
                 /\ outcome'[r] = outcome[r]
           /\ at[r] = "list" \/ (at[r] = "selections" /\ result = "raised") =>
                 /\ pc'[r] = "ended" /\ at'[r] = at[r] /\ ts'[r] = ts[r]
                 /\ outcome'[r]["packages"] = result
                 /\ outcome'[r]["config"] = outcome[r]["config"]
<1> USE DEF Call, CallOf, Kind
<1>0. at[r] \in Kind
  BY DEF TypeOK
<1>1. CASE at[r] = "config"
  BY <1>1 DEF Leave, TypeOK, Working
<1>2. CASE at[r] = "selections" /\ result = "ok"
  BY <1>2 DEF Leave, TypeOK, Working
<1>3. CASE at[r] = "list" \/ (at[r] = "selections" /\ result = "raised")
  BY <1>3 DEF Leave, TypeOK, Working
<1>4. QED
  BY <1>0, <1>1, <1>2, <1>3

\* Inside a call only the step changes, of the run's own.
LEMMA StepTypes ==
    ASSUME TypeOK, NEW r \in Run, NEW from, NEW to \in Working, Step(r, from, to)
    PROVE  /\ pc' \in [Run -> Working \cup {"ended"}]
           /\ pc[r] = from /\ pc'[r] = to
           /\ \A q \in Run \ {r} : pc'[q] = pc[q]
  BY DEF Step, TypeOK

\* Faults keep their types.
LEMMA FaultTypes ==
    ASSUME TypeOK, NEW r \in Run, Fault(r) \/ NoFault
    PROVE  /\ faults' \in 0 .. MaxFaults /\ hit' \in [Run -> BOOLEAN]
           /\ \A q \in Run \ {r} : hit'[q] = hit[q]
           /\ Fault(r) => hit'[r]
           /\ hit[r] => hit'[r]
<1>1. faults' \in 0 .. MaxFaults
  BY FileAssumption DEF Fault, NoFault, TypeOK
<1>2. hit' = hit \/ hit' = [hit EXCEPT ![r] = TRUE]
  BY DEF Fault, NoFault
<1>3. hit' \in [Run -> BOOLEAN] /\ \A q \in Run \ {r} : hit'[q] = hit[q]
  BY <1>2 DEF TypeOK
<1>4. (Fault(r) => hit'[r]) /\ (hit[r] => hit'[r])
  BY <1>2 DEF Fault, TypeOK
<1>5. QED
  BY <1>1, <1>3, <1>4

\* The types a step inside a call leaves alone.
LEMMA InCallTypes ==
    ASSUME TypeOK, InCall
    PROVE  /\ timer' \in BOOLEAN /\ clock' \in Time /\ at' \in [Run -> Kind]
           /\ ts' \in [Run -> Time]
           /\ outcome' \in [Run -> [Call -> {"none", "ok", "raised", "killed"}]]
  BY DEF InCall, TypeOK

\* The steps of a call keep the types.
LEMMA AdvanceTypes ==
    ASSUME TypeOK, NEW r \in Run, Advance(r)
    PROVE  TypeOK'
<1>1. CASE OpenArchive(r)
  <2>1. CASE Step(r, "open", "stream") /\ Write(r, "partial") /\ NoFault /\ InCall
                /\ UNCHANGED <<victims, made>>
    BY <2>1, StepTypes, WriteEffect, InCallTypes, FaultTypes DEF TypeOK, Working, Content
  <2>2. CASE Leave(r, "open", "raised") /\ Fault(r) /\ (Write(r, "partial") \/ UNCHANGED file)
    BY <2>2, LeaveEffect, WriteEffect, FaultTypes DEF TypeOK, Content
  <2>3. QED
    BY <1>1, <2>1, <2>2 DEF OpenArchive
<1>2. CASE EndStream(r)
  <2>1. CASE Step(r, "stream", "stat") /\ Complete(r) /\ NoFault /\ InCall /\ UNCHANGED victims
    BY <2>1, StepTypes, CompleteEffect, InCallTypes, FaultTypes DEF TypeOK, Working
  <2>2. CASE Leave(r, "stream", "raised") /\ Fault(r) /\ Write(r, "none")
    BY <2>2, LeaveEffect, WriteEffect, FaultTypes DEF TypeOK, Content
  <2>3. QED
    BY <1>2, <2>1, <2>2 DEF EndStream
<1>3. CASE StatArchive(r)
  <2>1. CASE Step(r, "stat", "retain") /\ InCall /\ UNCHANGED <<victims, made>>
    BY <1>3, <2>1, StepTypes, InCallTypes, FaultTypes DEF StatArchive, TypeOK, Working
  <2>2. CASE Leave(r, "stat", "raised")
    BY <1>3, <2>2, LeaveEffect, FaultTypes DEF StatArchive, TypeOK
  <2>3. QED
    BY <1>3, <2>1, <2>2 DEF StatArchive
<1>4. CASE CaptureList(r)
  <2>1. CASE Step(r, "capture", "create") /\ NoFault /\ InCall /\ UNCHANGED <<victims, made>>
    BY <1>4, <2>1, StepTypes, InCallTypes, FaultTypes DEF CaptureList, TypeOK, Working
  <2>2. CASE Leave(r, "capture", "raised") /\ Fault(r)
    BY <1>4, <2>2, LeaveEffect, FaultTypes DEF CaptureList, TypeOK
  <2>3. QED
    BY <1>4, <2>1, <2>2 DEF CaptureList
<1>5. CASE CreateList(r)
  <2>1. CASE Step(r, "create", "fill") /\ Write(r, "partial") /\ NoFault /\ InCall
                /\ UNCHANGED <<victims, made>>
    BY <2>1, StepTypes, WriteEffect, InCallTypes, FaultTypes DEF TypeOK, Working, Content
  <2>2. CASE Leave(r, "create", "raised") /\ Fault(r) /\ UNCHANGED file
    BY <2>2, LeaveEffect, FaultTypes DEF TypeOK
  <2>3. QED
    BY <1>5, <2>1, <2>2 DEF CreateList
<1>6. CASE FillList(r)
  <2>1. CASE Step(r, "fill", "retain") /\ Complete(r) /\ NoFault /\ InCall /\ UNCHANGED victims
    BY <2>1, StepTypes, CompleteEffect, InCallTypes, FaultTypes DEF TypeOK, Working
  <2>2. CASE Leave(r, "fill", "raised") /\ Fault(r) /\ UNCHANGED file
    BY <2>2, LeaveEffect, FaultTypes DEF TypeOK
  <2>3. QED
    BY <1>6, <2>1, <2>2 DEF FillList
<1>7. CASE ListFiles(r)
  <2>1. ToDelete(Present(at[r]), KeepOf[at[r]]) \subseteq Name({0}, Time)
    BY DEF ToDelete, Present, Name
  <2>2. victims' \in [Run -> SUBSET Name({0}, Time)]
    BY <1>7, <2>1 DEF ListFiles, TypeOK
  <2>3. QED
    BY <1>7, <2>2, StepTypes, InCallTypes, FaultTypes DEF ListFiles, TypeOK, Working
<1>8. CASE Prune(r)
  <2>1. PICK a \in victims[r] :
            \/ /\ Step(r, "prune", "prune")
               /\ file' = [file EXCEPT ![at[r]][a.ts] = "none"]
               /\ victims' = [victims EXCEPT ![r] = @ \ {a}]
               /\ NoFault /\ InCall /\ UNCHANGED made
            \/ Leave(r, "prune", "raised") /\ UNCHANGED file /\ (NoFault \/ Fault(r))
    BY <1>8 DEF Prune
  <2>2. CASE Leave(r, "prune", "raised") /\ UNCHANGED file /\ (NoFault \/ Fault(r))
    BY <2>2, LeaveEffect, FaultTypes DEF TypeOK
  <2>3. CASE /\ Step(r, "prune", "prune")
             /\ file' = [file EXCEPT ![at[r]][a.ts] = "none"]
             /\ victims' = [victims EXCEPT ![r] = @ \ {a}]
             /\ NoFault /\ InCall /\ UNCHANGED made
    <3>1. file' \in [Kind -> [Time -> Content]]
      BY <2>3 DEF TypeOK, Content
    <3>2. victims' \in [Run -> SUBSET Name({0}, Time)]
      BY <2>3 DEF TypeOK
    <3>3. QED
      BY <2>3, <3>1, <3>2, StepTypes, InCallTypes, FaultTypes DEF TypeOK, Working
  <2>4. QED
    BY <2>1, <2>2, <2>3
<1>9. CASE Return(r)
  BY <1>9, LeaveEffect, FaultTypes DEF Return, TypeOK
<1>10. QED
  BY <1>1, <1>2, <1>3, <1>4, <1>5, <1>6, <1>7, <1>8, <1>9 DEF Advance

\* So does every step.
LEMMA NextTypes == TypeOK /\ [Next]_vars => TypeOK'
<1> SUFFICES ASSUME TypeOK, [Next]_vars PROVE TypeOK'
  OBVIOUS
<1>1. ASSUME NEW r \in Run, Start(r) PROVE TypeOK'
  <2>1. /\ outcome' \in [Run -> [Call -> {"none", "ok", "raised", "killed"}]]
        /\ at' \in [Run -> Kind] /\ ts' \in [Run -> Time] /\ hit' \in [Run -> BOOLEAN]
    BY <1>1 DEF Start, TypeOK, Kind
  <2>2. QED
    BY <1>1, <2>1, StepTypes DEF Start, TypeOK, Working
<1>2. ASSUME NEW r \in Run, Crash(r) PROVE TypeOK'
  <2>1. /\ outcome' \in [Run -> [Call -> {"none", "ok", "raised", "killed"}]]
        /\ victims' \in [Run -> SUBSET Name({0}, Time)]
        /\ pc' \in [Run -> Working \cup {"ended"}]
    BY <1>2 DEF Crash, TypeOK, CallOf, Call
  <2>2. QED
    BY <1>2, <2>1, FaultTypes DEF Crash, TypeOK
<1>3. CASE Tick
  <2>1. clock' \in Time
    BY <1>3, FileAssumption DEF Tick, TypeOK, Time
  <2>2. QED
    BY <1>3, <2>1 DEF Tick, TypeOK
<1>4. CASE UNCHANGED vars
  BY <1>4 DEF vars, TypeOK
<1>5. QED
  BY <1>1, <1>2, <1>3, <1>4, AdvanceTypes DEF Next

-----------------------------------------------------------------------------
(* The documented deployment.                                              *)

\* All files of kind k are older than x, or not newer.
Below(k, x) == \A t \in Time : file[k][t] # "none" => t < x
Upto(k, x)  == \A t \in Time : file[k][t] # "none" => t <= x

\* The newest file of kind k is complete.
NewestWhole(k) == \E t \in Whole(k) : \A u \in Time : u > t => file[k][u] = "none"

\* Where a running call is, and what its own file is like there.
Position(r) ==
    /\ pc[r] \in {"open", "stream", "stat"} => at[r] = "config"
    /\ pc[r] \in {"capture", "create", "fill"} => at[r] # "config"
    /\ \A k \in Kind : Upto(k, ts[r])
    /\ at[r] = "config" => Below("selections", ts[r]) /\ Below("list", ts[r])
    /\ at[r] = "selections" => Below("list", ts[r])
    /\ pc[r] \in {"open", "capture", "create"} => Below(at[r], ts[r])
    /\ pc[r] \in {"stream", "fill"} => Own(r) = "partial"
    /\ pc[r] \in {"stat", "retain", "prune"} => Own(r) = "whole"
    /\ pc[r] = "prune" =>
          \A a \in victims[r] : a.ts < ts[r] /\ file[at[r]][a.ts] # "none"

\* What a call that met no fault has achieved so far.
Results(r) ==
    ~hit[r] =>
        /\ pc[r] # "ended" /\ at[r] # "config"
              => outcome[r]["config"] = "ok" /\ NewestWhole("config")
        /\ pc[r] # "ended" /\ at[r] = "list" => NewestWhole("selections")
        /\ pc[r] = "ended" /\ Started(r)
              => /\ outcome[r]["config"] = "ok" /\ outcome[r]["packages"] = "ok"
                 /\ (\E q \in Run : ts[q] > ts[r]) \/ (\A k \in Kind : NewestWhole(k))

\* A step of the complete copies: none, one that enters as the newest, or one
\* that leaves while a newer one stays.
Copies == [k \in Kind |-> Whole(k)]

VaultStep ==
    \/ Copies' = Copies
    \/ \E k \in Kind, t \in Time :
          /\ \A u \in Copies[k] : u < t
          /\ Copies' = [Copies EXCEPT ![k] = @ \cup {t}]
    \/ \E k \in Kind : \E t \in Copies[k], u \in Copies[k] :
          /\ t < u
          /\ Copies' = [Copies EXCEPT ![k] = @ \ {t}]

\* A write that makes nothing complete and takes nothing complete away.
LEMMA SameCopies ==
    ASSUME TypeOK, TypeOK', \A k \in Kind, t \in Time : file'[k][t] = "whole" <=> file[k][t] = "whole"
    PROVE  VaultStep
<1>1. \A k \in Kind : Whole(k)' = Whole(k)
  BY DEF Whole
<1>2. Copies' = Copies
  BY <1>1 DEF Copies
<1>3. QED
  BY <1>2 DEF VaultStep

\* Completing the newest file is a deposit,
LEMMA DepositStep ==
    ASSUME TypeOK, TypeOK', NEW k \in Kind, NEW t \in Time,
           Upto(k, t), file[k][t] = "partial", file'[k][t] = "whole",
           \A l \in Kind \ {k} : file'[l] = file[l],
           \A u \in Time \ {t} : file'[k][u] = file[k][u]
    PROVE  VaultStep
<1>1. \A l \in Kind \ {k} : Whole(l)' = Whole(l)
  BY DEF Whole
<1>2. Whole(k)' = Whole(k) \cup {t}
  BY DEF Whole
<1>3. \A u \in Whole(k) : u < t
  BY DEF Whole, Upto, Time
<1>4. Copies' = [Copies EXCEPT ![k] = @ \cup {t}] /\ Copies[k] = Whole(k)
  BY <1>1, <1>2 DEF Copies
<1>5. QED
  BY <1>3, <1>4 DEF VaultStep

\* ... deleting one that is older than a complete one an expiry.
LEMMA ExpireStep ==
    ASSUME TypeOK, TypeOK', NEW k \in Kind, NEW t \in Time, NEW u \in Time,
           t < u, file[k][u] = "whole", file[k][t] = "whole", file'[k][t] = "none",
           \A l \in Kind \ {k} : file'[l] = file[l],
           \A v \in Time \ {t} : file'[k][v] = file[k][v]
    PROVE  VaultStep
<1>1. \A l \in Kind \ {k} : Whole(l)' = Whole(l)
  BY DEF Whole
<1>2. Whole(k)' = Whole(k) \ {t} /\ t \in Whole(k) /\ u \in Whole(k)
  BY DEF Whole
<1>3. Copies' = [Copies EXCEPT ![k] = @ \ {t}] /\ Copies[k] = Whole(k)
  BY <1>1, <1>2 DEF Copies
<1>4. QED
  BY <1>2, <1>3 DEF VaultStep

\* The retention deletes nothing but files that have a newer one.
LEMMA VictimsOlder ==
    ASSUME TypeOK, NEW k \in Kind, NEW keep \in Int, keep >= 1,
           NEW a \in ToDelete(Present(k), keep)
    PROVE  /\ a.ts \in Time /\ a = [rank |-> 0, ts |-> a.ts] /\ file[k][a.ts] # "none"
           /\ \E t \in Time : file[k][t] # "none" /\ a.ts < t
<1>1. a \in Present(k) /\ Cardinality({g \in Present(k) : NameBefore(a, g)}) >= keep
  BY DEF ToDelete
<1>2. {g \in Present(k) : NameBefore(a, g)} # {}
  BY <1>1, FS_EmptySet
<1>3. PICK g \in Present(k) : NameBefore(a, g)
  BY <1>2
<1>4. QED
  BY <1>1, <1>3 DEF Present, NameBefore, Time

\* At most the file the call is at changes.
OwnOnly(r) ==
    /\ \A k \in Kind \ {at[r]} : file'[k] = file[k]
    /\ \A t \in Time \ {ts[r]} : file'[at[r]][t] = file[at[r]][t]

\* What a step of the running call does to the files, to the call and to what
\* is promised.
Sound(r) ==
    /\ \A k \in Kind, t \in Time : file'[k][t] # "none" => file[k][t] # "none" \/ t = ts[r]
    /\ pc'[r] # "ended" => Position(r)'
    /\ Results(r)'
    /\ VaultStep

\* Moving on to the package lists, or from the first list to the second, the
\* call has no file of the new kind that is as new as it is.
LEMMA LeavePosition ==
    ASSUME TypeOK, TypeOK', NEW r \in Run, Position(r), ts[r] <= clock, OwnOnly(r),
           NEW from, NEW result \in {"ok", "raised"}, Leave(r, from, result)
    PROVE  pc'[r] # "ended" => Position(r)'
<1>1. CASE at[r] = "config"
  <2>1. /\ pc'[r] = "capture" /\ at'[r] = "selections" /\ ts'[r] = clock
        /\ ts[r] \in Time /\ clock \in Time /\ clock' = clock
    BY <1>1, LeaveEffect DEF TypeOK
  <2>2. file'["selections"] = file["selections"] /\ file'["list"] = file["list"]
    BY <1>1 DEF OwnOnly, Kind
  <2>3. Below("selections", clock)' /\ Below("list", clock)'
    <3>1. Below("selections", ts[r]) /\ Below("list", ts[r])
      BY <1>1 DEF Position
    <3>2. QED
      BY <2>1, <2>2, <3>1 DEF Below, Time
  <2>4. \A t \in Time : file'["config"][t] # "none" => t <= clock
    <3>1. Upto("config", ts[r])
      BY DEF Position, Kind
    <3>2. \A t \in Time : t # ts[r] => file'["config"][t] = file["config"][t]
      BY <1>1 DEF OwnOnly
    <3>3. QED
      BY <2>1, <3>1, <3>2 DEF Upto, Time
  <2>5. \A k \in Kind : Upto(k, ts[r])'
    BY <2>1, <2>3, <2>4 DEF Below, Upto, Kind, Time
  <2>6. QED
    BY <2>1, <2>3, <2>5, LeaveEffect DEF Position, Below
<1>2. CASE at[r] = "selections" /\ result = "ok"
  <2>1. /\ pc'[r] = "capture" /\ at'[r] = "list" /\ ts'[r] = ts[r] /\ ts[r] \in Time
    BY <1>2, LeaveEffect DEF TypeOK
  <2>2. file'["config"] = file["config"] /\ file'["list"] = file["list"]
    BY <1>2 DEF OwnOnly, Kind
  <2>3. Below("list", ts[r])'
    BY <1>2, <2>1, <2>2 DEF Position, Below
  <2>4. \A k \in Kind : Upto(k, ts[r])'
    <3>1. \A k \in Kind : Upto(k, ts[r])
      BY DEF Position
    <3>2. \A t \in Time : t # ts[r] => file'["selections"][t] = file["selections"][t]
      BY <1>2 DEF OwnOnly
    <3>3. QED
      BY <2>1, <2>2, <3>1, <3>2 DEF Upto, Kind, Time
  <2>5. QED
    BY <2>1, <2>3, <2>4 DEF Position
<1>3. CASE at[r] = "list" \/ (at[r] = "selections" /\ result = "raised")
  BY <1>3, LeaveEffect
<1>4. QED
  BY <1>1, <1>2, <1>3 DEF TypeOK, Kind

\* A step inside the call that changes no file of another kind.
LEMMA StayResults ==
    ASSUME TypeOK, TypeOK', NEW r \in Run, Results(r), OwnOnly(r), InCall,
           NEW from \in Working, NEW to \in Working, Step(r, from, to), NoFault
    PROVE  Results(r)'
<1>1. /\ pc[r] # "ended" /\ pc'[r] # "ended" /\ at'[r] = at[r] /\ outcome' = outcome
      /\ hit' = hit
  BY StepTypes DEF InCall, NoFault, Working
<1>2. \A k \in Kind \ {at[r]} : NewestWhole(k) => NewestWhole(k)'
  BY DEF OwnOnly, NewestWhole, Whole
<1>3. QED
  BY <1>1, <1>2 DEF Results, Kind

\* The archive of the configuration ...
LEMMA OpenSound ==
    ASSUME TypeOK, TypeOK', NEW r \in Run, Position(r), Results(r), ts[r] <= clock,
           OpenArchive(r)
    PROVE  Sound(r)
<1>1. /\ pc[r] = "open" /\ at[r] = "config" /\ at[r] \in Kind /\ ts[r] \in Time
      /\ Below(at[r], ts[r])
  BY LeaveEffect, StepTypes DEF OpenArchive, Position, TypeOK, Working
<1>2. Own(r) = "none"
  BY <1>1 DEF Below, Own, TypeOK, Time
<1>3. OwnOnly(r) /\ file'[at[r]][ts[r]] \in {"none", "partial"}
  BY <1>1, <1>2, WriteEffect DEF OpenArchive, OwnOnly, Own, Content
<1>4. VaultStep
  BY <1>1, <1>2, <1>3, SameCopies DEF OwnOnly, Own
<1>5. \A k \in Kind, t \in Time : file'[k][t] # "none" => file[k][t] # "none" \/ t = ts[r]
  BY <1>3 DEF OwnOnly
<1>6. CASE Step(r, "open", "stream") /\ Write(r, "partial") /\ NoFault /\ InCall
  <2>1. /\ pc'[r] = "stream" /\ at' = at /\ ts' = ts /\ file'[at[r]][ts[r]] = "partial"
    BY <1>6, StepTypes, WriteEffect DEF InCall, Working, Content
  <2>2. \A k \in Kind : Upto(k, ts[r])'
    BY <1>1, <1>3, <2>1 DEF OwnOnly, Position, Upto, Time
  <2>3. Below("selections", ts[r])' /\ Below("list", ts[r])'
    BY <1>1, <1>3, <2>1 DEF OwnOnly, Position, Below, Kind
  <2>4. Position(r)'
    BY <1>1, <2>1, <2>2, <2>3 DEF Position, Own
  <2>5. Results(r)'
    BY <1>3, <1>6, StayResults DEF Working
  <2>6. QED
    BY <1>4, <1>5, <2>4, <2>5 DEF Sound
<1>7. CASE Leave(r, "open", "raised") /\ Fault(r)
  <2>1. pc'[r] # "ended" => Position(r)'
    BY <1>3, <1>7, LeavePosition
  <2>2. Results(r)'
    BY <1>7, FaultTypes DEF Results
  <2>3. QED
    BY <1>4, <1>5, <2>1, <2>2 DEF Sound
<1>8. QED
  BY <1>6, <1>7 DEF OpenArchive

\* The end of the pipe: a whole archive, a failed call or a removed file.
LEMMA StreamSound ==
    ASSUME TypeOK, TypeOK', NEW r \in Run, Position(r), Results(r), ts[r] <= clock,
           EndStream(r)
    PROVE  Sound(r)
<1>1. /\ pc[r] = "stream" /\ at[r] = "config" /\ at[r] \in Kind /\ ts[r] \in Time
      /\ Own(r) = "partial" /\ Upto(at[r], ts[r])
  BY LeaveEffect, StepTypes DEF EndStream, Position, TypeOK, Working
<1>2. CASE Step(r, "stream", "stat") /\ Complete(r) /\ NoFault /\ InCall
  <2>1. OwnOnly(r) /\ file'[at[r]][ts[r]] = "whole"
    BY <1>1, <1>2, CompleteEffect, WriteEffect DEF OwnOnly, Content
  <2>2. VaultStep
    BY <1>1, <2>1, DepositStep DEF OwnOnly, Own
  <2>3. /\ pc'[r] = "stat" /\ at' = at /\ ts' = ts
    BY <1>2, StepTypes DEF InCall, Working
  <2>4. \A k \in Kind : Upto(k, ts[r])'
    BY <1>1, <2>1, <2>3 DEF OwnOnly, Position, Upto, Time
  <2>5. Below("selections", ts[r])' /\ Below("list", ts[r])'
    BY <1>1, <2>1, <2>3 DEF OwnOnly, Position, Below, Kind
  <2>6. Position(r)'
    BY <1>1, <2>1, <2>3, <2>4, <2>5 DEF Position, Own
  <2>7. Results(r)'
    BY <1>2, <2>1, StayResults DEF Working
  <2>8. QED
    BY <2>1, <2>2, <2>6, <2>7 DEF Sound, OwnOnly
<1>3. CASE Leave(r, "stream", "raised") /\ Fault(r) /\ Write(r, "none")
  <2>1. OwnOnly(r) /\ file'[at[r]][ts[r]] = "none"
    BY <1>3, WriteEffect DEF OwnOnly, Content
  <2>2. VaultStep
    BY <1>1, <2>1, SameCopies DEF OwnOnly, Own
  <2>3. pc'[r] # "ended" => Position(r)'
    BY <1>3, <2>1, LeavePosition
  <2>4. Results(r)'
    BY <1>3, FaultTypes DEF Results
  <2>5. QED
    BY <2>1, <2>2, <2>3, <2>4 DEF Sound, OwnOnly
<1>4. QED
  BY <1>2, <1>3 DEF EndStream

\* The size of the archive is read; the files stay.
LEMMA StatSound ==
    ASSUME TypeOK, TypeOK', NEW r \in Run, Position(r), Results(r), ts[r] <= clock,
           StatArchive(r)
    PROVE  Sound(r)
<1>1. pc[r] = "stat" /\ file' = file
  BY LeaveEffect, StepTypes DEF StatArchive, Working
<1>2. Own(r) = "whole" /\ at[r] = "config"
  BY <1>1 DEF Position
<1>3. Step(r, "stat", "retain") /\ InCall /\ NoFault
  BY <1>2 DEF StatArchive
<1>4. pc'[r] = "retain" /\ at' = at /\ ts' = ts
  BY <1>3, StepTypes DEF InCall, Working
<1>5. Position(r)'
  BY <1>1, <1>2, <1>4 DEF Position, Own, Upto, Below
<1>6. Results(r)'
  BY <1>1, <1>3, StayResults DEF Working, OwnOnly
<1>7. VaultStep
  BY <1>1, SameCopies
<1>8. QED
  BY <1>1, <1>5, <1>6, <1>7 DEF Sound

\* ... the package lists ...
LEMMA CaptureSound ==
    ASSUME TypeOK, TypeOK', NEW r \in Run, Position(r), Results(r), ts[r] <= clock,
           CaptureList(r)
    PROVE  Sound(r)
<1>1. pc[r] = "capture" /\ file' = file
  BY LeaveEffect, StepTypes DEF CaptureList, Working
<1>2. VaultStep
  BY <1>1, SameCopies
<1>3. CASE Step(r, "capture", "create") /\ NoFault /\ InCall
  <2>1. pc'[r] = "create" /\ at' = at /\ ts' = ts
    BY <1>3, StepTypes DEF InCall, Working
  <2>2. Position(r)'
    BY <1>1, <2>1 DEF Position, Own, Upto, Below
  <2>3. Results(r)'
    BY <1>1, <1>3, StayResults DEF Working, OwnOnly
  <2>4. QED
    BY <1>1, <1>2, <2>2, <2>3 DEF Sound
<1>4. CASE Leave(r, "capture", "raised") /\ Fault(r)
  <2>1. pc'[r] # "ended" => Position(r)'
    BY <1>1, <1>4, LeavePosition DEF OwnOnly
  <2>2. Results(r)'
    BY <1>4, FaultTypes DEF Results
  <2>3. QED
    BY <1>1, <1>2, <2>1, <2>2 DEF Sound
<1>5. QED
  BY <1>3, <1>4 DEF CaptureList

\* A package list is opened: nothing a whole file stood for is lost.
LEMMA CreateSound ==
    ASSUME TypeOK, TypeOK', NEW r \in Run, Position(r), Results(r), ts[r] <= clock,
           CreateList(r)
    PROVE  Sound(r)
<1>1. /\ pc[r] = "create" /\ at[r] # "config" /\ at[r] \in Kind /\ ts[r] \in Time
      /\ Below(at[r], ts[r])
  BY LeaveEffect, StepTypes DEF CreateList, Position, TypeOK, Working
<1>2. Own(r) = "none"
  BY <1>1 DEF Below, Own, TypeOK, Time
<1>3. OwnOnly(r) /\ file'[at[r]][ts[r]] \in {"none", "partial"}
  BY <1>1, <1>2, WriteEffect DEF CreateList, OwnOnly, Own, Content
<1>4. VaultStep
  BY <1>1, <1>2, <1>3, SameCopies DEF OwnOnly, Own
<1>5. \A k \in Kind, t \in Time : file'[k][t] # "none" => file[k][t] # "none" \/ t = ts[r]
  BY <1>3 DEF OwnOnly
<1>6. CASE Step(r, "create", "fill") /\ Write(r, "partial") /\ NoFault /\ InCall
  <2>1. /\ pc'[r] = "fill" /\ at' = at /\ ts' = ts /\ file'[at[r]][ts[r]] = "partial"
    BY <1>6, StepTypes, WriteEffect DEF InCall, Working, Content
  <2>2. \A k \in Kind : Upto(k, ts[r])'
    BY <1>1, <1>3, <2>1 DEF OwnOnly, Position, Upto, Time
  <2>3. at[r] = "selections" => Below("list", ts[r])'
    BY <1>1, <1>3, <2>1 DEF OwnOnly, Position, Below, Kind
  <2>4. Position(r)'
    BY <1>1, <2>1, <2>2, <2>3 DEF Position, Own
  <2>5. Results(r)'
    BY <1>3, <1>6, StayResults DEF Working
  <2>6. QED
    BY <1>4, <1>5, <2>4, <2>5 DEF Sound
<1>7. CASE Leave(r, "create", "raised") /\ Fault(r)
  <2>1. pc'[r] # "ended" => Position(r)'
    BY <1>3, <1>7, LeavePosition
  <2>2. Results(r)'
    BY <1>7, FaultTypes DEF Results
  <2>3. QED
    BY <1>4, <1>5, <2>1, <2>2 DEF Sound
<1>8. QED
  BY <1>6, <1>7 DEF CreateList

\* A package list is written: the deposit of Vault.
LEMMA FillSound ==
    ASSUME TypeOK, TypeOK', NEW r \in Run, Position(r), Results(r), ts[r] <= clock,
           FillList(r)
    PROVE  Sound(r)
<1>1. /\ pc[r] = "fill" /\ at[r] # "config" /\ at[r] \in Kind /\ ts[r] \in Time
      /\ Own(r) = "partial" /\ Upto(at[r], ts[r])
  BY LeaveEffect, StepTypes DEF FillList, Position, TypeOK, Working
<1>2. CASE Step(r, "fill", "retain") /\ Complete(r) /\ NoFault /\ InCall
  <2>1. OwnOnly(r) /\ file'[at[r]][ts[r]] = "whole"
    BY <1>1, <1>2, CompleteEffect, WriteEffect DEF OwnOnly, Content
  <2>2. VaultStep
    BY <1>1, <2>1, DepositStep DEF OwnOnly, Own
  <2>3. /\ pc'[r] = "retain" /\ at' = at /\ ts' = ts
    BY <1>2, StepTypes DEF InCall, Working
  <2>4. \A k \in Kind : Upto(k, ts[r])'
    BY <1>1, <2>1, <2>3 DEF OwnOnly, Position, Upto, Time
  <2>5. at[r] = "selections" => Below("list", ts[r])'
    BY <1>1, <2>1, <2>3 DEF OwnOnly, Position, Below, Kind
  <2>6. Position(r)'
    BY <1>1, <2>1, <2>3, <2>4, <2>5 DEF Position, Own
  <2>7. Results(r)'
    BY <1>2, <2>1, StayResults DEF Working
  <2>8. QED
    BY <2>1, <2>2, <2>6, <2>7 DEF Sound, OwnOnly
<1>3. CASE Leave(r, "fill", "raised") /\ Fault(r) /\ UNCHANGED file
  <2>1. VaultStep
    BY <1>3, SameCopies
  <2>2. pc'[r] # "ended" => Position(r)'
    BY <1>3, LeavePosition DEF OwnOnly
  <2>3. Results(r)'
    BY <1>3, FaultTypes DEF Results
  <2>4. QED
    BY <1>3, <2>1, <2>2, <2>3 DEF Sound
<1>4. QED
  BY <1>2, <1>3 DEF FillList

\* ... and the retention, which never takes the file of the call itself.
LEMMA ListSound ==
    ASSUME Documented, TypeOK, TypeOK', NEW r \in Run, Position(r), Results(r),
           ts[r] <= clock, ListFiles(r)
    PROVE  Sound(r)
<1>1. /\ pc[r] = "retain" /\ at[r] \in Kind /\ ts[r] \in Time /\ file' = file
      /\ Own(r) = "whole" /\ Upto(at[r], ts[r])
  BY StepTypes DEF ListFiles, Position, TypeOK, Working
<1>2. /\ pc'[r] = "prune" /\ at' = at /\ ts' = ts
      /\ victims'[r] = ToDelete(Present(at[r]), KeepOf[at[r]])
  BY StepTypes DEF ListFiles, InCall, Working, TypeOK
<1>3. KeepOf[at[r]] \in Int /\ KeepOf[at[r]] >= 1
  BY <1>1, FileAssumption DEF Documented
<1>4. \A a \in victims'[r] : a.ts < ts[r] /\ file[at[r]][a.ts] # "none"
  <2>1. SUFFICES ASSUME NEW a \in victims'[r]
                 PROVE  a.ts < ts[r] /\ file[at[r]][a.ts] # "none"
    OBVIOUS
  <2>2. /\ a.ts \in Time /\ file[at[r]][a.ts] # "none"
        /\ \E t \in Time : file[at[r]][t] # "none" /\ a.ts < t
    BY <1>1, <1>2, <1>3, VictimsOlder
  <2>3. QED
    BY <1>1, <2>2 DEF Upto, Time
<1>5. Position(r)'
  BY <1>1, <1>2, <1>4 DEF Position, Own, Upto, Below
<1>6. Results(r)'
  BY <1>1, StayResults DEF ListFiles, Working, OwnOnly
<1>7. VaultStep
  BY <1>1, SameCopies
<1>8. QED
  BY <1>1, <1>5, <1>6, <1>7 DEF Sound

\* One unlink of retention: the expiry of Vault, or of a partial file.
LEMMA PruneSound ==
    ASSUME TypeOK, TypeOK', NEW r \in Run, Position(r), Results(r), ts[r] <= clock,
           Prune(r)
    PROVE  Sound(r)
<1>1. /\ pc[r] = "prune" /\ at[r] \in Kind /\ ts[r] \in Time /\ victims[r] \in SUBSET Name({0}, Time)
  BY LeaveEffect, StepTypes DEF Prune, TypeOK, Working
<1>2. PICK a \in victims[r] :
          \/ /\ file[at[r]][a.ts] # "none"
             /\ Step(r, "prune", "prune")
             /\ file' = [file EXCEPT ![at[r]][a.ts] = "none"]
             /\ victims' = [victims EXCEPT ![r] = @ \ {a}]
             /\ NoFault /\ InCall
          \/ /\ Leave(r, "prune", "raised") /\ UNCHANGED file
             /\ IF file[at[r]][a.ts] = "none" THEN NoFault ELSE Fault(r)
  BY DEF Prune
<1>3. /\ Own(r) = "whole" /\ a.ts < ts[r] /\ file[at[r]][a.ts] # "none"
      /\ a.ts \in Time /\ a.ts # ts[r]
  BY <1>1 DEF Position, Name, Time
<1>4. CASE Leave(r, "prune", "raised") /\ UNCHANGED file /\ Fault(r)
  <2>1. VaultStep
    BY <1>4, SameCopies
  <2>2. pc'[r] # "ended" => Position(r)'
    BY <1>4, LeavePosition DEF OwnOnly
  <2>3. Results(r)'
    BY <1>4, FaultTypes DEF Results
  <2>4. QED
    BY <1>4, <2>1, <2>2, <2>3 DEF Sound
<1>5. CASE /\ Step(r, "prune", "prune")
           /\ file' = [file EXCEPT ![at[r]][a.ts] = "none"]
           /\ victims' = [victims EXCEPT ![r] = @ \ {a}]
           /\ NoFault /\ InCall
  <2>1. /\ pc'[r] = "prune" /\ at' = at /\ ts' = ts /\ outcome' = outcome /\ hit' = hit
        /\ victims'[r] = victims[r] \ {a}
    BY <1>5, StepTypes DEF InCall, NoFault, Working, TypeOK
  <2>2. /\ file'[at[r]][a.ts] = "none"
        /\ \A t \in Time \ {a.ts} : file'[at[r]][t] = file[at[r]][t]
        /\ \A k \in Kind \ {at[r]} : file'[k] = file[k]
    BY <1>1, <1>3, <1>5 DEF TypeOK
  <2>3. \A k \in Kind, t \in Time : file'[k][t] # "none" => file'[k][t] = file[k][t]
    BY <2>2
  <2>4. VaultStep
    <3>1. CASE file[at[r]][a.ts] = "whole"
      BY <1>1, <1>3, <2>2, <3>1, ExpireStep DEF Own
    <3>2. CASE file[at[r]][a.ts] # "whole"
      BY <2>2, <3>2, SameCopies
    <3>3. QED
      BY <3>1, <3>2
  <2>5. \A b \in victims[r] \ {a} : b.ts # a.ts /\ b.ts \in Time
    BY <1>1 DEF Name
  <2>6. Position(r)'
    <3>1. \A b \in victims'[r] : b.ts < ts[r] /\ file'[at[r]][b.ts] # "none"
      BY <1>1, <2>1, <2>2, <2>5 DEF Position
    <3>2. \A k \in Kind : Upto(k, ts[r])'
      BY <2>1, <2>3 DEF Position, Upto
    <3>3. /\ at[r] = "config" => Below("selections", ts[r])' /\ Below("list", ts[r])'
          /\ at[r] = "selections" => Below("list", ts[r])'
      BY <2>1, <2>3 DEF Position, Below, Kind
    <3>4. Own(r)' = "whole"
      BY <1>1, <1>3, <2>1, <2>2 DEF Own
    <3>5. QED
      BY <2>1, <3>1, <3>2, <3>3, <3>4 DEF Position
  <2>7. Results(r)'
    <3>1. \A k \in Kind \ {at[r]} : NewestWhole(k) => NewestWhole(k)'
      BY <2>2 DEF NewestWhole, Whole
    <3>2. QED
      BY <1>1, <2>1, <3>1 DEF Results, Kind
  <2>8. QED
    BY <2>3, <2>4, <2>6, <2>7 DEF Sound
<1>6. QED
  BY <1>2, <1>3, <1>4, <1>5

\* The end of a call, or the step from one list to the next.
LEMMA ReturnSound ==
    ASSUME TypeOK, TypeOK', NEW r \in Run, Position(r), Results(r), ts[r] <= clock,
           Return(r)
    PROVE  Sound(r)
<1>1. /\ pc[r] = "prune" /\ at[r] \in Kind /\ ts[r] \in Time /\ file' = file
      /\ Own(r) = "whole" /\ Upto(at[r], ts[r]) /\ hit' = hit /\ Leave(r, "prune", "ok")
  BY LeaveEffect DEF Return, Position, TypeOK, NoFault
<1>2. VaultStep
  BY <1>1, SameCopies
<1>3. pc'[r] # "ended" => Position(r)'
  BY <1>1, LeavePosition DEF OwnOnly
<1>4. ASSUME NEW k \in Kind, k = at[r] PROVE NewestWhole(k)'
  <2>1. ts[r] \in Whole(k) /\ \A u \in Time : u > ts[r] => file[k][u] = "none"
    BY <1>1, <1>4 DEF Whole, Own, Upto, Time
  <2>2. Whole(k)' = Whole(k)
    BY <1>1 DEF Whole
  <2>3. QED
    BY <1>1, <2>1, <2>2 DEF NewestWhole
<1>5. \A k \in Kind : NewestWhole(k) => NewestWhole(k)'
  BY <1>1 DEF NewestWhole, Whole
<1>6. Results(r)'
  <2>1. pc[r] # "ended"
    BY <1>1
  <2>2. CASE at[r] = "config"
    BY <1>1, <1>4, <2>2, LeaveEffect DEF Results, Kind
  <2>3. CASE at[r] = "selections"
    BY <1>1, <1>4, <1>5, <2>1, <2>3, LeaveEffect DEF Results, Kind
  <2>4. CASE at[r] = "list"
    <3>1. pc'[r] = "ended" /\ outcome'[r]["packages"] = "ok"
          /\ outcome'[r]["config"] = outcome[r]["config"]
      BY <1>1, <2>4, LeaveEffect
    <3>2. ~hit[r] => outcome[r]["config"] = "ok" /\ \A k \in Kind : NewestWhole(k)'
      BY <1>4, <1>5, <2>1, <2>4 DEF Results, Kind
    <3>3. QED
      BY <1>1, <3>1, <3>2 DEF Results
  <2>5. QED
    BY <1>1, <2>2, <2>3, <2>4 DEF Kind
<1>7. QED
  BY <1>1, <1>2, <1>3, <1>6 DEF Sound

-----------------------------------------------------------------------------
\* The documented deployment has one call at a time, and no file is newer than
\* the calls that have begun.
DocInv ==
    /\ TypeOK
    /\ timer
    /\ \A r, q \in Run : pc[r] # "ended" /\ pc[q] # "ended" => r = q
    /\ \A r \in Run : ts[r] <= clock
    /\ \A r, q \in Run : pc[r] # "ended" /\ q # r /\ Started(q) => ts[q] < ts[r]
    /\ \A k \in Kind, t \in Time :
          file[k][t] # "none" => \E q \in Run : Started(q) /\ t <= ts[q]
    /\ \A r \in Run : pc[r] # "ended" => Position(r)
    /\ \A r \in Run : Results(r)

\* What a running call does beside its sound step: nothing to the others.
LEMMA AdvanceFrame ==
    ASSUME TypeOK, TypeOK', NEW r \in Run, Advance(r) \/ Crash(r)
    PROVE  /\ pc[r] # "ended" /\ timer' = timer /\ clock' = clock
           /\ ts'[r] \in {ts[r], clock}
           /\ \A q \in Run \ {r} : /\ pc'[q] = pc[q] /\ at'[q] = at[q] /\ ts'[q] = ts[q]
                                   /\ outcome'[q] = outcome[q] /\ hit'[q] = hit[q]
           /\ Started(r)'
<1>1. CASE Crash(r)
  <2>1. /\ pc[r] # "ended" /\ timer' = timer /\ clock' = clock /\ ts' = ts /\ at' = at
        /\ \A q \in Run \ {r} : pc'[q] = pc[q] /\ outcome'[q] = outcome[q] /\ hit'[q] = hit[q]
    BY <1>1, FaultTypes DEF Crash, Working, TypeOK
  <2>2. outcome'[r][CallOf[at[r]]] = "killed" /\ CallOf[at[r]] \in Call
    BY <1>1 DEF Crash, TypeOK, CallOf, Call, Kind
  <2>3. QED
    BY <2>1, <2>2 DEF Started
<1>2. CASE \E from, to \in Working : Step(r, from, to) /\ InCall /\ (Fault(r) \/ NoFault)
  BY <1>2, StepTypes, FaultTypes DEF InCall, Started, Working
<1>3. CASE \E from \in Working, result \in {"ok", "raised"} :
              Leave(r, from, result) /\ (Fault(r) \/ NoFault)
  <2>1. PICK from \in Working, result \in {"ok", "raised"} :
            Leave(r, from, result) /\ (Fault(r) \/ NoFault)
    BY <1>3
  <2>2. /\ pc[r] # "ended" /\ timer' = timer /\ clock' = clock
        /\ ts'[r] \in {ts[r], clock}
        /\ \A q \in Run \ {r} : /\ pc'[q] = pc[q] /\ at'[q] = at[q] /\ ts'[q] = ts[q]
                                /\ outcome'[q] = outcome[q] /\ hit'[q] = hit[q]
    BY <2>1, LeaveEffect, FaultTypes DEF Working, TypeOK, Kind
  <2>3. pc'[r] # "ended" \/ outcome'[r]["packages"] = result
    BY <2>1, LeaveEffect DEF TypeOK, Kind
  <2>4. QED
    BY <2>2, <2>3 DEF Started, Call
<1>4. CASE Advance(r)
  <2>1. \/ \E from, to \in Working : Step(r, from, to) /\ InCall /\ (Fault(r) \/ NoFault)
        \/ \E from \in Working, result \in {"ok", "raised"} :
              Leave(r, from, result) /\ (Fault(r) \/ NoFault)
    <3>1. CASE OpenArchive(r) \/ EndStream(r)
      BY <3>1 DEF OpenArchive, EndStream, Working
    <3>2. CASE StatArchive(r) \/ CaptureList(r)
      BY <3>2 DEF StatArchive, CaptureList, Working
    <3>3. CASE CreateList(r) \/ FillList(r)
      BY <3>3 DEF CreateList, FillList, Working
    <3>4. CASE ListFiles(r) \/ Return(r)
      BY <3>4 DEF ListFiles, Return, Working
    <3>5. CASE Prune(r)
      BY <3>5 DEF Prune, Working
    <3>6. QED
      BY <1>4, <3>1, <3>2, <3>3, <3>4, <3>5 DEF Advance
  <2>2. QED
    BY <1>2, <1>3, <2>1
<1>5. QED
  BY <1>1, <1>4

\* Every step of a running call is sound.
LEMMA AdvanceSound ==
    ASSUME Documented, DocInv, TypeOK', NEW r \in Run, Advance(r) \/ Crash(r)
    PROVE  Sound(r)
<1>1. pc[r] # "ended"
  BY AdvanceFrame DEF DocInv
<1>2. TypeOK /\ Position(r) /\ Results(r) /\ ts[r] <= clock
  BY <1>1 DEF DocInv
<1>3. CASE Advance(r)
  BY <1>2, <1>3, OpenSound, StreamSound, StatSound, CaptureSound, CreateSound, FillSound,
     ListSound, PruneSound, ReturnSound DEF Advance
<1>4. CASE Crash(r)
  <2>1. file' = file /\ hit'[r] /\ pc'[r] = "ended"
    BY <1>2, <1>4, FaultTypes DEF Crash, TypeOK
  <2>2. VaultStep
    BY <1>2, <2>1, SameCopies
  <2>3. QED
    BY <2>1, <2>2 DEF Sound, Results
<1>5. QED
  BY <1>3, <1>4

\* A step of the running call keeps the deployment's account ...
LEMMA CallKeepsDoc ==
    ASSUME Documented, DocInv, TypeOK', NEW r \in Run, Advance(r) \/ Crash(r)
    PROVE  DocInv'
<1>1. /\ pc[r] # "ended" /\ timer' = timer /\ clock' = clock
      /\ ts'[r] \in {ts[r], clock}
      /\ \A q \in Run \ {r} : /\ pc'[q] = pc[q] /\ at'[q] = at[q] /\ ts'[q] = ts[q]
                              /\ outcome'[q] = outcome[q] /\ hit'[q] = hit[q]
      /\ Started(r)'
  BY AdvanceFrame DEF DocInv
<1>2. Sound(r)
  BY AdvanceSound
<1>3. /\ ts[r] \in Time /\ clock \in Time /\ ts[r] <= clock
      /\ ts[r] <= ts'[r] /\ ts'[r] <= clock /\ ts'[r] \in Time
  BY <1>1 DEF DocInv, TypeOK, Time
<1>4. \A q \in Run \ {r} : /\ pc[q] = "ended" /\ pc'[q] = "ended"
                           /\ (Started(q)' <=> Started(q))
                           /\ Started(q) => ts[q] < ts[r]
  BY <1>1 DEF DocInv, Started
<1>5. \A q, p \in Run : pc'[q] # "ended" /\ pc'[p] # "ended" => q = p
  BY <1>4
<1>6. \A q \in Run : ts'[q] <= clock'
  BY <1>1, <1>3 DEF DocInv
<1>7. ASSUME NEW p \in Run, NEW q \in Run, pc'[p] # "ended", q # p, Started(q)'
      PROVE  ts'[q] < ts'[p]
  <2>1. p = r /\ ts'[q] = ts[q] /\ ts[q] < ts[r] /\ ts[q] \in Time
    BY <1>1, <1>4, <1>7 DEF DocInv, TypeOK
  <2>2. QED
    BY <1>3, <2>1 DEF Time
<1>8. ASSUME NEW k \in Kind, NEW t \in Time, file'[k][t] # "none"
      PROVE  \E q \in Run : Started(q)' /\ t <= ts'[q]
  <2>1. CASE t = ts[r]
    BY <1>1, <1>3, <2>1
  <2>2. CASE t # ts[r]
    <3>1. PICK q \in Run : Started(q) /\ t <= ts[q]
      BY <1>2, <1>8, <2>2 DEF Sound, DocInv
    <3>2. ts[q] <= ts'[q] /\ ts[q] \in Time /\ ts'[q] \in Time
      <4>1. ts[q] \in Time
        BY DEF DocInv, TypeOK
      <4>2. CASE q = r
        BY <1>3, <4>2
      <4>3. CASE q # r
        BY <1>1, <4>1, <4>3 DEF Time
      <4>4. QED
        BY <4>1, <4>2, <4>3
    <3>3. Started(q)'
      BY <1>1, <1>4, <3>1
    <3>4. t <= ts'[q]
      BY <3>1, <3>2 DEF Time
    <3>5. QED
      BY <3>3, <3>4
  <2>3. QED
    BY <2>1, <2>2
<1>9. ASSUME NEW q \in Run, pc'[q] # "ended" PROVE Position(q)'
  BY <1>2, <1>4, <1>9 DEF Sound
<1>10. ASSUME NEW q \in Run PROVE Results(q)'
  <2>1. CASE q = r
    BY <1>2, <2>1 DEF Sound
  <2>2. CASE q # r
    <3>1. Started(q) => ts'[r] > ts'[q]
      BY <1>1, <1>3, <1>4, <2>2 DEF DocInv, TypeOK, Time
    <3>2. Results(q)
      BY DEF DocInv
    <3>3. QED
      BY <1>1, <1>4, <2>2, <3>1, <3>2 DEF Results
  <2>3. QED
    BY <2>1, <2>2
<1>11. QED
  BY <1>1, <1>5, <1>6, <1>7, <1>8, <1>9, <1>10 DEF DocInv

\* ... and so does the timer when it starts the next call.
LEMMA StartKeepsDoc ==
    ASSUME Documented, DocInv, TypeOK', NEW r \in Run, Start(r)
    PROVE  DocInv'
<1>1. /\ pc'[r] = "open" /\ at'[r] = "config" /\ ts'[r] = clock /\ ~hit'[r]
      /\ timer' = timer /\ clock' = clock /\ file' = file
      /\ \A q \in Run \ {r} : /\ pc'[q] = pc[q] /\ at'[q] = at[q] /\ ts'[q] = ts[q]
                              /\ outcome'[q] = outcome[q] /\ hit'[q] = hit[q]
  BY DEF Start, Step, DocInv, TypeOK
<1>2. /\ \A q \in Run : pc[q] = "ended"
      /\ \A q \in Run : Started(q) => ts[q] < clock
  <2>1. \A q \in Run : pc[q] = "ended"
    BY DEF Start, DocInv
  <2>2. ASSUME NEW q \in Run, Started(q) PROVE ts[q] < clock
    <3>1. clock >= ts[q] + RunGap /\ RunGap = 1
      BY <2>2 DEF Start, Documented
    <3>2. ts[q] \in Time /\ clock \in Time
      BY DEF DocInv, TypeOK
    <3>3. QED
      BY <3>1, <3>2 DEF Time
  <2>3. QED
    BY <2>1, <2>2
<1>3. Started(r)' /\ \A q \in Run \ {r} : Started(q)' <=> Started(q)
  BY <1>1 DEF Started
<1>4. clock \in Time /\ \A q \in Run : ts[q] \in Time /\ ts[q] <= clock
  BY DEF DocInv, TypeOK
<1>5. \A k \in Kind, t \in Time : file[k][t] # "none" => t < clock
  <2>1. SUFFICES ASSUME NEW k \in Kind, NEW t \in Time, file[k][t] # "none" PROVE t < clock
    OBVIOUS
  <2>2. PICK q \in Run : Started(q) /\ t <= ts[q]
    BY <2>1 DEF DocInv
  <2>3. QED
    BY <1>2, <1>4, <2>2 DEF Time
<1>6. \A q \in Run : ts'[q] <= clock'
  BY <1>1, <1>4 DEF Time
<1>7. ASSUME NEW p \in Run, NEW q \in Run, pc'[p] # "ended", q # p, Started(q)'
      PROVE  ts'[q] < ts'[p]
  BY <1>1, <1>2, <1>3, <1>7
<1>8. ASSUME NEW k \in Kind, NEW t \in Time, file'[k][t] # "none"
      PROVE  \E q \in Run : Started(q)' /\ t <= ts'[q]
  <2>1. t <= clock
    BY <1>1, <1>4, <1>5, <1>8 DEF Time
  <2>2. QED
    BY <1>1, <1>3, <2>1
<1>9. Position(r)'
  <2>1. \A k \in Kind : Upto(k, ts[r])' /\ Below(k, ts[r])'
    BY <1>1, <1>4, <1>5 DEF Upto, Below, Time
  <2>2. QED
    BY <1>1, <2>1 DEF Position, Kind
<1>10. ASSUME NEW q \in Run PROVE Results(q)'
  <2>1. CASE q = r
    BY <1>1, <2>1 DEF Results
  <2>2. CASE q # r
    <3>1. Started(q) => ts'[r] > ts'[q]
      BY <1>1, <1>2, <1>4, <2>2 DEF Time
    <3>2. Results(q)
      BY DEF DocInv
    <3>3. QED
      BY <1>1, <1>2, <1>3, <2>2, <3>1, <3>2 DEF Results
  <2>3. QED
    BY <2>1, <2>2
<1>11. QED
  BY <1>1, <1>2, <1>6, <1>7, <1>8, <1>9, <1>10 DEF DocInv

\* The account holds in the documented deployment and says nothing elsewhere.
FilesInv == TypeOK /\ (Documented => DocInv)

\* In every deployment the types hold, in the documented one DocInv too.
LEMMA FilesInvariant == Spec => []FilesInv
<1>1. Init => FilesInv
  <2> SUFFICES ASSUME Init PROVE FilesInv
    OBVIOUS
  <2>1. TypeOK
    <3>1. 0 \in Time
      BY FileAssumption DEF Time
    <3>2. QED
      BY <3>1, FileAssumption DEF Init, TypeOK, Kind, Content
  <2>2. \A r \in Run : ~Started(r)
    BY DEF Init, Started, Call
  <2>3. Documented => DocInv
    BY <2>1, <2>2 DEF Init, DocInv, Documented, Results
  <2>4. QED
    BY <2>1, <2>3 DEF FilesInv
<1>2. FilesInv /\ [Next]_vars => FilesInv'
  <2> SUFFICES ASSUME FilesInv, [Next]_vars PROVE FilesInv'
    OBVIOUS
  <2>1. TypeOK /\ TypeOK'
    BY NextTypes DEF FilesInv
  <2>2. timer' = timer
    BY <2>1, AdvanceFrame DEF Next, Start, Tick, vars
  <2>3. (Documented' <=> Documented)
    BY <2>2 DEF Documented
  <2>4. ASSUME Documented PROVE DocInv'
    <3>1. DocInv
      BY <2>4 DEF FilesInv
    <3>2. ASSUME NEW r \in Run, Start(r) \/ Advance(r) \/ Crash(r) PROVE DocInv'
      BY <2>1, <2>4, <3>1, <3>2, CallKeepsDoc, StartKeepsDoc
    <3>3. CASE Tick
      <4>1. /\ clock' = clock + 1 /\ clock \in Time /\ \A r \in Run : ts[r] \in Time
            /\ UNCHANGED <<timer, file, pc, at, ts, victims, outcome, hit>>
        BY <2>1, <3>3 DEF Tick, TypeOK
      <4>2. \A r \in Run : ts'[r] <= clock'
        BY <3>1, <4>1 DEF DocInv, Time
      <4>3. \A r \in Run : (Started(r)' <=> Started(r)) /\ (Results(r) => Results(r)')
        BY <4>1 DEF Started, Results, NewestWhole, Whole
      <4>4. \A r \in Run : Position(r) => Position(r)'
        BY <4>1 DEF Position, Own, Upto, Below
      <4>5. QED
        BY <2>1, <3>1, <4>1, <4>2, <4>3, <4>4 DEF DocInv
    <3>4. CASE UNCHANGED vars
      BY <2>1, <3>1, <3>4 DEF vars, DocInv, Started, Results, NewestWhole, Whole, Position,
         Own, Upto, Below
    <3>5. QED
      BY <3>2, <3>3, <3>4 DEF Next
  <2>5. QED
    BY <2>1, <2>3, <2>4 DEF FilesInv
<1>3. QED
  BY <1>1, <1>2, PTL DEF Spec

\* Calls that met no fault return, and the newest file of every kind is
\* complete, however many calls failed or were killed before.
THEOREM CallsReturn == Spec => []FaultFreeCallsReturn
<1>1. FilesInv => FaultFreeCallsReturn
  <2> SUFFICES ASSUME FilesInv, NEW r \in Run,
                      Documented, pc[r] = "ended", Started(r), ~hit[r]
      PROVE  /\ \A c \in Call : outcome[r][c] = "ok"
             /\ (\A q \in Run : pc[q] = "ended" /\ ts[q] <= ts[r]) =>
                   \A k \in Kind : \E t \in Whole(k) : \A u \in Time : u > t => file[k][u] = "none"
    BY DEF FaultFreeCallsReturn
  <2>1. /\ outcome[r]["config"] = "ok" /\ outcome[r]["packages"] = "ok"
        /\ (\E q \in Run : ts[q] > ts[r]) \/ (\A k \in Kind : NewestWhole(k))
    BY DEF FilesInv, DocInv, Results
  <2>2. \A q \in Run : ts[q] \in Time
    BY DEF FilesInv, TypeOK
  <2>3. (\A q \in Run : ts[q] <= ts[r]) => ~\E q \in Run : ts[q] > ts[r]
    BY <2>2 DEF Time
  <2>4. QED
    BY <2>1, <2>3 DEF Call, NewestWhole
<1>2. QED
  BY <1>1, FilesInvariant, PTL

\* In the documented deployment pulling files implements Vault: the newest
\* complete copy of each kind is never lost and never a step back.
THEOREM ImplementsVault == Spec => KeepsVault
<1>1. Init => V!Init
  <2>1. Init => \A k \in Kind : Whole(k) = {}
    BY DEF Init, Whole
  <2>2. QED
    BY <2>1 DEF V!Init
<1>2. FilesInv /\ FilesInv' /\ [Next]_vars => [V!Next]_[k \in Kind |-> IF Documented THEN Whole(k) ELSE {}]
  <2> SUFFICES ASSUME FilesInv, FilesInv', [Next]_vars
      PROVE  [V!Next]_[k \in Kind |-> IF Documented THEN Whole(k) ELSE {}]
    OBVIOUS
  <2> DEFINE copies == [k \in Kind |-> IF Documented THEN Whole(k) ELSE {}]
  <2>1. timer' = timer
    BY AdvanceFrame DEF Next, Start, Tick, vars, FilesInv
  <2>2. (Documented' <=> Documented)
    BY <2>1 DEF Documented
  <2>3. CASE ~Documented
    BY <2>2, <2>3
  <2>4. CASE Documented
    <3>1. copies = Copies /\ copies' = Copies'
      BY <2>2, <2>4 DEF Copies
    <3>2. VaultStep
      <4>1. CASE \E r \in Run : Advance(r) \/ Crash(r)
        BY <2>4, <4>1, AdvanceSound DEF FilesInv, Sound
      <4>2. CASE UNCHANGED file
        BY <4>2, SameCopies DEF FilesInv
      <4>3. QED
        BY <4>1, <4>2 DEF Next, Start, Tick, vars
    <3>3. QED
      BY <3>1, <3>2 DEF VaultStep, V!Next, V!Deposit, V!Expire
  <2>5. QED
    BY <2>3, <2>4
<1>3. QED
  BY <1>1, <1>2, FilesInvariant, PTL DEF Spec, KeepsVault, V!Spec

-----------------------------------------------------------------------------
(* The two lists of one call.                                              *)

\* The dpkg selections newer than t, and a call that has made, or is making,
\* selections whose second list is not complete yet.
Later(t) == {u \in Time : u > t /\ file["selections"][u] # "none"}

Making(r) ==
    \/ at[r] = "selections" /\ pc[r] \in {"fill", "retain", "prune"}
    \/ at[r] = "list" /\ pc[r] \in {"capture", "create", "fill"}

\* A pair of lists that the retention spares: newer selections without a
\* complete partner come from one fault each, or from the call at work.
Pair(t) ==
    /\ t \in Whole("selections") \cap Whole("list")
    /\ Cardinality(Later(t)) <= faults + (IF \E r \in Run : Making(r) THEN 1 ELSE 0)
    /\ \A r \in Run : at[r] = "selections" /\ pc[r] = "prune" =>
          \A a \in victims[r] : a.ts # t
    /\ \A r \in Run : at[r] = "list" /\ pc[r] \in {"retain", "prune"} => t = ts[r]

Room == faults + 2 <= KeepOf["selections"]

PairInv ==
    /\ \A r \in Run : pc[r] # "ended" /\ at[r] = "list" =>
          file["selections"][ts[r]] = "whole"
    /\ made["list"] # {} /\ Room => \E t \in Time : Pair(t)

\* r is the only call, before the step and after it.
Alone(r) == \A q \in Run \ {r} : pc[q] = "ended" /\ pc'[q] = "ended"

\* What a step of the call does to the pairs: it keeps each of them, or it is
\* the one that completes a pair.
PairSafe(r) ==
    /\ pc'[r] # "ended" /\ at'[r] = "list" => file'["selections"][ts'[r]] = "whole"
    /\ \/ /\ made'["list"] = made["list"]
          /\ \A t \in Time : Room /\ Pair(t) => Pair(t)'
       \/ \E t \in Time : Pair(t)'

\* A fault counts.
LEMMA FaultCounts ==
    ASSUME TypeOK, NEW r \in Run
    PROVE  /\ faults \in Nat
           /\ Fault(r) => faults' = faults + 1
           /\ NoFault => faults' = faults
  BY FileAssumption DEF Fault, NoFault, TypeOK

\* The newer selections are finitely many.
LEMMA LaterFinite ==
    ASSUME NEW t
    PROVE  IsFiniteSet(Later(t))
<1>1. IsFiniteSet(Time)
  BY FileAssumption, FS_Interval DEF Time
<1>2. Later(t) \subseteq Time
  BY DEF Later
<1>3. QED
  BY <1>1, <1>2, FS_Subset

\* A pair stays one when its files stay, no newer selections come, and a call
\* leaves its unfinished pair behind only by a fault.
LEMMA PairCarried ==
    ASSUME TypeOK, TypeOK', NEW r \in Run, Alone(r), NEW t \in Time, Pair(t),
           file'["selections"][t] = "whole", file'["list"][t] = "whole",
           \A u \in Time : u > t /\ file'["selections"][u] # "none"
                               => file["selections"][u] # "none",
           faults' = faults \/ faults' = faults + 1,
           Making(r) => Making(r)' \/ faults' = faults + 1,
           at'[r] = "selections" /\ pc'[r] = "prune" => \A a \in victims'[r] : a.ts # t,
           at'[r] = "list" /\ pc'[r] \in {"retain", "prune"} => t = ts'[r]
    PROVE  Pair(t)'
<1>1. faults \in Nat /\ faults' \in Nat
  BY FileAssumption DEF TypeOK
<1>2. \A q \in Run \ {r} : ~Making(q) /\ ~Making(q)'
  BY DEF Alone, Making
<1>3. Cardinality(Later(t)') <= Cardinality(Later(t)) /\ Cardinality(Later(t)) \in Nat
      /\ Cardinality(Later(t)') \in Nat
  <2>1. Later(t)' \subseteq Later(t)
    BY DEF Later
  <2>2. IsFiniteSet(Later(t))
    BY LaterFinite
  <2>3. QED
    BY <2>1, <2>2, FS_Subset, FS_CardinalityType
<1>4. Cardinality(Later(t)) <= faults + (IF Making(r) THEN 1 ELSE 0)
  BY <1>2 DEF Pair
<1>5. Cardinality(Later(t)') <= faults' + (IF Making(r)' THEN 1 ELSE 0)
  BY <1>1, <1>3, <1>4
<1>6. Cardinality(Later(t)') <= faults' + (IF \E q \in Run : Making(q)' THEN 1 ELSE 0)
  BY <1>1, <1>2, <1>5
<1>7. t \in (Whole("selections") \cap Whole("list"))'
  BY DEF Whole
<1>8. /\ \A q \in Run : at'[q] = "selections" /\ pc'[q] = "prune" =>
            \A a \in victims'[q] : a.ts # t
      /\ \A q \in Run : at'[q] = "list" /\ pc'[q] \in {"retain", "prune"} => t = ts'[q]
  BY DEF Alone
<1>9. QED
  BY <1>6, <1>7, <1>8 DEF Pair

\* A step of a call changes files of its own kind alone, counts at most one
\* fault, and goes from kind to kind by way of "capture".
LEMMA AdvanceKind ==
    ASSUME TypeOK, NEW r \in Run, Advance(r)
    PROVE  /\ \A k \in Kind \ {at[r]} : file'[k] = file[k] /\ made'[k] = made[k]
           /\ faults' = faults \/ faults' = faults + 1
           /\ at'[r] = at[r] \/ pc'[r] = "capture"
<1> DEFINE Aside == \A k \in Kind \ {at[r]} : file'[k] = file[k] /\ made'[k] = made[k]
           Counts == faults' = faults \/ faults' = faults + 1
           Moves == at'[r] = at[r] \/ pc'[r] = "capture"
<1> SUFFICES Aside /\ Counts /\ Moves
  OBVIOUS
<1>1. ASSUME NEW from \in Working, NEW result \in {"ok", "raised"}, Leave(r, from, result)
      PROVE  made' = made /\ Moves
  BY <1>1, LeaveEffect DEF TypeOK, Kind
<1>2. InCall => Moves
  BY DEF InCall
<1>3. Fault(r) \/ NoFault => Counts
  BY FaultCounts
<1>4. (\E c : Write(r, c)) \/ file' = file => \A k \in Kind \ {at[r]} : file'[k] = file[k]
  BY DEF Write, TypeOK
<1>5. Complete(r) => Aside
  BY DEF Complete, Write, TypeOK
<1> HIDE DEF Moves, Counts
<1>6. CASE OpenArchive(r)
  <2>1. made' = made /\ Moves
    BY <1>1, <1>2, <1>6 DEF OpenArchive, Working
  <2>2. Counts
    BY <1>3, <1>6 DEF OpenArchive
  <2>3. QED
    BY <1>4, <1>6, <2>1, <2>2 DEF OpenArchive
<1>7. CASE EndStream(r)
  <2>1. CASE Complete(r) /\ NoFault /\ InCall
    BY <1>2, <1>3, <1>5, <2>1
  <2>2. CASE Leave(r, "stream", "raised") /\ Fault(r) /\ Write(r, "none")
    <3>1. made' = made /\ Moves
      BY <1>1, <2>2 DEF Working
    <3>2. QED
      BY <1>3, <1>4, <2>2, <3>1
  <2>3. QED
    BY <1>7, <2>1, <2>2 DEF EndStream
<1>8. CASE StatArchive(r) \/ CaptureList(r) \/ CreateList(r)
  <2>1. made' = made /\ Moves
    BY <1>1, <1>2, <1>8 DEF StatArchive, CaptureList, CreateList, Working
  <2>2. Counts
    BY <1>3, <1>8 DEF StatArchive, CaptureList, CreateList
  <2>3. QED
    BY <1>4, <1>8, <2>1, <2>2 DEF StatArchive, CaptureList, CreateList
<1>9. CASE FillList(r)
  <2>1. CASE Complete(r) /\ NoFault /\ InCall
    BY <1>2, <1>3, <1>5, <2>1
  <2>2. CASE Leave(r, "fill", "raised") /\ Fault(r) /\ UNCHANGED file
    <3>1. made' = made /\ Moves
      BY <1>1, <2>2 DEF Working
    <3>2. QED
      BY <1>3, <1>4, <2>2, <3>1
  <2>3. QED
    BY <1>9, <2>1, <2>2 DEF FillList
<1>10. CASE ListFiles(r) \/ Return(r)
  <2>1. made' = made /\ Moves /\ file' = file
    BY <1>1, <1>2, <1>10 DEF ListFiles, Return, Working
  <2>2. Counts
    BY <1>3, <1>10 DEF ListFiles, Return
  <2>3. QED
    BY <1>4, <2>1, <2>2
<1>11. CASE Prune(r)
  <2>1. PICK a \in victims[r] :
            \/ /\ file' = [file EXCEPT ![at[r]][a.ts] = "none"]
               /\ NoFault /\ InCall /\ UNCHANGED made
            \/ /\ Leave(r, "prune", "raised") /\ UNCHANGED file
               /\ NoFault \/ Fault(r)
    BY <1>11 DEF Prune
  <2>2. Leave(r, "prune", "raised") => made' = made /\ Moves
    BY <1>1 DEF Working
  <2>3. Aside
    BY <2>1, <2>2 DEF TypeOK
  <2>4. Moves /\ Counts
    BY <1>2, <1>3, <2>1, <2>2
  <2>5. QED
    BY <2>3, <2>4
<1>12. QED
  BY <1>6, <1>7, <1>8, <1>9, <1>10, <1>11 DEF Advance

\* The archive of the configuration has nothing to do with the lists.
LEMMA ConfigPairs ==
    ASSUME TypeOK, TypeOK', NEW r \in Run, Alone(r), Advance(r), at[r] = "config",
           at'[r] # "list"
    PROVE  PairSafe(r)
<1>1. /\ file'["selections"] = file["selections"] /\ file'["list"] = file["list"]
      /\ made'["list"] = made["list"]
      /\ faults' = faults \/ faults' = faults + 1
      /\ at'[r] = "config" \/ (at'[r] = "selections" /\ pc'[r] = "capture")
  BY AdvanceKind DEF Kind, TypeOK
<1>2. ~Making(r) /\ ~Making(r)'
  BY <1>1 DEF Making
<1>3. ASSUME NEW t \in Time, Pair(t) PROVE Pair(t)'
  BY <1>1, <1>2, <1>3, PairCarried DEF Pair, Whole
<1>4. QED
  BY <1>1, <1>3 DEF PairSafe

\* The first list, up to its own file ...
LEMMA FirstListWritten ==
    ASSUME TypeOK, TypeOK', NEW r \in Run, Alone(r), Position(r), at[r] = "selections",
           CaptureList(r) \/ CreateList(r) \/ FillList(r)
    PROVE  PairSafe(r)
<1>1. /\ made'["list"] = made["list"] /\ file'["list"] = file["list"]
      /\ faults \in Nat /\ ts[r] \in Time
  BY AdvanceKind, FaultCounts DEF Kind, Advance, TypeOK
<1>2. CASE CaptureList(r) \/ (Leave(r, "create", "raised") /\ Fault(r) /\ UNCHANGED file)
  <2>1. /\ file' = file /\ ~Making(r)
        /\ faults' = faults \/ faults' = faults + 1
        /\ at'[r] = "selections" /\ pc'[r] # "prune"
    BY <1>2, StepTypes, LeaveEffect, FaultCounts DEF CaptureList, Making, InCall, Working
  <2>2. ASSUME NEW t \in Time, Pair(t) PROVE Pair(t)'
    BY <2>1, <2>2, PairCarried DEF Pair, Whole
  <2>3. QED
    BY <1>1, <2>1, <2>2 DEF PairSafe
<1>3. CASE Step(r, "create", "fill") /\ Write(r, "partial") /\ NoFault /\ InCall
  <2>1. /\ pc[r] = "create" /\ pc'[r] = "fill" /\ at' = at /\ ts' = ts /\ faults' = faults
        /\ \A t \in Time \ {ts[r]} : file'["selections"][t] = file["selections"][t]
    BY <1>3, StepTypes, WriteEffect, FaultCounts DEF InCall, Working, Content
  <2>2. Below("selections", ts[r])
    BY <2>1 DEF Position
  <2>3. ASSUME NEW t \in Time, Pair(t) PROVE Pair(t)'
    <3>1. file["selections"][t] = "whole" /\ file["list"][t] = "whole" /\ t < ts[r]
      BY <2>2, <2>3 DEF Pair, Whole, Below
    <3>2. Later(t)' \subseteq Later(t) \cup {ts[r]} /\ IsFiniteSet(Later(t))
      BY <2>1, LaterFinite DEF Later
    <3>3. /\ Cardinality(Later(t)) \in Nat /\ Cardinality(Later(t)') \in Nat
          /\ Cardinality(Later(t)') <= Cardinality(Later(t)) + 1
      <4>1. /\ IsFiniteSet(Later(t) \cup {ts[r]})
            /\ Cardinality(Later(t) \cup {ts[r]}) <= Cardinality(Later(t)) + 1
            /\ Cardinality(Later(t)) \in Nat
        BY <3>2, FS_AddElement, FS_CardinalityType
      <4>2. IsFiniteSet(Later(t)') /\ Cardinality(Later(t)') <= Cardinality(Later(t) \cup {ts[r]})
        BY <3>2, <4>1, FS_Subset
      <4>3. Cardinality(Later(t)') \in Nat /\ Cardinality(Later(t) \cup {ts[r]}) \in Nat
        BY <4>1, <4>2, FS_CardinalityType
      <4>4. QED
        BY <4>1, <4>2, <4>3
    <3>4. \A q \in Run : ~Making(q)
      BY <2>1 DEF Alone, Making
    <3>5. Making(r)'
      BY <2>1 DEF Making
    <3>6. Cardinality(Later(t)) <= faults
      BY <1>1, <2>3, <3>4 DEF Pair
    <3>7. Cardinality(Later(t)') <= faults' + (IF \E q \in Run : Making(q)' THEN 1 ELSE 0)
      BY <1>1, <2>1, <3>3, <3>5, <3>6
    <3>8. t \in (Whole("selections") \cap Whole("list"))'
      BY <1>1, <2>1, <3>1 DEF Whole, Time
    <3>9. /\ \A q \in Run : ~(at'[q] = "selections" /\ pc'[q] = "prune")
          /\ \A q \in Run : ~(at'[q] = "list" /\ pc'[q] \in {"retain", "prune"})
      BY <2>1 DEF Alone
    <3>10. QED
      BY <3>7, <3>8, <3>9 DEF Pair
  <2>4. QED
    BY <1>1, <2>1, <2>3 DEF PairSafe
<1>4. CASE Step(r, "fill", "retain") /\ Complete(r) /\ NoFault /\ InCall
  <2>1. /\ pc[r] = "fill" /\ pc'[r] = "retain" /\ at' = at /\ ts' = ts /\ faults' = faults
    BY <1>4, StepTypes, FaultCounts DEF InCall, Working
  <2>2. Own(r) = "partial"
    BY <2>1 DEF Position
  <2>3. \A t \in Time \ {ts[r]} : file'["selections"][t] = file["selections"][t]
    BY <1>4, <2>2, CompleteEffect, WriteEffect DEF Content
  <2>4. ASSUME NEW t \in Time, Pair(t) PROVE Pair(t)'
    <3>1. file["selections"][t] = "whole" /\ file["list"][t] = "whole" /\ t # ts[r]
      BY <2>2, <2>4 DEF Pair, Whole, Own
    <3>2. \A u \in Time : file'["selections"][u] # "none" => file["selections"][u] # "none"
      BY <2>2, <2>3 DEF Own
    <3>3. Making(r)'
      BY <2>1 DEF Making
    <3>4. QED
      BY <1>1, <2>1, <2>3, <2>4, <3>1, <3>2, <3>3, PairCarried
  <2>5. QED
    BY <1>1, <2>1, <2>4 DEF PairSafe
<1>5. CASE Leave(r, "fill", "raised") /\ Fault(r) /\ UNCHANGED file
  <2>1. /\ at'[r] = "selections" /\ pc'[r] = "ended" /\ faults' = faults + 1 /\ file' = file
    BY <1>5, LeaveEffect, FaultCounts
  <2>2. ASSUME NEW t \in Time, Pair(t) PROVE Pair(t)'
    BY <2>1, <2>2, PairCarried DEF Pair, Whole
  <2>3. QED
    BY <1>1, <2>1, <2>2 DEF PairSafe
<1>6. QED
  BY <1>2, <1>3, <1>4, <1>5 DEF CreateList, FillList

\* ... and its retention, which spares the pair as long as there is room.
LEMMA FirstListPruned ==
    ASSUME TypeOK, TypeOK', NEW r \in Run, Alone(r), Position(r), at[r] = "selections",
           ListFiles(r) \/ Prune(r) \/ Return(r)
    PROVE  PairSafe(r)
<1>1. /\ made'["list"] = made["list"] /\ file'["list"] = file["list"]
      /\ faults \in Nat /\ ts[r] \in Time /\ pc[r] \in {"retain", "prune"} /\ Making(r)
  BY AdvanceKind, FaultCounts, StepTypes, LeaveEffect
     DEF Kind, Advance, TypeOK, ListFiles, Prune, Return, Making, Working
<1>2. CASE ListFiles(r)
  <2>1. /\ pc'[r] = "prune" /\ at' = at /\ ts' = ts /\ faults' = faults /\ file' = file
        /\ victims'[r] = ToDelete(Present("selections"), KeepOf["selections"])
    BY <1>2, StepTypes, FaultCounts DEF ListFiles, InCall, Working, TypeOK
  <2>2. ASSUME NEW t \in Time, Room, Pair(t) PROVE Pair(t)'
    <3>1. Cardinality(Later(t)) <= faults + 1
      BY <1>1, <2>2 DEF Pair
    <3>2. ASSUME NEW a \in victims'[r], a.ts = t PROVE FALSE
      <4>1. a \in Present("selections")
            /\ Cardinality({g \in Present("selections") : NameBefore(a, g)}) >= KeepOf["selections"]
        BY <2>1 DEF ToDelete
      <4> DEFINE after == {g \in Present("selections") : NameBefore(a, g)}
                 name  == [u \in Later(t) |-> [rank |-> 0, ts |-> u]]
      <4>2. name \in Surjection(Later(t), after)
        <5>1. a.rank = 0
          BY <4>1 DEF Present
        <5>2. \A u \in Later(t) : name[u] \in after
          BY <3>2, <5>1 DEF Later, Present, NameBefore, Time
        <5>3. \A g \in after : \E u \in Later(t) : name[u] = g
          BY <3>2, <5>1 DEF Later, Present, NameBefore, Time
        <5>4. QED
          BY <5>2, <5>3 DEF Surjection
      <4>3. /\ Cardinality(after) <= Cardinality(Later(t))
            /\ Cardinality(after) \in Nat /\ Cardinality(Later(t)) \in Nat
        BY <4>2, LaterFinite, FS_Surjection, FS_CardinalityType
      <4>4. KeepOf["selections"] \in Int
        BY FileAssumption DEF Kind
      <4>5. QED
        BY <1>1, <2>2, <3>1, <4>1, <4>3, <4>4 DEF Room
    <3>3. Making(r)'
      BY <2>1 DEF Making
    <3>4. QED
      BY <1>1, <2>1, <2>2, <3>2, <3>3, PairCarried DEF Pair, Whole
  <2>3. QED
    BY <1>1, <2>1, <2>2 DEF PairSafe
<1>3. CASE Prune(r)
  <2>1. PICK a \in victims[r] :
            \/ /\ file[at[r]][a.ts] # "none"
               /\ Step(r, "prune", "prune")
               /\ file' = [file EXCEPT ![at[r]][a.ts] = "none"]
               /\ victims' = [victims EXCEPT ![r] = @ \ {a}]
               /\ NoFault /\ InCall
            \/ /\ Leave(r, "prune", "raised") /\ UNCHANGED file
               /\ IF file[at[r]][a.ts] = "none" THEN NoFault ELSE Fault(r)
    BY <1>3 DEF Prune
  <2>2. pc[r] = "prune" /\ file[at[r]][a.ts] # "none" /\ a.ts \in Time
    BY <2>1, StepTypes, LeaveEffect DEF Position, Working, TypeOK, Name
  <2>3. CASE Leave(r, "prune", "raised") /\ UNCHANGED file /\ Fault(r)
    <3>1. at'[r] = "selections" /\ pc'[r] = "ended" /\ faults' = faults + 1 /\ file' = file
      BY <2>3, LeaveEffect, FaultCounts
    <3>2. ASSUME NEW t \in Time, Pair(t) PROVE Pair(t)'
      BY <3>1, <3>2, PairCarried DEF Pair, Whole
    <3>3. QED
      BY <1>1, <3>1, <3>2 DEF PairSafe
  <2>4. CASE /\ Step(r, "prune", "prune")
             /\ file' = [file EXCEPT ![at[r]][a.ts] = "none"]
             /\ victims' = [victims EXCEPT ![r] = @ \ {a}]
             /\ NoFault /\ InCall
    <3>1. /\ pc'[r] = "prune" /\ at' = at /\ ts' = ts /\ faults' = faults
          /\ victims'[r] = victims[r] \ {a}
      BY <2>4, StepTypes, FaultCounts DEF InCall, Working, TypeOK
    <3>2. \A u \in Time : file'["selections"][u]
                             = IF u = a.ts THEN "none" ELSE file["selections"][u]
      BY <2>2, <2>4 DEF TypeOK
    <3>3. ASSUME NEW t \in Time, Pair(t) PROVE Pair(t)'
      <4>1. /\ file["selections"][t] = "whole" /\ file["list"][t] = "whole"
            /\ \A b \in victims[r] : b.ts # t
        BY <2>2, <3>3 DEF Pair, Whole
      <4>2. Making(r)'
        BY <3>1 DEF Making
      <4>3. QED
        BY <1>1, <3>1, <3>2, <3>3, <4>1, <4>2, PairCarried
    <3>4. QED
      BY <1>1, <3>1, <3>3 DEF PairSafe
  <2>5. QED
    BY <2>1, <2>2, <2>3, <2>4
<1>4. CASE Return(r)
  <2>1. /\ pc'[r] = "capture" /\ at'[r] = "list" /\ ts'[r] = ts[r] /\ faults' = faults
        /\ file' = file /\ pc[r] = "prune"
    BY <1>4, LeaveEffect, FaultCounts DEF Return
  <2>2. file["selections"][ts[r]] = "whole"
    BY <2>1 DEF Position, Own
  <2>3. Making(r)'
    BY <2>1 DEF Making
  <2>4. ASSUME NEW t \in Time, Pair(t) PROVE Pair(t)'
    BY <2>1, <2>3, <2>4, PairCarried DEF Pair, Whole
  <2>5. QED
    BY <1>1, <2>1, <2>2, <2>4 DEF PairSafe
<1>5. QED
  BY <1>2, <1>3, <1>4

\* The second list: an older pair stays until its own file is complete, and
\* from then on the pair of this call is the one.
LEMMA SecondListWritten ==
    ASSUME TypeOK, TypeOK', NEW r \in Run, Alone(r), Position(r), at[r] = "list",
           file["selections"][ts[r]] = "whole",
           CaptureList(r) \/ CreateList(r) \/ FillList(r)
    PROVE  PairSafe(r)
<1>1. /\ file'["selections"] = file["selections"] /\ faults \in Nat /\ ts[r] \in Time
  BY AdvanceKind, FaultCounts DEF Kind, Advance, TypeOK
<1>2. CASE \/ CaptureList(r)
           \/ Leave(r, "create", "raised") /\ Fault(r) /\ UNCHANGED file
           \/ Leave(r, "fill", "raised") /\ Fault(r) /\ UNCHANGED file
  <2>1. /\ file' = file /\ made' = made /\ at'[r] = "list" /\ ts'[r] = ts[r]
        /\ \/ pc'[r] = "create" /\ faults' = faults
           \/ pc'[r] = "ended" /\ faults' = faults + 1
    BY <1>2, StepTypes, LeaveEffect, FaultCounts DEF CaptureList, InCall, Working
  <2>2. pc'[r] = "create" => Making(r)'
    BY <2>1 DEF Making
  <2>3. ASSUME NEW t \in Time, Pair(t) PROVE Pair(t)'
    BY <2>1, <2>2, <2>3, PairCarried DEF Pair, Whole
  <2>4. QED
    BY <2>1, <2>3 DEF PairSafe
<1>3. CASE Step(r, "create", "fill") /\ Write(r, "partial") /\ NoFault /\ InCall
               /\ UNCHANGED made
  <2>1. /\ pc[r] = "create" /\ pc'[r] = "fill" /\ at' = at /\ ts' = ts /\ faults' = faults
        /\ \A t \in Time \ {ts[r]} : file'["list"][t] = file["list"][t]
    BY <1>3, StepTypes, WriteEffect, FaultCounts DEF InCall, Working, Content
  <2>2. Below("list", ts[r]) /\ Making(r)'
    BY <2>1 DEF Position, Making
  <2>3. ASSUME NEW t \in Time, Pair(t) PROVE Pair(t)'
    <3>1. file["selections"][t] = "whole" /\ file["list"][t] = "whole" /\ t # ts[r]
      BY <2>2, <2>3 DEF Pair, Whole, Below, Time
    <3>2. QED
      BY <1>1, <2>1, <2>2, <2>3, <3>1, PairCarried
  <2>4. QED
    BY <1>1, <1>3, <2>1, <2>3 DEF PairSafe
<1>4. CASE Step(r, "fill", "retain") /\ Complete(r) /\ NoFault /\ InCall
  <2>1. /\ pc[r] = "fill" /\ pc'[r] = "retain" /\ at' = at /\ ts' = ts /\ faults' = faults
    BY <1>4, StepTypes, FaultCounts DEF InCall, Working
  <2>2. Own(r) = "partial" /\ Upto("selections", ts[r])
    BY <2>1 DEF Position, Kind
  <2>3. file'["list"][ts[r]] = "whole"
    BY <1>4, <2>2, CompleteEffect, WriteEffect DEF Content
  <2>4. Later(ts[r])' = {}
    BY <1>1, <2>1, <2>2 DEF Later, Upto, Time
  <2>5. Cardinality(Later(ts[r])') = 0
    BY <2>4, FS_EmptySet
  <2>6. \A q \in Run : ~Making(q)'
    BY <2>1 DEF Alone, Making
  <2>7. ts[r] \in (Whole("selections") \cap Whole("list"))'
    BY <1>1, <2>3 DEF Whole
  <2>8. /\ \A q \in Run : ~(at'[q] = "selections" /\ pc'[q] = "prune")
        /\ \A q \in Run : at'[q] = "list" /\ pc'[q] \in {"retain", "prune"} => ts[r] = ts'[q]
    BY <2>1 DEF Alone
  <2>9. Cardinality(Later(ts[r])') <= faults' + (IF \E q \in Run : Making(q)' THEN 1 ELSE 0)
    BY <1>1, <2>1, <2>5, <2>6
  <2>10. Pair(ts[r])'
    <3>1. (ts[r])' = ts[r]
      BY <2>1
    <3> DEFINE t == ts[r]
    <3>2. Pair(t)'
      BY <2>7, <2>8, <2>9, <3>1 DEF Pair
    <3>3. QED
      BY <3>2
  <2>11. QED
    BY <1>1, <2>1, <2>10 DEF PairSafe
<1>5. QED
  BY <1>2, <1>3, <1>4 DEF CreateList, FillList

\* The retention of the second list.
LEMMA SecondListPruned ==
    ASSUME TypeOK, TypeOK', NEW r \in Run, Alone(r), Position(r), at[r] = "list",
           file["selections"][ts[r]] = "whole",
           ListFiles(r) \/ Prune(r) \/ Return(r)
    PROVE  PairSafe(r)
<1>1. /\ file'["selections"] = file["selections"] /\ faults \in Nat /\ ts[r] \in Time
      /\ pc[r] \in {"retain", "prune"} /\ ~Making(r)
  BY AdvanceKind, FaultCounts, StepTypes, LeaveEffect
     DEF Kind, Advance, TypeOK, ListFiles, Prune, Return, Making, Working
<1>2. CASE ListFiles(r)
  <2>1. pc'[r] = "prune" /\ at' = at /\ ts' = ts /\ faults' = faults /\ file' = file
        /\ made' = made
    BY <1>2, StepTypes, FaultCounts DEF ListFiles, InCall, Working
  <2>2. ASSUME NEW t \in Time, Pair(t) PROVE Pair(t)'
    BY <1>1, <2>1, <2>2, PairCarried DEF Pair, Whole
  <2>3. QED
    BY <1>1, <2>1, <2>2 DEF PairSafe
<1>3. CASE Prune(r)
  <2>1. PICK a \in victims[r] :
            \/ /\ file[at[r]][a.ts] # "none"
               /\ Step(r, "prune", "prune")
               /\ file' = [file EXCEPT ![at[r]][a.ts] = "none"]
               /\ NoFault /\ InCall /\ UNCHANGED made
            \/ /\ Leave(r, "prune", "raised") /\ UNCHANGED file
               /\ IF file[at[r]][a.ts] = "none" THEN NoFault ELSE Fault(r)
    BY <1>3 DEF Prune
  <2>2. pc[r] = "prune" /\ a.ts \in Time /\ a.ts # ts[r]
    BY <2>1, StepTypes, LeaveEffect DEF Position, Working, TypeOK, Name, Time
  <2>3. CASE Leave(r, "prune", "raised") /\ UNCHANGED file /\ (NoFault \/ Fault(r))
    <3>1. /\ at'[r] = "list" /\ pc'[r] = "ended" /\ file' = file /\ made' = made
          /\ faults' = faults \/ faults' = faults + 1
      BY <2>3, LeaveEffect, FaultCounts
    <3>2. ASSUME NEW t \in Time, Pair(t) PROVE Pair(t)'
      BY <1>1, <3>1, <3>2, PairCarried DEF Pair, Whole
    <3>3. QED
      BY <3>1, <3>2 DEF PairSafe
  <2>4. CASE /\ Step(r, "prune", "prune")
             /\ file' = [file EXCEPT ![at[r]][a.ts] = "none"]
             /\ NoFault /\ InCall /\ UNCHANGED made
    <3>1. pc'[r] = "prune" /\ at' = at /\ ts' = ts /\ faults' = faults /\ made' = made
      BY <2>4, StepTypes, FaultCounts DEF InCall, Working
    <3>2. file'["list"][ts[r]] = file["list"][ts[r]]
      BY <1>1, <2>2, <2>4 DEF TypeOK
    <3>3. ASSUME NEW t \in Time, Pair(t) PROVE Pair(t)'
      <4>1. t = ts[r] /\ file["selections"][t] = "whole" /\ file["list"][t] = "whole"
        BY <2>2, <3>3 DEF Pair, Whole
      <4>2. QED
        BY <1>1, <3>1, <3>2, <3>3, <4>1, PairCarried
    <3>4. QED
      BY <1>1, <3>1, <3>3 DEF PairSafe
  <2>5. QED
    BY <2>1, <2>3, <2>4
<1>4. CASE Return(r)
  <2>1. pc'[r] = "ended" /\ at'[r] = "list" /\ faults' = faults /\ file' = file /\ made' = made
    BY <1>4, LeaveEffect, FaultCounts DEF Return
  <2>2. ASSUME NEW t \in Time, Pair(t) PROVE Pair(t)'
    BY <1>1, <2>1, <2>2, PairCarried DEF Pair, Whole
  <2>3. QED
    BY <2>1, <2>2 DEF PairSafe
<1>5. QED
  BY <1>2, <1>3, <1>4

\* A call that is killed leaves its files behind, and counts as a fault.
LEMMA CrashPairs ==
    ASSUME TypeOK, TypeOK', NEW r \in Run, Alone(r), Crash(r)
    PROVE  PairSafe(r)
<1>1. /\ file' = file /\ made' = made /\ pc'[r] = "ended" /\ faults' = faults + 1
  BY FaultCounts DEF Crash, TypeOK
<1>2. ASSUME NEW t \in Time, Pair(t) PROVE Pair(t)'
  BY <1>1, <1>2, PairCarried DEF Pair, Whole
<1>3. QED
  BY <1>1, <1>2 DEF PairSafe

\* A step of the only call keeps the invariant.
LEMMA PairsKept ==
    ASSUME DocInv, TypeOK', NEW r \in Run, Advance(r) \/ Crash(r), PairInv
    PROVE  PairInv'
<1>1. /\ TypeOK /\ Alone(r) /\ pc[r] # "ended" /\ Position(r)
  <2>1. /\ pc[r] # "ended"
        /\ \A q \in Run \ {r} : pc'[q] = pc[q]
    BY AdvanceFrame DEF DocInv
  <2>2. QED
    BY <2>1 DEF DocInv, Alone
<1>2. at[r] = "list" => file["selections"][ts[r]] = "whole"
  BY <1>1 DEF PairInv
<1>3. at[r] = "config" /\ Advance(r) => at'[r] # "list"
  <2>1. ASSUME NEW from, NEW result \in {"ok", "raised"}, at[r] = "config",
               Leave(r, from, result)
        PROVE  at'[r] = "selections"
    BY <1>1, <2>1, LeaveEffect
  <2>2. at[r] = "config" /\ InCall => at'[r] = "config"
    BY DEF InCall
  <2>3. QED
    BY <2>1, <2>2 DEF Advance, OpenArchive, EndStream, StatArchive, CaptureList, CreateList,
       FillList, ListFiles, Prune, Return
<1>4. PairSafe(r)
  <2>1. CASE Crash(r)
    BY <1>1, <2>1, CrashPairs
  <2>2. CASE Advance(r) /\ at[r] = "config"
    BY <1>1, <1>3, <2>2, ConfigPairs
  <2>3. CASE Advance(r) /\ at[r] # "config"
    <3>1. \/ CaptureList(r) \/ CreateList(r) \/ FillList(r)
          \/ ListFiles(r) \/ Prune(r) \/ Return(r)
      BY <1>1, <2>3, StepTypes, LeaveEffect
         DEF Advance, OpenArchive, EndStream, StatArchive, Position, Working
    <3>2. at[r] \in {"selections", "list"}
      BY <1>1, <2>3 DEF TypeOK, Kind
    <3>3. QED
      BY <1>1, <1>2, <3>1, <3>2, FirstListWritten, FirstListPruned,
         SecondListWritten, SecondListPruned
  <2>4. QED
    BY <2>1, <2>2, <2>3
<1>5. Room' => Room
  <2>1. faults \in Nat /\ (faults' = faults \/ faults' = faults + 1)
    BY <1>1, FaultCounts, AdvanceKind DEF Crash
  <2>2. KeepOf["selections"] \in Int
    BY FileAssumption DEF Kind
  <2>3. QED
    BY <2>1, <2>2 DEF Room
<1>6. \A q \in Run : pc'[q] # "ended" /\ at'[q] = "list" => file'["selections"][ts'[q]] = "whole"
  BY <1>1, <1>4 DEF Alone, PairSafe
<1>7. made'["list"] # {} /\ Room' => \E t \in Time : Pair(t)'
  BY <1>4, <1>5 DEF PairSafe, PairInv
<1>8. QED
  BY <1>6, <1>7 DEF PairInv

\* A pair of complete lists of one call is at hand whatever fails between any
\* two steps, whenever the process is killed, as long as the retention of the
\* first list leaves room for two more files than there were faults.  The
\* timer's calls, a second apart; something is kept of each kind.
THEOREM PairStays ==
    ASSUME RunGap = 1, \A k \in Kind : KeepOf[k] >= 1
    PROVE  Spec => []PairAtHand
<1> DEFINE Inv == FilesInv /\ (timer => PairInv)
<1>1. Init => (timer => PairInv)
  BY DEF Init, PairInv, Kind
<1>2. FilesInv /\ FilesInv' /\ (timer => PairInv) /\ [Next]_vars => (timer => PairInv)'
  <2> SUFFICES ASSUME FilesInv, FilesInv', timer => PairInv, [Next]_vars, timer'
               PROVE  PairInv'
    OBVIOUS
  <2>1. timer
    BY AdvanceFrame DEF Next, Start, Tick, vars, FilesInv
  <2>2. DocInv /\ TypeOK' /\ PairInv
    BY <2>1 DEF FilesInv, Documented
  <2>3. CASE \E r \in Run : Advance(r) \/ Crash(r)
    BY <2>2, <2>3, PairsKept
  <2>4. CASE \E r \in Run : Start(r)
    <3>1. PICK r \in Run : Start(r)
      BY <2>4
    <3>2. /\ pc'[r] = "open" /\ at'[r] = "config"
          /\ UNCHANGED <<file, made, victims, faults>>
          /\ \A q \in Run : pc[q] = "ended"
          /\ \A q \in Run \ {r} : pc'[q] = pc[q] /\ at'[q] = at[q] /\ ts'[q] = ts[q]
      BY <2>1, <2>2, <3>1 DEF Start, Step, DocInv, TypeOK
    <3>3. \A q \in Run : ~Making(q) /\ ~Making(q)'
      BY <3>2 DEF Making
    <3>4. \A t \in Time : Pair(t) => Pair(t)'
      BY <3>2, <3>3 DEF Pair, Later, Whole
    <3>5. QED
      BY <2>2, <3>2, <3>4 DEF PairInv, Room
  <2>5. CASE Tick \/ UNCHANGED vars
    <3>1. UNCHANGED <<file, made, victims, faults, pc, at, ts>>
      BY <2>5 DEF Tick, vars
    <3>2. \A t \in Time : Pair(t) => Pair(t)'
      BY <3>1 DEF Pair, Later, Whole, Making
    <3>3. QED
      BY <2>2, <3>1, <3>2 DEF PairInv, Room
  <2>6. QED
    BY <2>3, <2>4, <2>5 DEF Next
<1>3. (timer => PairInv) => PairAtHand
  BY DEF PairInv, PairAtHand, Room, Pair
<1>4. QED
  BY <1>1, <1>2, <1>3, FilesInvariant, PTL DEF Spec

-----------------------------------------------------------------------------
(* Runs that overlap, without faults.                                      *)

\* A file is complete, or somebody is about to complete it.
Writing(k, t) == \E q \in Run : at[q] = k /\ ts[q] = t /\ pc[q] \in {"stream", "fill"}
Alive(k, t)   == file[k][t] = "whole" \/ (file[k][t] = "partial" /\ Writing(k, t))
LaterAlive(k, t) == \E u \in Time : u > t /\ Alive(k, u)

\* While nothing fails, every file is alive, what a run is about to unlink has
\* a later one that is, and so has every complete file that is gone.
KeptInv ==
    /\ \A k \in Kind, t \in Time : file[k][t] # "none" => Alive(k, t)
    /\ \A r \in Run : \A a \in victims[r] : LaterAlive(at[r], a.ts)
    /\ \A k \in Kind : \A t \in made[k] : Alive(k, t) \/ LaterAlive(k, t)
    /\ \A r \in Run : victims[r] # {} => pc[r] = "prune"

\* A step after which everything alive still is keeps the invariant.
LEMMA KeptByGrowth ==
    ASSUME TypeOK, TypeOK', KeptInv,
           \A k \in Kind, t \in Time : Alive(k, t) => Alive(k, t)',
           \A k \in Kind, t \in Time : file'[k][t] # "none" => file[k][t] # "none" \/ Alive(k, t)',
           \A k \in Kind : \A t \in made'[k] : t \in made[k] \/ Alive(k, t)',
           \A q \in Run : \A a \in victims'[q] :
               at'[q] = at[q] /\ LaterAlive(at[q], a.ts) /\ pc'[q] = "prune"
    PROVE  KeptInv'
<1>1. \A k \in Kind, t \in Int : LaterAlive(k, t) => LaterAlive(k, t)'
  BY DEF LaterAlive
<1>2. \A q \in Run : at[q] \in Kind /\ \A a \in victims'[q] : a.ts \in Int
  BY DEF TypeOK, Name, Time
<1>3. \A k \in Kind : made[k] \subseteq Time /\ made'[k] \subseteq Time
  BY DEF TypeOK
<1>4. \A k \in Kind : \A t \in made'[k] : Alive(k, t)' \/ LaterAlive(k, t)'
  <2> SUFFICES ASSUME NEW k \in Kind, NEW t \in made'[k] PROVE Alive(k, t)' \/ LaterAlive(k, t)'
    OBVIOUS
  <2>1. t \in Time /\ t \in Int
    BY <1>3 DEF Time
  <2>2. CASE t \in made[k]
    BY <1>1, <2>1, <2>2 DEF KeptInv
  <2>3. QED
    BY <2>2
<1>5. \A q \in Run : \A a \in victims'[q] : LaterAlive(at[q], a.ts)'
  BY <1>1, <1>2 DEF LaterAlive, Alive, Writing
<1>6. QED
  BY <1>4, <1>5 DEF KeptInv, LaterAlive

\* Leaving a call, or starting one, makes no file dead.
LEMMA KeptAside ==
    ASSUME TypeOK, TypeOK', KeptInv, NEW r \in Run, UNCHANGED <<file, made>>,
           pc[r] \notin {"stream", "fill"},
           \A q \in Run \ {r} : /\ pc'[q] = pc[q] /\ at'[q] = at[q] /\ ts'[q] = ts[q]
                                /\ victims'[q] = victims[q],
           victims'[r] = {}
    PROVE  KeptInv'
<1>1. \A k \in Kind, t \in Time : Alive(k, t) => Alive(k, t)'
  BY DEF Alive, Writing
<1>2. \A q \in Run : \A a \in victims'[q] :
          at'[q] = at[q] /\ LaterAlive(at[q], a.ts) /\ pc'[q] = "prune"
  BY DEF KeptInv
<1>3. QED
  BY <1>1, <1>2, KeptByGrowth

\* A step inside a call that changes no file but, perhaps, its own, and that one
\* for the better.
LEMMA KeptInside ==
    ASSUME TypeOK, TypeOK', KeptInv, NEW r \in Run, NEW from, NEW to, Step(r, from, to), InCall,
           from # "prune", UNCHANGED victims,
           \A k \in Kind, t \in Time :
               \/ file'[k][t] = file[k][t] /\ (k # at[r] \/ t # ts[r] \/ from \notin {"stream", "fill"})
               \/ file'[k][t] = "none" /\ file[k][t] = "none"
               \/ Alive(k, t)',
           \A k \in Kind : \A t \in made'[k] : t \in made[k] \/ Alive(k, t)'
    PROVE  KeptInv'
<1>0. pc'[r] = to /\ pc[r] = from /\ \A q \in Run \ {r} : pc'[q] = pc[q]
  BY DEF Step, TypeOK
<1>1. at' = at /\ ts' = ts
  BY DEF InCall
<1>2. \A k \in Kind, t \in Time : Alive(k, t) => Alive(k, t)'
  BY <1>0, <1>1 DEF Alive, Writing
<1>3. \A k \in Kind, t \in Time : file'[k][t] # "none" => file[k][t] # "none" \/ Alive(k, t)'
  OBVIOUS
<1>4. \A q \in Run : \A a \in victims'[q] :
          at'[q] = at[q] /\ LaterAlive(at[q], a.ts) /\ pc'[q] = "prune"
  BY <1>0, <1>1 DEF KeptInv
<1>5. QED
  BY <1>2, <1>3, <1>4, KeptByGrowth

\* How a finished write leaves the files.
LEMMA KeptComplete ==
    ASSUME TypeOK, TypeOK', KeptInv, NEW r \in Run, NEW from \in {"stream", "fill"}, NEW to,
           Step(r, from, to), InCall, UNCHANGED victims, Complete(r)
    PROVE  KeptInv'
<1>0. at[r] \in Kind /\ ts[r] \in Time
  BY DEF TypeOK
<1>1. CASE Own(r) = "none"
  <2>1. UNCHANGED <<file, made>> /\ file[at[r]][ts[r]] = "none"
    BY <1>1 DEF Complete, Own
  <2>2. QED
    BY <2>1, KeptInside
<1>2. CASE Own(r) # "none"
  <2>1. Write(r, "whole") /\ made' = [made EXCEPT ![at[r]] = @ \cup {ts[r]}]
    BY <1>2 DEF Complete
  <2>2. /\ file'[at[r]][ts[r]] = "whole"
        /\ \A t \in Time \ {ts[r]} : file'[at[r]][t] = file[at[r]][t]
        /\ \A k \in Kind \ {at[r]} : file'[k] = file[k]
    BY <2>1, WriteEffect DEF Content
  <2>3. Alive(at[r], ts[r])' /\ at' = at /\ ts' = ts
    BY <2>2 DEF Alive, InCall
  <2>4. \A k \in Kind : \A t \in made'[k] : t \in made[k] \/ (k = at[r] /\ t = ts[r])
    BY <2>1 DEF TypeOK
  <2>5. \A k \in Kind, t \in Time :
            (k = at[r] /\ t = ts[r]) => Alive(k, t)'
    BY <2>2 DEF Alive
  <2>6. \A k \in Kind, t \in Time :
            (k # at[r] \/ t # ts[r]) => file'[k][t] = file[k][t]
    BY <2>2
  <2>7. \A k \in Kind : \A t \in made'[k] : t \in made[k] \/ Alive(k, t)'
    BY <1>0, <2>4, <2>5 DEF TypeOK
  <2>8. QED
    BY <2>5, <2>6, <2>7, KeptInside
<1>3. QED
  BY <1>1, <1>2

\* How a write that begins leaves them.
LEMMA KeptOpened ==
    ASSUME TypeOK, TypeOK', KeptInv, NEW r \in Run, NEW from \in {"open", "create"},
           NEW to \in {"stream", "fill"}, Step(r, from, to), InCall,
           UNCHANGED <<victims, made>>, Write(r, "partial")
    PROVE  KeptInv'
<1>0. at[r] \in Kind /\ ts[r] \in Time /\ at' = at /\ ts' = ts /\ pc'[r] = to
  BY DEF TypeOK, InCall, Step
<1>1. /\ file'[at[r]][ts[r]] = "partial"
      /\ \A t \in Time \ {ts[r]} : file'[at[r]][t] = file[at[r]][t]
      /\ \A k \in Kind \ {at[r]} : file'[k] = file[k]
  BY WriteEffect DEF Content
<1>2. Writing(at[r], ts[r])'
  BY <1>0 DEF Writing
<1>3. \A k \in Kind, t \in Time : k = at[r] /\ t = ts[r] => Alive(k, t)'
  BY <1>0, <1>1, <1>2 DEF Alive
<1>4. \A k \in Kind, t \in Time : (k # at[r] \/ t # ts[r]) => file'[k][t] = file[k][t]
  BY <1>1
<1>5. QED
  BY <1>3, <1>4, KeptInside

\* One unlink takes a file that has a later one.
LEMMA KeptUnlink ==
    ASSUME TypeOK, TypeOK', KeptInv, NEW r \in Run, NEW a \in victims[r],
           Step(r, "prune", "prune"), InCall, UNCHANGED made,
           file' = [file EXCEPT ![at[r]][a.ts] = "none"],
           victims' = [victims EXCEPT ![r] = @ \ {a}]
    PROVE  KeptInv'
<1>0. at[r] \in Kind /\ a.ts \in Time /\ at' = at /\ ts' = ts /\ pc' = pc
  BY DEF TypeOK, InCall, Step, Name
<1>1. /\ \A k \in Kind, t \in Time : k # at[r] \/ t # a.ts => file'[k][t] = file[k][t]
      /\ file'[at[r]][a.ts] = "none"
  BY <1>0 DEF TypeOK
<1>2. \A k \in Kind, t \in Time : k # at[r] \/ t # a.ts => (Alive(k, t)' <=> Alive(k, t))
  BY <1>0, <1>1 DEF Alive, Writing
<1>3. PICK u \in Time : u > a.ts /\ Alive(at[r], u)
  BY DEF KeptInv, LaterAlive
<1>4. Alive(at[r], u)'
  BY <1>0, <1>2, <1>3 DEF Time
<1>5. ASSUME NEW k \in Kind, NEW t \in Time, LaterAlive(k, t) PROVE LaterAlive(k, t)'
  <2>1. PICK v \in Time : v > t /\ Alive(k, v)
    BY <1>5 DEF LaterAlive
  <2>2. CASE k = at[r] /\ v = a.ts
    <3>1. u > t
      BY <1>0, <1>3, <2>1, <2>2 DEF Time
    <3>2. QED
      BY <1>0, <1>4, <2>2, <3>1 DEF LaterAlive
  <2>3. CASE k # at[r] \/ v # a.ts
    BY <1>2, <2>1, <2>3 DEF LaterAlive
  <2>4. QED
    BY <2>2, <2>3
<1>6. \A k \in Kind, t \in Time : file'[k][t] # "none" => Alive(k, t)'
  BY <1>1, <1>2 DEF KeptInv
<1>7. \A q \in Run : \A b \in victims'[q] : b \in victims[q] /\ b.ts \in Time /\ at[q] \in Kind
  BY DEF TypeOK, Name
<1>8. \A q \in Run : \A b \in victims'[q] : LaterAlive(at[q], b.ts)' /\ pc'[q] = "prune"
  BY <1>0, <1>5, <1>7 DEF KeptInv
<1>9. \A k \in Kind : \A t \in made'[k] : Alive(k, t)' \/ LaterAlive(k, t)'
  <2> SUFFICES ASSUME NEW k \in Kind, NEW t \in made[k] PROVE Alive(k, t)' \/ LaterAlive(k, t)'
    OBVIOUS
  <2>1. t \in Time /\ (Alive(k, t) \/ LaterAlive(k, t))
    BY DEF KeptInv, TypeOK
  <2>2. CASE k = at[r] /\ t = a.ts
    BY <1>0, <1>3, <1>4, <2>2 DEF LaterAlive
  <2>3. CASE k # at[r] \/ t # a.ts
    BY <1>2, <1>5, <2>1, <2>3
  <2>4. QED
    BY <2>2, <2>3
<1>10. QED
  BY <1>6, <1>8, <1>9 DEF KeptInv

\* Every step of a call that no fault struck keeps the invariant.
LEMMA KeptAdvance ==
    ASSUME TypeOK, TypeOK', KeptInv, NEW r \in Run, Advance(r), NoFault,
           \A k \in Kind : KeepOf[k] >= 1
    PROVE  KeptInv'
<1>0. /\ at[r] \in Kind /\ ts[r] \in Time /\ ~Fault(r)
      /\ \A k \in Kind : KeepOf[k] \in Int
  BY FileAssumption DEF TypeOK, Fault, NoFault
<1>1. ASSUME NEW from \in {"stat", "prune"}, NEW result \in {"ok", "raised"},
             Leave(r, from, result), UNCHANGED file
      PROVE  KeptInv'
  <2>1. /\ pc[r] = from /\ made' = made
        /\ \A q \in Run \ {r} : pc'[q] = pc[q] /\ at'[q] = at[q] /\ ts'[q] = ts[q]
    BY <1>1, LeaveEffect
  <2>2. victims'[r] = {} /\ \A q \in Run \ {r} : victims'[q] = victims[q]
    BY <1>1 DEF Leave, TypeOK
  <2>3. QED
    BY <1>1, <2>1, <2>2, KeptAside
<1>2. CASE OpenArchive(r) \/ CreateList(r)
  BY <1>0, <1>2, KeptOpened DEF OpenArchive, CreateList
<1>3. CASE EndStream(r) \/ FillList(r)
  BY <1>0, <1>3, KeptComplete DEF EndStream, FillList
<1>4. CASE StatArchive(r) \/ CaptureList(r)
  <2>1. CASE Leave(r, "stat", "raised")
    BY <1>0, <1>1, <1>4, <2>1 DEF StatArchive, CaptureList
  <2>2. CASE \E from \in {"stat", "capture"}, to \in Working :
                Step(r, from, to) /\ InCall /\ UNCHANGED <<file, victims, made>>
    BY <2>2, KeptInside
  <2>3. QED
    BY <1>0, <1>4, <2>1, <2>2 DEF StatArchive, CaptureList, Working
<1>5. CASE ListFiles(r)
  <2>1. /\ Step(r, "retain", "prune") /\ InCall /\ UNCHANGED <<file, made>>
        /\ victims' = [victims EXCEPT ![r] = ToDelete(Present(at[r]), KeepOf[at[r]])]
    BY <1>5 DEF ListFiles
  <2>2. /\ pc'[r] = "prune" /\ pc[r] = "retain" /\ at' = at /\ ts' = ts
        /\ \A q \in Run \ {r} : pc'[q] = pc[q] /\ victims'[q] = victims[q]
        /\ victims'[r] = ToDelete(Present(at[r]), KeepOf[at[r]])
    BY <2>1 DEF Step, InCall, TypeOK
  <2>3. \A k \in Kind, t \in Time : Alive(k, t) => Alive(k, t)'
    BY <2>1, <2>2 DEF Alive, Writing
  <2>4. \A a \in victims'[r] : LaterAlive(at[r], a.ts)
    <3> SUFFICES ASSUME NEW a \in victims'[r] PROVE LaterAlive(at[r], a.ts)
      OBVIOUS
    <3>1. PICK t \in Time : file[at[r]][t] # "none" /\ a.ts < t /\ a.ts \in Time
      BY <1>0, <2>2, VictimsOlder
    <3>2. Alive(at[r], t)
      BY <1>0, <3>1 DEF KeptInv
    <3>3. QED
      BY <3>1, <3>2 DEF LaterAlive, Time
  <2>5. \A q \in Run : \A a \in victims'[q] :
            at'[q] = at[q] /\ LaterAlive(at[q], a.ts) /\ pc'[q] = "prune"
    BY <2>2, <2>4 DEF KeptInv
  <2>6. QED
    BY <2>1, <2>3, <2>5, KeptByGrowth
<1>6. CASE Prune(r)
  <2>1. PICK a \in victims[r] :
            \/ /\ Step(r, "prune", "prune")
               /\ file' = [file EXCEPT ![at[r]][a.ts] = "none"]
               /\ victims' = [victims EXCEPT ![r] = @ \ {a}]
               /\ InCall /\ UNCHANGED made
            \/ Leave(r, "prune", "raised") /\ UNCHANGED file
    BY <1>6 DEF Prune
  <2>2. CASE Leave(r, "prune", "raised") /\ UNCHANGED file
    BY <1>1, <2>2
  <2>3. QED
    BY <2>1, <2>2, KeptUnlink
<1>7. CASE Return(r)
  BY <1>1, <1>7 DEF Return
<1>8. QED
  BY <1>2, <1>3, <1>4, <1>5, <1>6, <1>7 DEF Advance

\* With something to keep of every kind, runs that overlap, however many, lose
\* no complete file without a newer one as long as nothing fails.
THEOREM OverlapKept ==
    ASSUME \A k \in Kind : KeepOf[k] >= 1 PROVE Spec => []OverlapLosesNothing
<1>1. Init => TypeOK /\ (faults = 0 => KeptInv)
  <2>1. Init => KeptInv
    BY DEF Init, KeptInv
  <2>2. Init => TypeOK
    <3>1. 0 \in Time
      BY FileAssumption DEF Time
    <3>2. QED
      BY <3>1, FileAssumption DEF Init, TypeOK, Kind, Content
  <2>3. QED
    BY <2>1, <2>2
<1>2. TypeOK /\ (faults = 0 => KeptInv) /\ [Next]_vars => TypeOK' /\ (faults = 0 => KeptInv)'
  <2> SUFFICES ASSUME TypeOK, TypeOK', faults = 0 => KeptInv, [Next]_vars, faults' = 0
               PROVE  KeptInv'
    BY NextTypes
  <2>0. faults = 0 /\ KeptInv /\ \A r \in Run : ~Fault(r)
    <3>1. \A r \in Run : ~Fault(r)
      BY DEF Fault, TypeOK
    <3>2. faults = 0
      BY <3>1 DEF Next, Advance, Start, Crash, Tick, vars, NoFault, OpenArchive, EndStream,
         StatArchive, CaptureList, CreateList, FillList, ListFiles, Prune, Return
    <3>3. QED
      BY <3>1, <3>2
  <2>1. ASSUME NEW r \in Run, Start(r) PROVE KeptInv'
    <3>1. /\ UNCHANGED <<file, made, victims>> /\ pc[r] = "ended"
          /\ \A q \in Run \ {r} : pc'[q] = pc[q] /\ at'[q] = at[q] /\ ts'[q] = ts[q]
      BY <2>1 DEF Start, Step, TypeOK
    <3>2. QED
      BY <2>0, <3>1, KeptAside DEF KeptInv
  <2>2. ASSUME NEW r \in Run, Advance(r) PROVE KeptInv'
    <3>1. NoFault
      BY <2>0, <2>2 DEF Advance, OpenArchive, EndStream, StatArchive, CaptureList, CreateList,
         FillList, ListFiles, Prune, Return
    <3>2. QED
      BY <2>0, <2>2, <3>1, KeptAdvance
  <2>3. CASE Tick \/ UNCHANGED vars
    <3>1. UNCHANGED <<file, pc, at, ts, victims, made>>
      BY <2>3 DEF Tick, vars
    <3>2. QED
      BY <2>0, <3>1 DEF KeptInv, LaterAlive, Alive, Writing
  <2>4. QED
    BY <2>0, <2>1, <2>2, <2>3 DEF Next, Crash
<1>3. TypeOK /\ (faults = 0 => KeptInv) => OverlapLosesNothing
  <2> SUFFICES ASSUME TypeOK, KeptInv, \A r \in Run : pc[r] = "ended",
                      NEW k \in Kind, NEW t \in made[k]
               PROVE  \E u \in Whole(k) : u >= t
    BY DEF OverlapLosesNothing
  <2>1. t \in Time /\ \A u \in Time : Alive(k, u) => u \in Whole(k)
    BY DEF TypeOK, Alive, Writing, Whole
  <2>2. QED
    BY <2>1 DEF KeptInv, LaterAlive, Time
<1>4. QED
  BY <1>1, <1>2, <1>3, PTL DEF Spec
-----------------------------------------------------------------------------
(* How many files there are.                                               *)

\* The least of some natural numbers.
LEMMA LeastNumber ==
    ASSUME NEW S, S \subseteq Nat, S # {}
    PROVE  \E m \in S : \A n \in S : m <= n
<1>1. PICK m \in S : \A n \in S : <<n, m>> \notin OpToRel(<, Nat)
  BY WFMin, NatLessThanWellFounded, Zenon
<1>2. \A n \in S : ~(n < m)
  BY <1>1 DEF OpToRel
<1>3. QED
  BY <1>2

\* The deletion loop finds its next file as long as there is one to delete.
LEMMA FirstFile ==
    ASSUME NEW files, files \subseteq Name({0}, Nat), files # {}
    PROVE  \E a \in files : IsFirst(a, files)
<1> DEFINE Stamps == {f.ts : f \in files}
<1>1. Stamps \subseteq Nat /\ Stamps # {}
  BY DEF Name
<1>2. PICK t \in Stamps : \A u \in Stamps : t <= u
  <2> HIDE DEF Stamps
  <2>1. QED
    BY <1>1, LeastNumber
<1>3. PICK a \in files : a.ts = t
  OBVIOUS
<1>4. ASSUME NEW g \in files \ {a} PROVE NameBefore(a, g)
  <2>1. a = [rank |-> 0, ts |-> a.ts] /\ g = [rank |-> 0, ts |-> g.ts]
        /\ a.ts \in Nat /\ g.ts \in Nat
    BY DEF Name
  <2>2. a.ts <= g.ts /\ a.ts # g.ts
    BY <1>2, <1>3, <2>1
  <2>3. QED
    BY <2>1, <2>2 DEF NameBefore
<1>5. QED
  BY <1>4 DEF IsFirst

\* apply_retention spares no more files than it is told to keep: those that
\* come after the first one it spares are fewer than that.
LEMMA KeepsAtMost ==
    ASSUME NEW files, files \subseteq Name({0}, Nat), IsFiniteSet(files), NEW keep \in Nat
    PROVE  Cardinality(files \ ToDelete(files, keep)) <= keep
<1> DEFINE spared == files \ ToDelete(files, keep)
<1>1. CASE spared = {}
  BY <1>1, FS_EmptySet
<1>2. CASE spared # {}
  <2>1. PICK a \in spared : IsFirst(a, spared)
    <3>1. spared \subseteq Name({0}, Nat)
      OBVIOUS
    <3> HIDE DEF spared
    <3>2. QED
      BY <1>2, <3>1, FirstFile
  <2> DEFINE after == {g \in files : NameBefore(a, g)}
  <2>2. IsFiniteSet(after) /\ Cardinality(after) \in Nat /\ Cardinality(after) < keep
    <3>1. IsFiniteSet(after)
      BY FS_Subset
    <3>2. ~(Cardinality(after) >= keep)
      BY DEF ToDelete
    <3>3. QED
      BY <3>1, <3>2, FS_CardinalityType
  <2>3. spared \subseteq after \cup {a}
    BY <2>1 DEF IsFirst
  <2>4. /\ IsFiniteSet(after \cup {a})
        /\ Cardinality(after \cup {a}) <= Cardinality(after) + 1
        /\ Cardinality(after \cup {a}) \in Nat
    <3> HIDE DEF after
    <3>1. /\ IsFiniteSet(after \cup {a})
          /\ \/ Cardinality(after \cup {a}) = Cardinality(after)
             \/ Cardinality(after \cup {a}) = Cardinality(after) + 1
      BY <2>2, FS_AddElement
    <3>2. QED
      BY <2>2, <3>1
  <2>5. Cardinality(spared) <= Cardinality(after \cup {a}) /\ Cardinality(spared) \in Nat
    BY <2>3, <2>4, FS_Subset, FS_CardinalityType
  <2>6. QED
    BY <2>2, <2>4, <2>5
<1>3. QED
  BY <1>1, <1>2

\* The files of a kind are finitely many.
LEMMA NamesFinite ==
    ASSUME NEW S, S \subseteq {[rank |-> 0, ts |-> t] : t \in Time}
    PROVE  IsFiniteSet(S) /\ Cardinality(S) \in Nat /\ S \subseteq Name({0}, Nat)
<1> DEFINE named == [t \in Time |-> [rank |-> 0, ts |-> t]]
           all   == {[rank |-> 0, ts |-> t] : t \in Time}
<1>1. IsFiniteSet(Time)
  BY FileAssumption, FS_Interval DEF Time
<1>2. named \in Surjection(Time, all)
  BY DEF Surjection
<1>3. IsFiniteSet(all)
  <2> HIDE DEF named, all
  <2>1. QED
    BY <1>1, <1>2, FS_Surjection
<1>4. IsFiniteSet(S)
  BY <1>3, FS_Subset
<1>5. all \subseteq Name({0}, Nat)
  BY DEF Name, Time
<1>6. QED
  BY <1>4, <1>5, FS_CardinalityType

\* So they are before and after every step.
LEMMA FilesFinite ==
    ASSUME NEW k
    PROVE  /\ IsFiniteSet(Present(k)) /\ Cardinality(Present(k)) \in Nat
           /\ Present(k) \subseteq Name({0}, Nat)
           /\ IsFiniteSet(Present(k)') /\ Cardinality(Present(k)') \in Nat
<1>1. Present(k) \subseteq {[rank |-> 0, ts |-> t] : t \in Time}
  BY DEF Present
<1>2. Present(k)' \subseteq {[rank |-> 0, ts |-> t] : t \in Time}
  BY DEF Present
<1>3. QED
  BY <1>1, <1>2, NamesFinite

\* The call may have made a file of kind k that its retention has yet to see.
Holder(r, k) == at[r] = k /\ pc[r] \in {"stream", "stat", "fill", "retain", "prune"}

\* The files that the retention in progress spares.
Spared(r) == Present(at[r]) \ victims[r]

Within(k, n) == Cardinality(Present(k)) <= KeepOf[k] + faults + n

CountInv ==
    /\ \A k \in Kind : Within(k, IF \E r \in Run : Holder(r, k) THEN 1 ELSE 0)
    /\ \A r \in Run : pc[r] = "prune" => Cardinality(Spared(r)) <= KeepOf[at[r]]

\* What a step of the call, at kind k, does to the number of files: none come,
\* and a call is over only by a fault or with its retention done; or one comes.
CountSafe(r, k) ==
    /\ \/ /\ Present(k)' \subseteq Present(k)
          /\ Holder(r, k) => \/ Holder(r, k)'
                             \/ faults' = faults + 1
                             \/ Cardinality(Present(k)) <= KeepOf[k]
       \/ /\ \E x : Present(k)' \subseteq Present(k) \cup {x}
          /\ ~Holder(r, k)
          /\ Holder(r, k)' \/ faults' = faults + 1
    /\ pc'[r] = "prune" => Cardinality(Spared(r)') <= KeepOf[at'[r]]

\* One file more is one more to count.
LEMMA OneMore ==
    ASSUME NEW S, IsFiniteSet(S), NEW x, NEW T, T \subseteq S \cup {x}
    PROVE  Cardinality(T) \in Nat /\ Cardinality(S) \in Nat
           /\ Cardinality(T) <= Cardinality(S) + 1
<1>1. /\ IsFiniteSet(S \cup {x})
      /\ \/ Cardinality(S \cup {x}) = Cardinality(S)
         \/ Cardinality(S \cup {x}) = Cardinality(S) + 1
  BY FS_AddElement
<1>2. IsFiniteSet(T) /\ Cardinality(T) <= Cardinality(S \cup {x})
  BY <1>1, FS_Subset
<1>3. Cardinality(S) \in Nat /\ Cardinality(T) \in Nat
  BY <1>2, FS_CardinalityType
<1>4. QED
  BY <1>1, <1>2, <1>3

\* A step of the only call keeps the count of every kind.
LEMMA CountCarried ==
    ASSUME TypeOK, NEW r \in Run, Alone(r), CountInv,
           NEW kind \in Kind, kind = at[r], CountSafe(r, kind),
           faults' = faults \/ faults' = faults + 1,
           at'[r] = at[r] \/ pc'[r] = "capture",
           \A k \in Kind \ {kind} : file'[k] = file[k]
    PROVE  CountInv'
<1>1. faults \in Nat /\ faults' \in Nat /\ KeepOf \in [Kind -> Int]
  BY FileAssumption DEF TypeOK
<1>2. \A q \in Run \ {r}, k \in Kind : ~Holder(q, k) /\ ~Holder(q, k)'
  BY DEF Alone, Holder
<1>3. \A k \in Kind : /\ (\E q \in Run : Holder(q, k)) <=> Holder(r, k)
                      /\ (\E q \in Run : Holder(q, k)') <=> Holder(r, k)'
  BY <1>2
<1>4. \A k \in Kind : Cardinality(Present(k)) <= KeepOf[k] + faults + (IF Holder(r, k) THEN 1 ELSE 0)
  BY <1>3 DEF CountInv, Within
<1>5. ASSUME NEW k \in Kind
      PROVE  Cardinality(Present(k)') <= KeepOf[k] + faults' + (IF Holder(r, k)' THEN 1 ELSE 0)
  <2>1. /\ Cardinality(Present(k)) \in Nat /\ Cardinality(Present(k)') \in Nat
        /\ KeepOf[k] \in Int
        /\ Cardinality(Present(k)) <= KeepOf[k] + faults + (IF Holder(r, k) THEN 1 ELSE 0)
    BY <1>1, <1>4, FilesFinite
  <2>2. CASE k # kind
    <3>1. Present(k)' = Present(k)
      BY <2>2 DEF Present
    <3>2. ~Holder(r, k) /\ ~Holder(r, k)'
      BY <2>2 DEF Holder
    <3>3. QED
      BY <1>1, <2>1, <3>1, <3>2
  <2>3. CASE /\ k = kind
             /\ Present(k)' \subseteq Present(k)
             /\ Holder(r, k) => \/ Holder(r, k)'
                                \/ faults' = faults + 1
                                \/ Cardinality(Present(k)) <= KeepOf[k]
    <3>1. Cardinality(Present(k)') <= Cardinality(Present(k))
      BY <2>3, FilesFinite, FS_Subset
    <3>2. CASE Holder(r, k) => Holder(r, k)' \/ faults' = faults + 1
      BY <1>1, <2>1, <3>1, <3>2
    <3>3. CASE Cardinality(Present(k)) <= KeepOf[k]
      BY <1>1, <2>1, <3>1, <3>3
    <3>4. QED
      BY <2>3, <3>2, <3>3
  <2>4. CASE /\ k = kind
             /\ \E x : Present(k)' \subseteq Present(k) \cup {x}
             /\ ~Holder(r, k)
             /\ Holder(r, k)' \/ faults' = faults + 1
    <3>1. Cardinality(Present(k)') <= Cardinality(Present(k)) + 1
      BY <2>4, FilesFinite, OneMore
    <3>2. QED
      BY <1>1, <2>1, <2>4, <3>1
  <2>5. QED
    BY <2>2, <2>3, <2>4 DEF CountSafe
<1>6. \A q \in Run : pc'[q] = "prune" => Cardinality(Spared(q)') <= KeepOf[at'[q]]
  BY DEF Alone, CountSafe
<1>7. \A k \in Kind : Within(k, IF \E q \in Run : Holder(q, k) THEN 1 ELSE 0)'
  BY <1>3, <1>5 DEF Within
<1>8. QED
  BY <1>6, <1>7 DEF CountInv

\* Making a file.
LEMMA MakingCounts ==
    ASSUME TypeOK, TypeOK', NEW r \in Run, Position(r), NEW k \in Kind, k = at[r],
           \/ OpenArchive(r) \/ EndStream(r) \/ StatArchive(r)
           \/ CaptureList(r) \/ CreateList(r) \/ FillList(r)
    PROVE  CountSafe(r, k)
<1> DEFINE own == [rank |-> 0, ts |-> ts[r]]
           after == {"open", "stream", "stat", "capture", "create", "fill"}
<1>1. pc[r] \in after
  BY StepTypes, LeaveEffect
     DEF OpenArchive, EndStream, StatArchive, CaptureList, CreateList, FillList, Working
<1>2. ASSUME NEW from, Leave(r, from, "raised"), Fault(r) PROVE faults' = faults + 1 /\ pc'[r] # "prune"
  BY <1>2, FaultCounts, LeaveEffect DEF TypeOK, Kind
<1>3. ASSUME NEW from, NEW to \in Working, Step(r, from, to), InCall PROVE pc'[r] = to /\ at'[r] = k
  BY <1>3, StepTypes DEF InCall
<1>4. ASSUME NEW c \in Content, Write(r, c) PROVE Present(k)' \subseteq Present(k) \cup {own}
  BY <1>4, WriteEffect DEF Present
<1>5. CASE OpenArchive(r) \/ CreateList(r)
  <2>1. ~Holder(r, k)
    BY <1>5, StepTypes, LeaveEffect DEF OpenArchive, CreateList, Holder, Working
  <2>2. Present(k)' \subseteq Present(k) \cup {own}
    BY <1>4, <1>5 DEF OpenArchive, CreateList, Content, Present
  <2>3. pc'[r] # "prune" /\ (Holder(r, k)' \/ faults' = faults + 1)
    BY <1>2, <1>3, <1>5 DEF OpenArchive, CreateList, Holder, Working
  <2>4. QED
    BY <2>1, <2>2, <2>3 DEF CountSafe
<1>6. CASE EndStream(r) \/ FillList(r)
  <2>1. Own(r) = "partial" /\ ts[r] \in Time
    BY <1>6, StepTypes, LeaveEffect DEF EndStream, FillList, Working, Position, TypeOK
  <2>2. Present(k)' \subseteq Present(k)
    <3>1. ASSUME NEW c \in Content, Write(r, c) PROVE Present(k)' \subseteq Present(k)
      BY <2>1, <3>1, WriteEffect DEF Present, Own
    <3>2. Complete(r) => Write(r, "whole")
      BY <2>1, CompleteEffect
    <3>3. file' = file => Present(k)' \subseteq Present(k)
      BY DEF Present
    <3>4. QED
      BY <1>6, <3>1, <3>2, <3>3 DEF EndStream, FillList, Content
  <2>3. pc'[r] # "prune" /\ (Holder(r, k)' \/ faults' = faults + 1)
    BY <1>2, <1>3, <1>6 DEF EndStream, FillList, Holder, Working
  <2>4. QED
    BY <2>2, <2>3 DEF CountSafe
<1>7. CASE StatArchive(r) \/ CaptureList(r)
  <2>1. file' = file
    BY <1>7 DEF StatArchive, CaptureList
  <2>2. Present(k)' \subseteq Present(k)
    BY <2>1 DEF Present
  <2>3. StatArchive(r) => pc[r] = "stat" /\ Step(r, "stat", "retain") /\ InCall
    BY StepTypes, LeaveEffect DEF StatArchive, Position, Working
  <2>4. CaptureList(r) => ~Holder(r, k)
    BY StepTypes, LeaveEffect DEF CaptureList, Holder, Working
  <2>5. pc'[r] # "prune" /\ (StatArchive(r) => Holder(r, k)')
    BY <1>2, <1>3, <1>7, <2>3 DEF CaptureList, Holder, Working
  <2>6. QED
    BY <1>7, <2>2, <2>4, <2>5 DEF CountSafe
<1>8. QED
  BY <1>5, <1>6, <1>7

\* The retention, and the end of the call.
LEMMA RetentionCounts ==
    ASSUME Documented, TypeOK, TypeOK', NEW r \in Run, Position(r), NEW k \in Kind, k = at[r],
           pc[r] = "prune" => Cardinality(Spared(r)) <= KeepOf[k],
           ListFiles(r) \/ Prune(r) \/ Return(r)
    PROVE  CountSafe(r, k)
<1>1. CASE ListFiles(r)
  <2>1. /\ pc'[r] = "prune" /\ at' = at /\ file' = file
        /\ victims'[r] = ToDelete(Present(k), KeepOf[k])
    BY <1>1, StepTypes DEF ListFiles, InCall, Working, TypeOK
  <2>2. Present(k)' = Present(k) /\ Spared(r)' = Present(k) \ ToDelete(Present(k), KeepOf[k])
    BY <2>1 DEF Present, Spared
  <2>3. KeepOf[k] \in Nat
    BY FileAssumption DEF Documented
  <2>4. Cardinality(Spared(r)') <= KeepOf[at'[r]]
    BY <2>1, <2>2, <2>3, FilesFinite, KeepsAtMost
  <2>5. Holder(r, k)'
    BY <2>1 DEF Holder
  <2>6. QED
    BY <2>2, <2>4, <2>5 DEF CountSafe
<1>2. CASE Prune(r)
  <2>1. PICK a \in victims[r] :
            \/ /\ file[at[r]][a.ts] # "none"
               /\ Step(r, "prune", "prune")
               /\ file' = [file EXCEPT ![at[r]][a.ts] = "none"]
               /\ victims' = [victims EXCEPT ![r] = @ \ {a}]
               /\ NoFault /\ InCall
            \/ /\ Leave(r, "prune", "raised") /\ UNCHANGED file
               /\ IF file[at[r]][a.ts] = "none" THEN NoFault ELSE Fault(r)
    BY <1>2 DEF Prune
  <2>2. /\ pc[r] = "prune" /\ file[k][a.ts] # "none" /\ a.ts \in Time
        /\ a = [rank |-> 0, ts |-> a.ts]
    BY <2>1, StepTypes, LeaveEffect DEF Position, Working, TypeOK, Name
  <2>3. CASE Leave(r, "prune", "raised") /\ UNCHANGED file /\ Fault(r)
    <3>1. pc'[r] # "prune" /\ faults' = faults + 1
      BY <2>3, LeaveEffect, FaultCounts DEF TypeOK, Kind
    <3>2. Present(k)' \subseteq Present(k)
      BY <2>3 DEF Present
    <3>3. QED
      BY <3>1, <3>2 DEF CountSafe
  <2>4. CASE /\ Step(r, "prune", "prune")
             /\ file' = [file EXCEPT ![at[r]][a.ts] = "none"]
             /\ victims' = [victims EXCEPT ![r] = @ \ {a}]
             /\ NoFault /\ InCall
    <3>1. pc'[r] = "prune" /\ at' = at /\ victims'[r] = victims[r] \ {a}
      BY <2>4, StepTypes DEF InCall, Working, TypeOK
    <3>2. \A t \in Time : file'[k][t] = IF t = a.ts THEN "none" ELSE file[k][t]
      BY <2>2, <2>4 DEF TypeOK
    <3>3. Present(k)' \subseteq Present(k) /\ a \notin Present(k)'
      BY <2>2, <3>2 DEF Present
    <3>4. Spared(r)' \subseteq Spared(r)
      BY <3>1, <3>3 DEF Spared
    <3>5. IsFiniteSet(Spared(r)) /\ Spared(r) \subseteq Present(k)
      BY FilesFinite, FS_Subset DEF Spared
    <3>6. Cardinality(Spared(r)') <= Cardinality(Spared(r))
          /\ Cardinality(Spared(r)') \in Nat /\ Cardinality(Spared(r)) \in Nat
      BY <3>4, <3>5, FS_Subset, FS_CardinalityType
    <3>7. KeepOf[k] \in Int /\ at'[r] = k
      BY <3>1, FileAssumption
    <3>8. Cardinality(Spared(r)') <= KeepOf[at'[r]]
      BY <2>2, <3>6, <3>7
    <3>9. Holder(r, k)'
      BY <3>1 DEF Holder
    <3>10. QED
      BY <3>3, <3>8, <3>9 DEF CountSafe
  <2>5. QED
    BY <2>1, <2>2, <2>3, <2>4
<1>3. CASE Return(r)
  <2>1. pc[r] = "prune" /\ victims[r] = {} /\ file' = file /\ pc'[r] # "prune"
    BY <1>3, LeaveEffect DEF Return, TypeOK, Kind
  <2>2. Present(k)' = Present(k) /\ Spared(r) = Present(k)
    BY <2>1 DEF Present, Spared
  <2>3. QED
    BY <2>1, <2>2 DEF CountSafe
<1>4. QED
  BY <1>1, <1>2, <1>3

\* Every step of the running call.
LEMMA CountKept ==
    ASSUME Documented, DocInv, TypeOK', NEW r \in Run, Advance(r) \/ Crash(r), CountInv
    PROVE  CountInv'
<1>1. TypeOK /\ Alone(r) /\ pc[r] # "ended" /\ Position(r)
  <2>1. pc[r] # "ended" /\ \A q \in Run \ {r} : pc'[q] = pc[q]
    BY AdvanceFrame DEF DocInv
  <2>2. QED
    BY <2>1 DEF DocInv, Alone
<1>2. PICK k \in Kind : k = at[r]
  BY <1>1 DEF TypeOK
<1>3. CASE Advance(r)
  <2>1. pc[r] = "prune" => Cardinality(Spared(r)) <= KeepOf[k]
    BY <1>2 DEF CountInv
  <2>2. CountSafe(r, k)
    BY <1>1, <1>2, <1>3, <2>1, MakingCounts, RetentionCounts DEF Advance
  <2>3. QED
    BY <1>1, <1>2, <1>3, <2>2, AdvanceKind, CountCarried
<1>4. CASE Crash(r)
  <2>1. file' = file /\ at' = at /\ faults' = faults + 1 /\ pc'[r] = "ended"
    BY <1>1, <1>4, FaultCounts DEF Crash, TypeOK
  <2>2. CountSafe(r, k)
    BY <2>1 DEF CountSafe, Present
  <2>3. QED
    BY <1>1, <1>2, <2>1, <2>2, CountCarried
<1>5. QED
  BY <1>3, <1>4

\* No kind of file piles up: at any moment there are at most as many as are to
\* be kept, one more for the call at work and one more for each fault so far.
\* In the documented deployment.
FilesNeverPileUp ==
    Documented => \A k \in Kind : Cardinality(Present(k)) <= KeepOf[k] + faults + 1

\* The bound holds for any retention counts, any number of faults, wherever
\* they strike, and any length of time.
THEOREM DirectoryBounded == Spec => []FilesNeverPileUp
<1> DEFINE Inv == Documented => CountInv
<1>1. Init => Inv
  <2> SUFFICES ASSUME Init, Documented PROVE CountInv
    OBVIOUS
  <2>1. \A k \in Kind : Present(k) = {} /\ \A r \in Run : ~Holder(r, k)
    BY DEF Init, Present, Holder
  <2>2. \A k \in Kind : KeepOf[k] \in Int /\ KeepOf[k] >= 1
    BY FileAssumption DEF Documented
  <2>3. faults = 0 /\ \A r \in Run : pc[r] # "prune"
    BY DEF Init
  <2>4. \A k \in Kind : Cardinality(Present(k)) = 0
    BY <2>1, FS_EmptySet
  <2>5. \A k \in Kind : Within(k, 0)
    BY <2>2, <2>3, <2>4 DEF Within
  <2>6. \A k \in Kind : (IF \E r \in Run : Holder(r, k) THEN 1 ELSE 0) = 0
    BY <2>1
  <2>7. QED
    BY <2>3, <2>5, <2>6 DEF CountInv
<1>2. FilesInv /\ FilesInv' /\ Inv /\ [Next]_vars => Inv'
  <2> SUFFICES ASSUME FilesInv, FilesInv', Inv, [Next]_vars, Documented'
               PROVE  CountInv'
    OBVIOUS
  <2>1. Documented
    BY AdvanceFrame DEF Next, Start, Tick, vars, FilesInv, Documented
  <2>2. DocInv /\ TypeOK' /\ CountInv
    BY <2>1 DEF FilesInv
  <2>3. CASE \E r \in Run : Advance(r) \/ Crash(r)
    BY <2>1, <2>2, <2>3, CountKept
  <2>4. CASE (\E r \in Run : Start(r)) \/ Tick \/ UNCHANGED vars
    <3>1. file' = file /\ faults' = faults
      BY <2>4 DEF Start, Tick, vars
    <3>2. \A k \in Kind : Present(k)' = Present(k)
      BY <3>1 DEF Present
    <3>3. \/ UNCHANGED <<pc, at, victims>>
          \/ \A q \in Run : pc[q] = "ended" /\ pc'[q] \in {"ended", "open"}
      BY <2>1, <2>2, <2>4 DEF Start, Step, Tick, vars, Documented, DocInv, TypeOK
    <3>4. CASE UNCHANGED <<pc, at, victims>>
      BY <2>2, <3>1, <3>2, <3>4 DEF CountInv, Within, Holder, Spared, Present
    <3>5. CASE \A q \in Run : pc[q] = "ended" /\ pc'[q] \in {"ended", "open"}
      <4>1. \A q \in Run, k \in Kind : ~Holder(q, k) /\ ~Holder(q, k)' /\ pc'[q] # "prune"
        BY <3>5 DEF Holder
      <4>2. \A k \in Kind : /\ (IF \E q \in Run : Holder(q, k) THEN 1 ELSE 0) = 0
                            /\ (IF \E q \in Run : Holder(q, k)' THEN 1 ELSE 0) = 0
        BY <4>1
      <4>3. \A k \in Kind : Within(k, 0)
        BY <2>2, <4>2 DEF CountInv
      <4>4. \A k \in Kind : Within(k, 0)'
        BY <3>1, <3>2, <4>3 DEF Within
      <4>5. \A k \in Kind : Within(k, IF \E q \in Run : Holder(q, k) THEN 1 ELSE 0)'
        BY <4>2, <4>4 DEF Within
      <4>6. \A q \in Run : ~(pc'[q] = "prune")
        BY <3>5
      <4>7. (\A q \in Run : pc[q] = "prune" =>
               Cardinality(Spared(q)) <= KeepOf[at[q]])'
        BY <4>6
      <4>8. QED
        BY <4>5, <4>7 DEF CountInv
    <3>6. QED
      BY <3>3, <3>4, <3>5
  <2>5. QED
    BY <2>3, <2>4 DEF Next
<1>3. FilesInv /\ Inv => FilesNeverPileUp
  <2> SUFFICES ASSUME FilesInv, Inv, Documented, NEW k \in Kind
               PROVE  Cardinality(Present(k)) <= KeepOf[k] + faults + 1
    BY DEF FilesNeverPileUp
  <2>1. Within(k, IF \E r \in Run : Holder(r, k) THEN 1 ELSE 0)
    BY DEF CountInv
  <2>2. Cardinality(Present(k)) \in Nat /\ KeepOf[k] \in Int /\ faults \in Nat
    BY FilesFinite, FileAssumption DEF FilesInv, TypeOK
  <2>3. QED
    BY <2>1, <2>2 DEF Within
<1>4. QED
  BY <1>1, <1>2, <1>3, FilesInvariant, PTL DEF Spec


-----------------------------------------------------------------------------
(* Every call comes to an end.                                             *)

\* How far a call is from its end: the kinds of file still ahead of it, then
\* the commands and file operations for the kind it is at.
CommandsLeft ==
    [l \in Working |->
        CASE l \in {"open", "capture"} -> 6 [] l \in {"stream", "create"} -> 5
          [] l \in {"stat", "fill"}    -> 4 [] l = "retain" -> 3 [] l = "prune" -> 2]
KindsLeft == [k \in Kind |-> CASE k = "config" -> 20 [] k = "selections" -> 10 [] k = "list" -> 0]
Left(r) == IF pc[r] = "ended" THEN 0 ELSE KindsLeft[at[r]] + CommandsLeft[pc[r]]

\* A step brings a call closer to its end: fewer commands are left, or as many
\* and fewer files to unlink.
Closer(r) ==
    \/ Left(r)' < Left(r)
    \/ Left(r)' = Left(r) /\ Cardinality(victims[r])' < Cardinality(victims[r])

\* Every step of a call brings it closer to its end, and no step of another
\* call, a new one or the clock takes it back, whatever files they unlink under
\* it: no loop of backup_config, backup_packages or apply_retention can go on
\* for ever.
StepsBringCloser ==
    [][\A r \in Run :
          /\ Advance(r) \/ Crash(r) => Closer(r)
          /\ pc[r] # "ended" => \/ Closer(r)
                                \/ pc'[r] = pc[r] /\ at'[r] = at[r] /\ victims'[r] = victims[r]]_vars

\* What a call has still to unlink is finite, before and after a step.
LEMMA VictimsFinite ==
    ASSUME TypeOK, TypeOK', NEW r \in Run
    PROVE  IsFiniteSet(victims[r]) /\ Cardinality(victims[r]) \in Nat
           /\ Cardinality(victims[r])' \in Nat
<1>1. \A S \in SUBSET Name({0}, Time) : S \subseteq {[rank |-> 0, ts |-> t] : t \in Time}
  BY DEF Name
<1>2. victims[r] \in SUBSET Name({0}, Time) /\ victims'[r] \in SUBSET Name({0}, Time)
  BY DEF TypeOK
<1>3. QED
  BY <1>1, <1>2, NamesFinite

\* The number of commands left is one, whatever the call is at.
LEMMA LeftNumber ==
    ASSUME NEW k \in Kind, NEW l \in Working
    PROVE  /\ KindsLeft[k] \in {0, 10, 20} /\ CommandsLeft[l] \in 2 .. 6
           /\ KindsLeft["config"] = 20 /\ KindsLeft["selections"] = 10 /\ KindsLeft["list"] = 0
           /\ CommandsLeft["open"] = 6 /\ CommandsLeft["capture"] = 6
           /\ CommandsLeft["stream"] = 5 /\ CommandsLeft["create"] = 5
           /\ CommandsLeft["stat"] = 4 /\ CommandsLeft["fill"] = 4
           /\ CommandsLeft["retain"] = 3 /\ CommandsLeft["prune"] = 2
  BY DEF KindsLeft, CommandsLeft, Kind, Working

\* Going on to the next kind of file, or out of the call, is a step closer.
LEMMA LeaveCloser ==
    ASSUME TypeOK, NEW r \in Run, NEW from \in Working, NEW result, Leave(r, from, result)
    PROVE  Left(r)' < Left(r)
<1> DEFINE k == at[r]
<1>1. k \in Kind /\ pc[r] = from /\ from # "ended"
  BY DEF TypeOK, Leave, Working
<1>2. Left(r) = KindsLeft[k] + CommandsLeft[from]
  BY <1>1 DEF Left
<1>3. KindsLeft[k] \in {0, 10, 20} /\ CommandsLeft[from] \in 2 .. 6
  BY <1>1, LeftNumber
<1>4. CASE k = "config"
  <2>1. pc'[r] = "capture" /\ at'[r] = "selections"
    BY <1>4 DEF Leave, TypeOK
  <2>2. Left(r)' = KindsLeft["selections"] + CommandsLeft["capture"]
    BY <2>1 DEF Left
  <2>3. QED
    BY <1>1, <1>2, <1>3, <1>4, <2>2, LeftNumber
<1>5. CASE k = "selections" /\ result = "ok"
  <2>1. pc'[r] = "capture" /\ at'[r] = "list"
    BY <1>5 DEF Leave, TypeOK
  <2>2. Left(r)' = KindsLeft["list"] + CommandsLeft["capture"]
    BY <2>1 DEF Left
  <2>3. QED
    BY <1>1, <1>2, <1>3, <1>5, <2>2, LeftNumber
<1>6. CASE ~(k = "config") /\ ~(k = "selections" /\ result = "ok")
  <2>1. pc'[r] = "ended"
    BY <1>6 DEF Leave, TypeOK
  <2>2. Left(r)' = 0
    BY <2>1 DEF Left
  <2>3. QED
    BY <1>2, <1>3, <2>2
<1>7. QED
  BY <1>4, <1>5, <1>6

\* So is the next command for the same kind of file.
LEMMA StepCloser ==
    ASSUME TypeOK, NEW r \in Run, NEW from \in Working, NEW to \in Working,
           Step(r, from, to), at' = at, CommandsLeft[to] < CommandsLeft[from]
    PROVE  Left(r)' < Left(r)
<1> DEFINE k == at[r]
<1>1. k \in Kind /\ pc[r] = from /\ pc'[r] = to /\ at'[r] = k /\ from # "ended" /\ to # "ended"
  BY DEF TypeOK, Step, Working
<1>2. Left(r) = KindsLeft[k] + CommandsLeft[from] /\ Left(r)' = KindsLeft[k] + CommandsLeft[to]
  BY <1>1 DEF Left
<1>3. KindsLeft[k] \in Nat /\ CommandsLeft[from] \in Nat /\ CommandsLeft[to] \in Nat
  BY <1>1, LeftNumber
<1>4. QED
  BY <1>2, <1>3

\* Every step of a call, and its crash, bring it closer to its end.
LEMMA CallCloser ==
    ASSUME TypeOK, TypeOK', NEW r \in Run, Advance(r) \/ Crash(r)
    PROVE  Closer(r)
<1> USE DEF Closer
<1>1. CASE OpenArchive(r)
  BY <1>1, LeaveCloser, StepCloser, LeftNumber DEF OpenArchive, InCall, Working, Kind
<1>2. CASE EndStream(r)
  BY <1>2, LeaveCloser, StepCloser, LeftNumber DEF EndStream, InCall, Working, Kind
<1>3. CASE StatArchive(r)
  BY <1>3, LeaveCloser, StepCloser, LeftNumber DEF StatArchive, InCall, Working, Kind
<1>4. CASE CaptureList(r)
  BY <1>4, LeaveCloser, StepCloser, LeftNumber DEF CaptureList, InCall, Working, Kind
<1>5. CASE CreateList(r)
  BY <1>5, LeaveCloser, StepCloser, LeftNumber DEF CreateList, InCall, Working, Kind
<1>6. CASE FillList(r)
  BY <1>6, LeaveCloser, StepCloser, LeftNumber DEF FillList, InCall, Working, Kind
<1>7. CASE ListFiles(r)
  BY <1>7, StepCloser, LeftNumber DEF ListFiles, InCall, Working, Kind
<1>8. CASE Prune(r)
  <2>1. PICK a \in victims[r] :
           \/ /\ Step(r, "prune", "prune") /\ at' = at
              /\ victims' = [victims EXCEPT ![r] = @ \ {a}]
           \/ Leave(r, "prune", "raised")
    BY <1>8 DEF Prune, InCall
  <2>2. CASE /\ Step(r, "prune", "prune") /\ at' = at
             /\ victims' = [victims EXCEPT ![r] = @ \ {a}]
    <3>1. pc'[r] = pc[r] /\ at'[r] = at[r] /\ victims'[r] = victims[r] \ {a}
      BY <2>2 DEF Step, TypeOK
    <3>2. Left(r)' = Left(r)
      BY <3>1 DEF Left
    <3>3. IsFiniteSet(victims[r]) /\ Cardinality(victims[r]) \in Nat
      BY VictimsFinite
    <3>4. Cardinality(victims[r] \ {a}) = Cardinality(victims[r]) - 1
      BY <2>1, <3>3, FS_RemoveElement
    <3>5. QED
      BY <3>1, <3>2, <3>3, <3>4
  <2>3. CASE Leave(r, "prune", "raised")
    BY <2>3, LeaveCloser DEF Working
  <2>4. QED
    BY <2>1, <2>2, <2>3
<1>9. CASE Return(r)
  BY <1>9, LeaveCloser DEF Return, Working
<1>10. CASE Crash(r)
  <2>1. pc[r] \in Working /\ pc[r] # "ended" /\ pc'[r] = "ended" /\ at[r] \in Kind
    BY <1>10 DEF Crash, TypeOK, Working
  <2>2. Left(r)' = 0 /\ Left(r) = KindsLeft[at[r]] + CommandsLeft[pc[r]]
    BY <2>1 DEF Left
  <2>3. KindsLeft[at[r]] \in {0, 10, 20} /\ CommandsLeft[pc[r]] \in 2 .. 6
    BY <2>1, LeftNumber
  <2>4. QED
    BY <2>2, <2>3
<1>11. QED
  BY <1>1, <1>2, <1>3, <1>4, <1>5, <1>6, <1>7, <1>8, <1>9, <1>10 DEF Advance

\* A step of one call leaves another where it is.
LEMMA OthersStay ==
    ASSUME TypeOK, TypeOK', NEW r \in Run, NEW q \in Run, q # r,
           Start(r) \/ Advance(r) \/ Crash(r)
    PROVE  pc'[q] = pc[q] /\ at'[q] = at[q] /\ victims'[q] = victims[q]
<1>1. CASE Start(r)
  BY <1>1 DEF Start, Step, TypeOK
<1>2. CASE Advance(r) \/ Crash(r)
  <2>1. pc'[q] = pc[q] /\ at'[q] = at[q]
    BY <1>2, AdvanceFrame
  <2>2. \A from, result : Leave(r, from, result) => victims'[q] = victims[q]
    BY DEF Leave, TypeOK
  <2>3. Advance(r) => victims'[q] = victims[q]
    BY <2>2 DEF Advance, OpenArchive, EndStream, StatArchive, CaptureList, CreateList,
                FillList, ListFiles, Prune, Return, TypeOK
  <2>4. Crash(r) => victims'[q] = victims[q]
    BY DEF Crash, TypeOK
  <2>5. QED
    BY <1>2, <2>1, <2>3, <2>4
<1>3. QED
  BY <1>1, <1>2

\* A call has a bounded number of steps, for any number of overlapping runs,
\* any retention counts and wherever faults strike.
THEOREM CallsComeToAnEnd == Spec => StepsBringCloser
<1> DEFINE Goes(r) == /\ Advance(r) \/ Crash(r) => Closer(r)
                      /\ pc[r] # "ended" =>
                            \/ Closer(r)
                            \/ pc'[r] = pc[r] /\ at'[r] = at[r] /\ victims'[r] = victims[r]
<1>1. FilesInv /\ FilesInv' /\ [Next]_vars => [\A r \in Run : Goes(r)]_vars
  <2> SUFFICES ASSUME FilesInv, FilesInv', Next, NEW r \in Run
               PROVE  Goes(r)
    OBVIOUS
  <2>1. TypeOK /\ TypeOK'
    BY DEF FilesInv
  <2>2. Advance(r) \/ Crash(r) => Closer(r)
    BY <2>1, CallCloser
  <2>3. ASSUME pc[r] # "ended", ~(Advance(r) \/ Crash(r))
        PROVE  pc'[r] = pc[r] /\ at'[r] = at[r] /\ victims'[r] = victims[r]
    <3>1. ~Start(r)
      BY <2>3 DEF Start, Step
    <3>2. CASE \E q \in Run : Start(q) \/ Advance(q) \/ Crash(q)
      BY <2>1, <2>3, <3>1, <3>2, OthersStay
    <3>3. CASE Tick
      BY <3>3 DEF Tick
    <3>4. QED
      BY <3>2, <3>3 DEF Next
  <2>4. QED
    BY <2>2, <2>3
<1>2. QED
  BY <1>1, FilesInvariant, PTL DEF Spec, StepsBringCloser

\* The unlink loop finds its next file as long as there is one to delete, and
\* the call returns only from an empty list.  (for f in to_delete: f.unlink().)
LoopFindsTheNext ==
    \A r \in Run : victims[r] # {} => \E a \in victims[r] : IsFirst(a, victims[r])

\* A list of files to delete always has a first one, for any overlapping runs.
THEOREM LoopGoesOn == Spec => []LoopFindsTheNext
<1>1. FilesInv => LoopFindsTheNext
  <2> SUFFICES ASSUME FilesInv, NEW r \in Run, victims[r] # {}
               PROVE  \E a \in victims[r] : IsFirst(a, victims[r])
    BY DEF LoopFindsTheNext
  <2>1. victims[r] \subseteq Name({0}, Nat)
    BY FileAssumption DEF FilesInv, TypeOK, Name, Time
  <2>2. QED
    BY <2>1, FirstFile
<1>2. QED
  BY <1>1, FilesInvariant, PTL
=============================================================================
