------------------------- MODULE ZfsBackup_proofs -------------------------
(***************************************************************************)
(* Proofs about ZfsBackup, for every set of jobs, servers and hosts and    *)
(* every value of the bounds.                                              *)
(***************************************************************************)
EXTENDS ZfsBackup, FiniteSetTheorems, TLAPS

-----------------------------------------------------------------------------
(* The inductive invariant, one conjunct per idea.  All of them speak of   *)
(* one call and of the machine and the directory it works on.              *)

Root(sn) == [pool |-> sn.pool, depth |-> 0, ts |-> sn.ts]

\* The stamp and the pool of the call are those of an earlier moment.
Stamped(j) ==
    /\ ts[j] <= clock
    /\ pool[j] \in PoolsOf[ServerOf[j]]

\* Every snapshot on the machine comes from this or an earlier call of the
\* job, and it has its root dataset.
RemoteOld(j) ==
    \A sn \in snaps[HostFor(j)] :
        /\ pc[j] # "idle"
        /\ sn.pool \in PoolsOf[ServerOf[j]]
        /\ sn.ts <= ts[j]
        /\ pc[j] \in {"list", "clean"} => sn.ts < ts[j]
        /\ Root(sn) \in snaps[HostFor(j)]

\* The same for the archives on disk.
LocalOld(j) ==
    \A a \in Archive : file[ServerOf[j]][a] # "none" =>
        /\ pc[j] # "idle"
        /\ a.rank \in PoolsOf[ServerOf[j]]
        /\ a.ts <= ts[j]
        /\ pc[j] \in {"list", "clean", "open"} => a.ts < ts[j]

\* Unless a fault ended the loop, the roots left on the machine are exactly
\* the roots still to be destroyed.
CleanupComplete(j) ==
    /\ pc[j] = "list" => todo[j] = {}
    /\ pc[j] = "clean" =>
        /\ \A x \in todo[j] : x.pool \in PoolsOf[ServerOf[j]]
        /\ \A x \in todo[j] : x.depth = 0 => x \in snaps[HostFor(j)]
        /\ ~hit[j] => \A sn \in snaps[HostFor(j)] : Root(sn) \in todo[j]

\* A call without a fault works on a machine that holds nothing but its own
\* snapshot, and then nothing.
RemoteClean(j) ==
    ~hit[j] =>
        /\ pc[j] \in Holding => snaps[HostFor(j)] = Subtree(OwnSnap(j))
        /\ pc[j] \in {"retain", "prune", "done"} => snaps[HostFor(j)] = {}
        /\ ~failed[j]

\* How far the archive of the call has come.
ArchiveProgress(j) ==
    /\ pc[j] \in {"send", "stream"} => OwnFile(j) = "partial"
    /\ pc[j] = "stat" => OwnFile(j) # "none"
    /\ pc[j] \in {"destroy", "done"} /\ ~failed[j] => OwnFile(j) # "none"
    /\ pc[j] \in {"retain", "prune"} => ~failed[j] /\ OwnFile(j) # "none"
    /\ pc[j] \in {"stat", "destroy", "retain", "prune", "done"} /\ ~hit[j]
           => OwnFile(j) = "whole"
    /\ pc[j] = "prune" => Own(j) \notin victims[j]
    /\ pc[j] = "prune" =>
           \A a \in victims[j] : a \in Archive /\ file[ServerOf[j]][a] # "none"

CallInv(j) ==
    /\ Stamped(j)
    /\ RemoteOld(j)
    /\ LocalOld(j)
    /\ CleanupComplete(j)
    /\ RemoteClean(j)
    /\ ArchiveProgress(j)

IInv == \A j \in Job : CallInv(j)

-----------------------------------------------------------------------------
(* Types.                                                                  *)

\* What a job calls its own is what the types say.
LEMMA OwnTypes ==
    ASSUME TypeOK, NEW j \in Job
    PROVE  /\ ServerOf[j] \in Server /\ HostFor(j) \in Host
           /\ Own(j) \in Archive
           /\ OwnSnap(j) \in Snap
           /\ Subtree(OwnSnap(j)) \subseteq Snap
  BY JobAssumption, NumberAssumption
  DEF TypeOK, HostFor, Own, OwnSnap, Archive, Name, Snap, Subtree

\* Counting a fault keeps the types of the bookkeeping.
LEMMA FaultTypes ==
    ASSUME TypeOK, NEW j \in Job, Fault(j) \/ NoFault
    PROVE  faults' \in 0 .. MaxFaults /\ hit' \in [Job -> BOOLEAN]
<1>1. CASE NoFault
  BY <1>1 DEF NoFault, TypeOK
<1>2. CASE Fault(j)
  <2>1. faults' \in 0 .. MaxFaults
    BY <1>2, NumberAssumption DEF Fault, TypeOK
  <2>2. hit' \in [Job -> BOOLEAN]
    BY <1>2 DEF Fault, TypeOK
  <2>3. QED
    BY <2>1, <2>2
<1>3. QED
  BY <1>1, <1>2

\* Writing the archive keeps the type of the directory.
LEMMA WriteTypes ==
    ASSUME TypeOK, NEW j \in Job, NEW content \in Content, Write(j, content)
    PROVE  file' \in [Server -> [Archive -> Content]]
  BY OwnTypes DEF Write, TypeOK

\* Every variable keeps its type, for every deployment.
THEOREM TypeCorrect == Spec => []TypeOK
<1>1. Init => TypeOK
  BY JobAssumption, NumberAssumption
  DEF Init, TypeOK, Time, Archive, Content, Label, Ended
<1>2. TypeOK /\ [Next]_vars => TypeOK'
  <2> SUFFICES ASSUME TypeOK, [Next]_vars PROVE TypeOK'
    OBVIOUS
  <2> USE DEF Goto, Raise, Ended, Holding, Label, Content
  <2>1. ASSUME NEW j \in Job, Start(j) PROVE TypeOK'
    BY <2>1, OwnTypes, JobAssumption DEF TypeOK, Start
  <2>2. ASSUME NEW j \in Job, ListStale(j) PROVE TypeOK'
    BY <2>2, FaultTypes, OwnTypes DEF TypeOK, ListStale
  <2>3. ASSUME NEW j \in Job, DestroyStale(j) PROVE TypeOK'
    <3>1. faults' \in 0 .. MaxFaults /\ hit' \in [Job -> BOOLEAN]
      BY <2>3, FaultTypes DEF DestroyStale
    <3>2. snaps' \in [Host -> SUBSET Snap] /\ todo' \in [Job -> SUBSET Snap]
      BY <2>3, OwnTypes DEF DestroyStale, TypeOK
    <3>3. QED
      BY <2>3, <3>1, <3>2 DEF DestroyStale, TypeOK
  <2>4. ASSUME NEW j \in Job, CreateSnapshot(j) PROVE TypeOK'
    <3>1. faults' \in 0 .. MaxFaults /\ hit' \in [Job -> BOOLEAN]
      BY <2>4, FaultTypes DEF CreateSnapshot
    <3>2. snaps' \in [Host -> SUBSET Snap]
      BY <2>4, OwnTypes DEF CreateSnapshot, TypeOK
    <3>3. pc' \in [Job -> Label] /\ failed' \in [Job -> BOOLEAN]
      BY <2>4 DEF CreateSnapshot, TypeOK
    <3>4. QED
      BY <2>4, <3>1, <3>2, <3>3 DEF CreateSnapshot, TypeOK
  <2>5. ASSUME NEW j \in Job, OpenArchive(j) PROVE TypeOK'
    <3>1. faults' \in 0 .. MaxFaults /\ hit' \in [Job -> BOOLEAN]
      BY <2>5, FaultTypes DEF OpenArchive
    <3>2. file' \in [Server -> [Archive -> Content]]
      <4>1. \/ UNCHANGED file
            \/ \E content \in Content : Write(j, content)
        BY <2>5 DEF OpenArchive
      <4>2. QED
        BY <4>1, WriteTypes DEF TypeOK
    <3>3. pc' \in [Job -> Label] /\ failed' \in [Job -> BOOLEAN]
      BY <2>5 DEF OpenArchive, TypeOK
    <3>4. QED
      BY <2>5, <3>1, <3>2, <3>3 DEF OpenArchive, TypeOK
  <2>6. ASSUME NEW j \in Job, BeginSend(j) PROVE TypeOK'
    <3>1. faults' \in 0 .. MaxFaults /\ hit' \in [Job -> BOOLEAN]
      BY <2>6, FaultTypes DEF BeginSend
    <3>2. file' \in [Server -> [Archive -> Content]]
      <4>1. UNCHANGED file \/ Write(j, "none")
        BY <2>6 DEF BeginSend
      <4>2. QED
        BY <4>1, WriteTypes DEF TypeOK, Content
    <3>3. pc' \in [Job -> Label] /\ failed' \in [Job -> BOOLEAN]
      BY <2>6 DEF BeginSend, TypeOK
    <3>4. QED
      BY <2>6, <3>1, <3>2, <3>3 DEF BeginSend, TypeOK
  <2>7. ASSUME NEW j \in Job, EndStream(j) PROVE TypeOK'
    <3>1. faults' \in 0 .. MaxFaults /\ hit' \in [Job -> BOOLEAN]
      BY <2>7, FaultTypes DEF EndStream
    <3>2. file' \in [Server -> [Archive -> Content]]
      <4>1. \/ UNCHANGED file
            \/ \E content \in Content : Write(j, content)
        BY <2>7 DEF EndStream
      <4>2. QED
        BY <4>1, WriteTypes DEF TypeOK
    <3>3. pc' \in [Job -> Label] /\ failed' \in [Job -> BOOLEAN]
      BY <2>7 DEF EndStream, TypeOK
    <3>4. QED
      BY <2>7, <3>1, <3>2, <3>3 DEF EndStream, TypeOK
  <2>8. ASSUME NEW j \in Job, StatArchive(j) PROVE TypeOK'
    BY <2>8, FaultTypes, OwnTypes DEF TypeOK, StatArchive
  <2>9. ASSUME NEW j \in Job, DestroyOwn(j) PROVE TypeOK'
    BY <2>9, FaultTypes, OwnTypes DEF TypeOK, DestroyOwn
  <2>10. ASSUME NEW j \in Job, ListArchives(j) PROVE TypeOK'
    BY <2>10, FaultTypes, OwnTypes DEF TypeOK, ListArchives, ToDelete, Present
  <2>11. ASSUME NEW j \in Job, Prune(j) PROVE TypeOK'
    <3>1. /\ UNCHANGED <<clock, snaps, pool, ts, todo>>
          /\ ServerOf[j] \in Server
      BY <2>11, OwnTypes DEF Prune
    <3>2. PICK a \in Archive :
              \/ /\ file' = [file EXCEPT ![ServerOf[j]][a] = "none"]
                 /\ victims' = [victims EXCEPT ![j] = @ \ {a}]
                 /\ NoFault
                 /\ UNCHANGED <<pc, failed>>
              \/ /\ Raise(j, "done")
                 /\ NoFault
                 /\ UNCHANGED <<file, victims>>
              \/ /\ Fault(j)
                 /\ Raise(j, "done")
                 /\ UNCHANGED <<file, victims>>
      BY <2>11, Zenon DEF Prune, TypeOK
    <3>3. faults' \in 0 .. MaxFaults /\ hit' \in [Job -> BOOLEAN]
      BY <3>2, FaultTypes
    <3>4. file' \in [Server -> [Archive -> Content]]
      BY <3>1, <3>2 DEF TypeOK
    <3>5. /\ victims' \in [Job -> SUBSET Archive]
          /\ pc' \in [Job -> Label]
          /\ failed' \in [Job -> BOOLEAN]
      BY <3>2 DEF TypeOK
    <3>6. QED
      BY <3>1, <3>3, <3>4, <3>5 DEF TypeOK
  <2>12. ASSUME NEW j \in Job, Return(j) PROVE TypeOK'
    BY <2>12, FaultTypes, OwnTypes DEF TypeOK, Return
  <2>13. ASSUME NEW r \in Run, Crash(r) PROVE TypeOK'
    BY <2>13, NumberAssumption DEF TypeOK, Crash
  <2>14. CASE Tick
    BY <2>14, NumberAssumption DEF TypeOK, Tick, Time
  <2>15. CASE UNCHANGED vars
    BY <2>15 DEF TypeOK, vars
  <2>16. QED
    BY <2>1, <2>2, <2>3, <2>4, <2>5, <2>6, <2>7, <2>8, <2>9, <2>10, <2>11,
       <2>12, <2>13, <2>14, <2>15 DEF Next, Step
<1>3. QED
  BY <1>1, <1>2, PTL DEF Spec

-----------------------------------------------------------------------------
(* With one call per host, a step of one job leaves everything another job *)
(* looks at as it is.                                                      *)

\* One call per host also means one call per server.
LEMMA Apart ==
    ASSUME OneCallPerHost, NEW j \in Job, NEW k \in Job, j # k
    PROVE  HostFor(j) # HostFor(k) /\ ServerOf[j] # ServerOf[k]
  BY DEF OneCallPerHost, HostFor

View(j) == <<pc[j], pool[j], ts[j], todo[j], victims[j], failed[j], hit[j],
             snaps[HostFor(j)], file[ServerOf[j]], clock>>

\* A step of another job leaves the view of this one as it is.
LEMMA Frame ==
    ASSUME TypeOK, OneCallPerHost, NEW j \in Job, NEW k \in Job, j # k,
           Start(k) \/ Step(k)
    PROVE  UNCHANGED View(j)
<1> USE Apart, OwnTypes DEF View, TypeOK, Goto, Raise, Write, NoFault, Fault
<1>1. CASE Start(k)
  BY <1>1 DEF Start
<1>2. CASE ListStale(k)
  BY <1>2 DEF ListStale
<1>3. CASE DestroyStale(k)
  BY <1>3 DEF DestroyStale
<1>4. CASE CreateSnapshot(k)
  BY <1>4 DEF CreateSnapshot
<1>5. CASE OpenArchive(k)
  BY <1>5 DEF OpenArchive
<1>6. CASE BeginSend(k)
  BY <1>6 DEF BeginSend
<1>7. CASE EndStream(k)
  BY <1>7 DEF EndStream
<1>8. CASE StatArchive(k)
  BY <1>8 DEF StatArchive
<1>9. CASE DestroyOwn(k)
  BY <1>9 DEF DestroyOwn
<1>10. CASE ListArchives(k)
  BY <1>10 DEF ListArchives
<1>11. CASE Prune(k)
  BY <1>11 DEF Prune
<1>12. CASE Return(k)
  BY <1>12 DEF Return
<1>13. QED
  BY <1>1, <1>2, <1>3, <1>4, <1>5, <1>6, <1>7, <1>8, <1>9, <1>10, <1>11,
     <1>12 DEF Step

-----------------------------------------------------------------------------
(* The snapshot of a running call stays on its machine.                    *)

Intact(j) == pc[j] \in Holding => Subtree(OwnSnap(j)) \subseteq snaps[HostFor(j)]

\* From its creation to the finally clause, the snapshot of a running call is
\* on the machine with all its datasets.  This is what OneCallPerHost buys:
\* without it another call's cleanup destroys the snapshot.
InFlightIntact == \A j \in Job : Intact(j)

\* Intact(j) looks at the view of j only.
LEMMA IntactView ==
    ASSUME NEW j \in Job, Intact(j), UNCHANGED View(j)
    PROVE  Intact(j)'
  BY DEF Intact, View, Subtree, OwnSnap, HostFor

\* No step of the job itself removes its snapshot before the finally clause.
LEMMA IntactStep ==
    ASSUME TypeOK, NEW j \in Job, Intact(j), Start(j) \/ Step(j)
    PROVE  Intact(j)'
<1>1. pc \in [Job -> Label] /\ snaps \in [Host -> SUBSET Snap] /\ HostFor(j) \in Host
  BY OwnTypes DEF TypeOK
<1> USE <1>1 DEF Goto, Raise, Holding
<1>2. CASE Start(j)
  BY <1>2 DEF Start, Intact
<1>3. CASE ListStale(j)
  BY <1>3 DEF ListStale, Intact
<1>4. CASE DestroyStale(j)
  BY <1>4 DEF DestroyStale, Intact
<1>5. CASE CreateSnapshot(j)
  <2>1. /\ HostFor(j)' = HostFor(j)
        /\ Subtree(OwnSnap(j))' = Subtree(OwnSnap(j))
    BY <1>5 DEF CreateSnapshot, HostFor, Subtree, OwnSnap
  <2>2. CASE pc'[j] = "open"
    BY <1>5, <2>1, <2>2 DEF CreateSnapshot, Intact
  <2>3. CASE pc'[j] # "open"
    BY <1>5, <2>3 DEF CreateSnapshot, Intact
  <2>4. QED
    BY <2>2, <2>3
<1>6. CASE OpenArchive(j) \/ BeginSend(j) \/ EndStream(j) \/ StatArchive(j)
  <2>1. /\ HostFor(j)' = HostFor(j)
        /\ Subtree(OwnSnap(j))' = Subtree(OwnSnap(j))
        /\ snaps' = snaps
        /\ pc[j] \in Holding
    BY <1>6 DEF OpenArchive, BeginSend, EndStream, StatArchive, HostFor,
                Subtree, OwnSnap
  <2>2. QED
    BY <2>1 DEF Intact
<1>7. CASE DestroyOwn(j)
  BY <1>7 DEF DestroyOwn, Intact
<1>8. CASE ListArchives(j)
  BY <1>8 DEF ListArchives, Intact
<1>9. CASE Prune(j)
  BY <1>9 DEF Prune, Intact
<1>10. CASE Return(j)
  BY <1>10 DEF Return, Intact
<1>11. QED
  BY <1>2, <1>3, <1>4, <1>5, <1>6, <1>7, <1>8, <1>9, <1>10 DEF Step

\* While no two calls work on one machine, only the call itself can lose its
\* snapshot, and it does not.
LEMMA SnapshotIntact ==
    ASSUME OneCallPerHost
    PROVE  Spec => []InFlightIntact
<1>1. Init => InFlightIntact
  BY DEF Init, InFlightIntact, Intact, Holding
<1>2. TypeOK /\ InFlightIntact /\ [Next]_vars => InFlightIntact'
  <2> SUFFICES ASSUME TypeOK, InFlightIntact, [Next]_vars, NEW j \in Job
               PROVE  Intact(j)'
    BY DEF InFlightIntact, Intact
  <2>1. Intact(j)
    BY DEF InFlightIntact, Intact
  <2>2. ASSUME NEW k \in Job, Start(k) \/ Step(k) PROVE Intact(j)'
    BY <2>1, <2>2, Frame, IntactView, IntactStep
  <2>3. ASSUME NEW r \in Run, Crash(r) PROVE Intact(j)'
    BY <2>1, <2>3 DEF Crash, Intact, Holding, Subtree, OwnSnap, HostFor, TypeOK
  <2>4. CASE Tick
    BY <2>1, <2>4 DEF Tick, Intact, Subtree, OwnSnap, HostFor
  <2>5. CASE UNCHANGED vars
    BY <2>1, <2>5 DEF vars, Intact, Subtree, OwnSnap, HostFor
  <2>6. QED
    BY <2>2, <2>3, <2>4, <2>5 DEF Next
<1>3. QED
  BY <1>1, <1>2, TypeCorrect, PTL DEF Spec

-----------------------------------------------------------------------------
(* The inductive invariant is kept by every step of the job itself.        *)

\* The types, instantiated for one job.
LEMMA SelfTypes ==
    ASSUME TypeOK, NEW j \in Job
    PROVE  /\ clock \in Nat /\ ts[j] \in Nat /\ ts[j] \in Time /\ pool[j] \in Pool
           /\ \A sn \in snaps[HostFor(j)] : sn \in Snap
           /\ \A x \in todo[j] : x \in Snap
           /\ \A sn \in Snap : sn.ts \in Nat /\ sn.depth \in Nat /\ sn.pool \in Nat
           /\ \A a \in Archive : a.ts \in Nat /\ a.rank \in Nat
           /\ pc[j] \in Label
           /\ Own(j) \in Archive /\ OwnFile(j) \in Content
<1>1. /\ clock \in Nat /\ ts[j] \in Nat /\ ts[j] \in Time /\ pool[j] \in Pool
      /\ pc[j] \in Label
  BY NumberAssumption DEF TypeOK, Time
<1>2. /\ \A sn \in snaps[HostFor(j)] : sn \in Snap
      /\ \A x \in todo[j] : x \in Snap
  BY OwnTypes DEF TypeOK
<1>3. /\ \A sn \in Snap : sn.ts \in Nat /\ sn.depth \in Nat /\ sn.pool \in Nat
      /\ \A a \in Archive : a.ts \in Nat /\ a.rank \in Nat
  <2>1. Time \subseteq Nat /\ 0 .. MaxDepth \subseteq Nat /\ Pool \subseteq Nat
    BY NumberAssumption DEF Time
  <2>2. \A sn \in Snap : sn.ts \in Time /\ sn.depth \in 0 .. MaxDepth /\ sn.pool \in Pool
    BY DEF Snap
  <2>3. \A a \in Archive : a.ts \in Time /\ a.rank \in Pool
    BY DEF Archive, Name
  <2>4. QED
    BY <2>1, <2>2, <2>3
<1>4. Own(j) \in Archive /\ OwnFile(j) \in Content
  BY OwnTypes DEF TypeOK, OwnFile
<1>5. QED
  BY <1>1, <1>2, <1>3, <1>4

\* What a call is named by does not change before the next Start.
LEMMA SameCall ==
    ASSUME NEW j \in Job, UNCHANGED <<pool, ts>>
    PROVE  /\ HostFor(j)' = HostFor(j)
           /\ Own(j)' = Own(j)
           /\ OwnSnap(j)' = OwnSnap(j)
           /\ Subtree(OwnSnap(j))' = Subtree(OwnSnap(j))
           /\ OwnFile(j)' = file'[ServerOf[j]][Own(j)]
  BY DEF HostFor, Own, OwnSnap, Subtree, OwnFile

\* A call takes a time stamp later than that of every file of the server.
LEMMA StartInv ==
    ASSUME TypeOK, Documented, NEW j \in Job, CallInv(j), Start(j)
    PROVE  CallInv(j)'
<1>1. /\ pc'[j] = "list" /\ ts'[j] = clock /\ todo'[j] = {}
      /\ pool'[j] \in PoolsOf[ServerOf[j]]
      /\ failed'[j] = FALSE
      /\ UNCHANGED <<clock, snaps, file>>
      /\ pc[j] # "idle" => ts[j] < clock
  BY SelfTypes DEF Start, TypeOK, Documented
<1>2. HostFor(j)' = HostFor(j)
  BY DEF HostFor
<1>3. Stamped(j)'
  BY <1>1, SelfTypes DEF Stamped
<1>4. RemoteOld(j)'
  BY <1>1, <1>2, SelfTypes DEF RemoteOld, CallInv
<1>5. LocalOld(j)'
  BY <1>1, SelfTypes DEF LocalOld, CallInv
<1>6. CleanupComplete(j)' /\ RemoteClean(j)' /\ ArchiveProgress(j)'
  BY <1>1 DEF CleanupComplete, RemoteClean, ArchiveProgress, Holding
<1>7. QED
  BY <1>3, <1>4, <1>5, <1>6 DEF CallInv

\* Without a fault the listing holds every snapshot of the machine.
LEMMA ListStaleInv ==
    ASSUME TypeOK, Documented, NEW j \in Job, CallInv(j), ListStale(j)
    PROVE  CallInv(j)'
<1>1. /\ pc[j] = "list" /\ pc'[j] = "clean" /\ failed' = failed
      /\ UNCHANGED <<clock, snaps, file, pool, ts>>
      /\ \/ todo'[j] = snaps[HostFor(j)] /\ hit' = hit
         \/ todo'[j] = todo[j] /\ hit'[j] = TRUE
  BY DEF ListStale, Goto, NoFault, Fault, TypeOK
<1>2. Stamped(j)' /\ RemoteOld(j)' /\ LocalOld(j)'
  BY <1>1, SameCall DEF CallInv, Stamped, RemoteOld, LocalOld, Root
<1>3. CleanupComplete(j)'
  BY <1>1, SameCall DEF CallInv, CleanupComplete, RemoteOld, Root
<1>4. RemoteClean(j)' /\ ArchiveProgress(j)'
  BY <1>1 DEF CallInv, RemoteClean, ArchiveProgress, Holding
<1>5. QED
  BY <1>2, <1>3, <1>4 DEF CallInv

\* The hard case: a destroy that finds its snapshot gone ends the loop, and yet
\* nothing is left, because the roots are listed before all other datasets.
LEMMA AbortedCleanup ==
    ASSUME TypeOK, Documented, NEW j \in Job, CallInv(j), pc[j] = "clean", ~hit[j],
           NEW sn \in todo[j], IsNext(sn, todo[j]), ~Destroyable(HostFor(j), sn)
    PROVE  snaps[HostFor(j)] = {}
<1>1. Held(HostFor(j)) = {}
  BY DEF Held, Documented, OneCallPerHost
<1>2. sn \in Snap /\ sn \notin snaps[HostFor(j)]
  <2>1. sn \in Snap /\ sn \in Subtree(sn)
    BY SelfTypes DEF Subtree
  <2>2. QED
    BY <1>1, <2>1 DEF Destroyable
<1>3. SUFFICES ASSUME NEW y \in snaps[HostFor(j)] PROVE FALSE
  OBVIOUS
<1>4. /\ Root(y) \in todo[j] /\ Root(y) \in snaps[HostFor(j)]
      /\ Root(y) \in Snap /\ Root(y).depth = 0
  BY SelfTypes DEF CallInv, CleanupComplete, RemoteOld, Root
<1>5. ListedBefore(sn, Root(y))
  BY <1>2, <1>4 DEF IsNext
<1>6. sn.pool = Root(y).pool
  <2>1. ServerOf[j] \in Server
    BY OwnTypes
  <2>2. sn.pool \in PoolsOf[ServerOf[j]] /\ Root(y).pool \in PoolsOf[ServerOf[j]]
    BY <1>4 DEF CallInv, CleanupComplete
  <2>3. QED
    BY <2>1, <2>2 DEF Documented, OnePoolPerServer
<1>7. sn.depth = 0
  BY <1>2, <1>4, <1>5, <1>6, SelfTypes DEF ListedBefore
<1>8. QED
  BY <1>2, <1>7 DEF CallInv, CleanupComplete

\* Both kinds of destroy remove a whole subtree, so that roots stay roots.
LEMMA DestroyKeepsRoots ==
    ASSUME NEW S, S \subseteq Snap, NEW x \in Snap,
           \A sn \in S : Root(sn) \in S
    PROVE  \A sn \in S \ Subtree(x) : Root(sn) \in S \ Subtree(x)
<1> SUFFICES ASSUME NEW sn \in S \ Subtree(x), Root(sn) \in Subtree(x)
             PROVE  FALSE
  OBVIOUS
<1>1. /\ sn \in Snap /\ sn.pool = x.pool /\ sn.ts = x.ts
      /\ 0 >= x.depth
  BY DEF Root, Subtree
<1>2. sn.depth >= x.depth
  BY <1>1, NumberAssumption DEF Snap
<1>3. QED
  BY <1>1, <1>2 DEF Subtree

\* The loop removes what it listed, or stops with the machine clean already.
LEMMA DestroyStaleInv ==
    ASSUME TypeOK, Documented, NEW j \in Job, CallInv(j), DestroyStale(j)
    PROVE  CallInv(j)'
<1>1. /\ pc[j] = "clean"
      /\ UNCHANGED <<clock, file, pc, pool, ts, victims, failed>>
  BY DEF DestroyStale
<1>2. PICK x \in todo[j] :
          /\ IsNext(x, todo[j])
          /\ \/ /\ Destroyable(HostFor(j), x)
                /\ snaps' = [snaps EXCEPT ![HostFor(j)] = @ \ Subtree(x)]
                /\ todo' = [todo EXCEPT ![j] = @ \ {x}]
                /\ NoFault
             \/ /\ ~Destroyable(HostFor(j), x)
                /\ todo' = [todo EXCEPT ![j] = {}]
                /\ NoFault
                /\ UNCHANGED snaps
             \/ /\ Fault(j)
                /\ todo' = [todo EXCEPT ![j] = {}]
                /\ \/ UNCHANGED snaps
                   \/ /\ Destroyable(HostFor(j), x)
                      /\ snaps' = [snaps EXCEPT ![HostFor(j)] = @ \ Subtree(x)]
  BY Zenon DEF DestroyStale
<1>3. Stamped(j)' /\ LocalOld(j)' /\ ArchiveProgress(j)'
  BY <1>1, SameCall DEF CallInv, Stamped, LocalOld, ArchiveProgress
<1>4. CASE /\ snaps' = [snaps EXCEPT ![HostFor(j)] = @ \ Subtree(x)]
           /\ todo' = [todo EXCEPT ![j] = @ \ {x}]
           /\ NoFault
  <2>1. /\ snaps'[HostFor(j)] = snaps[HostFor(j)] \ Subtree(x)
        /\ todo'[j] = todo[j] \ {x}
        /\ hit' = hit
        /\ x \in Snap
    BY <1>4, OwnTypes, SelfTypes DEF TypeOK, NoFault
  <2>2. \A sn \in snaps'[HostFor(j)] : Root(sn) \in snaps'[HostFor(j)]
    BY <2>1, SelfTypes, DestroyKeepsRoots DEF CallInv, RemoteOld
  <2>3. RemoteOld(j)'
    BY <1>1, <2>1, <2>2, SameCall DEF CallInv, RemoteOld, Root
  <2>4. \A y \in todo'[j] : y.depth = 0 => y \in snaps'[HostFor(j)]
    <3> SUFFICES ASSUME NEW y \in todo'[j], y.depth = 0, y \in Subtree(x)
                 PROVE  FALSE
      BY <1>1, <2>1 DEF CallInv, CleanupComplete
    <3>1. /\ y \in Snap /\ y.pool = x.pool /\ y.ts = x.ts /\ x.depth = 0
      BY <2>1, SelfTypes DEF Subtree
    <3>2. y = x
      BY <2>1, <3>1 DEF Snap
    <3>3. QED
      BY <2>1, <3>2
  <2>5. \A sn \in snaps'[HostFor(j)] : Root(sn) # x
    <3> SUFFICES ASSUME NEW sn \in snaps'[HostFor(j)], Root(sn) = x
                 PROVE  FALSE
      OBVIOUS
    <3>1. sn \in Snap /\ sn \notin Subtree(x)
      BY <2>1, SelfTypes
    <3>2. x.pool = sn.pool /\ x.ts = sn.ts /\ x.depth = 0
      BY DEF Root
    <3>3. QED
      BY <3>1, <3>2, SelfTypes DEF Subtree
  <2>6. CleanupComplete(j)'
    BY <1>1, <2>1, <2>4, <2>5, SameCall DEF CallInv, CleanupComplete, Root
  <2>7. RemoteClean(j)'
    BY <1>1, <2>1 DEF CallInv, RemoteClean, Holding
  <2>8. QED
    BY <1>3, <2>3, <2>6, <2>7 DEF CallInv
<1>5. CASE /\ todo' = [todo EXCEPT ![j] = {}]
           /\ UNCHANGED snaps
           /\ \/ ~Destroyable(HostFor(j), x) /\ NoFault
              \/ Fault(j)
  <2>1. todo'[j] = {} /\ (hit'[j] \/ (hit'[j] = hit[j] /\ snaps[HostFor(j)] = {}) \/ hit[j])
    BY <1>1, <1>2, <1>5, AbortedCleanup DEF TypeOK, NoFault, Fault
  <2>2. RemoteOld(j)'
    BY <1>1, <1>5, SameCall DEF CallInv, RemoteOld, Root
  <2>3. hit[j] => hit'[j]
    BY <1>5 DEF TypeOK, NoFault, Fault
  <2>4. CleanupComplete(j)'
    BY <1>1, <1>5, <2>1, <2>3, SameCall DEF CleanupComplete
  <2>5. RemoteClean(j)'
    BY <1>1, <2>3 DEF CallInv, RemoteClean, Holding
  <2>6. QED
    BY <1>3, <2>2, <2>4, <2>5 DEF CallInv
<1>6. CASE /\ todo' = [todo EXCEPT ![j] = {}]
           /\ snaps' = [snaps EXCEPT ![HostFor(j)] = @ \ Subtree(x)]
           /\ Fault(j)
  <2>1. /\ snaps'[HostFor(j)] = snaps[HostFor(j)] \ Subtree(x)
        /\ todo'[j] = {} /\ hit'[j] /\ x \in Snap
    BY <1>6, OwnTypes, SelfTypes DEF TypeOK, Fault
  <2>2. \A sn \in snaps'[HostFor(j)] : Root(sn) \in snaps'[HostFor(j)]
    BY <2>1, SelfTypes, DestroyKeepsRoots DEF CallInv, RemoteOld
  <2>3. RemoteOld(j)'
    BY <1>1, <2>1, <2>2, SameCall DEF CallInv, RemoteOld, Root
  <2>4. CleanupComplete(j)'
    BY <1>1, <2>1, SameCall DEF CleanupComplete
  <2>5. RemoteClean(j)'
    BY <1>1, <2>1 DEF RemoteClean, Holding
  <2>6. QED
    BY <1>3, <2>3, <2>4, <2>5 DEF CallInv
<1>7. QED
  BY <1>2, <1>4, <1>5, <1>6

\* Without a fault the machine holds the new snapshot and nothing else.
LEMMA CreateSnapshotInv ==
    ASSUME TypeOK, Documented, NEW j \in Job, CallInv(j), CreateSnapshot(j)
    PROVE  CallInv(j)'
<1> DEFINE new == Subtree(OwnSnap(j))
<1>1. /\ pc[j] = "clean" /\ todo[j] = {}
      /\ UNCHANGED <<clock, file, pool, ts, todo, victims>>
  BY DEF CreateSnapshot
<1>2. new \cap snaps[HostFor(j)] = {}
  <2>1. \A x \in new : x.ts = ts[j]
    BY DEF Subtree, OwnSnap
  <2>2. \A x \in snaps[HostFor(j)] : x.ts < ts[j] /\ x.ts \in Nat
    BY <1>1, SelfTypes DEF CallInv, RemoteOld
  <2>3. QED
    BY <2>1, <2>2, SelfTypes
<1>3. \/ pc'[j] = "open" /\ failed' = failed /\ hit' = hit
      \/ pc'[j] = "done" /\ failed'[j] = TRUE /\ hit'[j] = TRUE
  BY <1>2 DEF CreateSnapshot, Goto, Raise, NoFault, Fault, TypeOK
<1>4. \/ snaps'[HostFor(j)] = snaps[HostFor(j)] \cup new
      \/ snaps'[HostFor(j)] = snaps[HostFor(j)] /\ pc'[j] = "done"
  BY <1>2, OwnTypes DEF CreateSnapshot, Goto, Raise, TypeOK
<1>5. Stamped(j)' /\ LocalOld(j)'
  BY <1>1, <1>3 DEF CallInv, Stamped, LocalOld
<1>6. RemoteOld(j)'
  <2>1. \A x \in new : /\ x.pool = pool[j] /\ x.ts = ts[j]
                       /\ Root(x) \in new
    <3>1. OwnSnap(j) \in new
      BY OwnTypes, SelfTypes DEF Subtree
    <3>2. \A x \in new : x.pool = pool[j] /\ x.ts = ts[j] /\ Root(x) = OwnSnap(j)
      BY DEF Subtree, OwnSnap, Root
    <3>3. QED
      BY <3>1, <3>2
  <2>2. SUFFICES ASSUME NEW sn \in snaps'[HostFor(j)]
                 PROVE  /\ pc'[j] # "idle"
                        /\ sn.pool \in PoolsOf[ServerOf[j]]
                        /\ sn.ts <= ts[j]
                        /\ pc'[j] \notin {"list", "clean"}
                        /\ Root(sn) \in snaps'[HostFor(j)]
    BY <1>1, SameCall DEF RemoteOld, Root
  <2>3. CASE sn \in new
    BY <1>1, <1>2, <1>3, <1>4, <2>1, <2>3, SelfTypes DEF CallInv, Stamped
  <2>4. CASE sn \in snaps[HostFor(j)]
    BY <1>1, <1>3, <1>4, <2>4 DEF CallInv, RemoteOld
  <2>5. QED
    BY <1>4, <2>3, <2>4
<1>7. CleanupComplete(j)' /\ ArchiveProgress(j)'
  BY <1>3 DEF CleanupComplete, ArchiveProgress
<1>8. RemoteClean(j)'
  <2>1. ~hit[j] => snaps[HostFor(j)] = {}
    BY <1>1 DEF CallInv, CleanupComplete
  <2>2. QED
    BY <1>1, <1>3, <1>4, <2>1, SameCall DEF CallInv, RemoteClean, Holding
<1>9. QED
  BY <1>5, <1>6, <1>7, <1>8 DEF CallInv

\* The archive is the latest file of the server.
LEMMA OpenArchiveInv ==
    ASSUME TypeOK, Documented, NEW j \in Job, CallInv(j), OpenArchive(j)
    PROVE  CallInv(j)'
<1>1. /\ pc[j] = "open"
      /\ UNCHANGED <<clock, snaps, pool, ts, todo, victims>>
      /\ \/ pc'[j] = "send" /\ failed' = failed /\ hit' = hit /\ Write(j, "partial")
         \/ pc'[j] = "destroy" /\ failed'[j] = TRUE /\ hit'[j] = TRUE
      /\ Write(j, "partial") \/ UNCHANGED file
  BY DEF OpenArchive, Goto, Raise, NoFault, Fault, TypeOK
<1>2. /\ Write(j, "partial") => OwnFile(j)' = "partial"
      /\ \A a \in Archive : a # Own(j) => file'[ServerOf[j]][a] = file[ServerOf[j]][a]
  BY <1>1, SameCall, OwnTypes DEF Write, TypeOK
<1>3. Stamped(j)' /\ RemoteOld(j)'
  BY <1>1, SameCall DEF CallInv, Stamped, RemoteOld, Root
<1>4. LocalOld(j)'
  BY <1>1, <1>2, SelfTypes DEF CallInv, LocalOld, Stamped, Own
<1>5. CleanupComplete(j)' /\ ArchiveProgress(j)'
  BY <1>1, <1>2 DEF CleanupComplete, ArchiveProgress
<1>6. RemoteClean(j)'
  BY <1>1, SameCall DEF CallInv, RemoteClean, Holding
<1>7. QED
  BY <1>3, <1>4, <1>5, <1>6 DEF CallInv

\* The stream starts from a snapshot that is intact.
LEMMA BeginSendInv ==
    ASSUME TypeOK, Documented, NEW j \in Job, Intact(j), CallInv(j), BeginSend(j)
    PROVE  CallInv(j)'
<1>1. /\ pc[j] = "send" /\ pc'[j] = "stream"
      /\ failed' = failed /\ hit' = hit
      /\ UNCHANGED <<clock, snaps, file, pool, ts, todo, victims>>
  BY DEF BeginSend, Intact, Holding, Goto, NoFault, TypeOK
<1>2. Stamped(j)' /\ RemoteOld(j)' /\ LocalOld(j)' /\ CleanupComplete(j)'
  BY <1>1, SameCall DEF CallInv, Stamped, RemoteOld, LocalOld, CleanupComplete, Root
<1>3. RemoteClean(j)' /\ ArchiveProgress(j)'
  BY <1>1, SameCall DEF CallInv, RemoteClean, ArchiveProgress, Holding, OwnFile
<1>4. QED
  BY <1>2, <1>3 DEF CallInv

\* Without a fault the archive is whole when the pipeline ends.
LEMMA EndStreamInv ==
    ASSUME TypeOK, Documented, NEW j \in Job, CallInv(j), EndStream(j)
    PROVE  CallInv(j)'
<1>1. pc[j] = "stream" /\ OwnFile(j) = "partial"
  BY DEF EndStream, CallInv, ArchiveProgress
<1>2. /\ UNCHANGED <<clock, snaps, pool, ts, todo, victims>>
      /\ \/ pc'[j] = "stat" /\ failed' = failed /\ hit' = hit /\ Write(j, "whole")
         \/ pc'[j] = "stat" /\ failed' = failed /\ hit'[j] = TRUE /\ UNCHANGED file
         \/ pc'[j] = "destroy" /\ failed'[j] = TRUE /\ hit'[j] = TRUE /\ Write(j, "none")
  BY <1>1 DEF EndStream, Goto, Raise, NoFault, Fault, TypeOK
<1>3. /\ \A content \in Content : Write(j, content) => OwnFile(j)' = content
      /\ UNCHANGED file => OwnFile(j)' = OwnFile(j)
      /\ \A a \in Archive : a # Own(j) => file'[ServerOf[j]][a] = file[ServerOf[j]][a]
  BY <1>2, SameCall, OwnTypes DEF Write, TypeOK, OwnFile
<1>4. Stamped(j)' /\ RemoteOld(j)' /\ CleanupComplete(j)'
  BY <1>1, <1>2, SameCall DEF CallInv, Stamped, RemoteOld, CleanupComplete, Root
<1>5. LocalOld(j)'
  BY <1>1, <1>2, <1>3, SelfTypes DEF CallInv, LocalOld, Stamped, Own
<1>6. RemoteClean(j)'
  BY <1>1, <1>2, SameCall DEF CallInv, RemoteClean, Holding
<1>7. ArchiveProgress(j)'
  BY <1>1, <1>2, <1>3 DEF ArchiveProgress, Content
<1>8. QED
  BY <1>4, <1>5, <1>6, <1>7 DEF CallInv

\* The archive that is looked at is the one just written.
LEMMA StatArchiveInv ==
    ASSUME TypeOK, Documented, NEW j \in Job, CallInv(j), StatArchive(j)
    PROVE  CallInv(j)'
<1>1. /\ pc[j] = "stat" /\ pc'[j] = "destroy"
      /\ failed' = failed /\ hit' = hit
      /\ UNCHANGED <<clock, snaps, file, pool, ts, todo, victims>>
  BY DEF StatArchive, Goto, NoFault, TypeOK, CallInv, ArchiveProgress
<1>2. Stamped(j)' /\ RemoteOld(j)' /\ LocalOld(j)' /\ CleanupComplete(j)'
  BY <1>1, SameCall DEF CallInv, Stamped, RemoteOld, LocalOld, CleanupComplete, Root
<1>3. RemoteClean(j)' /\ ArchiveProgress(j)'
  BY <1>1, SameCall DEF CallInv, RemoteClean, ArchiveProgress, Holding, OwnFile
<1>4. QED
  BY <1>2, <1>3 DEF CallInv

\* The finally clause removes the snapshot of the call.
LEMMA DestroyOwnInv ==
    ASSUME TypeOK, Documented, NEW j \in Job, CallInv(j), DestroyOwn(j)
    PROVE  CallInv(j)'
<1> DEFINE own == Subtree(OwnSnap(j))
<1>1. /\ pc[j] = "destroy" /\ failed' = failed
      /\ UNCHANGED <<clock, file, pool, ts, todo, victims>>
      /\ IF failed[j] THEN pc'[j] = "done" ELSE pc'[j] = "retain"
  BY DEF DestroyOwn, Goto, TypeOK
<1>2. \/ snaps'[HostFor(j)] = snaps[HostFor(j)] \ own /\ hit' = hit
      \/ UNCHANGED snaps /\ hit' = hit /\ own \cap snaps[HostFor(j)] = {}
      \/ UNCHANGED snaps /\ hit'[j] = TRUE
      \/ snaps'[HostFor(j)] = snaps[HostFor(j)] \ own /\ hit'[j] = TRUE
  <2>1. own \cap Held(HostFor(j)) = {}
    BY <1>1 DEF Held, Documented, OneCallPerHost
  <2>2. QED
    BY <2>1, OwnTypes DEF DestroyOwn, Destroyable, NoFault, Fault, TypeOK
<1>3. Stamped(j)' /\ LocalOld(j)' /\ CleanupComplete(j)'
  BY <1>1, SameCall DEF CallInv, Stamped, LocalOld, CleanupComplete
<1>4. RemoteOld(j)'
  <2>1. /\ \A sn \in snaps[HostFor(j)] : Root(sn) \in snaps[HostFor(j)]
        /\ OwnSnap(j) \in Snap
        /\ snaps[HostFor(j)] \subseteq Snap
    BY OwnTypes, SelfTypes DEF CallInv, RemoteOld
  <2>2. \A sn \in snaps'[HostFor(j)] : Root(sn) \in snaps'[HostFor(j)]
    BY <1>2, <2>1, DestroyKeepsRoots
  <2>3. snaps'[HostFor(j)] \subseteq snaps[HostFor(j)]
    BY <1>2
  <2>4. QED
    BY <1>1, <2>2, <2>3, SameCall DEF CallInv, RemoteOld, Root
<1>5. RemoteClean(j)'
  <2>1. ~hit[j] => snaps[HostFor(j)] = own /\ ~failed[j]
    BY <1>1 DEF CallInv, RemoteClean, Holding
  <2>2. ~hit'[j] => ~hit[j] /\ snaps'[HostFor(j)] = {}
    BY <1>2, <2>1
  <2>3. QED
    BY <1>1, <2>1, <2>2, SameCall DEF RemoteClean, Holding
<1>6. ArchiveProgress(j)'
  <2>1. hit[j] => hit'[j]
    BY <1>2
  <2>2. OwnFile(j)' = OwnFile(j)
    BY <1>1, SameCall DEF OwnFile
  <2>3. QED
    BY <1>1, <2>1, <2>2 DEF CallInv, ArchiveProgress
<1>7. QED
  BY <1>3, <1>4, <1>5, <1>6 DEF CallInv

\* The new archive has the greatest name of all that are on disk.
LEMMA ListArchivesInv ==
    ASSUME TypeOK, Documented, NEW j \in Job, CallInv(j), ListArchives(j)
    PROVE  CallInv(j)'
<1>1. /\ pc[j] = "retain" /\ pc'[j] = "prune"
      /\ failed' = failed /\ hit' = hit
      /\ UNCHANGED <<clock, snaps, file, pool, ts, todo>>
      /\ victims'[j] = ToDelete(Present(ServerOf[j]), Keep)
  BY DEF ListArchives, Goto, NoFault, TypeOK
<1>2. Own(j) \notin victims'[j]
  <2>1. \A g \in Present(ServerOf[j]) : ~NameBefore(Own(j), g)
    <3> SUFFICES ASSUME NEW g \in Present(ServerOf[j]) PROVE ~NameBefore(Own(j), g)
      OBVIOUS
    <3>1. g \in Archive /\ g.ts <= ts[j] /\ g.rank \in PoolsOf[ServerOf[j]]
      BY DEF Present, CallInv, LocalOld
    <3>2. g.rank = pool[j]
      BY <3>1, OwnTypes DEF CallInv, Stamped, Documented, OnePoolPerServer
    <3>3. g.ts \in Nat /\ g.rank \in Nat /\ ts[j] \in Nat
      BY <3>1, SelfTypes
    <3>4. Own(j).rank = pool[j] /\ Own(j).ts = ts[j]
      BY DEF Own
    <3>5. QED
      BY <3>1, <3>2, <3>3, <3>4 DEF NameBefore
  <2>2. {g \in Present(ServerOf[j]) : NameBefore(Own(j), g)} = {}
    BY <2>1
  <2>3. Cardinality({g \in Present(ServerOf[j]) : NameBefore(Own(j), g)}) = 0
    BY <2>2, FS_EmptySet
  <2>4. ~(0 >= Keep)
    BY NumberAssumption DEF Documented
  <2>5. QED
    BY <1>1, <2>3, <2>4 DEF ToDelete
<1>3. \A a \in victims'[j] : a \in Archive /\ file[ServerOf[j]][a] # "none"
  BY <1>1 DEF ToDelete, Present
<1>4. Stamped(j)' /\ RemoteOld(j)' /\ LocalOld(j)' /\ CleanupComplete(j)'
  BY <1>1, SameCall DEF CallInv, Stamped, RemoteOld, LocalOld, CleanupComplete, Root
<1>5. RemoteClean(j)' /\ ArchiveProgress(j)'
  BY <1>1, <1>2, <1>3, SameCall DEF CallInv, RemoteClean, ArchiveProgress, Holding, OwnFile
<1>6. QED
  BY <1>4, <1>5 DEF CallInv

\* An unlink takes an older file.
LEMMA PruneInv ==
    ASSUME TypeOK, Documented, NEW j \in Job, CallInv(j), Prune(j)
    PROVE  CallInv(j)'
<1>1. /\ pc[j] = "prune"
      /\ UNCHANGED <<clock, snaps, pool, ts, todo>>
  BY DEF Prune
<1>2. PICK a \in victims[j] :
          \/ /\ file' = [file EXCEPT ![ServerOf[j]][a] = "none"]
             /\ victims' = [victims EXCEPT ![j] = @ \ {a}]
             /\ NoFault
             /\ UNCHANGED <<pc, failed>>
          \/ /\ Raise(j, "done")
             /\ NoFault
             /\ file[ServerOf[j]][a] = "none"
             /\ UNCHANGED <<file, victims>>
          \/ /\ Fault(j)
             /\ Raise(j, "done")
             /\ UNCHANGED <<file, victims>>
  BY Zenon DEF Prune
<1>3. /\ a \in Archive /\ a # Own(j) /\ file[ServerOf[j]][a] # "none"
      /\ failed[j] = FALSE
  BY <1>1, SelfTypes DEF CallInv, ArchiveProgress, TypeOK
<1>4. /\ \/ pc'[j] = "prune" /\ failed' = failed /\ hit' = hit
         \/ pc'[j] = "done" /\ failed'[j] = TRUE /\ hit'[j] = TRUE /\ file' = file
      /\ \A b \in Archive : file'[ServerOf[j]][b] # "none" => file[ServerOf[j]][b] # "none"
      /\ \A b \in Archive : b # a => file'[ServerOf[j]][b] = file[ServerOf[j]][b]
      /\ \/ victims'[j] = victims[j] \ {a}
         \/ pc'[j] = "done"
  BY <1>1, <1>2, <1>3, OwnTypes DEF Raise, NoFault, Fault, TypeOK
<1>5. Stamped(j)' /\ RemoteOld(j)' /\ CleanupComplete(j)'
  BY <1>1, <1>4, SameCall DEF CallInv, Stamped, RemoteOld, CleanupComplete, Root
<1>6. LocalOld(j)'
  BY <1>1, <1>4 DEF CallInv, LocalOld
<1>7. RemoteClean(j)'
  BY <1>1, <1>4 DEF CallInv, RemoteClean, Holding, HostFor
<1>8. ArchiveProgress(j)'
  <2>1. OwnFile(j)' = OwnFile(j)
    BY <1>1, <1>3, <1>4, SameCall, SelfTypes DEF OwnFile
  <2>2. \A b \in victims[j] \ {a} : b \in Archive /\ file'[ServerOf[j]][b] # "none"
    BY <1>1, <1>4 DEF CallInv, ArchiveProgress
  <2>3. Own(j)' = Own(j)
    BY <1>1, SameCall
  <2>4. QED
    BY <1>1, <1>4, <2>1, <2>2, <2>3 DEF CallInv, ArchiveProgress
<1>9. QED
  BY <1>5, <1>6, <1>7, <1>8 DEF CallInv

\* What is known at the last step is what the properties say of an ended call.
LEMMA ReturnInv ==
    ASSUME TypeOK, Documented, NEW j \in Job, CallInv(j), Return(j)
    PROVE  CallInv(j)'
<1>1. /\ pc[j] = "prune" /\ pc'[j] = "done"
      /\ failed' = failed /\ hit' = hit
      /\ UNCHANGED <<clock, snaps, file, pool, ts, todo, victims>>
  BY DEF Return, Goto, NoFault, TypeOK
<1>2. Stamped(j)' /\ RemoteOld(j)' /\ LocalOld(j)' /\ CleanupComplete(j)'
  BY <1>1, SameCall DEF CallInv, Stamped, RemoteOld, LocalOld, CleanupComplete, Root
<1>3. RemoteClean(j)' /\ ArchiveProgress(j)'
  BY <1>1, SameCall DEF CallInv, RemoteClean, ArchiveProgress, Holding, OwnFile
<1>4. QED
  BY <1>2, <1>3 DEF CallInv

-----------------------------------------------------------------------------
(* The inductive invariant holds in every reachable state.                 *)

\* CallInv(j) looks at the view of j only.
LEMMA CallInvView ==
    ASSUME NEW j \in Job, CallInv(j), UNCHANGED View(j)
    PROVE  CallInv(j)'
<1>1. /\ UNCHANGED <<pc[j], pool[j], ts[j], todo[j], victims[j], failed[j], hit[j], clock>>
      /\ snaps'[HostFor(j)] = snaps[HostFor(j)] /\ file'[ServerOf[j]] = file[ServerOf[j]]
      /\ HostFor(j)' = HostFor(j) /\ Own(j)' = Own(j)
      /\ OwnFile(j)' = OwnFile(j)
      /\ Subtree(OwnSnap(j))' = Subtree(OwnSnap(j))
  BY DEF View, HostFor, Own, OwnFile, OwnSnap, Subtree
<1>2. Stamped(j)' /\ RemoteOld(j)' /\ LocalOld(j)'
  BY <1>1 DEF CallInv, Stamped, RemoteOld, LocalOld, Root
<1>3. CleanupComplete(j)' /\ RemoteClean(j)' /\ ArchiveProgress(j)'
  BY <1>1 DEF CallInv, CleanupComplete, RemoteClean, ArchiveProgress, Root
<1>4. QED
  BY <1>2, <1>3 DEF CallInv

\* CallInv(j) is kept by every step of j.
LEMMA CallInvStep ==
    ASSUME TypeOK, Documented, NEW j \in Job, Intact(j), CallInv(j),
           Start(j) \/ Step(j)
    PROVE  CallInv(j)'
  BY StartInv, ListStaleInv, DestroyStaleInv, CreateSnapshotInv, OpenArchiveInv,
     BeginSendInv, EndStreamInv, StatArchiveInv, DestroyOwnInv, ListArchivesInv,
     PruneInv, ReturnInv DEF Step

\* A crash counts as a fault, and leaves what it finds.
LEMMA CallInvCrash ==
    ASSUME TypeOK, NEW j \in Job, CallInv(j), NEW r \in Run, Crash(r)
    PROVE  CallInv(j)'
<1>1. UNCHANGED <<clock, snaps, file, pool, ts, todo, victims, failed>>
  BY DEF Crash
<1>2. CASE pc'[j] = pc[j] /\ hit'[j] = hit[j]
  BY <1>1, <1>2, CallInvView DEF View, HostFor
<1>3. CASE pc'[j] = "crashed" /\ hit'[j] = TRUE
  <2>1. pc[j] # "idle" \/ (snaps[HostFor(j)] = {} /\ \A a \in Archive : file[ServerOf[j]][a] = "none")
    BY SelfTypes DEF CallInv, RemoteOld, LocalOld
  <2>2. Stamped(j)' /\ RemoteOld(j)' /\ LocalOld(j)'
    BY <1>1, <1>3, SameCall DEF CallInv, Stamped, RemoteOld, LocalOld, Root
  <2>3. CleanupComplete(j)' /\ RemoteClean(j)' /\ ArchiveProgress(j)'
    BY <1>3 DEF CleanupComplete, RemoteClean, ArchiveProgress
  <2>4. QED
    BY <2>2, <2>3 DEF CallInv
<1>4. QED
  BY <1>2, <1>3 DEF Crash, TypeOK

\* Time passing only makes files and snapshots older.
LEMMA CallInvTick ==
    ASSUME TypeOK, NEW j \in Job, CallInv(j), Tick
    PROVE  CallInv(j)'
<1>1. /\ UNCHANGED <<snaps, file, pc, pool, ts, todo, victims, failed, hit>>
      /\ clock' = clock + 1
  BY DEF Tick
<1>2. Stamped(j)'
  BY <1>1, SelfTypes DEF CallInv, Stamped
<1>3. RemoteOld(j)' /\ LocalOld(j)' /\ CleanupComplete(j)'
  BY <1>1, SameCall DEF CallInv, RemoteOld, LocalOld, CleanupComplete, Root
<1>4. RemoteClean(j)' /\ ArchiveProgress(j)'
  BY <1>1, SameCall DEF CallInv, RemoteClean, ArchiveProgress, OwnFile
<1>5. QED
  BY <1>2, <1>3, <1>4 DEF CallInv

\* IInv is inductive: own steps, steps of others, crashes and the clock.
LEMMA Inductive ==
    ASSUME Documented
    PROVE  Spec => []IInv
<1>1. Init => IInv
  <2> SUFFICES ASSUME Init, NEW j \in Job PROVE CallInv(j)
    BY DEF IInv
  <2>1. /\ pc[j] = "idle" /\ ts[j] = 0 /\ clock = 0
        /\ pool[j] \in PoolsOf[ServerOf[j]]
        /\ snaps[HostFor(j)] = {}
        /\ \A a \in Archive : file[ServerOf[j]][a] = "none"
        /\ failed[j] = FALSE
    BY JobAssumption DEF Init, HostFor
  <2>2. QED
    BY <2>1 DEF CallInv, Stamped, RemoteOld, LocalOld, CleanupComplete,
                RemoteClean, ArchiveProgress, Holding
<1>2. TypeOK /\ InFlightIntact /\ IInv /\ [Next]_vars => IInv'
  <2> SUFFICES ASSUME TypeOK, InFlightIntact, IInv, [Next]_vars, NEW j \in Job
               PROVE  CallInv(j)'
    BY DEF IInv
  <2>1. CallInv(j) /\ Intact(j)
    BY DEF IInv, InFlightIntact, Intact
  <2>2. ASSUME NEW k \in Job, Start(k) \/ Step(k) PROVE CallInv(j)'
    <3>1. CASE k = j
      BY <2>1, <2>2, <3>1, CallInvStep
    <3>2. CASE k # j
      BY <2>1, <2>2, <3>2, Frame, CallInvView DEF Documented
    <3>3. QED
      BY <3>1, <3>2
  <2>3. ASSUME NEW r \in Run, Crash(r) PROVE CallInv(j)'
    BY <2>1, <2>3, CallInvCrash
  <2>4. CASE Tick
    BY <2>1, <2>4, CallInvTick
  <2>5. CASE UNCHANGED vars
    BY <2>1, <2>5, CallInvView DEF vars, View, HostFor
  <2>6. QED
    BY <2>2, <2>3, <2>4, <2>5 DEF Next
<1>3. OneCallPerHost
  BY DEF Documented
<1>4. Spec => []InFlightIntact
  BY <1>3, SnapshotIntact
<1>5. QED
  BY <1>1, <1>2, <1>4, TypeCorrect, PTL DEF Spec

-----------------------------------------------------------------------------
(* What follows from it.                                                   *)

\* In the documented deployment a call without a fault succeeds, has its
\* complete archive and leaves the machine clean, whatever happened before.
THEOREM CallHeals ==
    ASSUME Documented
    PROVE  Spec => []FaultFreeCallHeals
<1>1. IInv => FaultFreeCallHeals
  BY DEF IInv, CallInv, RemoteClean, ArchiveProgress, FaultFreeCallHeals
<1>2. QED
  BY <1>1, Inductive, PTL

\* In the documented deployment the archive of a call that reports success is
\* still on disk after its retention, whatever Keep >= 1 is.
THEOREM ArchiveSurvives ==
    ASSUME Documented
    PROVE  Spec => []ReportedArchivePresent
<1>1. IInv => ReportedArchivePresent
  BY DEF IInv, CallInv, ArchiveProgress, ReportedArchivePresent
<1>2. QED
  BY <1>1, Inductive, PTL

\* In the documented deployment a complete archive is lost only to the
\* retention of a call that has its own archive on disk.
THEOREM LossExplained ==
    ASSUME Documented
    PROVE  Spec => LossOnlyByRetention
<1> DEFINE Explained ==
        \A s \in Server, a \in Archive :
            file[s][a] = "whole" /\ file'[s][a] # "whole" =>
                \E j \in Job : /\ ServerOf[j] = s
                               /\ pc[j] = "prune" /\ a \in victims[j]
                               /\ OwnFile(j) # "none"
<1>1. TypeOK /\ IInv /\ [Next]_vars => [Explained]_vars
  <2> SUFFICES ASSUME TypeOK, IInv, Next,
                      NEW s \in Server, NEW a \in Archive,
                      file[s][a] = "whole", file'[s][a] # "whole"
               PROVE  \E j \in Job : /\ ServerOf[j] = s
                                     /\ pc[j] = "prune" /\ a \in victims[j]
                                     /\ OwnFile(j) # "none"
    OBVIOUS
  <2>1. PICK j \in Job : OpenArchive(j) \/ BeginSend(j) \/ EndStream(j) \/ Prune(j)
    BY DEF Next, Step, Start, ListStale, DestroyStale, CreateSnapshot,
           StatArchive, DestroyOwn, ListArchives, Return, Crash, Tick
  <2>2. CallInv(j) /\ Own(j) \in Archive /\ ServerOf[j] \in Server
    BY OwnTypes DEF IInv
  <2>3. CASE OpenArchive(j) \/ BeginSend(j) \/ EndStream(j)
    <3>1. \E content \in Content : Write(j, content)
      BY <2>3 DEF OpenArchive, BeginSend, EndStream, Content
    <3>2. s = ServerOf[j] /\ a = Own(j)
      BY <2>2, <3>1 DEF Write, TypeOK
    <3>3. OwnFile(j) # "whole"
      <4>1. pc[j] = "open" => OwnFile(j) = "none"
        BY <2>2, SelfTypes DEF CallInv, LocalOld, Own, OwnFile
      <4>2. QED
        BY <2>2, <2>3, <4>1 DEF OpenArchive, BeginSend, EndStream, CallInv, ArchiveProgress
    <3>4. QED
      BY <3>2, <3>3 DEF OwnFile
  <2>4. CASE Prune(j)
    <3>1. PICK b \in victims[j] : file' = [file EXCEPT ![ServerOf[j]][b] = "none"]
      BY <2>4, Zenon DEF Prune
    <3>2. s = ServerOf[j] /\ a = b /\ pc[j] = "prune"
      BY <2>2, <2>4, <3>1 DEF Prune, TypeOK
    <3>3. QED
      BY <2>2, <3>1, <3>2 DEF CallInv, ArchiveProgress
  <2>5. QED
    BY <2>1, <2>3, <2>4
<1>2. QED
  BY <1>1, Inductive, TypeCorrect, PTL DEF Spec, LossOnlyByRetention
-----------------------------------------------------------------------------
(* No snapshot is leaked, with any number of overlapping runs.             *)

Unstarted(j) == pc[j] \in {"list", "clean"}
Over(j)      == pc[j] \in {"retain", "prune", "done"}

\* No two calls for one server have one time stamp.
Stamps ==
    \A j, k \in Job : j # k /\ ServerOf[j] = ServerOf[k] /\ pc[j] # "idle" /\ pc[k] # "idle"
                         => ts[j] # ts[k]

\* Every snapshot is of a call no later than one that is known.
Sourced ==
    \A s \in Server : \A sn \in snaps[HostOf[s]] :
        \E k \in Job : ServerOf[k] = s /\ pc[k] # "idle" /\ sn.ts <= ts[k]

\* A call finds no snapshot of its own name, and leaves none.
Unmade == \A j \in Job : Unstarted(j) => \A sn \in snaps[HostFor(j)] : sn.ts # ts[j]
Gone   == \A j \in Job : Over(j) /\ ~hit[j] =>
              Subtree(OwnSnap(j)) \cap snaps[HostFor(j)] = {}

LeakInv == TypeOK /\ Stamps /\ Sourced /\ Unmade /\ Gone

\* What a step of one call leaves alone, and the only snapshots it makes.
LEMMA StepEffect ==
    ASSUME TypeOK, NEW j \in Job, Step(j)
    PROVE  /\ UNCHANGED <<clock, pool, ts>>
           /\ pc[j] \notin Ended
           /\ \A k \in Job : k # j => pc'[k] = pc[k] /\ hit'[k] = hit[k]
           /\ \A h \in Host : \A sn \in snaps'[h] :
                 \/ sn \in snaps[h]
                 \/ h = HostFor(j) /\ pc[j] = "clean" /\ ~Unstarted(j)'
                    /\ sn \in Subtree(OwnSnap(j))
<1> USE DEF TypeOK, Goto, Raise, NoFault, Fault, Ended, Unstarted
<1>1. CASE ListStale(j)
  BY <1>1 DEF ListStale
<1>2. CASE DestroyStale(j)
  BY <1>2 DEF DestroyStale
<1>3. CASE CreateSnapshot(j)
  <2>1. pc'[j] \in {"open", "done"} /\ pc[j] = "clean"
    BY <1>3 DEF CreateSnapshot
  <2>2. \/ UNCHANGED snaps
        \/ snaps' = [snaps EXCEPT ![HostFor(j)] = @ \cup Subtree(OwnSnap(j))]
    BY <1>3 DEF CreateSnapshot
  <2>3. ASSUME NEW h \in Host, NEW sn \in snaps'[h], sn \notin snaps[h]
        PROVE  h = HostFor(j) /\ sn \in Subtree(OwnSnap(j))
    BY <2>2, <2>3
  <2>4. QED
    BY <1>3, <2>1, <2>3 DEF CreateSnapshot
<1>4. CASE OpenArchive(j)
  BY <1>4 DEF OpenArchive
<1>5. CASE BeginSend(j)
  BY <1>5 DEF BeginSend
<1>6. CASE EndStream(j)
  BY <1>6 DEF EndStream
<1>7. CASE StatArchive(j)
  BY <1>7 DEF StatArchive
<1>8. CASE DestroyOwn(j)
  BY <1>8 DEF DestroyOwn
<1>9. CASE ListArchives(j)
  BY <1>9 DEF ListArchives
<1>10. CASE Prune(j)
  BY <1>10 DEF Prune
<1>11. CASE Return(j)
  BY <1>11 DEF Return
<1>12. QED
  BY <1>1, <1>2, <1>3, <1>4, <1>5, <1>6, <1>7, <1>8, <1>9, <1>10, <1>11 DEF Step

\* Where a call comes from on its way to its snapshot and after it.
LEMMA StepOrder ==
    ASSUME TypeOK, NEW j \in Job, Step(j)
    PROVE  /\ pc'[j] # "idle"
           /\ Unstarted(j)' => Unstarted(j)
           /\ Over(j)' => Over(j) \/ DestroyOwn(j) \/ CreateSnapshot(j)
           /\ Over(j) => snaps' = snaps
           /\ ~hit'[j] => ~hit[j]
<1> USE DEF TypeOK, Goto, Raise, NoFault, Fault, Unstarted, Over
<1>1. CASE ListStale(j)
  BY <1>1 DEF ListStale
<1>2. CASE DestroyStale(j)
  BY <1>2 DEF DestroyStale
<1>3. CASE CreateSnapshot(j)
  BY <1>3 DEF CreateSnapshot
<1>4. CASE OpenArchive(j)
  BY <1>4 DEF OpenArchive
<1>5. CASE BeginSend(j)
  BY <1>5 DEF BeginSend
<1>6. CASE EndStream(j)
  BY <1>6 DEF EndStream
<1>7. CASE StatArchive(j)
  BY <1>7 DEF StatArchive
<1>8. CASE DestroyOwn(j)
  BY <1>8 DEF DestroyOwn
<1>9. CASE ListArchives(j)
  BY <1>9 DEF ListArchives
<1>10. CASE Prune(j)
  BY <1>10 DEF Prune
<1>11. CASE Return(j)
  BY <1>11 DEF Return
<1>12. QED
  BY <1>1, <1>2, <1>3, <1>4, <1>5, <1>6, <1>7, <1>8, <1>9, <1>10, <1>11 DEF Step

\* A snapshot that is there after a step was there before, or has the name of
\* the call that made the step.
LEMMA NewSnaps ==
    ASSUME TypeOK, OneServerPerHost, NEW j \in Job, Step(j), NEW s \in Server,
           NEW sn \in snaps'[HostOf[s]], sn \notin snaps[HostOf[s]]
    PROVE  s = ServerOf[j] /\ sn.ts = ts[j] /\ pc[j] = "clean" /\ ~Unstarted(j)'
<1>1. HostOf[s] \in Host
  BY JobAssumption
<1>2. HostOf[s] = HostFor(j) /\ sn \in Subtree(OwnSnap(j)) /\ pc[j] = "clean" /\ ~Unstarted(j)'
  BY <1>1, StepEffect
<1>3. s = ServerOf[j]
  BY <1>2, JobAssumption DEF HostFor, OneServerPerHost
<1>4. QED
  BY <1>2, <1>3 DEF Subtree, OwnSnap

\* The call that makes the step has left no snapshot of its own behind.
LEMMA OwnGone ==
    ASSUME LeakInv, OneServerPerHost, NEW j \in Job, Step(j), Over(j)', ~hit'[j]
    PROVE  Subtree(OwnSnap(j)) \cap snaps'[HostFor(j)] = {}
<1> USE DEF LeakInv
<1>1. /\ ~hit[j] /\ HostFor(j) \in Host
      /\ snaps \in [Host -> SUBSET Snap]
  BY StepOrder, OwnTypes DEF TypeOK
<1>2. CASE Over(j)
  BY <1>1, <1>2, StepOrder DEF Gone
<1>3. CASE DestroyOwn(j)
  <2>1. CASE Destroyable(HostFor(j), OwnSnap(j)) /\ snaps' = [snaps EXCEPT ![HostFor(j)] = @ \ Subtree(OwnSnap(j))]
    BY <1>1, <2>1
  <2>2. CASE ~Destroyable(HostFor(j), OwnSnap(j)) /\ UNCHANGED snaps
    <3>1. Subtree(OwnSnap(j)) \cap Held(HostFor(j)) = {}
      <4> SUFFICES ASSUME NEW x \in Subtree(OwnSnap(j)), NEW k \in Job, HostFor(k) = HostFor(j),
                          pc[k] = "stream", x \in Subtree(OwnSnap(k))
                   PROVE  FALSE
        BY DEF Held
      <4>1. ts[k] = ts[j]
        BY DEF Subtree, OwnSnap
      <4>2. ServerOf[k] = ServerOf[j]
        BY JobAssumption DEF HostFor, OneServerPerHost
      <4>3. pc[j] = "destroy"
        BY <1>3 DEF DestroyOwn
      <4>4. QED
        BY <4>1, <4>2, <4>3 DEF Stamps
    <3>2. QED
      BY <2>2, <3>1 DEF Destroyable
  <2>3. CASE Fault(j)
    BY <2>3 DEF Fault, TypeOK
  <2>4. QED
    BY <1>3, <2>1, <2>2, <2>3 DEF DestroyOwn
<1>4. CASE CreateSnapshot(j)
  <2>1. pc[j] = "clean" /\ ~Fault(j)
    BY <1>1, <1>4 DEF CreateSnapshot, Fault, TypeOK
  <2>2. Subtree(OwnSnap(j)) \cap snaps[HostFor(j)] = {}
    <3>1. \A sn \in snaps[HostFor(j)] : sn.ts # ts[j]
      BY <2>1 DEF Unmade, Unstarted
    <3>2. QED
      BY <3>1 DEF Subtree, OwnSnap
  <2>3. Goto(j, "open")
    BY <1>4, <2>1, <2>2 DEF CreateSnapshot
  <2>4. QED
    BY <2>3 DEF Goto, Over, TypeOK
<1>5. QED
  BY <1>2, <1>3, <1>4, StepOrder

\* A step of a call keeps the invariant.
LEMMA LeakStep ==
    ASSUME LeakInv, TypeOK', OneServerPerHost, NEW j \in Job, Step(j)
    PROVE  LeakInv'
<1> USE DEF LeakInv
<1>1. /\ UNCHANGED <<clock, pool, ts>> /\ pc[j] \notin Ended /\ pc'[j] # "idle"
      /\ \A k \in Job : k # j => pc'[k] = pc[k] /\ hit'[k] = hit[k]
  BY StepEffect, StepOrder
<1>2. \A k \in Job : pc[k] # "idle" <=> pc'[k] # "idle"
  BY <1>1 DEF Ended
<1>3. Stamps'
  BY <1>1, <1>2 DEF Stamps
<1>4. Sourced'
  <2> SUFFICES ASSUME NEW s \in Server, NEW sn \in snaps'[HostOf[s]]
               PROVE  \E k \in Job : ServerOf[k] = s /\ pc'[k] # "idle" /\ sn.ts <= ts[k]
    BY <1>1 DEF Sourced
  <2>1. CASE sn \in snaps[HostOf[s]]
    BY <1>2, <2>1 DEF Sourced
  <2>2. CASE sn \notin snaps[HostOf[s]]
    <3>1. s = ServerOf[j] /\ sn.ts = ts[j] /\ ts[j] \in Nat
      BY <2>2, NewSnaps, SelfTypes
    <3>2. QED
      BY <1>1, <3>1
  <2>3. QED
    BY <2>1, <2>2
<1>5. Unmade'
  <2> SUFFICES ASSUME NEW k \in Job, Unstarted(k)', NEW sn \in snaps'[HostFor(k)]
               PROVE  sn.ts # ts[k]
    BY <1>1 DEF Unmade, HostFor
  <2>1. Unstarted(k)
    BY <1>1, StepOrder DEF Unstarted
  <2>2. ServerOf[k] \in Server
    BY JobAssumption
  <2>3. CASE sn \in snaps[HostFor(k)]
    BY <2>1, <2>3 DEF Unmade
  <2>4. CASE sn \notin snaps[HostFor(k)]
    <3>1. ServerOf[k] = ServerOf[j] /\ sn.ts = ts[j] /\ ~Unstarted(j)' /\ pc[j] = "clean"
      BY <2>2, <2>4, NewSnaps DEF HostFor
    <3>2. k # j
      BY <3>1
    <3>3. ts[k] # ts[j]
      BY <2>1, <3>1, <3>2 DEF Stamps, Unstarted
    <3>4. QED
      BY <3>1, <3>3
  <2>5. QED
    BY <2>3, <2>4
<1>6. Gone'
  <2> SUFFICES ASSUME NEW k \in Job, Over(k)', ~hit'[k]
               PROVE  Subtree(OwnSnap(k)) \cap snaps'[HostFor(k)] = {}
    BY <1>1, SameCall DEF Gone
  <2>1. CASE k = j
    BY <2>1, OwnGone
  <2>2. CASE k # j
    <3>1. Subtree(OwnSnap(k)) \cap snaps[HostFor(k)] = {}
      BY <1>1, <2>2 DEF Gone, Over
    <3>2. ServerOf[k] \in Server
      BY JobAssumption
    <3>3. ASSUME NEW sn \in Subtree(OwnSnap(k)), sn \in snaps'[HostFor(k)] PROVE FALSE
      <4>1. sn.ts = ts[k] /\ sn \notin snaps[HostFor(k)]
        BY <3>1, <3>3 DEF Subtree, OwnSnap
      <4>2. ServerOf[k] = ServerOf[j] /\ sn.ts = ts[j]
        BY <3>2, <3>3, <4>1, NewSnaps DEF HostFor
      <4>3. pc[k] # "idle" /\ pc[j] # "idle"
        BY <1>1, <2>2 DEF Over, Ended
      <4>4. QED
        BY <2>2, <4>1, <4>2, <4>3 DEF Stamps
    <3>4. QED
      BY <3>3
  <2>3. QED
    BY <2>1, <2>2
<1>7. QED
  BY <1>3, <1>4, <1>5, <1>6

\* So does the start of a call: it takes a time stamp of its own.
LEMMA LeakStart ==
    ASSUME LeakInv, TypeOK', OneServerPerHost, RunGap = 1, NEW j \in Job, Start(j)
    PROVE  LeakInv'
<1> USE DEF LeakInv
<1>1. /\ UNCHANGED <<clock, snaps>> /\ ts'[j] = clock /\ pc'[j] = "list"
      /\ \A k \in Job : k # j => /\ pc'[k] = pc[k] /\ hit'[k] = hit[k]
                                 /\ ts'[k] = ts[k] /\ pool'[k] = pool[k]
  BY DEF Start, TypeOK
<1>2. \A k \in Job : ServerOf[k] = ServerOf[j] /\ pc[k] # "idle" => clock > ts[k]
  BY SelfTypes DEF Start
<1>3. clock \in Nat /\ \A k \in Job : ts[k] \in Nat
  BY SelfTypes
<1>4. Stamps'
  BY <1>1, <1>2, <1>3 DEF Stamps
<1>5. Sourced'
  <2> SUFFICES ASSUME NEW s \in Server, NEW sn \in snaps[HostOf[s]]
               PROVE  \E k \in Job : ServerOf[k] = s /\ pc'[k] # "idle" /\ sn.ts <= ts'[k]
    BY <1>1 DEF Sourced
  <2>1. PICK k \in Job : ServerOf[k] = s /\ pc[k] # "idle" /\ sn.ts <= ts[k]
    BY DEF Sourced
  <2>2. CASE k # j
    BY <1>1, <2>1, <2>2
  <2>3. CASE k = j
    <3>1. sn.ts \in Nat
      BY JobAssumption, NumberAssumption DEF TypeOK, Snap, Time
    <3>2. sn.ts <= ts'[j]
      BY <1>1, <1>2, <1>3, <2>1, <2>3, <3>1
    <3>3. QED
      BY <1>1, <2>1, <2>3, <3>2
  <2>4. QED
    BY <2>2, <2>3
<1>6. Unmade'
  <2> SUFFICES ASSUME NEW k \in Job, Unstarted(k)', NEW sn \in snaps[HostFor(k)]
               PROVE  sn.ts # ts'[k]
    BY <1>1 DEF Unmade, HostFor
  <2>1. CASE k # j
    BY <1>1, <2>1 DEF Unmade, Unstarted
  <2>2. CASE k = j
    <3>1. sn.ts \in Nat
      BY <2>2, SelfTypes
    <3>2. PICK i \in Job : ServerOf[i] = ServerOf[j] /\ pc[i] # "idle" /\ sn.ts <= ts[i]
      BY <2>2, JobAssumption DEF Sourced, HostFor
    <3>3. sn.ts < clock
      BY <1>2, <1>3, <3>1, <3>2
    <3>4. QED
      BY <1>1, <1>3, <2>2, <3>1, <3>3
  <2>3. QED
    BY <2>1, <2>2
<1>7. Gone'
  <2> SUFFICES ASSUME NEW k \in Job, Over(k)', ~hit'[k]
               PROVE  (Subtree(OwnSnap(k)) \cap snaps[HostFor(k)] = {})'
    BY DEF Gone
  <2>1. k # j
    BY <1>1 DEF Over
  <2>2. Subtree(OwnSnap(k)) \cap snaps[HostFor(k)] = {}
    BY <1>1, <2>1 DEF Gone, Over
  <2>3. QED
    BY <1>1, <2>1, <2>2 DEF Subtree, OwnSnap, HostFor
<1>8. QED
  BY <1>4, <1>5, <1>6, <1>7

\* A kill ends calls without changing anything else.
LEMMA LeakCrash ==
    ASSUME LeakInv, TypeOK', NEW r \in Run, Crash(r)
    PROVE  LeakInv'
<1> USE DEF LeakInv
<1>1. UNCHANGED <<clock, snaps, pool, ts>>
  BY DEF Crash
<1>2. \A k \in Job : /\ pc[k] # "idle" <=> pc'[k] # "idle"
                     /\ pc'[k] = pc[k] \/ pc'[k] = "crashed"
                     /\ ~hit'[k] => ~hit[k]
  BY DEF Crash, Ended, TypeOK
<1>3. Stamps' /\ Sourced'
  BY <1>1, <1>2 DEF Stamps, Sourced
<1>4. Unmade'
  BY <1>1, <1>2 DEF Unmade, Unstarted, HostFor
<1>5. Gone'
  BY <1>1, <1>2, SameCall DEF Gone, Over
<1>6. QED
  BY <1>3, <1>4, <1>5

\* A call without a fault leaves no snapshot, whatever runs overlap with it.
THEOREM NoLeak ==
    ASSUME OneServerPerHost, RunGap = 1 PROVE Spec => []NoSnapshotLeak
<1>1. Init => Stamps /\ Sourced /\ Unmade /\ Gone
  BY JobAssumption DEF Init, Stamps, Sourced, Unmade, Gone, Unstarted, Over
<1>2. TypeOK /\ TypeOK' /\ Stamps /\ Sourced /\ Unmade /\ Gone /\ [Next]_vars
        => (Stamps /\ Sourced /\ Unmade /\ Gone)'
  <2> SUFFICES ASSUME LeakInv, TypeOK', [Next]_vars PROVE LeakInv'
    BY DEF LeakInv
  <2>1. ASSUME NEW j \in Job, Start(j) \/ Step(j) PROVE LeakInv'
    BY <2>1, LeakStart, LeakStep
  <2>2. ASSUME NEW r \in Run, Crash(r) PROVE LeakInv'
    BY <2>2, LeakCrash
  <2>3. CASE Tick \/ UNCHANGED vars
    <3>1. UNCHANGED <<snaps, pc, pool, ts, hit>>
      BY <2>3 DEF Tick, vars
    <3>2. QED
      BY <3>1 DEF LeakInv, Stamps, Sourced, Unmade, Gone, Unstarted, Over, HostFor,
         Subtree, OwnSnap
  <2>4. QED
    BY <2>1, <2>2, <2>3 DEF Next
<1>3. Gone => NoSnapshotLeak
  BY DEF Gone, Over, NoSnapshotLeak
<1>4. QED
  BY <1>1, <1>2, <1>3, TypeCorrect, PTL DEF Spec

-----------------------------------------------------------------------------
(* Retention leaves enough.                                                *)

After(f, files) == {g \in files : NameBefore(f, g)}

\* When anything is to be deleted, keep files or more are not.  The last of
\* those to be deleted has keep files after it, and none of them is deleted.
LEMMA KeepsEnough ==
    ASSUME NEW files, IsFiniteSet(files), files \subseteq Name(Nat, Nat), NEW keep \in Int,
           ToDelete(files, keep) # {}
    PROVE  Cardinality(files \ ToDelete(files, keep)) >= keep
<1> DEFINE Doomed == ToDelete(files, keep)
           Afters == {After(f, files) : f \in Doomed}
<1>1. Afters \subseteq FiniteSubsetsOf(files) /\ Afters # {}
  <2>1. ASSUME NEW f \in Doomed PROVE After(f, files) \in FiniteSubsetsOf(files)
    <3>1. After(f, files) \in SUBSET files
      BY DEF After
    <3>2. QED
      BY <3>1, FS_Subset, Zenon DEF FiniteSubsetsOf
  <2>2. QED
    BY <2>1
<1>2. PICK A \in Afters : \A B \in Afters : <<B, A>> \notin StrictSubsetOrdering(files)
  <2> HIDE DEF Afters
  <2>1. QED
    BY <1>1, WFMin, FS_StrictSubsetOrderingWellFounded, Zenon
<1>3. PICK f \in Doomed : A = After(f, files)
  OBVIOUS
<1>4. After(f, files) \cap Doomed = {}
  <2> SUFFICES ASSUME NEW g \in After(f, files), g \in Doomed PROVE FALSE
    OBVIOUS
  <2>1. /\ f \in Name(Nat, Nat) /\ g \in Name(Nat, Nat)
        /\ NameBefore(f, g)
    BY DEF ToDelete, After
  <2>2. ~NameBefore(g, g) /\ \A h \in Name(Nat, Nat) : NameBefore(g, h) => NameBefore(f, h)
    BY <2>1 DEF NameBefore, Name
  <2>3. After(g, files) \subseteq After(f, files) /\ g \notin After(g, files)
    BY <2>2 DEF After
  <2>4. After(g, files) \in Afters
    OBVIOUS
  <2>5. <<After(g, files), A>> \in StrictSubsetOrdering(files)
    <3>1. After(g, files) \in SUBSET files /\ A \in SUBSET files /\ g \in A
      BY <1>3 DEF After
    <3>2. QED
      BY <1>3, <2>3, <3>1 DEF StrictSubsetOrdering
  <2>6. QED
    BY <1>2, <2>4, <2>5
<1>5. After(f, files) \subseteq files \ Doomed
  BY <1>4 DEF After
<1>6. Cardinality(After(f, files)) >= keep
  BY DEF ToDelete, After
<1>7. /\ Cardinality(files \ Doomed) \in Nat
      /\ Cardinality(After(f, files)) \in Nat
      /\ Cardinality(After(f, files)) <= Cardinality(files \ Doomed)
  BY <1>5, FS_Subset, FS_CardinalityType
<1>8. QED
  BY <1>6, <1>7

\* With finitely many pools a directory holds finitely many archives.
LEMMA ArchivesFinite ==
    ASSUME IsFiniteSet(Pool) PROVE IsFiniteSet(Archive) /\ Archive \subseteq Name(Nat, Nat)
<1> DEFINE named == [x \in Pool \X Time |-> [rank |-> x[1], ts |-> x[2]]]
<1>1. IsFiniteSet(Pool \X Time)
  <2>1. IsFiniteSet(Time)
    BY FS_Interval, NumberAssumption DEF Time
  <2>2. QED
    BY <2>1, FS_Product
<1>2. named \in Surjection(Pool \X Time, Archive)
  <2>1. named \in [Pool \X Time -> Archive]
    BY DEF Archive, Name
  <2>2. ASSUME NEW a \in Archive
        PROVE  <<a.rank, a.ts>> \in Pool \X Time /\ named[<<a.rank, a.ts>>] = a
    BY DEF Archive, Name
  <2>3. QED
    BY <2>1, <2>2 DEF Surjection
<1>3. IsFiniteSet(Archive)
  BY <1>1, <1>2, FS_Surjection
<1>4. Archive \subseteq Name(Nat, Nat)
  <2> SUFFICES ASSUME NEW a \in Archive PROVE a \in Name(Nat, Nat)
    OBVIOUS
  <2>1. a = [rank |-> a.rank, ts |-> a.ts] /\ a.rank \in Pool /\ a.ts \in Time
    BY DEF Archive, Name
  <2>2. a.rank \in Nat /\ a.ts \in Nat
    BY <2>1, NumberAssumption DEF Time
  <2>3. QED
    BY <2>1, <2>2 DEF Name
<1>5. QED
  BY <1>3, <1>4

\* What is still to be unlinked is there, and enough is not to be unlinked.
Floor(j) ==
    pc[j] = "prune" /\ victims[j] # {} =>
        /\ victims[j] \subseteq Present(ServerOf[j])
        /\ Cardinality(Present(ServerOf[j]) \ victims[j]) >= Keep

\* Floor(j) looks at the view of j only.
LEMMA FloorView ==
    ASSUME NEW j \in Job, Floor(j), UNCHANGED View(j)
    PROVE  Floor(j)'
  BY DEF Floor, View, Present

\* Reading the directory decides what stays, and each unlink takes one file
\* from those present and from those to be unlinked.
LEMMA FloorStep ==
    ASSUME TypeOK, IsFiniteSet(Pool), NEW j \in Job, Floor(j), Start(j) \/ Step(j)
    PROVE  /\ Floor(j)'
           /\ pc[j] = "prune" /\ victims'[j] # victims[j]
                => Cardinality(Present(ServerOf[j])') >= Keep
<1> DEFINE S == ServerOf[j]
<1>1. S \in Server /\ pc \in [Job -> Label] /\ victims \in [Job -> SUBSET Archive]
      /\ file \in [Server -> [Archive -> Content]]
  BY OwnTypes DEF TypeOK
<1>2. CASE ListArchives(j)
  <2>1. /\ pc[j] # "prune"
        /\ victims'[j] = ToDelete(Present(S), Keep)
        /\ Present(S)' = Present(S)
    BY <1>1, <1>2 DEF ListArchives, Present
  <2>2. IsFiniteSet(Present(S)) /\ Present(S) \subseteq Name(Nat, Nat)
    BY ArchivesFinite, FS_Subset DEF Present
  <2>3. QED
    BY <2>1, <2>2, KeepsEnough, NumberAssumption DEF Floor, ToDelete
<1>3. CASE Prune(j)
  <2>1. CASE victims'[j] = victims[j]
    <3>1. pc'[j] = "done"
      BY <1>1, <1>3, <2>1 DEF Prune, IsFirst, Raise
    <3>2. QED
      BY <2>1, <3>1 DEF Floor
  <2>2. CASE victims'[j] # victims[j]
    <3>1. PICK a \in victims[j] :
              /\ file' = [file EXCEPT ![S][a] = "none"]
              /\ victims' = [victims EXCEPT ![j] = @ \ {a}]
      BY <1>3, <2>2, Zenon DEF Prune
    <3>2. /\ pc[j] = "prune" /\ a \in Archive
          /\ victims'[j] = victims[j] \ {a}
          /\ Present(S)' = Present(S) \ {a}
      BY <1>1, <1>3, <3>1 DEF Present, Prune
    <3>3. /\ victims[j] \subseteq Present(S)
          /\ Cardinality(Present(S) \ victims[j]) >= Keep
      BY <3>2, <3>1 DEF Floor
    <3>4. Present(S)' \ victims'[j] = Present(S) \ victims[j]
      BY <3>1, <3>2, <3>3
    <3>5. Floor(j)'
      BY <3>2, <3>3, <3>4 DEF Floor
    <3>6. Present(S) \ victims[j] \in SUBSET (Present(S)') /\ IsFiniteSet(Present(S)')
      BY <3>2, <3>1, ArchivesFinite, FS_Subset DEF Present
    <3>7. QED
      BY <3>3, <3>5, <3>6, FS_Subset, FS_CardinalityType, NumberAssumption
  <2>3. QED
    BY <2>1, <2>2
<1>4. CASE ~ListArchives(j) /\ ~Prune(j)
  <2>1. pc[j] = "prune" => Return(j)
    BY <1>4 DEF Step, Start, ListStale, DestroyStale, CreateSnapshot, OpenArchive,
       BeginSend, EndStream, StatArchive, DestroyOwn, Ended
  <2>2. pc'[j] # "prune"
    BY <1>1, <1>4 DEF Step, Start, ListStale, DestroyStale, CreateSnapshot,
       OpenArchive, BeginSend, EndStream, StatArchive, DestroyOwn, Return, Goto, Raise
  <2>3. Return(j) => victims' = victims
    BY DEF Return
  <2>4. QED
    BY <2>1, <2>2, <2>3 DEF Floor
<1>5. QED
  BY <1>2, <1>3, <1>4

\* While no two jobs work on one machine, no deletion leaves fewer than Keep
\* archives.
THEOREM FloorHolds ==
    ASSUME OneCallPerHost, IsFiniteSet(Pool) PROVE Spec => RetentionFloor
<1> DEFINE Floors == \A j \in Job : Floor(j)
           Kept(j) == pc[j] = "prune" /\ victims'[j] # victims[j] =>
                          Cardinality(Present(ServerOf[j])') >= Keep
<1>1. Init => Floors
  BY DEF Init, Floor
<1>2. TypeOK /\ Floors /\ [Next]_vars => Floors' /\ \A j \in Job : Kept(j)
  <2> SUFFICES ASSUME TypeOK, Floors, [Next]_vars, NEW j \in Job
               PROVE  Floor(j)' /\ Kept(j)
    OBVIOUS
  <2>1. CASE Start(j) \/ Step(j)
    BY <2>1, FloorStep
  <2>2. ASSUME NEW k \in Job, k # j, Start(k) \/ Step(k) PROVE Floor(j)' /\ Kept(j)
    BY <2>2, Frame, FloorView DEF View
  <2>3. ASSUME NEW r \in Run, Crash(r) PROVE Floor(j)' /\ Kept(j)
    BY <2>3 DEF Crash, Floor, Present, TypeOK
  <2>4. CASE Tick \/ UNCHANGED vars
    BY <2>4 DEF Tick, vars, Floor, Present
  <2>5. QED
    BY <2>1, <2>2, <2>3, <2>4 DEF Next
<1>3. TypeOK /\ Floors /\ [Next]_vars => [\A j \in Job : Kept(j)]_vars
  BY <1>2
<1>4. QED
  BY <1>1, <1>2, <1>3, TypeCorrect, PTL DEF Spec, RetentionFloor

-----------------------------------------------------------------------------
(* How many archives there are.                                            *)

\* The least of some natural numbers.
LEMMA LeastNumber ==
    ASSUME NEW S, S \subseteq Nat, S # {}
    PROVE  \E m \in S : \A n \in S : m <= n
<1>1. PICK m \in S : \A n \in S : <<n, m>> \notin OpToRel(<, Nat)
  BY WFMin, NatLessThanWellFounded, Zenon
<1>2. \A n \in S : ~(n < m)
  BY <1>1 DEF OpToRel
<1>3. QED
  BY <1>2

\* The deletion loop finds its next file as long as there is one to delete.
LEMMA FirstArchive ==
    ASSUME NEW files, files \subseteq Name(Nat, Nat), files # {}
    PROVE  \E a \in files : IsFirst(a, files)
<1> DEFINE Ranks == {f.rank : f \in files}
           Dates(r) == {f.ts : f \in {g \in files : g.rank = r}}
<1>1. Ranks \subseteq Nat /\ Ranks # {}
  BY DEF Name
<1>2. PICK r \in Ranks : \A s \in Ranks : r <= s
  <2> HIDE DEF Ranks
  <2>1. QED
    BY <1>1, LeastNumber
<1>3. Dates(r) \subseteq Nat /\ Dates(r) # {}
  BY DEF Name
<1>4. PICK t \in Dates(r) : \A u \in Dates(r) : t <= u
  <2> HIDE DEF Dates
  <2>1. QED
    BY <1>3, LeastNumber
<1>5. PICK a \in files : a.rank = r /\ a.ts = t
  OBVIOUS
<1>6. ASSUME NEW g \in files \ {a} PROVE NameBefore(a, g)
  <2>1. a = [rank |-> a.rank, ts |-> a.ts] /\ g = [rank |-> g.rank, ts |-> g.ts]
        /\ a.ts \in Nat /\ g.ts \in Nat /\ a.rank \in Nat /\ g.rank \in Nat
    BY DEF Name
  <2>2. a.rank <= g.rank
    BY <1>2, <1>5
  <2>3. g.rank = a.rank => a.ts <= g.ts /\ a.ts # g.ts
    BY <1>4, <1>5, <2>1
  <2>4. QED
    BY <2>1, <2>2, <2>3 DEF NameBefore
<1>7. QED
  BY <1>6 DEF IsFirst

\* What is kept when keep is as it comes from the configuration.
AtMost(keep) == IF keep > 0 THEN keep ELSE 0

\* One more is one more to count.
LEMMA OneMore ==
    ASSUME NEW S, IsFiniteSet(S), NEW x, NEW T, T \subseteq S \cup {x}
    PROVE  Cardinality(T) \in Nat /\ Cardinality(S) \in Nat
           /\ Cardinality(T) <= Cardinality(S) + 1
<1>1. /\ IsFiniteSet(S \cup {x})
      /\ \/ Cardinality(S \cup {x}) = Cardinality(S)
         \/ Cardinality(S \cup {x}) = Cardinality(S) + 1
  BY FS_AddElement
<1>2. IsFiniteSet(T) /\ Cardinality(T) <= Cardinality(S \cup {x})
  BY <1>1, FS_Subset
<1>3. Cardinality(S) \in Nat /\ Cardinality(T) \in Nat
  BY <1>2, FS_CardinalityType
<1>4. QED
  BY <1>1, <1>2, <1>3

\* apply_retention spares no more files than it is told to keep: those that
\* come after the first one it spares are fewer than that.
LEMMA KeepsAtMost ==
    ASSUME NEW files, files \subseteq Name(Nat, Nat), IsFiniteSet(files), NEW keep \in Int
    PROVE  Cardinality(files \ ToDelete(files, keep)) <= AtMost(keep)
<1> DEFINE spared == files \ ToDelete(files, keep)
<1>1. CASE spared = {}
  BY <1>1, FS_EmptySet DEF AtMost
<1>2. CASE spared # {}
  <2>1. PICK a \in spared : IsFirst(a, spared)
    <3>1. spared \subseteq Name(Nat, Nat)
      OBVIOUS
    <3> HIDE DEF spared
    <3>2. QED
      BY <1>2, <3>1, FirstArchive
  <2> DEFINE after == {g \in files : NameBefore(a, g)}
  <2>2. IsFiniteSet(after) /\ Cardinality(after) \in Nat /\ Cardinality(after) < keep
    <3>1. IsFiniteSet(after)
      BY FS_Subset
    <3>2. ~(Cardinality(after) >= keep)
      BY DEF ToDelete
    <3>3. QED
      BY <3>1, <3>2, FS_CardinalityType
  <2>3. spared \subseteq after \cup {a}
    BY <2>1 DEF IsFirst
  <2>4. Cardinality(spared) \in Nat /\ Cardinality(spared) <= Cardinality(after) + 1
    <3> HIDE DEF after, spared
    <3>1. QED
      BY <2>2, <2>3, OneMore
  <2>5. QED
    BY <2>2, <2>4 DEF AtMost
<1>3. QED
  BY <1>1, <1>2

\* From the first byte of its archive to the end of the retention, unless it
\* fails on the way, the archive of the call comes on top of the others.
Making(j) ==
    \/ pc[j] \in {"send", "stream", "stat", "retain", "prune"}
    \/ pc[j] = "destroy" /\ ~failed[j]

Others(j) == IF Making(j) THEN Present(ServerOf[j]) \ {Own(j)} ELSE Present(ServerOf[j])

\* A call leaves one archive too many only by a fault; and the retention of a
\* call with no fault removes what earlier ones left.
Crowd(j) ==
    /\ pc[j] \in {"list", "clean", "open", "send", "stream", "stat"} => ~failed[j]
    /\ Cardinality(Others(j)) <= AtMost(Keep) + faults
    /\ pc[j] = "prune" => Cardinality(Present(ServerOf[j]) \ victims[j]) <= AtMost(Keep)

\* The archives in a directory, some of them or with one more, are a number.
LEMMA CountTypes ==
    ASSUME IsFiniteSet(Pool), NEW S, S \subseteq Archive
    PROVE  /\ IsFiniteSet(S) /\ Cardinality(S) \in Nat
           /\ \A T \in SUBSET S : Cardinality(T) \in Nat /\ Cardinality(T) <= Cardinality(S)
           /\ \A T, x : T \subseteq S \cup {x} =>
                Cardinality(T) \in Nat /\ Cardinality(T) <= Cardinality(S) + 1
<1>1. IsFiniteSet(S) /\ Cardinality(S) \in Nat
  BY ArchivesFinite, FS_Subset, FS_CardinalityType
<1>2. ASSUME NEW T \in SUBSET S PROVE Cardinality(T) \in Nat /\ Cardinality(T) <= Cardinality(S)
  BY <1>1, FS_Subset, FS_CardinalityType
<1>3. QED
  BY <1>1, <1>2, OneMore

\* Writing or unlinking the archive of the call changes no other.
LEMMA OwnWritten ==
    ASSUME TypeOK, NEW j \in Job, NEW content \in Content,
           Write(j, content) \/ UNCHANGED file, UNCHANGED <<pool, ts>>
    PROVE  /\ Own(j)' = Own(j)
           /\ Present(ServerOf[j])' \ {Own(j)} = Present(ServerOf[j]) \ {Own(j)}
           /\ Write(j, "none") => Own(j) \notin Present(ServerOf[j])'
           /\ OwnFile(j) = "none" <=> Own(j) \notin Present(ServerOf[j])
<1>1. Own(j) \in Archive /\ ServerOf[j] \in Server /\ file \in [Server -> [Archive -> Content]]
  BY OwnTypes DEF TypeOK
<1>2. Own(j)' = Own(j)
  BY DEF Own
<1>3. \A a \in Archive \ {Own(j)} : file'[ServerOf[j]][a] = file[ServerOf[j]][a]
  BY <1>1 DEF Write
<1>4. Write(j, "none") => file'[ServerOf[j]][Own(j)] = "none"
  BY <1>1 DEF Write
<1>5. QED
  BY <1>1, <1>2, <1>3, <1>4 DEF Present, OwnFile

\* A fault adds one to the count, everything else nothing.
LEMMA FaultCounts ==
    ASSUME TypeOK, NEW j \in Job
    PROVE  /\ faults \in Nat /\ AtMost(Keep) \in Nat
           /\ Fault(j) => faults' = faults + 1
           /\ NoFault => faults' = faults
  BY NumberAssumption DEF Fault, NoFault, TypeOK, AtMost

\* What the count of a directory needs of a step: the other archives become
\* no more, or one more by a fault.
LEMMA CrowdCarried ==
    ASSUME TypeOK, TypeOK', IsFiniteSet(Pool), NEW j \in Job, Crowd(j), pc'[j] # "prune",
           pc'[j] \in {"list", "clean", "open", "send", "stream", "stat"} => ~failed'[j],
           \/ Others(j)' \subseteq Others(j) /\ faults' \in {faults, faults + 1}
           \/ \E x : Others(j)' \subseteq Others(j) \cup {x} /\ faults' = faults + 1
    PROVE  Crowd(j)'
<1>1. Others(j) \subseteq Archive
  BY DEF Others, Present
<1>2. Cardinality(Others(j)) \in Nat /\ Cardinality(Others(j)) <= AtMost(Keep) + faults
  BY <1>1, CountTypes DEF Crowd
<1>3. faults \in Nat /\ AtMost(Keep) \in Nat
  BY FaultCounts
<1>4. CASE Others(j)' \subseteq Others(j) /\ faults' \in {faults, faults + 1}
  <2>1. Cardinality(Others(j)') \in Nat /\ Cardinality(Others(j)') <= Cardinality(Others(j))
    BY <1>1, <1>4, CountTypes
  <2>2. Cardinality(Others(j)') <= AtMost(Keep) + faults'
    BY <1>2, <1>3, <1>4, <2>1
  <2>3. QED
    BY <2>2 DEF Crowd
<1>5. CASE \E x : Others(j)' \subseteq Others(j) \cup {x} /\ faults' = faults + 1
  <2>1. Cardinality(Others(j)') \in Nat /\ Cardinality(Others(j)') <= Cardinality(Others(j)) + 1
    BY <1>1, <1>5, CountTypes
  <2>2. Cardinality(Others(j)') <= AtMost(Keep) + faults'
    BY <1>2, <1>3, <1>5, <2>1
  <2>3. QED
    BY <2>2 DEF Crowd
<1>6. QED
  BY <1>4, <1>5

\* A step that leaves the directory, and the place of the own archive in it,
\* as they are.
LEMMA OthersSame ==
    ASSUME NEW j \in Job, file' = file, Making(j) = Making(j)', UNCHANGED <<pool, ts>>
    PROVE  Others(j)' = Others(j)
  BY DEF Others, Present, Own

\* Up to the first byte, and with the own archive in it, nothing is added.
LEMMA CrowdBefore ==
    ASSUME TypeOK, TypeOK', IsFiniteSet(Pool), NEW j \in Job, Crowd(j),
           Start(j) \/ ListStale(j) \/ DestroyStale(j) \/ CreateSnapshot(j)
    PROVE  Crowd(j)'
<1>1. /\ file' = file /\ ~Making(j) /\ pc'[j] \in {"list", "clean", "open", "done"}
      /\ pc'[j] # "done" => ~failed'[j]
      /\ faults' = faults \/ Fault(j)
  <2>1. CASE Start(j)
    BY <2>1 DEF Start, Making, Ended, TypeOK
  <2>2. CASE ListStale(j)
    BY <2>2 DEF ListStale, Making, Goto, NoFault, TypeOK, Crowd
  <2>3. CASE DestroyStale(j)
    BY <2>3 DEF DestroyStale, Making, NoFault, TypeOK, Crowd
  <2>4. CASE CreateSnapshot(j)
    BY <2>4 DEF CreateSnapshot, Making, Goto, Raise, NoFault, TypeOK, Crowd
  <2>5. QED
    BY <2>1, <2>2, <2>3, <2>4
<1>2. ~Making(j)'
  BY <1>1 DEF Making
<1>3. Others(j)' = Others(j)
  BY <1>1, <1>2 DEF Others, Present
<1>4. faults' \in {faults, faults + 1}
  BY <1>1, FaultCounts
<1>5. QED
  BY <1>1, <1>3, <1>4, CrowdCarried

\* While the archive is made, it is the only one added; without a fault the
\* call goes on to the retention.
LEMMA CrowdMaking ==
    ASSUME TypeOK, TypeOK', IsFiniteSet(Pool), NEW j \in Job, Crowd(j),
           OpenArchive(j) \/ BeginSend(j) \/ EndStream(j) \/ StatArchive(j) \/ DestroyOwn(j)
    PROVE  Crowd(j)'
<1> DEFINE S == ServerOf[j]
<1>1. UNCHANGED <<pool, ts>> /\ pc \in [Job -> Label] /\ failed \in [Job -> BOOLEAN]
  BY DEF TypeOK, OpenArchive, BeginSend, EndStream, StatArchive, DestroyOwn
<1>2. Own(j)' = Own(j)
  BY <1>1 DEF Own
<1>3. CASE OpenArchive(j)
  <2>1. ~Making(j) /\ ~failed[j]
    BY <1>3 DEF OpenArchive, Making, Crowd
  <2>2. Write(j, "partial") \/ UNCHANGED file
    BY <1>3 DEF OpenArchive
  <2>3. Present(S)' \ {Own(j)} = Present(S) \ {Own(j)}
    BY <1>1, <2>2, OwnWritten DEF Content
  <2>4. CASE NoFault /\ pc'[j] = "send" /\ ~failed'[j]
    <3>1. Making(j)'
      BY <2>4 DEF Making
    <3>2. Others(j)' \subseteq Others(j)
      BY <1>2, <2>1, <2>3, <3>1 DEF Others
    <3>3. QED
      BY <2>4, <3>2, FaultCounts, CrowdCarried
  <2>5. CASE Fault(j) /\ pc'[j] = "destroy" /\ failed'[j]
    <3>1. ~Making(j)'
      BY <2>5 DEF Making
    <3>2. Others(j)' \subseteq Others(j) \cup {Own(j)}
      BY <2>1, <2>3, <3>1 DEF Others
    <3>3. QED
      BY <2>5, <3>2, FaultCounts, CrowdCarried
  <2>6. QED
    BY <1>1, <1>3, <2>1, <2>4, <2>5 DEF OpenArchive, Goto, Raise
<1>4. CASE BeginSend(j)
  <2>1. pc[j] = "send" /\ ~failed[j] /\ Making(j)
    BY <1>4 DEF BeginSend, Crowd, Making
  <2>2. CASE /\ pc'[j] \in {"stream", "stat"} /\ ~failed'[j]
             /\ file' = file /\ NoFault
    <3>1. Making(j)'
      BY <2>2 DEF Making
    <3>2. Others(j)' = Others(j)
      BY <1>1, <2>1, <2>2, <3>1, OthersSame
    <3>3. QED
      BY <2>2, <3>2, FaultCounts, CrowdCarried
  <2>3. CASE pc'[j] = "destroy" /\ failed'[j] /\ Write(j, "none") /\ Fault(j)
    <3>1. ~Making(j)'
      BY <2>3 DEF Making
    <3>2. /\ Present(S)' \ {Own(j)} = Present(S) \ {Own(j)}
          /\ Own(j) \notin Present(S)'
      BY <1>1, <2>3, OwnWritten DEF Content
    <3>3. Others(j)' \subseteq Others(j)
      BY <2>1, <3>1, <3>2 DEF Others
    <3>4. QED
      BY <2>3, <3>3, FaultCounts, CrowdCarried
  <2>4. QED
    BY <1>1, <1>4, <2>1, <2>2, <2>3 DEF BeginSend, Goto, Raise
<1>5. CASE EndStream(j)
  <2>1. Making(j) /\ ~failed[j] /\ pc[j] = "stream"
    BY <1>5 DEF EndStream, Making, Crowd
  <2>2. \/ NoFault \/ Fault(j)
    BY <1>5 DEF EndStream
  <2>3. faults' \in {faults, faults + 1}
    BY <2>2, FaultCounts
  <2>4. CASE pc'[j] = "stat" /\ ~failed'[j] /\ (Write(j, "whole") \/ UNCHANGED file)
    <3>1. Making(j)'
      BY <2>4 DEF Making
    <3>2. Present(S)' \ {Own(j)} = Present(S) \ {Own(j)}
      BY <1>1, <2>4, OwnWritten DEF Content
    <3>3. Others(j)' \subseteq Others(j)
      BY <1>2, <2>1, <3>1, <3>2 DEF Others
    <3>4. QED
      BY <2>3, <2>4, <3>3, CrowdCarried
  <2>5. CASE pc'[j] = "destroy" /\ failed'[j] /\ Write(j, "none")
    <3>1. ~Making(j)'
      BY <2>5 DEF Making
    <3>2. /\ Present(S)' \ {Own(j)} = Present(S) \ {Own(j)}
          /\ Own(j) \notin Present(S)'
      BY <1>1, <2>5, OwnWritten DEF Content
    <3>3. Others(j)' \subseteq Others(j)
      BY <2>1, <3>1, <3>2 DEF Others
    <3>4. QED
      BY <2>3, <2>5, <3>3, CrowdCarried
  <2>6. QED
    BY <1>1, <1>5, <2>1, <2>4, <2>5 DEF EndStream, Goto, Raise
<1>6. CASE StatArchive(j)
  <2>1. Making(j) /\ ~failed[j] /\ file' = file /\ NoFault
    BY <1>6 DEF StatArchive, Making, Crowd
  <2>2. Present(S)' = Present(S)
    BY <2>1 DEF Present
  <2>3. CASE OwnFile(j) = "none"
    <3>1. pc'[j] = "destroy" /\ failed'[j]
      BY <1>1, <1>6, <2>3 DEF StatArchive, Raise
    <3>2. ~Making(j)'
      BY <3>1 DEF Making
    <3>3. Own(j) \notin Present(S)
      BY <2>3 DEF Present, OwnFile
    <3>4. Others(j)' \subseteq Others(j)
      BY <2>1, <2>2, <3>2, <3>3 DEF Others
    <3>5. QED
      BY <2>1, <3>1, <3>4, FaultCounts, CrowdCarried
  <2>4. CASE OwnFile(j) # "none"
    <3>1. pc'[j] = "destroy" /\ ~failed'[j]
      BY <1>1, <1>6, <2>1, <2>4 DEF StatArchive, Goto
    <3>2. Making(j)'
      BY <3>1 DEF Making
    <3>3. Others(j)' = Others(j)
      BY <1>1, <2>1, <3>2, OthersSame
    <3>4. QED
      BY <2>1, <3>1, <3>3, FaultCounts, CrowdCarried
  <2>5. QED
    BY <2>3, <2>4
<1>7. CASE DestroyOwn(j)
  <2>1. /\ pc[j] = "destroy" /\ file' = file
        /\ faults' \in {faults, faults + 1}
        /\ pc'[j] = IF failed[j] THEN "done" ELSE "retain"
    BY <1>1, <1>7, FaultCounts DEF DestroyOwn, Goto
  <2>2. Making(j)' = Making(j)
    BY <1>1, <2>1 DEF Making
  <2>3. Others(j)' = Others(j)
    BY <1>1, <2>1, <2>2, OthersSame
  <2>4. QED
    BY <2>1, <2>3, CrowdCarried
<1>8. QED
  BY <1>3, <1>4, <1>5, <1>6, <1>7

\* The retention of the call brings the count down, or a fault stops it.
LEMMA CrowdRetention ==
    ASSUME TypeOK, TypeOK', IsFiniteSet(Pool), NEW j \in Job, Crowd(j), Floor(j),
           ListArchives(j) \/ Prune(j) \/ Return(j)
    PROVE  Crowd(j)'
<1> DEFINE S == ServerOf[j]
<1>1. /\ UNCHANGED <<pool, ts>> /\ pc \in [Job -> Label] /\ victims \in [Job -> SUBSET Archive]
      /\ file \in [Server -> [Archive -> Content]] /\ S \in Server /\ Making(j)
      /\ faults \in Nat /\ AtMost(Keep) \in Nat
  BY OwnTypes, FaultCounts DEF TypeOK, ListArchives, Prune, Return, Making
<1>2. Own(j)' = Own(j)
  BY <1>1 DEF Own
<1>3. CASE ListArchives(j)
  <2>1. /\ pc'[j] = "prune" /\ file' = file /\ faults' = faults
        /\ victims'[j] = ToDelete(Present(S), Keep)
    BY <1>1, <1>3 DEF ListArchives, Goto, NoFault
  <2>2. Making(j)' /\ Present(S)' = Present(S)
    BY <2>1 DEF Making, Present
  <2>3. Others(j)' = Others(j)
    BY <1>1, <2>1, <2>2, OthersSame
  <2>4. Cardinality(Present(S) \ ToDelete(Present(S), Keep)) <= AtMost(Keep)
    <3>1. IsFiniteSet(Present(S)) /\ Present(S) \subseteq Name(Nat, Nat)
      BY ArchivesFinite, FS_Subset DEF Present
    <3>2. QED
      BY <3>1, KeepsAtMost, NumberAssumption
  <2>5. QED
    BY <2>1, <2>2, <2>3, <2>4 DEF Crowd
<1>4. CASE Prune(j)
  <2>1. PICK a \in victims[j] :
           \/ /\ file' = [file EXCEPT ![S][a] = "none"] /\ pc' = pc
              /\ victims' = [victims EXCEPT ![j] = @ \ {a}]
              /\ NoFault
           \/ /\ file[S][a] = "none" /\ pc'[j] = "done"
           \/ /\ Fault(j) /\ pc'[j] = "done" /\ file' = file
    BY <1>1, <1>4 DEF Prune, Raise
  <2>2. CASE /\ file' = [file EXCEPT ![S][a] = "none"] /\ pc' = pc
             /\ victims' = [victims EXCEPT ![j] = @ \ {a}]
             /\ NoFault
    <3>1. /\ Present(S)' = Present(S) \ {a} /\ pc'[j] = "prune" /\ pc[j] = "prune"
          /\ victims'[j] = victims[j] \ {a} /\ faults' = faults
      BY <1>1, <1>4, <2>1, <2>2 DEF Present, Prune, NoFault
    <3>2. Making(j)'
      BY <3>1 DEF Making
    <3>3. Others(j)' \subseteq Others(j)
      BY <1>1, <1>2, <3>1, <3>2 DEF Others
    <3>4. Cardinality(Others(j)') <= AtMost(Keep) + faults
      <4>1. Others(j) \subseteq Archive
        BY DEF Others, Present
      <4>2. /\ Cardinality(Others(j)') \in Nat /\ Cardinality(Others(j)) \in Nat
            /\ Cardinality(Others(j)') <= Cardinality(Others(j))
        BY <3>3, <4>1, CountTypes
      <4>3. QED
        BY <1>1, <4>2 DEF Crowd
    <3>5. Present(S)' \ victims'[j] = Present(S) \ victims[j]
      BY <2>1, <3>1
    <3>6. QED
      BY <3>1, <3>4, <3>5 DEF Crowd
  <2>3. ~(file[S][a] = "none")
    BY <1>1, <1>4, <2>1 DEF Floor, Present, Prune
  <2>4. CASE Fault(j) /\ pc'[j] = "done" /\ file' = file
    <3>1. ~Making(j)' /\ Present(S)' = Present(S)
      BY <2>4 DEF Making, Present
    <3>2. Others(j)' \subseteq Others(j) \cup {Own(j)}
      BY <1>1, <3>1 DEF Others
    <3>3. QED
      BY <2>4, <3>2, FaultCounts, CrowdCarried
  <2>5. QED
    BY <2>1, <2>2, <2>3, <2>4
<1>5. CASE Return(j)
  <2>1. /\ pc[j] = "prune" /\ pc'[j] = "done" /\ file' = file /\ faults' = faults
        /\ victims[j] = {}
    BY <1>1, <1>5 DEF Return, Goto, NoFault
  <2>2. Others(j)' = Present(S) \ victims[j]
    BY <2>1 DEF Others, Making, Present
  <2>3. Cardinality(Present(S) \ victims[j]) <= AtMost(Keep)
    BY <2>1 DEF Crowd
  <2>4. Cardinality(Present(S) \ victims[j]) \in Nat
    BY CountTypes DEF Present
  <2>5. Cardinality(Others(j)') <= AtMost(Keep) + faults'
    BY <1>1, <2>1, <2>2, <2>3, <2>4
  <2>6. QED
    BY <2>1, <2>5 DEF Crowd
<1>6. QED
  BY <1>3, <1>4, <1>5

\* Steps of other jobs, kills and the clock.
LEMMA CrowdAside ==
    ASSUME TypeOK, TypeOK', IsFiniteSet(Pool), OneCallPerHost, NEW j \in Job, Crowd(j),
           \/ \E k \in Job : k # j /\ (Start(k) \/ Step(k))
           \/ \E r \in Run : Crash(r)
           \/ Tick \/ UNCHANGED vars
    PROVE  Crowd(j)'
<1>1. faults \in Nat /\ AtMost(Keep) \in Nat /\ Cardinality(Others(j)) \in Nat
  BY FaultCounts, CountTypes DEF Others, Present
<1>2. ASSUME pc'[j] = pc[j], failed'[j] = failed[j], pool'[j] = pool[j], ts'[j] = ts[j],
             victims'[j] = victims[j], file'[ServerOf[j]] = file[ServerOf[j]],
             faults' \in {faults, faults + 1}
      PROVE  Crowd(j)'
  <2>1. Others(j)' = Others(j) /\ Present(ServerOf[j])' = Present(ServerOf[j])
    BY <1>2 DEF Others, Making, Present, Own
  <2>2. Cardinality(Others(j)') <= AtMost(Keep) + faults'
    BY <1>1, <1>2, <2>1 DEF Crowd
  <2>3. QED
    BY <1>2, <2>1, <2>2 DEF Crowd
<1>3. ASSUME NEW k \in Job, k # j, Start(k) \/ Step(k) PROVE Crowd(j)'
  <2>1. UNCHANGED View(j)
    BY <1>3, Frame
  <2>2. faults' = faults \/ Fault(k)
    BY <1>3 DEF Start, Step, ListStale, DestroyStale, CreateSnapshot, OpenArchive, BeginSend,
       EndStream, StatArchive, DestroyOwn, ListArchives, Prune, Return, NoFault
  <2>3. faults' \in {faults, faults + 1}
    BY <1>3, <2>2, FaultCounts
  <2>4. QED
    BY <1>2, <2>1, <2>3 DEF View
<1>4. ASSUME NEW r \in Run, Crash(r) PROVE Crowd(j)'
  <2>1. /\ UNCHANGED <<file, pool, ts, victims, failed>> /\ faults' = faults + 1
        /\ pc'[j] = pc[j] \/ pc'[j] = "crashed"
    BY <1>4 DEF Crash
  <2>2. CASE pc'[j] = pc[j]
    BY <1>2, <2>1, <2>2
  <2>3. CASE pc'[j] = "crashed"
    <3>1. ~Making(j)' /\ Present(ServerOf[j])' = Present(ServerOf[j])
      BY <2>1, <2>3 DEF Making, Present
    <3>2. Others(j)' \subseteq Others(j) \cup {Own(j)}
      BY <3>1 DEF Others
    <3>3. QED
      BY <2>1, <2>3, <3>2, CrowdCarried
  <2>4. QED
    BY <2>1, <2>2, <2>3
<1>5. CASE Tick \/ UNCHANGED vars
  BY <1>2, <1>5 DEF Tick, vars
<1>6. QED
  BY <1>3, <1>4, <1>5

\* The archives of a server never pile up: at any moment there are at most as
\* many as are to be kept, one more for the call at work and one more for each
\* fault so far.
ArchivesNeverPileUp ==
    \A j \in Job : Cardinality(Present(ServerOf[j])) <= AtMost(Keep) + faults + 1

\* The bound holds as long as no two jobs work on one machine, for any number
\* of pools and servers, any count to keep and wherever the faults strike.
THEOREM ArchivesBounded ==
    ASSUME OneCallPerHost, IsFiniteSet(Pool) PROVE Spec => []ArchivesNeverPileUp
<1> DEFINE Crowds == \A j \in Job : Crowd(j) /\ Floor(j)
<1>1. Init => Crowds
  <2> SUFFICES ASSUME Init, NEW j \in Job PROVE Crowd(j) /\ Floor(j)
    OBVIOUS
  <2>1. pc[j] = "idle" /\ faults = 0 /\ file[ServerOf[j]] = [a \in Archive |-> "none"]
    BY JobAssumption DEF Init
  <2>2. Others(j) = {}
    BY <2>1 DEF Others, Making, Present
  <2>3. Cardinality(Others(j)) <= AtMost(Keep) + faults
    BY <2>1, <2>2, FS_EmptySet, NumberAssumption DEF AtMost
  <2>4. QED
    BY <2>1, <2>3 DEF Crowd, Floor
<1>2. TypeOK /\ TypeOK' /\ Crowds /\ [Next]_vars => Crowds'
  <2> SUFFICES ASSUME TypeOK, TypeOK', Crowds, [Next]_vars, NEW j \in Job
               PROVE  Crowd(j)' /\ Floor(j)'
    OBVIOUS
  <2>1. CASE Start(j) \/ Step(j)
    BY <2>1, FloorStep, CrowdBefore, CrowdMaking, CrowdRetention DEF Step
  <2>2. ASSUME NEW k \in Job, k # j, Start(k) \/ Step(k) PROVE Crowd(j)' /\ Floor(j)'
    BY <2>2, Frame, FloorView, CrowdAside
  <2>3. ASSUME NEW r \in Run, Crash(r) PROVE Crowd(j)' /\ Floor(j)'
    <3>1. Floor(j)'
      BY <2>3 DEF Crash, Floor, Present, TypeOK
    <3>2. QED
      BY <2>3, <3>1, CrowdAside
  <2>4. CASE Tick \/ UNCHANGED vars
    <3>1. Floor(j)'
      BY <2>4 DEF Tick, vars, Floor, Present
    <3>2. QED
      BY <2>4, <3>1, CrowdAside
  <2>5. QED
    BY <2>1, <2>2, <2>3, <2>4 DEF Next
<1>3. TypeOK /\ Crowds => ArchivesNeverPileUp
  <2> SUFFICES ASSUME TypeOK, Crowds, NEW j \in Job
               PROVE  Cardinality(Present(ServerOf[j])) <= AtMost(Keep) + faults + 1
    BY DEF ArchivesNeverPileUp
  <2>1. Others(j) \subseteq Archive /\ Present(ServerOf[j]) \subseteq Others(j) \cup {Own(j)}
    BY DEF Others, Present
  <2>2. /\ Cardinality(Present(ServerOf[j])) \in Nat /\ Cardinality(Others(j)) \in Nat
        /\ Cardinality(Present(ServerOf[j])) <= Cardinality(Others(j)) + 1
    BY <2>1, CountTypes
  <2>3. faults \in Nat /\ AtMost(Keep) \in Nat
    BY FaultCounts
  <2>4. Cardinality(Others(j)) <= AtMost(Keep) + faults
    BY DEF Crowd
  <2>5. QED
    BY <2>2, <2>3, <2>4
<1>4. QED
  BY <1>1, <1>2, <1>3, TypeCorrect, PTL DEF Spec

-----------------------------------------------------------------------------
(* Every call comes to an end.                                             *)

\* How far a call is from its end: the commands ahead of it, then the rounds
\* of the loop it is in.
CommandsLeft ==
    [l \in Label |->
        CASE l = "list"   -> 9 [] l = "clean" -> 8 [] l = "open"    -> 7
          [] l = "send"   -> 6 [] l = "stream" -> 5 [] l = "stat"   -> 4
          [] l = "destroy" -> 3 [] l = "retain" -> 2 [] l = "prune" -> 1
          [] l \in Ended  -> 0]
RoundsLeft(j) == Cardinality(todo[j]) + Cardinality(victims[j])

\* A step brings a call closer to its end.
Closer(j) ==
    \/ CommandsLeft[pc'[j]] < CommandsLeft[pc[j]]
    \/ pc'[j] = pc[j] /\ RoundsLeft(j)' < RoundsLeft(j)

\* Every step of a call brings it closer to its end, and nothing takes it
\* back, whatever other runs do to its snapshot, its files and the snapshots
\* on its list: neither the cleanup of stale snapshots nor the retention can
\* go on for ever.
StepsBringCloser ==
    [][\A j \in Job :
          /\ Step(j) => Closer(j)
          /\ pc[j] \notin Ended => \/ Closer(j)
                                   \/ UNCHANGED <<pc[j], todo[j], victims[j]>>]_vars

\* Both loops find their next round as long as there is one: the lists are
\* walked in an order that has a first element.
LoopsFindTheNext ==
    \A j \in Job : /\ todo[j] # {} => \E sn \in todo[j] : IsNext(sn, todo[j])
                   /\ victims[j] # {} => \E a \in victims[j] : IsFirst(a, victims[j])

\* The snapshots of a machine are finitely many.
LEMMA SnapsFinite ==
    ASSUME IsFiniteSet(Pool) PROVE IsFiniteSet(Snap)
<1> DEFINE Triples == Pool \X ((0 .. MaxDepth) \X Time)
           named == [x \in Triples |-> [pool |-> x[1], depth |-> x[2][1], ts |-> x[2][2]]]
<1>1. IsFiniteSet(Triples)
  <2>1. IsFiniteSet(Time) /\ IsFiniteSet(0 .. MaxDepth)
    BY FS_Interval, NumberAssumption DEF Time
  <2>2. IsFiniteSet((0 .. MaxDepth) \X Time)
    BY <2>1, FS_Product
  <2>3. QED
    BY <2>2, FS_Product
<1>2. named \in Surjection(Triples, Snap)
  <2>1. named \in [Triples -> Snap]
    BY DEF Snap
  <2>2. ASSUME NEW sn \in Snap
        PROVE  /\ <<sn.pool, <<sn.depth, sn.ts>>>> \in Triples
               /\ named[<<sn.pool, <<sn.depth, sn.ts>>>>] = sn
    BY DEF Snap
  <2>3. QED
    BY <2>1, <2>2 DEF Surjection
<1> HIDE DEF Triples, named
<1>3. QED
  BY <1>1, <1>2, FS_Surjection

\* The rounds left are a number, before and after a step.
LEMMA RoundsTypes ==
    ASSUME TypeOK, TypeOK', IsFiniteSet(Pool), NEW j \in Job
    PROVE  /\ IsFiniteSet(todo[j]) /\ Cardinality(todo[j]) \in Nat
           /\ IsFiniteSet(victims[j]) /\ Cardinality(victims[j]) \in Nat
           /\ Cardinality(todo'[j]) \in Nat /\ Cardinality(victims'[j]) \in Nat
<1>1. /\ todo[j] \in SUBSET Snap /\ todo'[j] \in SUBSET Snap
      /\ victims[j] \in SUBSET Archive /\ victims'[j] \in SUBSET Archive
  BY DEF TypeOK
<1>2. \A S \in SUBSET Snap : IsFiniteSet(S) /\ Cardinality(S) \in Nat
  BY SnapsFinite, FS_Subset, FS_CardinalityType
<1>3. \A S \in SUBSET Archive : IsFiniteSet(S) /\ Cardinality(S) \in Nat
  BY ArchivesFinite, FS_Subset, FS_CardinalityType
<1>4. QED
  BY <1>1, <1>2, <1>3

\* One round of the cleanup loop takes one snapshot, or all, from the list.
LEMMA CleanupCloser ==
    ASSUME TypeOK, TypeOK', IsFiniteSet(Pool), NEW j \in Job, DestroyStale(j)
    PROVE  Closer(j)
<1>1. PICK sn \in todo[j] : todo'[j] = todo[j] \ {sn} \/ todo'[j] = {}
  BY DEF DestroyStale, TypeOK
<1>2. pc'[j] = pc[j] /\ victims'[j] = victims[j]
  BY DEF DestroyStale
<1>3. /\ Cardinality(todo[j] \ {sn}) = Cardinality(todo[j]) - 1
      /\ Cardinality(todo[j]) # 0 /\ Cardinality({}) = 0
  BY <1>1, RoundsTypes, FS_RemoveElement, FS_EmptySet
<1>4. Cardinality(todo'[j]) < Cardinality(todo[j])
  <2>1. Cardinality(todo[j]) \in Nat
    BY RoundsTypes
  <2>2. CASE todo'[j] = todo[j] \ {sn}
    <3>1. Cardinality(todo'[j]) = Cardinality(todo[j]) - 1
      BY <1>3, <2>2, Zenon
    <3>2. QED
      BY <2>1, <3>1
  <2>3. CASE todo'[j] = {}
    <3>1. Cardinality(todo'[j]) = 0
      BY <1>3, <2>3, Zenon
    <3>2. QED
      BY <1>3, <2>1, <3>1
  <2>4. QED
    BY <1>1, <2>2, <2>3
<1>5. RoundsLeft(j)' < RoundsLeft(j)
  BY <1>2, <1>4, RoundsTypes DEF RoundsLeft
<1>6. QED
  BY <1>2, <1>5 DEF Closer

\* One round of the deletion loop takes one file from the list, or leaves.
LEMMA PruneCloser ==
    ASSUME TypeOK, TypeOK', IsFiniteSet(Pool), NEW j \in Job, Prune(j)
    PROVE  Closer(j)
<1>1. PICK a \in victims[j] :
         \/ pc'[j] = pc[j] /\ victims'[j] = victims[j] \ {a}
         \/ pc'[j] = "done"
  BY DEF Prune, Raise, TypeOK
<1>2. pc[j] = "prune" /\ todo'[j] = todo[j]
  BY DEF Prune
<1>3. CASE pc'[j] = pc[j] /\ victims'[j] = victims[j] \ {a}
  <2>1. Cardinality(victims[j] \ {a}) = Cardinality(victims[j]) - 1
    BY <1>1, RoundsTypes, FS_RemoveElement
  <2>2. RoundsLeft(j)' < RoundsLeft(j)
    BY <1>2, <1>3, <2>1, RoundsTypes DEF RoundsLeft
  <2>3. QED
    BY <1>3, <2>2 DEF Closer
<1>4. CASE pc'[j] = "done"
  BY <1>2, <1>4 DEF Closer, CommandsLeft, Label, Ended, Holding
<1>5. QED
  BY <1>1, <1>3, <1>4

\* Every command brings the call closer to its end.
LEMMA CallCloser ==
    ASSUME TypeOK, TypeOK', IsFiniteSet(Pool), NEW j \in Job, Step(j)
    PROVE  Closer(j)
<1> USE DEF Closer, CommandsLeft, Label, Ended, Holding, Goto, Raise, TypeOK
<1>1. CASE ListStale(j)
  BY <1>1 DEF ListStale
<1>2. CASE DestroyStale(j)
  BY <1>2, CleanupCloser
<1>3. CASE CreateSnapshot(j)
  BY <1>3 DEF CreateSnapshot
<1>4. CASE OpenArchive(j)
  BY <1>4 DEF OpenArchive
<1>5. CASE BeginSend(j)
  BY <1>5 DEF BeginSend
<1>6. CASE EndStream(j)
  BY <1>6 DEF EndStream
<1>7. CASE StatArchive(j)
  BY <1>7 DEF StatArchive
<1>8. CASE DestroyOwn(j)
  BY <1>8 DEF DestroyOwn
<1>9. CASE ListArchives(j)
  BY <1>9 DEF ListArchives
<1>10. CASE Prune(j)
  BY <1>10, PruneCloser
<1>11. CASE Return(j)
  BY <1>11 DEF Return
<1>12. QED
  BY <1>1, <1>2, <1>3, <1>4, <1>5, <1>6, <1>7, <1>8, <1>9, <1>10, <1>11 DEF Step

\* A step of one job leaves the progress of another as it is, shared machine
\* or not.
LEMMA OthersStay ==
    ASSUME TypeOK, NEW j \in Job, NEW k \in Job, j # k, Start(k) \/ Step(k)
    PROVE  pc'[j] = pc[j] /\ todo'[j] = todo[j] /\ victims'[j] = victims[j]
<1> USE DEF TypeOK, Goto, Raise
<1>1. CASE Start(k)
  BY <1>1 DEF Start
<1>2. CASE ListStale(k) \/ DestroyStale(k) \/ CreateSnapshot(k)
  BY <1>2 DEF ListStale, DestroyStale, CreateSnapshot
<1>3. CASE OpenArchive(k) \/ BeginSend(k) \/ EndStream(k) \/ StatArchive(k) \/ DestroyOwn(k)
  BY <1>3 DEF OpenArchive, BeginSend, EndStream, StatArchive, DestroyOwn
<1>4. CASE ListArchives(k) \/ Prune(k) \/ Return(k)
  BY <1>4 DEF ListArchives, Prune, Return
<1>5. QED
  BY <1>1, <1>2, <1>3, <1>4 DEF Step

\* A call has a bounded number of steps, for any number of overlapping runs
\* and any sharing of machines and directories between them.
THEOREM CallsComeToAnEnd ==
    ASSUME IsFiniteSet(Pool) PROVE Spec => StepsBringCloser
<1> DEFINE Goes(j) == /\ Step(j) => Closer(j)
                      /\ pc[j] \notin Ended => \/ Closer(j)
                                               \/ UNCHANGED <<pc[j], todo[j], victims[j]>>
<1>1. TypeOK /\ TypeOK' /\ [Next]_vars => [\A j \in Job : Goes(j)]_vars
  <2> SUFFICES ASSUME TypeOK, TypeOK', Next, NEW j \in Job
               PROVE  Goes(j)
    OBVIOUS
  <2>1. Step(j) => Closer(j)
    BY CallCloser
  <2>2. ASSUME pc[j] \notin Ended, ~Step(j)
        PROVE  Closer(j) \/ UNCHANGED <<pc[j], todo[j], victims[j]>>
    <3>1. ~Start(j)
      BY <2>2 DEF Start
    <3>2. ASSUME NEW k \in Job, Start(k) \/ Step(k)
          PROVE  UNCHANGED <<pc[j], todo[j], victims[j]>>
      BY <2>2, <3>1, <3>2, OthersStay
    <3>3. ASSUME NEW r \in Run, Crash(r)
          PROVE  Closer(j) \/ UNCHANGED <<pc[j], todo[j], victims[j]>>
      <4>1. /\ UNCHANGED <<todo, victims>>
            /\ pc'[j] = pc[j] \/ pc'[j] = "crashed"
        BY <3>3 DEF Crash
      <4>2. pc'[j] = "crashed" => Closer(j)
        BY <2>2 DEF Closer, CommandsLeft, Label, Ended, Holding, TypeOK
      <4>3. QED
        BY <4>1, <4>2
    <3>4. CASE Tick
      BY <3>4 DEF Tick
    <3>5. QED
      BY <3>2, <3>3, <3>4 DEF Next
  <2>3. QED
    BY <2>1, <2>2
<1>2. QED
  BY <1>1, TypeCorrect, PTL DEF Spec, StepsBringCloser

\* A list of snapshots has a first element in the order of "zfs list".
LEMMA FirstListed ==
    ASSUME NEW S, S \subseteq Snap, S # {}
    PROVE  \E sn \in S : IsNext(sn, S)
<1> DEFINE Pools     == {x.pool : x \in S}
           Depths(p) == {x.depth : x \in {y \in S : y.pool = p}}
           Dates(p, d) == {x.ts : x \in {y \in S : y.pool = p /\ y.depth = d}}
<1>1. \A x \in S : /\ x = [pool |-> x.pool, depth |-> x.depth, ts |-> x.ts]
                   /\ x.pool \in Nat /\ x.depth \in Nat /\ x.ts \in Nat
  <2>1. \A x \in Snap : /\ x = [pool |-> x.pool, depth |-> x.depth, ts |-> x.ts]
                        /\ x.pool \in Pool /\ x.depth \in 0 .. MaxDepth /\ x.ts \in Time
    BY DEF Snap
  <2>2. Pool \subseteq Nat /\ 0 .. MaxDepth \subseteq Nat /\ Time \subseteq Nat
    BY NumberAssumption DEF Time
  <2>3. QED
    BY <2>1, <2>2
<1>2. PICK p \in Pools : \A q \in Pools : p <= q
  <2>1. Pools \subseteq Nat /\ Pools # {}
    BY <1>1
  <2> HIDE DEF Pools
  <2>2. QED
    BY <2>1, LeastNumber
<1>3. PICK d \in Depths(p) : \A e \in Depths(p) : d <= e
  <2>1. Depths(p) \subseteq Nat /\ Depths(p) # {}
    BY <1>1
  <2> HIDE DEF Depths
  <2>2. QED
    BY <2>1, LeastNumber
<1>4. PICK t \in Dates(p, d) : \A u \in Dates(p, d) : t <= u
  <2>1. Dates(p, d) \subseteq Nat /\ Dates(p, d) # {}
    BY <1>1
  <2> HIDE DEF Dates
  <2>2. QED
    BY <2>1, LeastNumber
<1>5. PICK sn \in S : sn.pool = p /\ sn.depth = d /\ sn.ts = t
  OBVIOUS
<1>6. ASSUME NEW y \in S \ {sn} PROVE ListedBefore(sn, y)
  <2>1. sn.pool <= y.pool
    BY <1>2, <1>5
  <2>2. y.pool = sn.pool => sn.depth <= y.depth
    BY <1>3, <1>5
  <2>3. y.pool = sn.pool /\ y.depth = sn.depth => sn.ts <= y.ts /\ sn.ts # y.ts
    BY <1>1, <1>4, <1>5
  <2>4. QED
    BY <1>1, <2>1, <2>2, <2>3 DEF ListedBefore
<1>7. QED
  BY <1>6 DEF IsNext

\* No loop stops short of its list for want of a next element.
THEOREM LoopsGoOn == Spec => []LoopsFindTheNext
<1>1. TypeOK => LoopsFindTheNext
  <2> SUFFICES ASSUME TypeOK, NEW j \in Job
               PROVE  /\ todo[j] # {} => \E sn \in todo[j] : IsNext(sn, todo[j])
                      /\ victims[j] # {} => \E a \in victims[j] : IsFirst(a, victims[j])
    BY DEF LoopsFindTheNext
  <2>1. todo[j] \subseteq Snap /\ victims[j] \subseteq Archive
    BY DEF TypeOK
  <2>2. Archive \subseteq Name(Nat, Nat)
    <3>1. Pool \subseteq Nat /\ Time \subseteq Nat
      BY NumberAssumption DEF Time
    <3>2. QED
      BY <3>1 DEF Archive, Name
  <2>3. QED
    BY <2>1, <2>2, FirstListed, FirstArchive
<1>2. QED
  BY <1>1, TypeCorrect, PTL
=============================================================================
