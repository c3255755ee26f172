----------------------- MODULE MatrixSupervisorProofs -----------------------
(***************************************************************************)
(* Theorems of MatrixSupervisor.  That the monitor looks for matrix        *)
(* processes before it looks for workers gives the inductive invariant     *)
(* OneMatrix: at most one matrix, with its children, is there at any time. *)
(* On it rest the next three: no shard has two workers, no finalizer       *)
(* loses what another has written, and no member gets one attempt too many *)
(* although the limit is checked long before the attempt is recorded.      *)
(* A second invariant, AheadInv, follows the files a full shard waits for: *)
(* whatever is ahead of it in its batch has been completed before it runs. *)
(***************************************************************************)
EXTENDS MatrixSupervisor, FiniteSetTheorems, TLAPS

(* At most one matrix name is in use, by a matrix or by what it left.      *)
OneMatrix == \A m, n \in Matrices : ~Unused(m) /\ ~Unused(n) => m = n

(* What the monitor has not found is not there when it acts on it: only    *)
(* the monitor starts matrices, and only a matrix starts children.         *)
NothingMissed ==
    /\ monitor.pc = "look" /\ ~monitor.matrix => \A m \in Matrices : ~MatrixAlive(m)
    /\ monitor.pc = "act" /\ ~monitor.matrix /\ ~monitor.worker
         => \A m \in Matrices : Unused(m)

(* A worker that has called still has the attempt it found free.           *)
AttemptHeld ==
    \A m \in Matrices, s \in Shards :
        worker[m][s] \in {"call", "answer"} => receipts[s] < MaxAttempts

(* A finalizer that is to write run-state.json has read what is in it.     *)
ViewCurrent ==
    \A m \in Matrices :
        finalizer[m].pc \in {"tail", "audit", "state"}
            => completed \subseteq finalizer[m].view

IInv == TypeOK /\ OneMatrix /\ NothingMissed /\ AttemptHeld /\ ViewCurrent

-----------------------------------------------------------------------------
USE MatrixSupervisorAssumption

(* Initially the invariant holds.                                          *)
LEMMA InitIInv == Init => IInv
<1> SUFFICES ASSUME Init PROVE IInv
  OBVIOUS
<1>1. Plan[1] \in Shards
  OBVIOUS
<1>2. TypeOK
  BY <1>1 DEF Init, TypeOK, MonitorType, MatrixType, FinalizerType, Fresh, Off,
              Idle, Index, Working, Finalizing, Exits
<1>3. OneMatrix /\ NothingMissed /\ AttemptHeld /\ ViewCurrent
  BY DEF Init, OneMatrix, NothingMissed, AttemptHeld, ViewCurrent, Unused,
         MatrixAlive, FinalizerAlive, Alive, Fresh, Off, Idle, Working, Finalizing
<1> QED
  BY <1>2, <1>3 DEF IInv
-----------------------------------------------------------------------------
(* What a step does to the process table.                                  *)

(* Nothing comes into being under a name that is not in use, and no matrix *)
(* where there is none, unless the monitor starts one.                     *)
NoneAppears ==
    \A m \in Matrices :
        /\ Unused(m) => Unused(m)'
        /\ ~MatrixAlive(m) => ~MatrixAlive(m)'

LEMMA MatrixAppears ==
    ASSUME TypeOK, NEW m \in Matrices, MatrixNext(m) PROVE NoneAppears
<1> USE DEF TypeOK, MatrixType, FinalizerType, NoneAppears, Unused, MatrixAlive,
            FinalizerAlive, Alive, MatrixStep, Off, Idle, NextLevel, Working,
            Finalizing
<1>1. CASE OpenBatch(m) \/ SkipLevel(m) \/ RejectStage(m) \/ StartStage(m)
  BY <1>1 DEF OpenBatch, SkipLevel, RejectStage, StartStage
<1>2. CASE StartWorker(m) \/ CollectStage(m)
  BY <1>2 DEF StartWorker, CollectStage
<1>3. CASE StartFinalizer(m) \/ CollectFinalizer(m)
  BY <1>3 DEF StartFinalizer, CollectFinalizer
<1>4. CASE CloseStage(m)
  BY <1>4 DEF CloseStage, AfterStage
<1> QED
  BY <1>1, <1>2, <1>3, <1>4 DEF MatrixNext

LEMMA WorkerAppears ==
    ASSUME TypeOK, NEW m \in Matrices, NEW s \in Shards,
           WorkerNext(m, s) \/ WorkerCrashes(m, s)
    PROVE  NoneAppears
<1>1. /\ UNCHANGED <<matrix, finalizer>> /\ Alive(m, s)
      /\ \E pc : worker' = [worker EXCEPT ![m][s] = pc]
  BY DEF WorkerNext, WorkerStarts, WorkerStops, WorkerReserves, WorkerFindsOrphan,
         WorkerFails, WorkerSettles, WorkerSaves, WorkerSummarises, WorkerCrashes,
         WorkerStep, Alive, Working
<1> QED
  BY <1>1 DEF TypeOK, NoneAppears, Unused, MatrixAlive, FinalizerAlive, Alive

LEMMA FinalizerAppears ==
    ASSUME TypeOK, NEW m \in Matrices, FinalizerNext(m) \/ FinalizerCrashes(m)
    PROVE  NoneAppears
<1>1. /\ UNCHANGED <<matrix, worker>> /\ FinalizerAlive(m)
      /\ \E f : finalizer' = [finalizer EXCEPT ![m] = f]
  BY DEF FinalizerNext, FinalizerLoads, FinalizerRefreshes, FinalizerAudits,
         FinalizerCommits, FinalizerCrashes, FinalizerStep, FinalizerAlive, Finalizing
<1> QED
  BY <1>1 DEF TypeOK, NoneAppears, Unused, MatrixAlive, FinalizerAlive, Alive

LEMMA MonitorAppears ==
    ASSUME TypeOK,
           \/ MonitorScans \/ MonitorExits \/ MonitorWaits \/ MonitorStops
           \/ \E m \in Matrices : MatrixStops(m)
    PROVE  NoneAppears
<1>1. CASE MonitorScans \/ MonitorExits \/ MonitorWaits \/ MonitorStops
  BY <1>1 DEF MonitorScans, MonitorExits, MonitorWaits, MonitorStops, NoneAppears,
              Unused, MatrixAlive, FinalizerAlive, Alive
<1>2. ASSUME NEW m \in Matrices, MatrixStops(m) PROVE NoneAppears
  BY <1>2 DEF MatrixStops, TypeOK, NoneAppears, Unused, MatrixAlive, FinalizerAlive,
              Alive, Forget, Off, Idle, Working, Finalizing
<1> QED
  BY <1>1, <1>2

(* OneMatrix and NothingMissed are preserved by every step.                *)
LEMMA OneMatrixStep ==
    ASSUME TypeOK, OneMatrix, NothingMissed, Next
    PROVE  OneMatrix' /\ NothingMissed'
<1>1. CASE MonitorStartsMatrix
  <2>1. /\ \A m \in Matrices : Unused(m)
        /\ monitor'.pc = "scan"
    BY <1>1 DEF MonitorStartsMatrix, Decision, NothingMissed, Fresh, TypeOK,
                MonitorType
  <2>2. PICK m \in Matrices :
          matrix' = [matrix EXCEPT ![m] = [Off EXCEPT !.pc = "open", !.view = completed]]
    BY <1>1 DEF MonitorStartsMatrix
  <2>3. \A n \in Matrices : n # m => Unused(n)'
    BY <1>1, <2>1, <2>2 DEF MonitorStartsMatrix, Unused, MatrixAlive,
                            FinalizerAlive, Alive, TypeOK
  <2> QED
    BY <2>1, <2>3 DEF OneMatrix, NothingMissed
<1>2. CASE MonitorScans
  <2>1. NoneAppears
    BY <1>2, MonitorAppears
  <2>2. NothingMissed'
    <3>1. CASE monitor.pc = "scan"
      BY <1>2, <3>1 DEF MonitorScans, Scanned, NothingMissed, MatrixFound, TypeOK,
                        MonitorType, MatrixAlive
    <3>2. CASE monitor.pc = "look"
      BY <1>2, <3>2 DEF MonitorScans, Scanned, NothingMissed, WorkerFound, TypeOK,
                        MonitorType, Unused, MatrixAlive, FinalizerAlive, Alive
    <3> QED
      BY <1>2, <3>1, <3>2 DEF MonitorScans
  <2> QED
    BY <2>1, <2>2 DEF NoneAppears, OneMatrix
<1>3. CASE MonitorExits \/ MonitorWaits \/ MonitorStops
  <2>1. NoneAppears
    BY <1>3, MonitorAppears
  <2>2. monitor'.pc \notin {"look", "act"}
    <3>1. CASE MonitorExits
      <4>1. monitor'.pc = Decision /\ Decision \in Exits
        BY <3>1 DEF MonitorExits, Fresh
      <4> QED
        BY <4>1 DEF Exits
    <3>2. CASE MonitorWaits \/ MonitorStops
      <4>1. monitor'.pc = "scan"
        <5>1. Fresh.pc = "scan"
          BY DEF Fresh
        <5>2. CASE MonitorStops
          BY <5>1, <5>2 DEF MonitorStops
        <5>3. CASE MonitorWaits
          BY <5>3 DEF MonitorWaits, Fresh
        <5> QED
          BY <3>2, <5>2, <5>3
      <4> QED
        BY <4>1
    <3> QED
      BY <1>3, <3>1, <3>2
  <2> QED
    BY <2>1, <2>2 DEF NoneAppears, OneMatrix, NothingMissed
<1>4. ASSUME NoneAppears, UNCHANGED monitor PROVE OneMatrix' /\ NothingMissed'
  BY <1>4 DEF NoneAppears, OneMatrix, NothingMissed
<1>5. ASSUME NEW m \in Matrices,
             MatrixNext(m) \/ FinalizerNext(m) \/ MatrixStops(m) \/ FinalizerCrashes(m)
      PROVE  NoneAppears /\ UNCHANGED monitor
  <2>1. NoneAppears
    BY <1>5, MatrixAppears, FinalizerAppears, MonitorAppears
  <2>2. UNCHANGED monitor
    BY <1>5 DEF MatrixNext, OpenBatch, SkipLevel, RejectStage, StartStage,
                StartWorker, CollectStage, StartFinalizer, CollectFinalizer,
                CloseStage, MatrixStep, FinalizerNext, FinalizerLoads,
                FinalizerRefreshes, FinalizerAudits, FinalizerCommits,
                FinalizerStep, MatrixStops, FinalizerCrashes
  <2> QED
    BY <2>1, <2>2
<1>6. ASSUME NEW m \in Matrices, NEW s \in Shards,
             WorkerNext(m, s) \/ WorkerCrashes(m, s)
      PROVE  NoneAppears /\ UNCHANGED monitor
  <2>1. NoneAppears
    BY <1>6, WorkerAppears
  <2>2. UNCHANGED monitor
    BY <1>6 DEF WorkerNext, WorkerStarts, WorkerStops, WorkerReserves,
                WorkerFindsOrphan, WorkerFails, WorkerSettles, WorkerSaves,
                WorkerSummarises, WorkerCrashes, WorkerStep
  <2> QED
    BY <2>1, <2>2
<1> QED
  BY <1>1, <1>2, <1>3, <1>4, <1>5, <1>6 DEF Next, MonitorNext
-----------------------------------------------------------------------------
(* What OneMatrix gives the workers and the finalizers.                    *)

(* The worker that is alive is alone on its shard.                         *)
LEMMA AloneOnShard ==
    ASSUME OneMatrix, NEW m \in Matrices, NEW n \in Matrices, NEW s \in Shards,
           Alive(m, s), Alive(n, s)
    PROVE  m = n
BY DEF OneMatrix, Unused

(* A process that ends is gone, or has left its return code.               *)
LEMMA Ending ==
    ASSUME NEW m \in Matrices, NEW code \in {"ok", "failed"}
    PROVE  /\ Left(m, code) \in {"none", code}
           /\ Finalized(m, code).pc \in {"none", code}
BY DEF Left, Finalized, Idle

LEMMA AttemptHeldStep ==
    ASSUME TypeOK, OneMatrix, AttemptHeld, Next
    PROVE  AttemptHeld'
<1>1. ASSUME NEW m \in Matrices, NEW s \in Shards, WorkerNext(m, s)
      PROVE  AttemptHeld'
  <2>1. \A n \in Matrices : n # m => ~Alive(n, s)
    <3>1. Alive(m, s)
      BY <1>1 DEF WorkerNext, WorkerStarts, WorkerStops, WorkerReserves,
                  WorkerFindsOrphan, WorkerFails, WorkerSettles, WorkerSaves,
                  WorkerSummarises, Alive, Working
    <3> QED
      BY <3>1, AloneOnShard
  <2>2. CASE WorkerStarts(m, s) \/ WorkerStops(m, s) \/ WorkerSummarises(m, s)
    <3>1. PICK pc \in {"run", "none", "ok", "failed"} :
            worker' = [worker EXCEPT ![m][s] = pc]
      BY <2>2, Ending DEF WorkerStarts, WorkerStops, WorkerSummarises, WorkerStep
    <3>2. UNCHANGED receipts
      BY <2>2 DEF WorkerStarts, WorkerStops, WorkerSummarises, progress
    <3> QED
      BY <3>1, <3>2 DEF AttemptHeld, TypeOK
  <2>3. CASE WorkerReserves(m, s)
    BY <2>3 DEF WorkerReserves, WorkerStep, MayCall, AttemptLeft, AttemptHeld, TypeOK
  <2>4. CASE WorkerFindsOrphan(m, s) \/ WorkerFails(m, s)
    <3>1. /\ worker' = [worker EXCEPT ![m][s] = Left(m, "failed")]
          /\ receipts' = [receipts EXCEPT ![s] = @ + 1]
      BY <2>4 DEF WorkerFindsOrphan, WorkerFails, WorkerStep
    <3>2. \A n \in Matrices : worker'[n][s] \notin {"call", "answer"}
      BY <2>1, <3>1, Ending DEF Alive, Working, TypeOK
    <3> QED
      BY <3>1, <3>2 DEF AttemptHeld, TypeOK
  <2>5. CASE WorkerSettles(m, s)
    BY <2>5 DEF WorkerSettles, WorkerStep, AttemptHeld, TypeOK
  <2>6. CASE WorkerSaves(m, s)
    BY <2>6 DEF WorkerSaves, WorkerStep, AttemptHeld, TypeOK
  <2> QED
    BY <1>1, <2>2, <2>3, <2>4, <2>5, <2>6 DEF WorkerNext
<1>2. ASSUME NEW m \in Matrices,
             MatrixNext(m) \/ MatrixStops(m)
      PROVE  AttemptHeld'
  <2>1. UNCHANGED receipts
    BY <1>2 DEF MatrixNext, OpenBatch, SkipLevel, RejectStage, StartStage,
                StartWorker, CollectStage, StartFinalizer, CollectFinalizer,
                CloseStage, MatrixStep, MatrixStops, Stop, files, progress
  <2>2. CASE UNCHANGED worker
    BY <2>1, <2>2 DEF AttemptHeld
  <2>3. CASE StartWorker(m)
    BY <2>1, <2>3 DEF StartWorker, AttemptHeld, TypeOK
  <2>4. CASE CollectStage(m)
    BY <2>1, <2>4 DEF CollectStage, AttemptHeld, TypeOK
  <2>5. CASE MatrixStops(m)
    BY <2>1, <2>5 DEF MatrixStops, Forget, AttemptHeld, TypeOK
  <2>6. MatrixNext(m) => UNCHANGED worker \/ StartWorker(m) \/ CollectStage(m)
    BY DEF MatrixNext, OpenBatch, SkipLevel, RejectStage, StartStage,
           StartFinalizer, CollectFinalizer, CloseStage
  <2> QED
    BY <1>2, <2>2, <2>3, <2>4, <2>5, <2>6
<1>3. CASE MonitorNext \/ MonitorStops
  BY <1>3 DEF MonitorNext, MonitorScans, MonitorExits, MonitorWaits,
              MonitorStartsMatrix, MonitorStops, Stop, files, progress, AttemptHeld
<1>4. ASSUME NEW m \in Matrices, FinalizerNext(m) \/ FinalizerCrashes(m)
      PROVE  AttemptHeld'
  BY <1>4 DEF FinalizerNext, FinalizerLoads, FinalizerRefreshes, FinalizerAudits,
              FinalizerCommits, FinalizerStep, FinalizerCrashes, Stop, files,
              progress, AttemptHeld
<1>5. ASSUME NEW m \in Matrices, NEW s \in Shards, WorkerCrashes(m, s)
      PROVE  AttemptHeld'
  BY <1>5 DEF WorkerCrashes, Left, Stop, files, progress, AttemptHeld, TypeOK
<1> QED
  BY <1>1, <1>2, <1>3, <1>4, <1>5 DEF Next

(* Whoever writes run-state.json writes a superset of what is in it.       *)
LEMMA CommitGrows ==
    ASSUME TypeOK, ViewCurrent, Next
    PROVE  completed \subseteq completed'
<1>1. ASSUME NEW m \in Matrices, FinalizerCommits(m)
      PROVE  completed \subseteq completed'
  BY <1>1 DEF FinalizerCommits, ViewCurrent
<1>2. ASSUME NEW m \in Matrices,
             FinalizerLoads(m) \/ FinalizerRefreshes(m) \/ FinalizerAudits(m)
      PROVE  UNCHANGED completed
  BY <1>2 DEF FinalizerLoads, FinalizerRefreshes, FinalizerAudits, results
<1>3. ASSUME NEW m \in Matrices,
             MatrixNext(m) \/ MatrixStops(m) \/ FinalizerCrashes(m)
      PROVE  UNCHANGED completed
  BY <1>3 DEF MatrixNext, OpenBatch, SkipLevel, RejectStage, StartStage,
              StartWorker, CollectStage, StartFinalizer, CollectFinalizer,
              CloseStage, MatrixStep, MatrixStops, FinalizerCrashes, Stop, files,
              results
<1>4. ASSUME NEW m \in Matrices, NEW s \in Shards,
             WorkerNext(m, s) \/ WorkerCrashes(m, s)
      PROVE  UNCHANGED completed
  BY <1>4 DEF WorkerNext, WorkerStarts, WorkerStops, WorkerReserves,
              WorkerFindsOrphan, WorkerFails, WorkerSettles, WorkerSaves,
              WorkerSummarises, WorkerCrashes, WorkerStep, Stop, files, results
<1>5. CASE MonitorNext \/ MonitorStops
  BY <1>5 DEF MonitorNext, MonitorScans, MonitorExits, MonitorWaits,
              MonitorStartsMatrix, MonitorStops, Stop, files, results
<1> QED
  BY <1>1, <1>2, <1>3, <1>4, <1>5 DEF Next, FinalizerNext

LEMMA ViewCurrentStep ==
    ASSUME TypeOK, OneMatrix, ViewCurrent, Next
    PROVE  ViewCurrent'
<1>1. ASSUME NEW m \in Matrices, FinalizerNext(m)
      PROVE  ViewCurrent'
  <2>1. \A n \in Matrices : n # m => ~FinalizerAlive(n)
    BY <1>1 DEF FinalizerNext, FinalizerLoads, FinalizerRefreshes, FinalizerAudits,
                FinalizerCommits, FinalizerAlive, Finalizing, OneMatrix, Unused
  <2>2. /\ \A n \in Matrices : n # m => finalizer'[n] = finalizer[n]
        /\ finalizer'[m].pc \in {"tail", "audit", "state"}
             => completed' \subseteq finalizer'[m].view
    <3>1. CASE FinalizerLoads(m)
      BY <3>1 DEF FinalizerLoads, FinalizerStep, Finalized, Left, Idle, results,
                  TypeOK, FinalizerType
    <3>2. CASE FinalizerRefreshes(m)
      <4>1. CASE finalizer' = [finalizer EXCEPT ![m] = Finalized(m, "failed")]
        BY <4>1, Ending DEF TypeOK
      <4>2. ASSUME NEW pc, finalizer' = [finalizer EXCEPT ![m].pc = pc],
                   completed' = completed
            PROVE  finalizer'[m].view = finalizer[m].view
        BY <4>2 DEF TypeOK, FinalizerType
      <4>3. completed' = completed /\ finalizer[m].pc \in {"tail", "audit", "state"}
        BY <3>2 DEF FinalizerRefreshes, FinalizerStep
      <4>4. \/ finalizer' = [finalizer EXCEPT ![m] = Finalized(m, "failed")]
            \/ \E pc : finalizer' = [finalizer EXCEPT ![m].pc = pc]
        BY <3>2 DEF FinalizerRefreshes, FinalizerStep, TypeOK
      <4>5. \A n \in Matrices : n # m => finalizer'[n] = finalizer[n]
        BY <4>4 DEF TypeOK
      <4> QED
        BY <4>1, <4>2, <4>3, <4>4, <4>5 DEF ViewCurrent
    <3>3. CASE FinalizerAudits(m)
      <4>1. CASE finalizer' = [finalizer EXCEPT ![m] = Finalized(m, "failed")]
        BY <4>1, Ending DEF TypeOK
      <4>2. ASSUME NEW pc, finalizer' = [finalizer EXCEPT ![m].pc = pc],
                   completed' = completed
            PROVE  finalizer'[m].view = finalizer[m].view
        BY <4>2 DEF TypeOK, FinalizerType
      <4>3. completed' = completed /\ finalizer[m].pc \in {"tail", "audit", "state"}
        BY <3>3 DEF FinalizerAudits, FinalizerStep
      <4>4. \/ finalizer' = [finalizer EXCEPT ![m] = Finalized(m, "failed")]
            \/ \E pc : finalizer' = [finalizer EXCEPT ![m].pc = pc]
        BY <3>3 DEF FinalizerAudits, FinalizerStep, TypeOK
      <4>5. \A n \in Matrices : n # m => finalizer'[n] = finalizer[n]
        BY <4>4 DEF TypeOK
      <4> QED
        BY <4>1, <4>2, <4>3, <4>4, <4>5 DEF ViewCurrent
    <3>4. CASE FinalizerCommits(m)
      <4>1. PICK code \in {"ok", "failed"} :
              finalizer' = [finalizer EXCEPT ![m] = Finalized(m, code)]
        BY <3>4 DEF FinalizerCommits, FinalizerStep
      <4> QED
        BY <4>1, Ending DEF TypeOK
    <3> QED
      BY <1>1, <3>1, <3>2, <3>3, <3>4 DEF FinalizerNext
  <2> QED
    BY <2>1, <2>2 DEF ViewCurrent, FinalizerAlive, Finalizing
<1>2. ASSUME UNCHANGED completed,
             \A n \in Matrices :
                finalizer'[n].pc \in {"tail", "audit", "state"}
                    => finalizer'[n] = finalizer[n]
      PROVE  ViewCurrent'
  BY <1>2 DEF ViewCurrent
<1>3. ASSUME NEW m \in Matrices,
             MatrixNext(m) \/ MatrixStops(m) \/ FinalizerCrashes(m)
      PROVE  ViewCurrent'
  <2>1. UNCHANGED completed
    BY <1>3 DEF MatrixNext, OpenBatch, SkipLevel, RejectStage, StartStage,
                StartWorker, CollectStage, StartFinalizer, CollectFinalizer,
                CloseStage, MatrixStep, MatrixStops, FinalizerCrashes, Stop,
                files, results
  <2>2. CASE UNCHANGED finalizer
    BY <1>2, <2>1, <2>2
  <2>3. CASE StartFinalizer(m) \/ CollectFinalizer(m)
    <3>1. Idle.pc = "none" /\ \A s : [Idle EXCEPT !.pc = "load", !.shard = s].pc = "load"
      BY DEF Idle
    <3>2. CASE StartFinalizer(m)
      <4>1. CASE UNCHANGED finalizer
        BY <1>2, <2>1, <4>1
      <4>2. CASE \E s : finalizer' = [finalizer EXCEPT ![m] =
                                     [Idle EXCEPT !.pc = "load", !.shard = s]]
        BY <1>2, <2>1, <3>1, <4>2 DEF TypeOK
      <4> QED
        BY <3>2, <4>1, <4>2 DEF StartFinalizer
    <3>3. CASE CollectFinalizer(m)
      BY <1>2, <2>1, <3>1, <3>3 DEF CollectFinalizer, TypeOK
    <3> QED
      BY <2>3, <3>2, <3>3
  <2>4. CASE MatrixStops(m) \/ FinalizerCrashes(m)
    <3>1. Idle.pc = "none"
      BY DEF Idle
    <3> QED
      BY <1>2, <2>1, <2>4, <3>1, Ending DEF MatrixStops, FinalizerCrashes, TypeOK
  <2>5. MatrixNext(m) => \/ UNCHANGED finalizer
                         \/ StartFinalizer(m) \/ CollectFinalizer(m)
    BY DEF MatrixNext, OpenBatch, SkipLevel, RejectStage, StartStage, StartWorker,
           CollectStage, CloseStage
  <2> QED
    BY <1>3, <2>2, <2>3, <2>4, <2>5
<1>4. ASSUME NEW m \in Matrices, NEW s \in Shards,
             WorkerNext(m, s) \/ WorkerCrashes(m, s)
      PROVE  ViewCurrent'
  BY <1>2, <1>4 DEF WorkerNext, WorkerStarts, WorkerStops, WorkerReserves,
              WorkerFindsOrphan, WorkerFails, WorkerSettles, WorkerSaves,
              WorkerSummarises, WorkerCrashes, WorkerStep, Stop, files, results
<1>5. CASE MonitorNext \/ MonitorStops
  BY <1>2, <1>5 DEF MonitorNext, MonitorScans, MonitorExits, MonitorWaits,
              MonitorStartsMatrix, MonitorStops, Stop, files, results
<1> QED
  BY <1>1, <1>3, <1>4, <1>5 DEF Next
-----------------------------------------------------------------------------
(* Types.                                                                  *)
LEMMA MonitorTyped ==
    ASSUME TypeOK, MonitorNext \/ MonitorStops
    PROVE  TypeOK'
<1>1. Fresh \in MonitorType /\ ProgressKey \in Nat \X Nat
  <2>1. Cardinality(completed) \in Nat
    BY FS_Subset, FS_CardinalityType DEF TypeOK
  <2> QED
    BY <2>1 DEF Fresh, MonitorType, ProgressKey, TypeOK
<1>2. Off \in MatrixType
  BY DEF Off, MatrixType
<1>3. CASE MonitorScans
  <2>1. MatrixFound \in BOOLEAN /\ WorkerFound \in BOOLEAN
    BY DEF MatrixFound, WorkerFound
  <2>2. monitor' \in MonitorType
    BY <1>3, <2>1 DEF MonitorScans, Scanned, TypeOK, MonitorType
  <2> QED
    BY <1>3, <2>2 DEF MonitorScans, files, budget, progress, results, TypeOK
<1>4. CASE MonitorExits
  BY <1>1, <1>4 DEF MonitorExits, MonitorType, files, budget, progress, results,
                    TypeOK
<1>5. CASE MonitorWaits
  BY <1>1, <1>5 DEF MonitorWaits, MonitorType, files, budget, progress, results,
                    TypeOK
<1>6. CASE MonitorStartsMatrix
  <2>1. monitor.restarts < MaxRestarts
    BY <1>6 DEF MonitorStartsMatrix, Decision, TypeOK, MonitorType
  <2>2. monitor' \in MonitorType
    <3>1. MaxRestarts \in Nat /\ monitor.restarts \in 0..MaxRestarts
      BY DEF MatrixSupervisorAssumption, TypeOK, MonitorType
    <3>2. Counted \in 0..MaxRestarts
      BY <2>1, <3>1 DEF Counted
    <3> QED
      BY <1>1, <1>6, <3>2 DEF MonitorStartsMatrix, MonitorType
  <2>3. matrix' \in [Matrices -> MatrixType]
    <3>1. [Off EXCEPT !.pc = "open", !.view = completed] \in MatrixType
      BY <1>2 DEF MatrixType, TypeOK
    <3> QED
      BY <1>6, <3>1 DEF MonitorStartsMatrix, TypeOK
  <2> QED
    BY <1>6, <2>2, <2>3 DEF MonitorStartsMatrix, files, budget, progress, results,
                            TypeOK
<1>7. CASE MonitorStops
  BY <1>1, <1>7 DEF MonitorStops, Stop, files, budget, progress, results, TypeOK
<1> QED
  BY <1>3, <1>4, <1>5, <1>6, <1>7 DEF MonitorNext

LEMMA MatrixTyped ==
    ASSUME TypeOK, NEW m \in Matrices, MatrixNext(m) \/ MatrixStops(m)
    PROVE  TypeOK'
<1>1. Off \in MatrixType /\ Idle \in FinalizerType
  BY DEF Off, MatrixType, Idle, FinalizerType
<1>2. ASSUME NEW mx \in MatrixType, MatrixStep(m, mx),
             worker' \in [Matrices -> [Shards -> Working \union {"none", "ok", "failed"}]],
             finalizer' \in [Matrices -> FinalizerType]
      PROVE  TypeOK'
  BY <1>2 DEF MatrixStep, files, budget, progress, results, TypeOK
<1>3. /\ matrix[m] \in MatrixType
      /\ Stage(m) \subseteq Shards /\ Succeeded(m) \subseteq Shards
  BY DEF Stage, Succeeded, TypeOK, MatrixType
<1>4. ASSUME NEW mx \in MatrixType PROVE NextLevel(mx) \in MatrixType
  <2>1. mx.batch + 1 \in Nat \ {0}
    BY DEF MatrixType
  <2>2. CASE mx.level = 1
    BY <2>2 DEF NextLevel, MatrixType
  <2>3. CASE mx.level # 1
    BY <2>1, <2>3 DEF NextLevel, MatrixType
  <2> QED
    BY <2>2, <2>3
<1>5. CASE OpenBatch(m)
  <2>1. [matrix[m] EXCEPT !.pc = "level",
                          !.pending = Batches[matrix[m].batch] \ matrix[m].view]
          \in MatrixType
        \/ matrix[m].batch > Len(Batches)
    <3>1. CASE matrix[m].batch <= Len(Batches)
      <4>1. matrix[m].batch \in Nat \ {0}
        BY <1>3 DEF MatrixType
      <4>2. matrix[m].batch \in 1..Len(Batches)
        BY <3>1, <4>1 DEF MatrixSupervisorAssumption
      <4>3. Batches[matrix[m].batch] \subseteq Shards
        BY <4>2 DEF MatrixSupervisorAssumption
      <4>4. Batches[matrix[m].batch] \ matrix[m].view \in SUBSET Shards
        BY <4>3
      <4> QED
        BY <1>3, <4>4 DEF MatrixType
    <3>2. CASE ~(matrix[m].batch <= Len(Batches))
      BY <1>3, <3>2 DEF MatrixType, MatrixSupervisorAssumption
    <3> QED
      BY <3>1, <3>2
  <2> QED
    BY <1>1, <1>2, <1>5, <2>1 DEF OpenBatch, TypeOK
<1>6. CASE SkipLevel(m)
  BY <1>2, <1>4, <1>6 DEF SkipLevel, TypeOK
<1>7. CASE RejectStage(m)
  BY <1>1, <1>2, <1>7 DEF RejectStage, TypeOK
<1>8. CASE StartStage(m)
  <2>1. \A pc \in {"work", "commit"} :
          [matrix[m] EXCEPT !.todo = Stage(m), !.pc = pc] \in MatrixType
    BY <1>3 DEF MatrixType
  <2> QED
    BY <1>2, <1>8, <2>1 DEF StartStage, TypeOK
<1>9. CASE StartWorker(m)
  <2>1. PICK s \in matrix[m].todo :
          /\ worker' = [worker EXCEPT ![m][s] = "start"]
          /\ MatrixStep(m, [matrix[m] EXCEPT !.todo = @ \ {s}])
    BY <1>9 DEF StartWorker
  <2>2. /\ s \in Shards
        /\ [matrix[m] EXCEPT !.todo = @ \ {s}] \in MatrixType
    BY <1>3 DEF MatrixType
  <2>3. worker' \in [Matrices -> [Shards -> Working \union {"none", "ok", "failed"}]]
    BY <2>1, <2>2 DEF Working, TypeOK
  <2> QED
    BY <1>2, <1>9, <2>1, <2>2, <2>3 DEF StartWorker, TypeOK
<1>10. CASE CollectStage(m)
  <2>1. \A b \in BOOLEAN :
          [matrix[m] EXCEPT !.pc = "commit", !.todo = Succeeded(m), !.failed = b]
            \in MatrixType
    BY <1>3 DEF MatrixType
  <2>2. worker' \in [Matrices -> [Shards -> Working \union {"none", "ok", "failed"}]]
    BY <1>10 DEF CollectStage, TypeOK
  <2>3. (Succeeded(m) # Stage(m)) \in BOOLEAN
    OBVIOUS
  <2> QED
    BY <1>2, <1>10, <2>1, <2>2, <2>3 DEF CollectStage, TypeOK
<1>11. CASE StartFinalizer(m)
  <2>1. PICK s \in matrix[m].todo :
          \/ /\ finalizer' = [finalizer EXCEPT ![m] =
                                [Idle EXCEPT !.pc = "load", !.shard = s]]
             /\ MatrixStep(m, matrix[m])
          \/ MatrixStep(m, Off) /\ UNCHANGED finalizer
    BY <1>11 DEF StartFinalizer
  <2>2. [Idle EXCEPT !.pc = "load", !.shard = s] \in FinalizerType
    BY <1>1, <1>3 DEF FinalizerType, MatrixType, Finalizing
  <2>3. UNCHANGED worker
    BY <1>11 DEF StartFinalizer
  <2> QED
    <3>1. finalizer' \in [Matrices -> FinalizerType]
      BY <2>1, <2>2 DEF TypeOK
    <3>2. worker' \in [Matrices -> [Shards -> Working \union {"none", "ok", "failed"}]]
      BY <2>3 DEF TypeOK
    <3> QED
      BY <1>1, <1>2, <1>3, <2>1, <3>1, <3>2
<1>12. CASE CollectFinalizer(m)
  <2>1. [matrix[m] EXCEPT !.todo = @ \ {finalizer[m].shard}] \in MatrixType
    BY <1>3 DEF MatrixType
  <2>2. finalizer' \in [Matrices -> FinalizerType]
    BY <1>1, <1>12 DEF CollectFinalizer, TypeOK
  <2> QED
    BY <1>1, <1>2, <1>12, <2>1, <2>2 DEF CollectFinalizer, TypeOK
<1>13. CASE CloseStage(m)
  <2>1. [matrix[m] EXCEPT !.view = completed] \in MatrixType
    BY <1>3 DEF MatrixType, TypeOK
  <2>2. AfterStage([matrix[m] EXCEPT !.view = completed]) \in MatrixType
    BY <1>1, <1>4, <2>1 DEF AfterStage
  <2> QED
    BY <1>2, <1>13, <2>2 DEF CloseStage, TypeOK
<1>14. CASE MatrixStops(m)
  <2>1. worker' \in [Matrices -> [Shards -> Working \union {"none", "ok", "failed"}]]
    BY <1>14 DEF MatrixStops, Forget, TypeOK
  <2>2. finalizer' \in [Matrices -> FinalizerType]
    BY <1>1, <1>14 DEF MatrixStops, TypeOK
  <2>3. matrix' \in [Matrices -> MatrixType]
    BY <1>1, <1>14 DEF MatrixStops, TypeOK
  <2>4. stops' \in 0..MaxStops
    BY <1>14 DEF MatrixStops, Stop, TypeOK, MatrixSupervisorAssumption
  <2> QED
    BY <1>14, <2>1, <2>2, <2>3, <2>4 DEF MatrixStops, Stop, files, budget, progress,
                                         results, TypeOK
<1> QED
  BY <1>5, <1>6, <1>7, <1>8, <1>9, <1>10, <1>11, <1>12, <1>13, <1>14 DEF MatrixNext

LEMMA WorkerTyped ==
    ASSUME TypeOK, AttemptHeld, NEW m \in Matrices, NEW s \in Shards,
           WorkerNext(m, s) \/ WorkerCrashes(m, s)
    PROVE  TypeOK'
<1>1. ASSUME NEW pc \in Working \union {"none", "ok", "failed"},
             worker' = [worker EXCEPT ![m][s] = pc]
      PROVE  worker' \in [Matrices -> [Shards -> Working \union {"none", "ok", "failed"}]]
  BY <1>1 DEF TypeOK
<1>2. CASE WorkerStarts(m, s) \/ WorkerStops(m, s)
  BY <1>1, <1>2, Ending DEF WorkerStarts, WorkerStops, WorkerStep, Working, budget,
                            progress, results, TypeOK
<1>3. CASE WorkerReserves(m, s)
  BY <1>1, <1>3 DEF WorkerReserves, WorkerStep, Working, results, TypeOK,
                    MatrixSupervisorAssumption
<1>4. CASE WorkerFindsOrphan(m, s)
  BY <1>1, <1>4, Ending DEF WorkerFindsOrphan, WorkerStep, Working, results, MayCall,
                            AttemptLeft, TypeOK, MatrixSupervisorAssumption
<1>5. CASE WorkerFails(m, s)
  BY <1>1, <1>5, Ending DEF WorkerFails, WorkerStep, Working, results, AttemptHeld,
                            TypeOK, MatrixSupervisorAssumption
<1>6. CASE WorkerSettles(m, s)
  BY <1>1, <1>6 DEF WorkerSettles, WorkerStep, Working, results, TypeOK
<1>7. CASE WorkerSaves(m, s)
  BY <1>1, <1>7 DEF WorkerSaves, WorkerStep, Working, results, budget, TypeOK
<1>8. CASE WorkerSummarises(m, s)
  BY <1>1, <1>8, Ending DEF WorkerSummarises, Working, budget, progress, Index, TypeOK
<1>9. CASE WorkerCrashes(m, s)
  BY <1>1, <1>9, Ending DEF WorkerCrashes, Stop, files, budget, progress, results,
                            Working, TypeOK, MatrixSupervisorAssumption
<1> QED
  BY <1>2, <1>3, <1>4, <1>5, <1>6, <1>7, <1>8, <1>9 DEF WorkerNext

LEMMA FinalizerTyped ==
    ASSUME TypeOK, NEW m \in Matrices, FinalizerNext(m) \/ FinalizerCrashes(m)
    PROVE  TypeOK'
<1>1. finalizer[m] \in FinalizerType /\ finalizer[m].shard \in Shards
  BY DEF TypeOK, FinalizerType
<1>2. \A code \in {"ok", "failed"} : Finalized(m, code) \in FinalizerType
  <2>1. Idle \in FinalizerType
    BY DEF Idle, FinalizerType
  <2> QED
    BY <1>1, <2>1, Ending DEF Finalized, Left, FinalizerType
<1>3. \A pc \in {"audit", "state"} : [finalizer[m] EXCEPT !.pc = pc] \in FinalizerType
  BY <1>1 DEF FinalizerType, Finalizing
<1>4. ASSUME NEW f \in FinalizerType, finalizer' = [finalizer EXCEPT ![m] = f],
             UNCHANGED <<alias, budget, progress, monitor, matrix, worker, stops>>,
             summary' \in [Shards -> Index], audit' \in [Shards -> Index],
             completed' \subseteq Shards
      PROVE  TypeOK'
  BY <1>4 DEF budget, progress, TypeOK
<1>5. CASE FinalizerLoads(m)
  <2>1. \A pc \in {"audit", "tail"} :
          [finalizer[m] EXCEPT !.view = completed, !.index = ledger, !.pc = pc]
            \in FinalizerType
    BY <1>1 DEF FinalizerType, Finalizing, TypeOK
  <2>2. PICK f \in FinalizerType : FinalizerStep(m, f)
    BY <1>2, <1>5, <2>1 DEF FinalizerLoads
  <2> QED
    BY <1>4, <1>5, <2>2 DEF FinalizerLoads, FinalizerStep, results, TypeOK
<1>6. CASE FinalizerRefreshes(m)
  <2>1. PICK f \in FinalizerType : FinalizerStep(m, f)
    BY <1>2, <1>3, <1>6 DEF FinalizerRefreshes
  <2>2. summary' \in [Shards -> Index]
    <3>1. finalizer[m].index \in Index
      BY <1>1 DEF FinalizerType, Index
    <3> QED
      BY <1>1, <1>6, <3>1 DEF FinalizerRefreshes, TypeOK
  <2> QED
    BY <1>4, <1>6, <2>1, <2>2 DEF FinalizerRefreshes, FinalizerStep, TypeOK
<1>7. CASE FinalizerAudits(m)
  <2>1. PICK f \in FinalizerType : FinalizerStep(m, f)
    BY <1>2, <1>3, <1>7 DEF FinalizerAudits
  <2>2. AuditOf(finalizer[m]) \in Index
    BY <1>1 DEF AuditOf, FinalizerType, Index, TypeOK, MatrixSupervisorAssumption
  <2>3. audit' \in [Shards -> Index]
    BY <1>7, <2>2 DEF FinalizerAudits, TypeOK
  <2> QED
    BY <1>4, <1>7, <2>1, <2>3 DEF FinalizerAudits, FinalizerStep, TypeOK
<1>8. CASE FinalizerCommits(m)
  <2>1. PICK f \in FinalizerType : FinalizerStep(m, f)
    BY <1>2, <1>8 DEF FinalizerCommits
  <2>2. completed' \subseteq Shards
    <3>1. finalizer[m].view \subseteq Shards
      BY <1>1 DEF FinalizerType
    <3> QED
      BY <1>1, <1>8, <3>1 DEF FinalizerCommits, TypeOK
  <2> QED
    BY <1>4, <1>8, <2>1, <2>2 DEF FinalizerCommits, FinalizerStep, TypeOK
<1>9. CASE FinalizerCrashes(m)
  <2>1. stops' \in 0..MaxStops
    BY <1>9 DEF FinalizerCrashes, Stop, TypeOK, MatrixSupervisorAssumption
  <2>2. finalizer' \in [Matrices -> FinalizerType]
    BY <1>2, <1>9 DEF FinalizerCrashes, TypeOK
  <2> QED
    BY <1>9, <2>1, <2>2 DEF FinalizerCrashes, Stop, files, budget, progress, results,
                            TypeOK
<1> QED
  BY <1>5, <1>6, <1>7, <1>8, <1>9 DEF FinalizerNext

-----------------------------------------------------------------------------
(* The invariant and the theorems.                                         *)
LEMMA NextIInv == IInv /\ [Next]_vars => IInv'
<1> SUFFICES ASSUME IInv, [Next]_vars PROVE IInv'
  OBVIOUS
<1>1. TypeOK /\ OneMatrix /\ NothingMissed /\ AttemptHeld /\ ViewCurrent
  BY DEF IInv
<1>2. CASE Next
  <2>1. TypeOK'
    BY <1>1, <1>2, MonitorTyped, MatrixTyped, WorkerTyped, FinalizerTyped DEF Next
  <2>2. OneMatrix' /\ NothingMissed'
    BY <1>1, <1>2, OneMatrixStep
  <2>3. AttemptHeld' /\ ViewCurrent'
    BY <1>1, <1>2, AttemptHeldStep, ViewCurrentStep
  <2> QED
    BY <2>1, <2>2, <2>3 DEF IInv
<1>3. CASE UNCHANGED vars
  BY <1>1, <1>3 DEF vars, files, budget, progress, results, IInv, TypeOK, OneMatrix,
                    NothingMissed, AttemptHeld, ViewCurrent, Unused, MatrixAlive,
                    FinalizerAlive, Alive
<1> QED
  BY <1>2, <1>3

THEOREM Invariance == Spec => []IInv
BY InitIInv, NextIInv, PTL DEF Spec

(* The state is well typed; above all no member of a shard gets more       *)
(* attempt receipts than the policy allows.                                *)
THEOREM TypeCorrect == Spec => []TypeOK
<1>1. IInv => TypeOK
  BY DEF IInv
<1> QED
  BY <1>1, Invariance, PTL

(* At most one worker is alive on a shard, whichever processes die: the    *)
(* monitor never starts a matrix beside a child of an earlier one.         *)
THEOREM WorkersAlone == Spec => []OneWorkerPerShard
<1>1. IInv => OneWorkerPerShard
  <2> SUFFICES ASSUME IInv, NEW s \in Shards
               PROVE  Cardinality({m \in Matrices : Alive(m, s)}) <= 1
    BY DEF OneWorkerPerShard
  <2> DEFINE A == {m \in Matrices : Alive(m, s)}
  <2>1. \A m, n \in A : m = n
    BY AloneOnShard DEF IInv
  <2>2. ASSUME A = {} PROVE Cardinality(A) = 0
    BY <2>2, FS_EmptySet
  <2>3. ASSUME NEW m \in A PROVE Cardinality(A) = 1
    <3>1. A = {m}
      BY <2>1, <2>3
    <3> QED
      BY <3>1, FS_Singleton
  <2> HIDE DEF A
  <2>4. Cardinality(A) = 0 \/ Cardinality(A) = 1
    BY <2>2, <2>3
  <2>5. Cardinality(A) <= 1
    BY <2>4
  <2> QED
    BY <2>5 DEF A
<1> QED
  BY <1>1, Invariance, PTL

(* A shard that run-state.json lists stays there: no finalizer writes a    *)
(* set that lacks what another one has put in.                             *)
THEOREM CompletedKept == Spec => CompletedStays
<1>1. IInv /\ [Next]_vars => [completed \subseteq completed']_vars
  <2> SUFFICES ASSUME IInv, Next PROVE completed \subseteq completed'
    OBVIOUS
  <2> QED
    BY CommitGrows DEF IInv
<1> QED
  BY <1>1, Invariance, PTL DEF Spec, CompletedStays

-----------------------------------------------------------------------------
(* Why a worker of configuration full finds its route.  A shard is routed  *)
(* when its first checkpoint is there, or when it is an alias and nothing  *)
(* is to be made for it.                                                   *)
Routed(s) == s \in DOMAIN alias \/ made[s] >= 1

(* The first level of a batch, and when a matrix can never get past it: it *)
(* mixes direct and aliased shards and is rejected before any of them is   *)
(* completed.                                                              *)
LevelOne(b) == {s \in Batches[b] : Config[s] # "full"}
Mixed(b) == LevelOne(b) \intersect DOMAIN alias \notin {{}, LevelOne(b)}

FilesAhead ==
    /\ \A s \in Shards : summary[s] # NoFile => made[s] >= 1
    /\ \A s \in completed : Routed(s)
    /\ \A b \in DOMAIN Batches : Mixed(b) => LevelOne(b) \intersect completed = {}

(* What a matrix has behind it in the batch it is in; the first level of a *)
(* mixed batch is as it was.                                               *)
InBatch(mx) == mx.pc \in {"level", "work", "commit"}
LevelOf(mx) == {s \in mx.pending : (Config[s] = "full") = (mx.level = 2)}

BatchFits(mx) ==
    /\ mx.batch \in DOMAIN Batches
    /\ mx.pending \subseteq Batches[mx.batch]
    /\ mx.pc \in {"work", "commit"} => mx.todo \subseteq LevelOf(mx)
    /\ mx.pc = "work" => LevelOf(mx) \intersect DOMAIN alias = {}
    /\ \A s \in Batches[mx.batch] \ mx.pending : Routed(s)
    /\ mx.level = 2 \/ (mx.pc = "commit" /\ ~mx.failed) =>
         \A s \in LevelOne(mx.batch) : Routed(s)
    /\ Mixed(mx.batch) =>
         mx.pc = "level" /\ mx.level = 1 /\ LevelOne(mx.batch) \subseteq mx.pending

MatrixFits(mx) ==
    /\ \A s \in mx.view : Routed(s)
    /\ \A b \in DOMAIN Batches : Mixed(b) => LevelOne(b) \intersect mx.view = {}
    /\ mx.pc = "open" => mx.level = 1
    /\ InBatch(mx) => BatchFits(mx)

FinalizerFits(f) ==
    /\ f.pc = "tail" => made[f.shard] >= 1
    /\ f.pc \in {"tail", "audit", "state"} => \A s \in f.view \union {f.shard} : Routed(s)
    /\ \A b \in DOMAIN Batches : Mixed(b) =>
         /\ f.pc \in Finalizing => f.shard \notin LevelOne(b)
         /\ f.pc \in {"tail", "audit", "state"} => LevelOne(b) \intersect f.view = {}

(* The route a worker of configuration full needs is there from its start. *)
WorkerFits(m, s) ==
    /\ worker[m][s] = "ok" => made[s] >= 1
    /\ Alive(m, s) /\ Config[s] = "full" =>
         RouteOwner(s) \in Shards /\ made[RouteOwner(s)] >= 1

(* All of it, from which RouteFound follows.                               *)
AheadInv ==
    /\ FilesAhead
    /\ \A m \in Matrices : MatrixFits(matrix[m]) /\ FinalizerFits(finalizer[m])
    /\ \A m \in Matrices, s \in Shards : WorkerFits(m, s)

(* Checkpoints and aliases stay, and so does what they make true.          *)
Progresses ==
    /\ UNCHANGED alias
    /\ \A s \in Shards : made[s] >= 1 => made'[s] >= 1

LEMMA RoutedStays ==
    ASSUME Progresses, NEW s \in Shards, Routed(s)
    PROVE  Routed(s)'
BY DEF Progresses, Routed

LEMMA MatrixFitsStays ==
    ASSUME Progresses, NEW mx \in MatrixType, MatrixFits(mx)
    PROVE  MatrixFits(mx)'
<1>1. \A s \in mx.view : Routed(s)'
  BY RoutedStays DEF MatrixFits, MatrixType
<1>2. ASSUME BatchFits(mx) PROVE BatchFits(mx)'
  <2>1. Batches[mx.batch] \subseteq Shards
    BY <1>2 DEF BatchFits
  <2>2. \A s \in Batches[mx.batch] : Routed(s) => Routed(s)'
    BY <2>1, RoutedStays
  <2> QED
    BY <1>2, <2>2 DEF BatchFits, LevelOf, LevelOne, Mixed, Progresses
<1> QED
  BY <1>1, <1>2 DEF MatrixFits, InBatch, Mixed, LevelOne, Progresses

LEMMA FinalizerFitsStays ==
    ASSUME Progresses, NEW f \in FinalizerType, FinalizerFits(f)
    PROVE  FinalizerFits(f)'
<1>1. \A s \in f.view \union {f.shard} : s \in Shards
  BY DEF FinalizerType
<1>2. \A s \in f.view \union {f.shard} : Routed(s) => Routed(s)'
  BY <1>1, RoutedStays
<1> QED
  BY <1>1, <1>2 DEF FinalizerFits, Mixed, LevelOne, Progresses

LEMMA FilesAheadStays ==
    ASSUME TypeOK, Progresses, FilesAhead, UNCHANGED <<summary, completed>>
    PROVE  FilesAhead'
<1>1. \A s \in completed : Routed(s)'
  BY RoutedStays DEF FilesAhead, TypeOK
<1> QED
  BY <1>1 DEF FilesAhead, Mixed, LevelOne, Progresses

LEMMA WorkerFitsStays ==
    ASSUME Progresses, NEW m \in Matrices, NEW s \in Shards, WorkerFits(m, s),
           worker'[m][s] = "ok" => worker[m][s] = "ok",
           Alive(m, s)' => Alive(m, s)
    PROVE  WorkerFits(m, s)'
BY DEF WorkerFits, Progresses, RouteOwner, BatchOf

(* A matrix process is where it was or where the step has put it.          *)
LEMMA MatrixPut ==
    ASSUME TypeOK, AheadInv, Progresses, NEW m \in Matrices, NEW mx \in MatrixType,
           MatrixFits(mx), matrix' = [matrix EXCEPT ![m] = mx]
    PROVE  \A n \in Matrices : MatrixFits(matrix[n])'
<1> SUFFICES ASSUME NEW n \in Matrices PROVE MatrixFits(matrix[n])'
  OBVIOUS
<1>1. PICK nx \in MatrixType : nx = matrix'[n] /\ MatrixFits(nx)
  BY DEF TypeOK, AheadInv
<1>2. MatrixFits(nx)'
  BY <1>1, MatrixFitsStays
<1> QED
  BY <1>1, <1>2 DEF MatrixFits, InBatch, BatchFits, LevelOf

LEMMA FinalizerPut ==
    ASSUME TypeOK, AheadInv, Progresses, NEW m \in Matrices, NEW f \in FinalizerType,
           FinalizerFits(f), finalizer' = [finalizer EXCEPT ![m] = f]
    PROVE  \A n \in Matrices : FinalizerFits(finalizer[n])'
<1> SUFFICES ASSUME NEW n \in Matrices PROVE FinalizerFits(finalizer[n])'
  OBVIOUS
<1>1. PICK g \in FinalizerType : g = finalizer'[n] /\ FinalizerFits(g)
  BY DEF TypeOK, AheadInv
<1>2. FinalizerFits(g)'
  BY <1>1, FinalizerFitsStays
<1> QED
  BY <1>1, <1>2 DEF FinalizerFits

(* A mixed batch has a first level, and no shard is in two batches.        *)
LEMMA BatchFacts ==
    /\ \A b \in DOMAIN Batches : Batches[b] \subseteq Shards /\ LevelOne(b) \subseteq Batches[b]
    /\ \A b \in DOMAIN Batches : Mixed(b) => LevelOne(b) # {}
    /\ \A a, b \in DOMAIN Batches : \A s \in Batches[a] : s \in Batches[b] => a = b
<1>1. \A a, b \in DOMAIN Batches : a # b => Batches[a] \intersect Batches[b] = {}
  BY BatchAssumption
<1> QED
  BY <1>1 DEF LevelOne, Mixed

LEMMA OffFits == MatrixFits(Off)
BY DEF MatrixFits, Off, InBatch

(* From one level to the next, when the one before is routed.              *)
LEMMA NextLevelFits ==
    ASSUME NEW mx \in MatrixType, MatrixFits(mx), InBatch(mx), ~Mixed(mx.batch),
           \A s \in LevelOne(mx.batch) : Routed(s)
    PROVE  MatrixFits(NextLevel(mx))
<1> DEFINE nx == NextLevel(mx)
<1>1. CASE mx.level = 1
  <2>1. /\ nx.pc = "level" /\ nx.level = 2 /\ nx.batch = mx.batch
        /\ nx.pending = mx.pending /\ nx.view = mx.view
    BY <1>1 DEF NextLevel, MatrixType
  <2> HIDE DEF nx
  <2>2. BatchFits(nx)
    BY <2>1 DEF MatrixFits, BatchFits
  <2> QED
    BY <2>1, <2>2 DEF MatrixFits, nx
<1>2. CASE mx.level # 1
  <2>1. nx.pc = "open" /\ nx.level = 1 /\ nx.view = mx.view
    BY <1>2 DEF NextLevel, MatrixType
  <2> HIDE DEF nx
  <2> QED
    BY <2>1 DEF MatrixFits, InBatch, nx
<1> QED
  BY <1>1, <1>2

LEMMA OpenFits ==
    ASSUME NEW mx \in MatrixType, MatrixFits(mx), mx.pc = "open", mx.batch <= Len(Batches)
    PROVE  MatrixFits([mx EXCEPT !.pc = "level", !.pending = Batches[mx.batch] \ mx.view])
<1> DEFINE nx == [mx EXCEPT !.pc = "level", !.pending = Batches[mx.batch] \ mx.view]
<1>1. /\ nx.pc = "level" /\ nx.level = 1 /\ nx.batch = mx.batch
      /\ nx.pending = Batches[mx.batch] \ mx.view /\ nx.view = mx.view
  BY DEF MatrixType, MatrixFits
<1> HIDE DEF nx
<1>2. mx.batch \in DOMAIN Batches
  BY DEF MatrixType, MatrixSupervisorAssumption
<1>3. BatchFits(nx)
  BY <1>1, <1>2, BatchFacts DEF MatrixFits, BatchFits
<1> QED
  BY <1>1, <1>3 DEF MatrixFits, nx

(* Only a level that is aliased as a whole or not at all is started.       *)
LEMMA StartFits ==
    ASSUME NEW mx \in MatrixType, MatrixFits(mx), mx.pc = "level",
           NEW A, A = LevelOf(mx) \intersect DOMAIN alias, A \in {{}, LevelOf(mx)},
           NEW pc, pc = IF A = {} THEN "work" ELSE "commit"
    PROVE  /\ ~Mixed(mx.batch)
           /\ MatrixFits([mx EXCEPT !.todo = LevelOf(mx), !.pc = pc])
<1>1. BatchFits(mx)
  BY DEF MatrixFits, InBatch
<1>2. ~Mixed(mx.batch)
  <2> SUFFICES ASSUME Mixed(mx.batch) PROVE FALSE
    OBVIOUS
  <2>1. LevelOf(mx) = LevelOne(mx.batch)
    BY <1>1 DEF BatchFits, LevelOf, LevelOne
  <2> QED
    BY <2>1 DEF Mixed
<1> DEFINE nx == [mx EXCEPT !.todo = LevelOf(mx), !.pc = pc]
<1>3. /\ nx.pc = pc /\ nx.level = mx.level /\ nx.batch = mx.batch /\ nx.todo = LevelOf(mx)
      /\ nx.pending = mx.pending /\ nx.view = mx.view
  BY DEF MatrixType
<1> HIDE DEF nx
<1>4. LevelOf(nx) = LevelOf(mx)
  BY <1>3 DEF LevelOf
<1>5. ASSUME pc = "commit", mx.level = 1 PROVE \A s \in LevelOne(mx.batch) : Routed(s)
  <2>1. LevelOf(mx) \subseteq DOMAIN alias
    BY <1>5
  <2> QED
    BY <1>1, <1>5, <2>1 DEF BatchFits, LevelOf, LevelOne, Routed
<1>6. BatchFits(nx)
  BY <1>1, <1>2, <1>3, <1>4, <1>5 DEF BatchFits, MatrixType
<1> QED
  BY <1>2, <1>3, <1>6 DEF MatrixFits, nx

(* Taking a shard off the list changes nothing else.                       *)
LEMMA TodoFits ==
    ASSUME NEW mx \in MatrixType, MatrixFits(mx), NEW s
    PROVE  MatrixFits([mx EXCEPT !.todo = @ \ {s}])
<1> DEFINE nx == [mx EXCEPT !.todo = @ \ {s}]
<1>1. /\ nx.pc = mx.pc /\ nx.level = mx.level /\ nx.batch = mx.batch
      /\ nx.todo = mx.todo \ {s} /\ nx.pending = mx.pending /\ nx.view = mx.view
      /\ nx.failed = mx.failed
  BY DEF MatrixType
<1> HIDE DEF nx
<1>2. LevelOf(nx) = LevelOf(mx)
  BY <1>1 DEF LevelOf
<1>3. BatchFits(mx) => BatchFits(nx)
  BY <1>1, <1>2 DEF BatchFits
<1> QED
  BY <1>1, <1>3 DEF MatrixFits, InBatch, nx

(* When the workers of a level have ended, those that ended well are       *)
(* routed, and unless one failed these are all.                            *)
LEMMA CollectFits ==
    ASSUME NEW mx \in MatrixType, MatrixFits(mx), mx.pc = "work",
           NEW S \in SUBSET LevelOf(mx), \A s \in S : Routed(s)
    PROVE  MatrixFits([mx EXCEPT !.pc = "commit", !.todo = S, !.failed = (S # LevelOf(mx))])
<1>1. BatchFits(mx) /\ ~Mixed(mx.batch)
  BY DEF MatrixFits, InBatch, BatchFits
<1> DEFINE nx == [mx EXCEPT !.pc = "commit", !.todo = S, !.failed = (S # LevelOf(mx))]
<1>2. /\ nx.pc = "commit" /\ nx.level = mx.level /\ nx.batch = mx.batch /\ nx.todo = S
      /\ nx.pending = mx.pending /\ nx.view = mx.view /\ nx.failed = (S # LevelOf(mx))
  BY DEF MatrixType
<1> HIDE DEF nx
<1>3. LevelOf(nx) = LevelOf(mx)
  BY <1>2 DEF LevelOf
<1>4. ASSUME S = LevelOf(mx), mx.level = 1 PROVE \A s \in LevelOne(mx.batch) : Routed(s)
  BY <1>1, <1>4 DEF BatchFits, LevelOf, LevelOne
<1>5. BatchFits(nx)
  BY <1>1, <1>2, <1>3, <1>4 DEF BatchFits, MatrixType
<1> QED
  BY <1>2, <1>5 DEF MatrixFits, nx

(* The launch state is loaded again; what it lists is routed.              *)
LEMMA CloseFits ==
    ASSUME FilesAhead, NEW mx \in MatrixType, completed \subseteq Shards,
           MatrixFits(mx), mx.pc = "commit"
    PROVE  MatrixFits(AfterStage([mx EXCEPT !.view = completed]))
<1> DEFINE nx == [mx EXCEPT !.view = completed]
<1>1. /\ nx.pc = "commit" /\ nx.level = mx.level /\ nx.batch = mx.batch /\ nx.todo = mx.todo
      /\ nx.pending = mx.pending /\ nx.view = completed /\ nx.failed = mx.failed
      /\ nx \in MatrixType
  BY DEF MatrixType
<1> HIDE DEF nx
<1>2. LevelOf(nx) = LevelOf(mx)
  BY <1>1 DEF LevelOf
<1>3. BatchFits(nx) /\ ~Mixed(nx.batch)
  BY <1>1, <1>2 DEF MatrixFits, InBatch, BatchFits
<1>4. MatrixFits(nx)
  BY <1>1, <1>3 DEF MatrixFits, FilesAhead
<1>5. ASSUME ~nx.failed PROVE MatrixFits(NextLevel(nx))
  <2>1. \A s \in LevelOne(nx.batch) : Routed(s)
    BY <1>1, <1>3, <1>5 DEF BatchFits
  <2> QED
    BY <1>1, <1>3, <1>4, <2>1, NextLevelFits DEF InBatch
<1> QED
  BY <1>5, OffFits DEF AfterStage, nx

(* The files are the same, the processes fit: that is all AheadInv needs.  *)
LEMMA FilesSame ==
    ASSUME TypeOK, AheadInv, UNCHANGED files
    PROVE  Progresses /\ FilesAhead'
<1>1. Progresses /\ UNCHANGED <<summary, completed>>
  BY DEF files, progress, results, Progresses
<1> QED
  BY <1>1, FilesAheadStays DEF AheadInv

(* No worker is there that was not, and none has newly ended well.         *)
LEMMA WorkersFit ==
    ASSUME AheadInv, Progresses,
           \A m \in Matrices, s \in Shards :
               /\ worker'[m][s] = "ok" => worker[m][s] = "ok"
               /\ worker'[m][s] \in Working => worker[m][s] \in Working
    PROVE  \A m \in Matrices, s \in Shards : WorkerFits(m, s)'
BY WorkerFitsStays DEF AheadInv, Alive

LEMMA IdleFits == FinalizerFits(Idle) /\ Idle \in FinalizerType
BY DEF FinalizerFits, FinalizerType, Idle, Finalizing

LEMMA MatrixAhead ==
    ASSUME TypeOK, AheadInv, NEW m \in Matrices, MatrixNext(m)
    PROVE  AheadInv'
<1>1. Progresses /\ FilesAhead'
  <2>1. UNCHANGED files
    BY DEF MatrixNext, OpenBatch, SkipLevel, RejectStage, StartStage, StartWorker,
           CollectStage, StartFinalizer, CollectFinalizer, CloseStage, MatrixStep
  <2> QED
    BY <2>1, FilesSame
<1> PICK mx \in MatrixType : mx = matrix[m] /\ MatrixFits(mx)
  BY DEF TypeOK, AheadInv
<1>2. Stage(m) = LevelOf(mx)
  BY DEF Stage, LevelOf
<1>3. InBatch(mx) => BatchFits(mx)
  BY DEF MatrixFits
<1>4. matrix' = [matrix EXCEPT ![m] = matrix'[m]]
  BY DEF MatrixNext, OpenBatch, SkipLevel, RejectStage, StartStage, StartWorker,
         CollectStage, StartFinalizer, CollectFinalizer, CloseStage, MatrixStep, TypeOK
<1>5. TypeOK'
  BY MatrixTyped
<1> PICK nx \in MatrixType : nx = matrix'[m]
  BY <1>5 DEF TypeOK
<1>6. ASSUME MatrixFits(nx) PROVE \A n \in Matrices : MatrixFits(matrix[n])'
  BY <1>1, <1>4, <1>6, MatrixPut
<1>7. ASSUME UNCHANGED finalizer PROVE \A n \in Matrices : FinalizerFits(finalizer[n])'
  <2>1. finalizer' = [finalizer EXCEPT ![m] = finalizer[m]]
    BY <1>7 DEF TypeOK
  <2> QED
    BY <1>1, <2>1, FinalizerPut DEF AheadInv, TypeOK
<1>8. ASSUME UNCHANGED worker PROVE \A n \in Matrices, s \in Shards : WorkerFits(n, s)'
  BY <1>1, <1>8, WorkersFit
<1>9. CASE OpenBatch(m)
  <2>1. nx = IF mx.batch > Len(Batches) THEN Off
             ELSE [mx EXCEPT !.pc = "level", !.pending = Batches[mx.batch] \ mx.view]
    BY <1>9 DEF OpenBatch, MatrixStep, TypeOK
  <2>2. mx.batch > Len(Batches) \/ mx.batch <= Len(Batches)
    BY DEF MatrixType, MatrixSupervisorAssumption
  <2>3. mx.pc = "open"
    BY <1>9 DEF OpenBatch
  <2>4. MatrixFits(nx)
    <3>1. CASE mx.batch > Len(Batches)
      BY <2>1, <3>1, OffFits
    <3>2. CASE ~(mx.batch > Len(Batches))
      <4>1. mx.batch <= Len(Batches)
        BY <2>2, <3>2
      <4>2. MatrixFits([mx EXCEPT !.pc = "level", !.pending = Batches[mx.batch] \ mx.view])
        BY <2>3, <4>1, OpenFits
      <4> QED
        BY <2>1, <3>2, <4>2
    <3> QED
      BY <3>1, <3>2
  <2> QED
    BY <1>1, <1>6, <1>7, <1>8, <1>9, <2>4 DEF OpenBatch, AheadInv
<1>10. CASE SkipLevel(m)
  <2>1. ~Mixed(mx.batch) /\ \A s \in LevelOne(mx.batch) : Routed(s)
    <3>1. BatchFits(mx) /\ LevelOf(mx) = {}
      BY <1>2, <1>3, <1>10 DEF SkipLevel, InBatch
    <3>2. CASE mx.level = 1
      <4>1. LevelOne(mx.batch) \intersect mx.pending = {}
        BY <3>1, <3>2 DEF LevelOf, LevelOne
      <4> QED
        BY <3>1, <4>1, BatchFacts DEF BatchFits
    <3>3. CASE mx.level # 1
      BY <3>1, <3>3 DEF BatchFits, MatrixType
    <3> QED
      BY <3>2, <3>3
  <2>2. MatrixFits(nx)
    BY <1>10, <2>1, NextLevelFits DEF SkipLevel, MatrixStep, InBatch, TypeOK
  <2> QED
    BY <1>1, <1>6, <1>7, <1>8, <1>10, <2>2 DEF SkipLevel, AheadInv
<1>11. CASE RejectStage(m)
  <2>1. MatrixFits(nx)
    BY <1>11, OffFits DEF RejectStage, MatrixStep, TypeOK
  <2> QED
    BY <1>1, <1>6, <1>7, <1>8, <1>11, <2>1 DEF RejectStage, AheadInv
<1>12. CASE StartStage(m)
  <2>1. MatrixFits(nx)
    BY <1>2, <1>12, StartFits DEF StartStage, Aliases, MatrixStep, TypeOK
  <2> QED
    BY <1>1, <1>6, <1>7, <1>8, <1>12, <2>1 DEF StartStage, AheadInv
<1>13. CASE StartWorker(m)
  <2>1. PICK s \in mx.todo :
          /\ worker' = [worker EXCEPT ![m][s] = "start"]
          /\ nx = [mx EXCEPT !.todo = @ \ {s}]
    BY <1>13 DEF StartWorker, MatrixStep, TypeOK
  <2>2. MatrixFits(nx)
    <3>1. MatrixFits([mx EXCEPT !.todo = @ \ {s}])
      BY TodoFits
    <3> QED
      BY <2>1, <3>1
  <2>3. /\ mx.pc = "work" /\ BatchFits(mx) /\ s \in LevelOf(mx) /\ s \in Shards
        /\ s \in Batches[mx.batch] /\ ~Mixed(mx.batch) /\ mx.batch \in DOMAIN Batches
    BY <1>3, <1>13, <2>1, BatchFacts DEF StartWorker, InBatch, BatchFits, LevelOf
  <2>4. ASSUME Config[s] = "full" PROVE RouteOwner(s) \in Shards /\ made[RouteOwner(s)] >= 1
    <3>1. \A r \in LevelOne(mx.batch) : Routed(r)
      BY <2>3, <2>4 DEF BatchFits, LevelOf
    <3>2. BatchOf(s) = mx.batch
      BY <2>3, BatchFacts DEF BatchOf
    <3>3. RouteOwner(s) \in Batches[mx.batch] /\ Config[RouteOwner(s)] = "s1s2"
      BY <2>3, <2>4, <3>2, BatchAssumption DEF RouteOwner
    <3>4. RouteOwner(s) \in LevelOne(mx.batch)
      BY <3>3 DEF LevelOne
    <3>5. RouteOwner(s) \notin DOMAIN alias
      <4>1. PICK d \in Batches[mx.batch] : Config[d] # "full" /\ d \notin DOMAIN alias
        BY <2>3, <3>3, BatchAssumption DEF TypeOK
      <4> QED
        BY <2>3, <3>4, <4>1 DEF Mixed, LevelOne
    <3> QED
      BY <2>3, <3>1, <3>3, <3>4, <3>5, BatchFacts DEF Routed
  <2>5. ASSUME NEW n \in Matrices, NEW r \in Shards PROVE WorkerFits(n, r)'
    <3>1. CASE n = m /\ r = s
      <4>1. worker'[m][s] = "start"
        BY <2>1, <2>3 DEF TypeOK
      <4> QED
        BY <1>1, <2>4, <3>1, <4>1 DEF WorkerFits, Progresses, RouteOwner, BatchOf
    <3>2. CASE ~(n = m /\ r = s)
      <4>1. worker'[n][r] = worker[n][r]
        BY <2>1, <3>2 DEF TypeOK
      <4> QED
        BY <1>1, <4>1, WorkerFitsStays DEF AheadInv, Alive
    <3> QED
      BY <3>1, <3>2
  <2> QED
    BY <1>1, <1>6, <1>7, <1>13, <2>2, <2>5 DEF StartWorker, AheadInv
<1>14. CASE CollectStage(m)
  <2>1. Succeeded(m) \subseteq LevelOf(mx)
    BY <1>2, <1>14 DEF CollectStage, Succeeded, Ended
  <2>2. \A s \in Succeeded(m) : Routed(s)
    BY DEF Succeeded, AheadInv, WorkerFits, Routed
  <2>3. MatrixFits(nx)
    BY <1>2, <1>14, <2>1, <2>2, CollectFits DEF CollectStage, MatrixStep, TypeOK
  <2>4. \A n \in Matrices, s \in Shards : WorkerFits(n, s)'
    BY <1>1, <1>14, WorkersFit DEF CollectStage, Working, TypeOK
  <2> QED
    BY <1>1, <1>6, <1>7, <1>14, <2>3, <2>4 DEF CollectStage, AheadInv
<1>15. CASE StartFinalizer(m)
  <2>1. PICK s \in mx.todo :
          \/ /\ finalizer' = [finalizer EXCEPT ![m] = [Idle EXCEPT !.pc = "load", !.shard = s]]
             /\ nx = mx
          \/ nx = Off /\ UNCHANGED finalizer
    BY <1>15 DEF StartFinalizer, MatrixStep, TypeOK
  <2>2. MatrixFits(nx)
    BY <2>1, OffFits
  <2>3. s \in Shards /\ \A b \in DOMAIN Batches : Mixed(b) => s \notin LevelOne(b)
    <3>1. /\ s \in Batches[mx.batch] /\ ~Mixed(mx.batch) /\ mx.batch \in DOMAIN Batches
      BY <1>3, <1>15, <2>1 DEF StartFinalizer, InBatch, BatchFits, LevelOf
    <3> QED
      BY <3>1, BatchFacts
  <2> DEFINE f == [Idle EXCEPT !.pc = "load", !.shard = s]
  <2>4. f.pc = "load" /\ f.shard = s /\ f \in FinalizerType
    BY <2>3 DEF Idle, FinalizerType, Finalizing
  <2> HIDE DEF f
  <2>5. FinalizerFits(f)
    BY <2>3, <2>4 DEF FinalizerFits
  <2>6. \A n \in Matrices : FinalizerFits(finalizer[n])'
    BY <1>1, <1>7, <2>1, <2>4, <2>5, FinalizerPut DEF f
  <2> QED
    BY <1>1, <1>6, <1>8, <1>15, <2>2, <2>6 DEF StartFinalizer, AheadInv
<1>16. CASE CollectFinalizer(m)
  <2>1. MatrixFits(nx)
    BY <1>16, TodoFits, OffFits DEF CollectFinalizer, MatrixStep, TypeOK
  <2>2. \A n \in Matrices : FinalizerFits(finalizer[n])'
    BY <1>1, <1>16, IdleFits, FinalizerPut DEF CollectFinalizer
  <2> QED
    BY <1>1, <1>6, <1>8, <1>16, <2>1, <2>2 DEF CollectFinalizer, AheadInv
<1>17. CASE CloseStage(m)
  <2>1. MatrixFits(nx)
    BY <1>17, CloseFits DEF CloseStage, MatrixStep, TypeOK, AheadInv
  <2> QED
    BY <1>1, <1>6, <1>7, <1>8, <1>17, <2>1 DEF CloseStage, AheadInv
<1> QED
  BY <1>9, <1>10, <1>11, <1>12, <1>13, <1>14, <1>15, <1>16, <1>17 DEF MatrixNext

(* An answered member has its first checkpoint.                            *)
LEMMA AnsweredRouted == ASSUME NEW s \in Shards, Answered(s) PROVE made[s] >= 1
<1>1. Config[s] \in {"noskill", "llm_static", "s1", "s1s2", "full"}
  BY DEF MatrixSupervisorAssumption
<1>2. Len(Calls(s)) \in {1, 2}
  BY <1>1 DEF Calls
<1>3. made[s] \in {1, 2}
  BY <1>2 DEF Answered
<1> QED
  BY <1>3

(* What does not touch matrices and finalizers leaves them fitting.        *)
LEMMA OthersFit ==
    ASSUME TypeOK, AheadInv, Progresses
    PROVE  /\ UNCHANGED matrix => \A m \in Matrices : MatrixFits(matrix[m])'
           /\ UNCHANGED finalizer => \A m \in Matrices : FinalizerFits(finalizer[m])'
<1>1. ASSUME UNCHANGED matrix, NEW m \in Matrices PROVE MatrixFits(matrix[m])'
  <2>1. matrix' = [matrix EXCEPT ![m] = matrix[m]]
    BY <1>1 DEF TypeOK
  <2> QED
    BY <2>1, MatrixPut DEF AheadInv, TypeOK
<1>2. ASSUME UNCHANGED finalizer, NEW m \in Matrices PROVE FinalizerFits(finalizer[m])'
  <2>1. finalizer' = [finalizer EXCEPT ![m] = finalizer[m]]
    BY <1>2 DEF TypeOK
  <2> QED
    BY <2>1, FinalizerPut DEF AheadInv, TypeOK
<1> QED
  BY <1>1, <1>2

LEMMA WorkerAhead ==
    ASSUME TypeOK, AheadInv, NEW m \in Matrices, NEW s \in Shards, WorkerNext(m, s)
    PROVE  AheadInv'
<1>1. Progresses
  <2>1. UNCHANGED alias
    BY DEF WorkerNext, WorkerStarts, WorkerStops, WorkerReserves, WorkerFindsOrphan,
           WorkerFails, WorkerSettles, WorkerSaves, WorkerSummarises, WorkerStep
  <2>2. WorkerSaves(m, s) \/ UNCHANGED made
    BY DEF WorkerNext, WorkerStarts, WorkerStops, WorkerReserves, WorkerFindsOrphan,
           WorkerFails, WorkerSettles, WorkerSummarises, progress
  <2>3. WorkerSaves(m, s) => made' = [made EXCEPT ![s] = @ + 1]
    BY DEF WorkerSaves
  <2>4. made \in [Shards -> Nat]
    BY DEF TypeOK
  <2>5. \A r \in Shards : made[r] >= 1 => made'[r] >= 1
    <3>1. CASE UNCHANGED made
      BY <3>1
    <3>2. CASE made' = [made EXCEPT ![s] = @ + 1]
      BY <2>4, <3>2
    <3> QED
      BY <2>2, <2>3, <3>1, <3>2
  <2> QED
    BY <2>1, <2>5 DEF Progresses
<1>2. UNCHANGED <<matrix, finalizer, completed>>
  BY DEF WorkerNext, WorkerStarts, WorkerStops, WorkerReserves, WorkerFindsOrphan,
         WorkerFails, WorkerSettles, WorkerSaves, WorkerSummarises, WorkerStep, results
<1>3. ASSUME ~WorkerSummarises(m, s) PROVE FilesAhead'
  <2>1. UNCHANGED summary
    BY <1>3 DEF WorkerNext, WorkerStarts, WorkerStops, WorkerReserves, WorkerFindsOrphan,
           WorkerFails, WorkerSettles, WorkerSaves, WorkerStep, results
  <2> QED
    BY <1>1, <1>2, <2>1, FilesAheadStays DEF AheadInv
<1>4. ASSUME WorkerSummarises(m, s) PROVE FilesAhead' /\ made'[s] >= 1
  <2>1. made'[s] >= 1 /\ \A r \in Shards : r # s => summary'[r] = summary[r]
    BY <1>4, AnsweredRouted DEF WorkerSummarises, progress, TypeOK
  <2>2. \A r \in completed : Routed(r)'
    BY <1>1, RoutedStays DEF AheadInv, FilesAhead, TypeOK
  <2> QED
    BY <1>1, <1>2, <2>1, <2>2 DEF AheadInv, FilesAhead, Progresses, Mixed, LevelOne
<1>5. \A n \in Matrices, r \in Shards : WorkerFits(n, r)'
  <2>1. worker[m][s] \in Working
    BY DEF WorkerNext, WorkerStarts, WorkerStops, WorkerReserves, WorkerFindsOrphan,
           WorkerFails, WorkerSettles, WorkerSaves, WorkerSummarises, Working
  <2>2. PICK pc : /\ worker' = [worker EXCEPT ![m][s] = pc]
                  /\ pc = "ok" => WorkerSummarises(m, s)
    <3>1. CASE WorkerSummarises(m, s)
      BY <3>1 DEF WorkerSummarises
    <3>2. ASSUME NEW q, q # "ok", worker' = [worker EXCEPT ![m][s] = q]
          PROVE  \E pc : /\ worker' = [worker EXCEPT ![m][s] = pc]
                         /\ pc = "ok" => WorkerSummarises(m, s)
      BY <3>2
    <3>3. CASE WorkerStarts(m, s) \/ WorkerStops(m, s) \/ WorkerFindsOrphan(m, s)
                 \/ WorkerFails(m, s)
      <4>1. Left(m, "failed") # "ok" /\ "run" # "ok"
        BY Ending
      <4> QED
        BY <3>2, <3>3, <4>1 DEF WorkerStarts, WorkerStops, WorkerFindsOrphan,
           WorkerFails, WorkerStep
    <3>4. CASE WorkerReserves(m, s) \/ WorkerSettles(m, s) \/ WorkerSaves(m, s)
      BY <3>2, <3>4 DEF WorkerReserves, WorkerSettles, WorkerSaves, WorkerStep
    <3> QED
      BY <3>1, <3>3, <3>4 DEF WorkerNext
  <2>3. /\ worker'[m][s] = pc
        /\ \A n \in Matrices, r \in Shards :
             ~(n = m /\ r = s) => worker'[n][r] = worker[n][r]
    BY <2>2 DEF TypeOK
  <2>4. WorkerFits(m, s)'
    BY <1>1, <1>4, <2>1, <2>2, <2>3 DEF AheadInv, WorkerFits, Alive, Progresses, RouteOwner, BatchOf
  <2>5. ASSUME NEW n \in Matrices, NEW r \in Shards, ~(n = m /\ r = s)
        PROVE  WorkerFits(n, r)'
    BY <1>1, <2>3, <2>5, WorkerFitsStays DEF AheadInv, Alive
  <2> QED
    BY <2>4, <2>5
<1> QED
  BY <1>1, <1>2, <1>3, <1>4, <1>5, OthersFit DEF AheadInv

LEMMA FinalizerAhead ==
    ASSUME TypeOK, AheadInv, NEW m \in Matrices, FinalizerNext(m)
    PROVE  AheadInv'
<1>1. Progresses /\ UNCHANGED <<matrix, worker>>
  BY DEF FinalizerNext, FinalizerLoads, FinalizerRefreshes, FinalizerAudits,
         FinalizerCommits, FinalizerStep, progress, Progresses
<1> PICK f \in FinalizerType : f = finalizer[m] /\ FinalizerFits(f)
  BY DEF TypeOK, AheadInv
<1>2. TypeOK'
  BY FinalizerTyped
<1> PICK g \in FinalizerType : g = finalizer'[m]
  BY <1>2 DEF TypeOK
<1>3. finalizer' = [finalizer EXCEPT ![m] = g]
  BY DEF FinalizerNext, FinalizerLoads, FinalizerRefreshes, FinalizerAudits,
         FinalizerCommits, FinalizerStep, TypeOK
<1>4. \A n \in Matrices, s \in Shards : WorkerFits(n, s)'
  BY <1>1, WorkersFit
<1>5. ASSUME FinalizerFits(g), FilesAhead' PROVE AheadInv'
  BY <1>1, <1>3, <1>4, <1>5, FinalizerPut, OthersFit DEF AheadInv
<1>6. ASSUME NEW code \in {"ok", "failed"}, g = Finalized(m, code) PROVE FinalizerFits(g)
  <2>1. g.pc \in {"none", "ok", "failed"}
    BY <1>6, Ending
  <2> QED
    BY <2>1 DEF FinalizerFits, Finalizing
<1>7. ASSUME g.pc \in {"audit", "state"}, g.view = f.view, g.shard = f.shard,
             f.pc \in {"tail", "audit"}
      PROVE  FinalizerFits(g)
  BY <1>7 DEF FinalizerFits, Finalizing
<1>8. CASE FinalizerLoads(m)
  <2>1. FilesAhead'
    BY <1>1, <1>8, FilesAheadStays DEF FinalizerLoads, results, AheadInv
  <2>2. CASE g = Finalized(m, "failed")
    BY <1>5, <1>6, <2>1, <2>2
  <2>3. CASE g # Finalized(m, "failed")
    <3>1. /\ f.pc = "load" /\ g.view = completed /\ g.shard = f.shard /\ f.shard \in Shards
          /\ g.pc \in {"audit", "tail"}
          /\ g.pc = "tail" => summary[f.shard] # NoFile
          /\ g.pc = "audit" => f.shard \in DOMAIN alias
      BY <1>8, <2>3 DEF FinalizerLoads, FinalizerStep, TypeOK, FinalizerType
    <3>2. g.pc = "tail" => made[g.shard] >= 1
      BY <3>1 DEF AheadInv, FilesAhead
    <3>3. FinalizerFits(g)
      BY <3>1, <3>2 DEF AheadInv, FilesAhead, FinalizerFits, Finalizing, Routed
    <3> QED
      BY <1>5, <2>1, <3>3
  <2> QED
    BY <2>2, <2>3
<1>9. CASE FinalizerRefreshes(m)
  <2>1. /\ f.pc = "tail" /\ f.shard \in Shards /\ UNCHANGED completed
        /\ \A s \in Shards : s # f.shard => summary'[s] = summary[s]
    BY <1>9 DEF FinalizerRefreshes, TypeOK, FinalizerType
  <2>2. made'[f.shard] >= 1
    BY <1>1, <2>1 DEF FinalizerFits, Progresses
  <2>3. \A s \in completed : Routed(s)'
    BY <1>1, RoutedStays DEF AheadInv, FilesAhead, TypeOK
  <2>4. FilesAhead'
    BY <1>1, <2>1, <2>2, <2>3 DEF AheadInv, FilesAhead, Progresses, Mixed, LevelOne
  <2>5. g = Finalized(m, "failed") \/ g = [f EXCEPT !.pc = "audit"]
    BY <1>9 DEF FinalizerRefreshes, FinalizerStep, TypeOK
  <2> QED
    BY <1>5, <1>6, <1>7, <2>1, <2>4, <2>5 DEF FinalizerType
<1>10. CASE FinalizerAudits(m)
  <2>1. f.pc = "audit" /\ (g = Finalized(m, "failed") \/ g = [f EXCEPT !.pc = "state"])
    BY <1>10 DEF FinalizerAudits, FinalizerStep, TypeOK
  <2>2. FilesAhead'
    BY <1>1, <1>10, FilesAheadStays DEF FinalizerAudits, AheadInv
  <2> QED
    BY <1>5, <1>6, <1>7, <2>1, <2>2 DEF FinalizerType
<1>11. CASE FinalizerCommits(m)
  <2>1. /\ f.pc = "state" /\ UNCHANGED summary
        /\ \/ g = Finalized(m, "failed") /\ UNCHANGED completed
           \/ g = Finalized(m, "ok") /\ completed' = f.view \union {f.shard}
    BY <1>11 DEF FinalizerCommits, FinalizerStep, TypeOK
  <2>2. CASE UNCHANGED completed
    BY <1>1, <1>5, <1>6, <2>1, <2>2, FilesAheadStays DEF AheadInv
  <2>3. CASE completed' = f.view \union {f.shard}
    <3>1. \A s \in completed' : Routed(s) /\ s \in Shards
      BY <2>1, <2>3 DEF FinalizerFits, FinalizerType
    <3>2. \A s \in completed' : Routed(s)'
      BY <1>1, <3>1, RoutedStays
    <3>3. \A b \in DOMAIN Batches : Mixed(b) => LevelOne(b) \intersect completed' = {}
      BY <2>1, <2>3 DEF FinalizerFits, Finalizing
    <3>4. FilesAhead'
      BY <1>1, <2>1, <3>2, <3>3 DEF AheadInv, FilesAhead, Progresses, Mixed, LevelOne
    <3> QED
      BY <1>5, <1>6, <2>1, <3>4
  <2> QED
    BY <2>1, <2>2, <2>3
<1> QED
  BY <1>8, <1>9, <1>10, <1>11 DEF FinalizerNext

LEMMA MonitorAhead == ASSUME TypeOK, AheadInv, MonitorNext \/ MonitorStops PROVE AheadInv'
<1>1. UNCHANGED <<files, worker, finalizer>>
  BY DEF MonitorNext, MonitorScans, MonitorExits, MonitorWaits, MonitorStartsMatrix,
         MonitorStops, Stop
<1>2. Progresses /\ FilesAhead'
  BY <1>1, FilesSame
<1>3. \A m \in Matrices, s \in Shards : WorkerFits(m, s)'
  BY <1>1, <1>2, WorkersFit
<1>4. \A m \in Matrices : MatrixFits(matrix[m])'
  <2>1. CASE UNCHANGED matrix
    BY <1>2, <2>1, OthersFit
  <2>2. CASE MonitorStartsMatrix
    <3> DEFINE mx == [Off EXCEPT !.pc = "open", !.view = completed]
    <3>1. PICK m \in Matrices : matrix' = [matrix EXCEPT ![m] = mx]
      BY <2>2 DEF MonitorStartsMatrix
    <3>2. /\ mx.pc = "open" /\ mx.level = 1 /\ mx.view = completed
          /\ mx \in MatrixType
      <4>1. Off \in MatrixType /\ Off.level = 1 /\ completed \in SUBSET Shards
        BY DEF Off, MatrixType, TypeOK
      <4> QED
        BY <4>1 DEF MatrixType
    <3> HIDE DEF mx
    <3>3. MatrixFits(mx)
      BY <3>2 DEF AheadInv, FilesAhead, MatrixFits, InBatch
    <3> QED
      BY <1>2, <3>1, <3>2, <3>3, MatrixPut
  <2> QED
    BY <2>1, <2>2 DEF MonitorNext, MonitorScans, MonitorExits, MonitorWaits, MonitorStops
<1> QED
  BY <1>1, <1>2, <1>3, <1>4, OthersFit DEF AheadInv

(* A process that dies takes nothing with it that the others rely on.      *)
LEMMA StopAhead ==
    ASSUME TypeOK, AheadInv, NEW m \in Matrices,
           \/ MatrixStops(m) \/ FinalizerCrashes(m)
           \/ \E s \in Shards : WorkerCrashes(m, s)
    PROVE  AheadInv'
<1>1. Progresses /\ FilesAhead'
  <2>1. UNCHANGED files
    BY DEF MatrixStops, FinalizerCrashes, WorkerCrashes, Stop
  <2> QED
    BY <2>1, FilesSame
<1>2. CASE MatrixStops(m)
  <2>1. \A n \in Matrices : MatrixFits(matrix[n])'
    <3>1. Off \in MatrixType
      BY DEF Off, MatrixType
    <3> QED
      BY <1>1, <1>2, <3>1, OffFits, MatrixPut DEF MatrixStops
  <2>2. \A n \in Matrices, s \in Shards : WorkerFits(n, s)'
    BY <1>1, <1>2, WorkersFit DEF MatrixStops, Forget, Working, TypeOK
  <2>3. \A n \in Matrices : FinalizerFits(finalizer[n])'
    <3>1. PICK f \in {finalizer[m], Idle} : finalizer' = [finalizer EXCEPT ![m] = f]
      BY <1>2 DEF MatrixStops
    <3>2. f \in FinalizerType /\ FinalizerFits(f)
      BY IdleFits DEF AheadInv, TypeOK
    <3> QED
      BY <1>1, <3>1, <3>2, FinalizerPut
  <2> QED
    BY <1>1, <2>1, <2>2, <2>3 DEF AheadInv
<1>3. CASE FinalizerCrashes(m)
  <2> DEFINE f == Finalized(m, "failed")
  <2>1. f.pc \in {"none", "failed"} /\ f \in FinalizerType
    <3>1. Idle \in FinalizerType /\ finalizer[m].shard \in Shards
      BY IdleFits DEF TypeOK, FinalizerType
    <3> QED
      BY <3>1, Ending DEF Finalized, Left, FinalizerType
  <2>2. finalizer' = [finalizer EXCEPT ![m] = f] /\ UNCHANGED <<matrix, worker>>
    BY <1>3 DEF FinalizerCrashes
  <2> HIDE DEF f
  <2>3. FinalizerFits(f)
    BY <2>1 DEF FinalizerFits, Finalizing
  <2> QED
    BY <1>1, <2>1, <2>2, <2>3, FinalizerPut, WorkersFit, OthersFit DEF AheadInv
<1>4. ASSUME NEW s \in Shards, WorkerCrashes(m, s) PROVE AheadInv'
  <2>1. UNCHANGED <<matrix, finalizer>>
    BY <1>4 DEF WorkerCrashes
  <2>2. \A n \in Matrices, r \in Shards : WorkerFits(n, r)'
    BY <1>1, <1>4, Ending, WorkersFit DEF WorkerCrashes, Working, TypeOK
  <2> QED
    BY <1>1, <2>1, <2>2, OthersFit DEF AheadInv
<1> QED
  BY <1>2, <1>3, <1>4

(* A worker of configuration full that is at its first call finds the      *)
(* route its owner has made, whichever processes died, however often the   *)
(* matrix was started again, and whichever shards are aliases.             *)
THEOREM RouteFound == Spec => []FullFindsRoute
<1>1. Init => AheadInv
  <2> SUFFICES ASSUME Init PROVE AheadInv
    OBVIOUS
  <2>1. FilesAhead
    BY DEF Init, FilesAhead
  <2>2. \A m \in Matrices : MatrixFits(matrix[m]) /\ FinalizerFits(finalizer[m])
    BY OffFits, IdleFits DEF Init
  <2>3. \A m \in Matrices, s \in Shards : WorkerFits(m, s)
    BY DEF Init, WorkerFits, Alive, Working
  <2> QED
    BY <2>1, <2>2, <2>3 DEF AheadInv
<1>2. TypeOK /\ AheadInv /\ [Next]_vars => AheadInv'
  <2> SUFFICES ASSUME TypeOK, AheadInv, [Next]_vars PROVE AheadInv'
    OBVIOUS
  <2>1. CASE Next
    BY <2>1, MonitorAhead, MatrixAhead, WorkerAhead, FinalizerAhead, StopAhead DEF Next
  <2>2. CASE UNCHANGED vars
    <3>1. UNCHANGED <<files, matrix, worker, finalizer>>
      BY <2>2 DEF vars
    <3> QED
      BY <3>1, FilesSame, WorkersFit, OthersFit DEF AheadInv
  <2> QED
    BY <2>1, <2>2
<1>3. AheadInv => FullFindsRoute
  BY DEF AheadInv, WorkerFits, FullFindsRoute, RouteReady, Alive, Working
<1> QED
  BY <1>1, <1>2, <1>3, TypeCorrect, PTL DEF Spec
=============================================================================
