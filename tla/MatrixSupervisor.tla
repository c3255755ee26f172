-------------------------- MODULE MatrixSupervisor --------------------------
(***************************************************************************)
(* The processes that execute a Portfolio matrix: the monitor that keeps   *)
(* one matrix process running, the matrix that starts a worker per shard   *)
(* and a finalizer per finished shard, and those workers and finalizers    *)
(* (scripts/monitor_portfolio_execution.py, run_portfolio_matrix.py with a *)
(* parallel profile, run_portfolio_shard.py, finalize_portfolio_shard.py). *)
(*                                                                         *)
(* A matrix can end while its children run on: they belong to nobody then, *)
(* and the monitor finds them only by looking through the process table.   *)
(* What the processes share is files: the budget ledger, the checkpoints,  *)
(* each shard's summary and audit, and run-state.json, which a finalizer   *)
(* reads when it starts and replaces when it ends.  The steps inside the   *)
(* ledger are those of BudgetLedger; here it is the number of its events,  *)
(* and every call costs one unit.                                          *)
(***************************************************************************)
EXTENDS Integers, Sequences, FiniteSets

CONSTANTS
    Shards,
    Batches,      \* the shards of each accepted batch, in launch order
    Plan,         \* launch.plan.shards: all of them, in order
    Config,       \* the configuration of each shard
    Controls,     \* what execution_artifact_aliases may say: the source shard
                  \* of each aliased shard
    WorkerCount,  \* profile.worker_count
    Cap,          \* phase_cap_cny, in calls
    MaxAttempts,  \* PORTFOLIO_MAX_RETRYABLE_ATTEMPTS_PER_QUERY
    MaxRestarts,  \* --max-restarts of the monitor
    Matrices,     \* names for matrix processes
    MaxStops      \* bound: processes that end before their time

CONSTANT NoFile

ASSUME MatrixSupervisorAssumption ==
    /\ Plan \in Seq(Shards) \ {<<>>} /\ {Plan[i] : i \in DOMAIN Plan} = Shards
    /\ Batches \in Seq(SUBSET Shards)
    /\ Config \in [Shards -> {"noskill", "llm_static", "s1", "s1s2", "full"}]
    /\ \A c \in Controls :
         DOMAIN c \subseteq Shards /\ \A s \in DOMAIN c : c[s] \in Shards
    /\ {WorkerCount, Cap, MaxAttempts, MaxRestarts} \subseteq Nat \ {0}
    /\ MaxStops \in Nat /\ NoFile \notin Nat /\ IsFiniteSet(Shards)

(* A batch crosses its queries with all configurations of the execution;   *)
(* only s1, s1s2 and full can be rolled back, so where there is a shard    *)
(* s1s2 there is one below full that no control aliases.                   *)
ASSUME BatchAssumption ==
    /\ \A a, b \in DOMAIN Batches : a # b => Batches[a] \intersect Batches[b] = {}
    /\ \A b \in DOMAIN Batches : \A s \in Batches[b] :
         Config[s] = "full" => \E o \in Batches[b] : Config[o] = "s1s2"
    /\ \A b \in DOMAIN Batches, c \in Controls : \A s \in Batches[b] :
         Config[s] = "s1s2" =>
            \E d \in Batches[b] : Config[d] # "full" /\ d \notin DOMAIN c

VARIABLES
    alias,      \* the aliases of this execution's control
    calls,      \* reservations in the ledger
    ledger,     \* last_event_index: reservations and what ended them
    lost,       \* reservations nothing will ever end
    receipts,   \* attempt receipts of each shard's member
    made,       \* checkpoints of each shard: shared route, answer
    call,       \* the identity of the next call of each shard in the ledger
    summary,    \* shard-summary.json: the ledger index it was taken at
    audit,      \* shard-audit.json (artifact-alias.json): the index it binds
    completed,  \* completed_shard_ids of run-state.json
    monitor,    \* the monitor process
    matrix,     \* matrix processes
    worker,     \* shard workers of each matrix
    finalizer,  \* the finalizer of each matrix
    stops

budget == <<calls, ledger, lost>>
progress == <<receipts, made, call>>
results == <<summary, audit, completed>>
files == <<alias, budget, progress, results>>
vars == <<files, monitor, matrix, worker, finalizer, stops>>

Working == {"start", "run", "call", "answer"}
Finalizing == {"load", "tail", "audit", "state"}
Exits == {"complete", "capped", "stuck", "limit"}
Index == Nat \union {NoFile}

Off == [pc |-> "off", batch |-> 1, level |-> 1, pending |-> {}, view |-> {},
        todo |-> {}, failed |-> FALSE]
Idle == [pc |-> "none", shard |-> Plan[1], view |-> {}, index |-> 0]
Fresh == [pc |-> "scan", restarts |-> 0, last |-> <<0, 0>>,
          matrix |-> FALSE, worker |-> FALSE]

Alive(m, s) == worker[m][s] \in Working
FinalizerAlive(m) == finalizer[m].pc \in Finalizing
MatrixAlive(m) == matrix[m].pc # "off"
Unused(m) ==
    ~MatrixAlive(m) /\ ~FinalizerAlive(m) /\ \A s \in Shards : ~Alive(m, s)

FirstOf(S, s) ==
    s \in S /\ \A i, j \in DOMAIN Plan : Plan[i] = s /\ Plan[j] \in S => i <= j
BatchOf(s) == CHOOSE b \in DOMAIN Batches : s \in Batches[b]
RouteOwner(s) ==
    CHOOSE o \in Batches[BatchOf(s)] : Config[o] = "s1s2"
(* The first call of each checkpoint of a member: with s1s2 the shared     *)
(* route, then the answer.                                                 *)
Calls(s) ==
    CASE Config[s] = "s1s2" -> <<"route", "action">>
      [] Config[s] \in {"noskill", "full"} -> <<"action">>
      [] OTHER -> <<"route">>
Answered(s) == made[s] = Len(Calls(s))

Init ==
    /\ alias \in Controls
    /\ calls = 0 /\ ledger = 0 /\ lost = 0
    /\ receipts = [s \in Shards |-> 0]
    /\ made = [s \in Shards |-> 0]
    /\ call = [s \in Shards |-> "none"]
    /\ summary = [s \in Shards |-> NoFile]
    /\ audit = [s \in Shards |-> NoFile]
    /\ completed = {}
    /\ monitor = Fresh
    /\ matrix = [m \in Matrices |-> Off]
    /\ worker = [m \in Matrices |-> [s \in Shards |-> "none"]]
    /\ finalizer = [m \in Matrices |-> Idle]
    /\ stops = 0

-----------------------------------------------------------------------------
(* The monitor: _matrix_processes, then _active_worker_processes, then the *)
(* status of the execution, then what to do about it.                      *)
(* Bug: the process table is searched for run_portfolio_shard.py alone.    *)
ShardWorkerFound == \E m \in Matrices, s \in Shards : Alive(m, s)

WorkerFound ==
    \E m \in Matrices : FinalizerAlive(m) \/ \E s \in Shards : Alive(m, s)

MatrixFound == \E m \in Matrices : MatrixAlive(m)

(* Bug: workers are looked for first, matrix processes after them.         *)
ScannedWorkersFirst ==
    IF monitor.pc = "scan"
    THEN [monitor EXCEPT !.pc = "look", !.worker = WorkerFound]
    ELSE [monitor EXCEPT !.pc = "act", !.matrix = MatrixFound]

Scanned ==
    IF monitor.pc = "scan"
    THEN [monitor EXCEPT !.pc = "look", !.matrix = MatrixFound]
    ELSE [monitor EXCEPT !.pc = "act", !.worker = WorkerFound]

MonitorScans ==
    /\ monitor.pc \in {"scan", "look"}
    /\ monitor' = Scanned
    /\ UNCHANGED <<files, matrix, worker, finalizer, stops>>

Unresolved == lost + Cardinality({s \in Shards : call[s] = "reserved"})
Complete == completed = Shards /\ Unresolved = 0
ProgressKey == <<Cardinality(completed), ledger>>

(* _no_progress_recovery_required                                          *)
NoProgress == monitor.restarts > 0 /\ monitor.last = ProgressKey

(* Bug: the restart just made is not counted.                              *)
Uncounted == monitor.restarts

Counted == monitor.restarts + 1

Decision ==
    IF Complete THEN "complete"
    ELSE IF calls >= Cap THEN "capped"
    ELSE IF monitor.matrix \/ monitor.worker THEN "wait"
    ELSE IF NoProgress THEN "stuck"
    ELSE IF monitor.restarts >= MaxRestarts THEN "limit"
    ELSE "start"

MonitorExits ==
    /\ monitor.pc = "act" /\ Decision \in Exits
    /\ monitor' = [Fresh EXCEPT !.pc = Decision]
    /\ UNCHANGED <<files, matrix, worker, finalizer, stops>>

(* A matrix runs, or children of one that is gone do: sleep and look again.*)
MonitorWaits ==
    /\ monitor.pc = "act" /\ Decision = "wait"
    /\ monitor' =
         [Fresh EXCEPT !.restarts = monitor.restarts, !.last = monitor.last]
    /\ UNCHANGED <<files, matrix, worker, finalizer, stops>>

(* _start_matrix; the new process loads control and launch package.        *)
MonitorStartsMatrix ==
    /\ monitor.pc = "act" /\ Decision = "start"
    /\ monitor' = [Fresh EXCEPT !.restarts = Counted, !.last = ProgressKey]
    /\ \E m \in Matrices :
         /\ Unused(m)
         /\ matrix' = [matrix EXCEPT ![m] =
                         [Off EXCEPT !.pc = "open", !.view = completed]]
    /\ UNCHANGED <<files, worker, finalizer, stops>>

-----------------------------------------------------------------------------
(* The matrix: _run_parallel_matrix.  Batch by batch, first the shards of  *)
(* the batch that are not of configuration full, then the one that is.     *)
(* `view' is the launch state it loaded last, `pending' what the batch     *)
(* lacked when it was opened, `todo' what is left to start of the stage.   *)
Stage(m) ==
    {s \in matrix[m].pending : (Config[s] = "full") = (matrix[m].level = 2)}
Aliases(m) == Stage(m) \intersect DOMAIN alias

NextLevel(mx) ==
    IF mx.level = 1 THEN [mx EXCEPT !.pc = "level", !.level = 2]
    ELSE [mx EXCEPT !.pc = "open", !.batch = @ + 1, !.level = 1]

MatrixStep(m, mx) ==
    /\ matrix' = [matrix EXCEPT ![m] = mx]
    /\ UNCHANGED <<files, monitor, stops>>

OpenBatch(m) ==
    /\ matrix[m].pc = "open"
    /\ MatrixStep(m,
         IF matrix[m].batch > Len(Batches) THEN Off
         ELSE [matrix[m] EXCEPT !.pc = "level",
                 !.pending = Batches[matrix[m].batch] \ matrix[m].view])
    /\ UNCHANGED <<worker, finalizer>>

SkipLevel(m) ==
    /\ matrix[m].pc = "level" /\ Stage(m) = {}
    /\ MatrixStep(m, NextLevel(matrix[m]))
    /\ UNCHANGED <<worker, finalizer>>

(* ValueError: the stage mixes direct and aliased execution shards.        *)
RejectStage(m) ==
    /\ matrix[m].pc = "level" /\ Aliases(m) \notin {{}, Stage(m)}
    /\ MatrixStep(m, Off)
    /\ UNCHANGED <<worker, finalizer>>

StartStage(m) ==
    /\ matrix[m].pc = "level" /\ Stage(m) # {}
    /\ Aliases(m) \in {{}, Stage(m)}
    /\ MatrixStep(m, [matrix[m] EXCEPT !.todo = Stage(m),
                        !.pc = IF Aliases(m) = {} THEN "work" ELSE "commit"])
    /\ UNCHANGED <<worker, finalizer>>

(* _run_parallel_stage: the pool starts the shards in order.               *)
StartWorker(m) ==
    /\ matrix[m].pc = "work"
    /\ Cardinality({s \in Shards : Alive(m, s)}) < WorkerCount
    /\ \E s \in matrix[m].todo :
         /\ FirstOf(matrix[m].todo, s)
         /\ worker' = [worker EXCEPT ![m][s] = "start"]
         /\ MatrixStep(m, [matrix[m] EXCEPT !.todo = @ \ {s}])
    /\ UNCHANGED finalizer

Ended(m) == {s \in Shards : worker[m][s] \in {"ok", "failed"}}
Succeeded(m) == {s \in Shards : worker[m][s] = "ok"}

(* All results are in; the shards that ended well are finalized.           *)
CollectStage(m) ==
    /\ matrix[m].pc = "work" /\ matrix[m].todo = {}
    /\ Stage(m) = Ended(m)
    /\ worker' = [worker EXCEPT ![m] = [s \in Shards |-> "none"]]
    /\ MatrixStep(m, [matrix[m] EXCEPT !.pc = "commit",
                        !.todo = Succeeded(m),
                        !.failed = Succeeded(m) # Stage(m)])
    /\ UNCHANGED finalizer

SourceKnown(m, s) == s \in DOMAIN alias => alias[s] \in matrix[m].view

(* An alias whose source shard is not complete is a ValueError; the stage  *)
(* before has seen to it that it is.                                       *)
StartFinalizer(m) ==
    /\ matrix[m].pc = "commit" /\ finalizer[m].pc = "none"
    /\ \E s \in matrix[m].todo :
         /\ FirstOf(matrix[m].todo, s)
         /\ IF SourceKnown(m, s)
            THEN /\ finalizer' = [finalizer EXCEPT ![m] =
                                    [Idle EXCEPT !.pc = "load", !.shard = s]]
                 /\ MatrixStep(m, matrix[m])
            ELSE MatrixStep(m, Off) /\ UNCHANGED finalizer
    /\ UNCHANGED worker

(* A finalizer that fails ends the matrix with its return code.            *)
CollectFinalizer(m) ==
    /\ MatrixAlive(m) /\ finalizer[m].pc \in {"ok", "failed"}
    /\ finalizer' = [finalizer EXCEPT ![m] = Idle]
    /\ MatrixStep(m, IF finalizer[m].pc = "failed" THEN Off
                     ELSE [matrix[m] EXCEPT !.todo = @ \ {finalizer[m].shard}])
    /\ UNCHANGED worker

(* Bug: the return codes of the stage's workers are not looked at.         *)
AfterStageAnyway(mx) == NextLevel(mx)

(* The launch is loaded again; a failed worker ends the matrix only now.   *)
AfterStage(mx) == IF mx.failed THEN Off ELSE NextLevel(mx)

CloseStage(m) ==
    /\ matrix[m].pc = "commit" /\ matrix[m].todo = {}
    /\ MatrixStep(m, AfterStage([matrix[m] EXCEPT !.view = completed]))
    /\ UNCHANGED <<worker, finalizer>>

MatrixNext(m) ==
    \/ OpenBatch(m) \/ SkipLevel(m) \/ RejectStage(m) \/ StartStage(m)
    \/ StartWorker(m) \/ CollectStage(m)
    \/ StartFinalizer(m) \/ CollectFinalizer(m) \/ CloseStage(m)

-----------------------------------------------------------------------------
(* A shard worker: the members of the shard stand for one, its checkpoints *)
(* for the calls that lead to them.  A repeated route request is the same  *)
(* request, so the ledger knows it; an action request carries the time     *)
(* that is left and is a new one.                                          *)
Repeats(s) == Calls(s)[made[s] + 1] = "route"

RouteReady(s) == Config[s] = "full" => made[RouteOwner(s)] >= 1

(* Bug: one attempt more than the policy allows.                           *)
OneAttemptMore(s) == receipts[s] <= MaxAttempts

AttemptLeft(s) == receipts[s] < MaxAttempts

Orphaned(s) == call[s] # "none" /\ Repeats(s)
MayCall(s) == ~Answered(s) /\ AttemptLeft(s) /\ RouteReady(s)

(* What the parent sees of a child that ends; nobody sees it without one.  *)
Left(m, code) == IF MatrixAlive(m) THEN code ELSE "none"

WorkerStep(m, s, pc) ==
    /\ worker' = [worker EXCEPT ![m][s] = pc]
    /\ UNCHANGED <<alias, results, monitor, matrix, finalizer, stops>>

(* Nothing is done, not even the summary, when the cap is reached.         *)
WorkerStarts(m, s) ==
    /\ worker[m][s] = "start"
    /\ WorkerStep(m, s, IF calls >= Cap THEN Left(m, "failed") ELSE "run")
    /\ UNCHANGED <<budget, progress>>

(* _recoverable_stop: attempts used up, no shared route, or no budget.     *)
WorkerStops(m, s) ==
    /\ worker[m][s] = "run" /\ ~Answered(s)
    /\ ~MayCall(s) \/ (calls >= Cap /\ ~Orphaned(s))
    /\ WorkerStep(m, s, Left(m, "failed"))
    /\ UNCHANGED <<budget, progress>>

WorkerReserves(m, s) ==
    /\ worker[m][s] = "run" /\ MayCall(s)
    /\ calls < Cap /\ ~Orphaned(s)
    /\ calls' = calls + 1
    /\ ledger' = ledger + 1
    /\ lost' = lost + (IF call[s] = "reserved" THEN 1 ELSE 0)
    /\ call' = [call EXCEPT ![s] = "reserved"]
    /\ WorkerStep(m, s, "call")
    /\ UNCHANGED <<receipts, made>>

(* PortfolioBudgetDuplicateCallError: the request of a process that is     *)
(* thought to be gone is ended and counts as an attempt.                   *)
WorkerFindsOrphan(m, s) ==
    /\ worker[m][s] = "run" /\ MayCall(s) /\ Orphaned(s)
    /\ ledger' = ledger + (IF call[s] = "reserved" THEN 1 ELSE 0)
    /\ call' = [call EXCEPT ![s] = "none"]
    /\ receipts' = [receipts EXCEPT ![s] = @ + 1]
    /\ WorkerStep(m, s, Left(m, "failed"))
    /\ UNCHANGED <<calls, lost, made>>

(* The provider fails before it answers: forfeit, receipt, stop.           *)
WorkerFails(m, s) ==
    /\ worker[m][s] = "call"
    /\ ledger' = ledger + 1
    /\ call' = [call EXCEPT ![s] = "none"]
    /\ receipts' = [receipts EXCEPT ![s] = @ + 1]
    /\ WorkerStep(m, s, Left(m, "failed"))
    /\ UNCHANGED <<calls, lost, made>>

WorkerSettles(m, s) ==
    /\ worker[m][s] = "call"
    /\ ledger' = ledger + 1
    /\ call' = [call EXCEPT ![s] = "settled"]
    /\ WorkerStep(m, s, "answer")
    /\ UNCHANGED <<calls, lost, receipts, made>>

WorkerSaves(m, s) ==
    /\ worker[m][s] = "answer"
    /\ made' = [made EXCEPT ![s] = @ + 1]
    /\ call' = [call EXCEPT ![s] = "none"]
    /\ WorkerStep(m, s, "run")
    /\ UNCHANGED <<budget, receipts>>

(* The summary is written once; a later run of the worker leaves it alone. *)
WorkerSummarises(m, s) ==
    /\ worker[m][s] = "run" /\ Answered(s)
    /\ summary' = [summary EXCEPT ![s] = IF @ = NoFile THEN ledger ELSE @]
    /\ worker' = [worker EXCEPT ![m][s] = Left(m, "ok")]
    /\ UNCHANGED <<alias, budget, progress, audit, completed, monitor, matrix,
                   finalizer, stops>>

WorkerNext(m, s) ==
    \/ WorkerStarts(m, s) \/ WorkerStops(m, s) \/ WorkerReserves(m, s)
    \/ WorkerFindsOrphan(m, s) \/ WorkerFails(m, s) \/ WorkerSettles(m, s)
    \/ WorkerSaves(m, s) \/ WorkerSummarises(m, s)

-----------------------------------------------------------------------------
(* A finalizer.  It reads launch state and ledger, checks the shard, makes *)
(* sure that nobody has called meanwhile, brings the summary to the tail   *)
(* of the ledger, writes the audit unless it is there already, with the    *)
(* same bytes, and puts the shard into the launch state it read.           *)
FinalizerStep(m, f) ==
    /\ finalizer' = [finalizer EXCEPT ![m] = f]
    /\ UNCHANGED <<alias, budget, progress, monitor, matrix, worker, stops>>

Finalized(m, code) ==
    [Idle EXCEPT !.pc = Left(m, code), !.shard = finalizer[m].shard]

FinalizerLoads(m) ==
    LET f == finalizer[m]
        s == f.shard
        fit == IF s \in DOMAIN alias
               THEN alias[s] \in completed /\ s \notin completed
               ELSE summary[s] # NoFile
    IN  /\ f.pc = "load"
        /\ FinalizerStep(m,
             IF ~fit THEN Finalized(m, "failed")
             ELSE [f EXCEPT !.view = completed, !.index = ledger,
                     !.pc = IF s \in DOMAIN alias THEN "audit" ELSE "tail"])
        /\ UNCHANGED results

(* "budget ledger changed during shard finalization", or the new summary.  *)
FinalizerRefreshes(m) ==
    LET f == finalizer[m]
    IN  /\ f.pc = "tail"
        /\ IF ledger # f.index
           THEN FinalizerStep(m, Finalized(m, "failed")) /\ UNCHANGED summary
           ELSE /\ FinalizerStep(m, [f EXCEPT !.pc = "audit"])
                /\ summary' = [summary EXCEPT ![f.shard] = f.index]
        /\ UNCHANGED <<audit, completed>>

(* The receipt of an alias binds the audit of its source.                  *)
AuditOf(f) ==
    IF f.shard \in DOMAIN alias THEN audit[alias[f.shard]] ELSE f.index

(* "existing shard audit differs from verified checkpoints"                *)
FinalizerAudits(m) ==
    LET f == finalizer[m]
    IN  /\ f.pc = "audit"
        /\ IF audit[f.shard] \in {NoFile, AuditOf(f)}
           THEN /\ FinalizerStep(m, [f EXCEPT !.pc = "state"])
                /\ audit' = [audit EXCEPT ![f.shard] = AuditOf(f)]
           ELSE FinalizerStep(m, Finalized(m, "failed")) /\ UNCHANGED audit
        /\ UNCHANGED <<summary, completed>>

(* Only an alias looks at the ledger once more before it commits.          *)
FinalizerCommits(m) ==
    LET f == finalizer[m]
    IN  /\ f.pc = "state"
        /\ IF f.shard \in DOMAIN alias /\ ledger # f.index
           THEN FinalizerStep(m, Finalized(m, "failed")) /\ UNCHANGED completed
           ELSE /\ FinalizerStep(m, Finalized(m, "ok"))
                /\ completed' = f.view \union {f.shard}
        /\ UNCHANGED <<summary, audit>>

FinalizerNext(m) ==
    \/ FinalizerLoads(m) \/ FinalizerRefreshes(m) \/ FinalizerAudits(m)
    \/ FinalizerCommits(m)

-----------------------------------------------------------------------------
(* A process ends before its time.  The matrix takes the results of its    *)
(* ended children with it and leaves those that run; a monitor is started  *)
(* again and remembers nothing.                                            *)
Forget(pc) == IF pc \in {"ok", "failed"} THEN "none" ELSE pc

Stop == stops < MaxStops /\ stops' = stops + 1 /\ UNCHANGED files

MonitorStops ==
    /\ Stop /\ monitor.pc \notin Exits
    /\ monitor' = Fresh
    /\ UNCHANGED <<matrix, worker, finalizer>>

MatrixStops(m) ==
    /\ Stop /\ MatrixAlive(m)
    /\ matrix' = [matrix EXCEPT ![m] = Off]
    /\ worker' = [worker EXCEPT ![m] = [s \in Shards |-> Forget(@[s])]]
    /\ finalizer' = [finalizer EXCEPT ![m] =
         IF FinalizerAlive(m) THEN @ ELSE Idle]
    /\ UNCHANGED monitor

WorkerCrashes(m, s) ==
    /\ Stop /\ Alive(m, s)
    /\ worker' = [worker EXCEPT ![m][s] = Left(m, "failed")]
    /\ UNCHANGED <<monitor, matrix, finalizer>>

FinalizerCrashes(m) ==
    /\ Stop /\ FinalizerAlive(m)
    /\ finalizer' = [finalizer EXCEPT ![m] = Finalized(m, "failed")]
    /\ UNCHANGED <<monitor, matrix, worker>>

MonitorNext ==
    MonitorScans \/ MonitorExits \/ MonitorWaits \/ MonitorStartsMatrix

Next ==
    \/ MonitorNext
    \/ \E m \in Matrices : MatrixNext(m) \/ FinalizerNext(m)
    \/ \E m \in Matrices, s \in Shards : WorkerNext(m, s)
    \/ MonitorStops
    \/ \E m \in Matrices : MatrixStops(m) \/ FinalizerCrashes(m)
    \/ \E m \in Matrices, s \in Shards : WorkerCrashes(m, s)

Spec == Init /\ [][Next]_vars

(* Every process is scheduled, and every call returns.                     *)
FairSpec ==
    /\ Spec
    /\ WF_vars(MonitorNext)
    /\ \A m \in Matrices :
         /\ WF_vars(MatrixNext(m)) /\ WF_vars(FinalizerNext(m))
         /\ \A s \in Shards : WF_vars(WorkerNext(m, s))

-----------------------------------------------------------------------------
(* The values the state takes: no member has more attempt receipts than    *)
(* the policy allows, and the ledger no more reservations than the cap.    *)
MonitorType ==
    [pc : {"scan", "look", "act"} \union Exits, restarts : 0..MaxRestarts,
     last : Nat \X Nat, matrix : BOOLEAN, worker : BOOLEAN]
MatrixType ==
    [pc : {"off", "open", "level", "work", "commit"},
     batch : Nat \ {0}, level : {1, 2}, pending : SUBSET Shards,
     view : SUBSET Shards, todo : SUBSET Shards, failed : BOOLEAN]
FinalizerType ==
    [pc : Finalizing \union {"none", "ok", "failed"}, shard : Shards,
     view : SUBSET Shards, index : Nat]

TypeOK ==
    /\ alias \in Controls
    /\ calls \in 0..Cap /\ ledger \in Nat /\ lost \in Nat
    /\ receipts \in [Shards -> 0..MaxAttempts]
    /\ made \in [Shards -> Nat]
    /\ call \in [Shards -> {"none", "reserved", "settled"}]
    /\ summary \in [Shards -> Index] /\ audit \in [Shards -> Index]
    /\ completed \subseteq Shards
    /\ monitor \in MonitorType
    /\ matrix \in [Matrices -> MatrixType]
    /\ worker \in
         [Matrices -> [Shards -> Working \union {"none", "ok", "failed"}]]
    /\ finalizer \in [Matrices -> FinalizerType]
    /\ stops \in 0..MaxStops

(* No two processes work on one shard, so that nobody ends the call of a   *)
(* worker that is alive as if it were an orphan's, and nobody makes it     *)
(* twice: the matrix that starts a worker is the only one, and no child of *)
(* an earlier one is left (_active_worker_processes).                      *)
OneWorkerPerShard ==
    \A s \in Shards : Cardinality({m \in Matrices : Alive(m, s)}) <= 1

(* A worker of configuration full finds the shared route of its batch: the *)
(* matrix starts it only after the shard that owns the route has ended     *)
(* well, now or in an earlier run (_run_parallel_matrix).                  *)
FullFindsRoute ==
    \A m \in Matrices, s \in Shards :
        worker[m][s] = "run" /\ ~Answered(s) => RouteReady(s)

(* A shard in run-state.json never leaves it again: two finalizers would   *)
(* each write the set they read and lose what the other put in.            *)
CompletedStays == [][completed \subseteq completed']_vars

(* However workers and providers fail, the monitor comes to an end: it     *)
(* does not restart a matrix for ever.                                     *)
MonitorEnds == <>(monitor.pc \in Exits)

=============================================================================
