----------------------------- MODULE CallStore -----------------------------
(***************************************************************************)
(* The two-file provider-call journal of the Core Fast Path and the engine *)
(* code that drives it (core_fast/store.py, CoreFastEngine._call and the   *)
(* thread-pool batches of core_fast/engine.py).                            *)
(*                                                                         *)
(* One operating-system process runs at a time: a main thread walks a      *)
(* sequence of batches; for each it reads the journal, checks the budget   *)
(* and hands the calls to a pool of worker threads.  `intent' and `result' *)
(* are the files below calls/<role>/ and survive a crash; every other      *)
(* variable is process memory, or a ghost that the code does not have.     *)
(***************************************************************************)
EXTENDS Integers, Sequences, FiniteSets, Functions

CONSTANTS
    Workers,      \* threads of the executor
    Calls,        \* call identifiers
    Roles,        \* the call roles of the specification
    RoleOf,       \* role of each call
    Estimate,     \* estimated_call_cost_cny of each role
    RoleLimit,    \* max_feedback_calls, max_creator_calls; large if unlimited
    Batches,      \* the batches of the experiment, in order
    Preflight,    \* batches that run ensure_budget before they submit
    StrictRoles,  \* roles whose failed result aborts the batch (route_only)
    Costs,        \* what a provider may bill for one call
    Cap,          \* limits.external_cost_cny
    MaxCrashes,   \* bound: process crashes explored
    MaxRuns       \* bound: times the command is started

ASSUME CallStoreAssumption ==
    /\ RoleOf \in [Calls -> Roles]
    /\ Estimate \in [Roles -> Nat]
    /\ RoleLimit \in [Roles -> Nat]
    /\ StrictRoles \subseteq Roles
    /\ Batches \in Seq(SUBSET Calls)
    /\ Preflight \subseteq DOMAIN Batches
    /\ Costs \subseteq Nat /\ 0 \in Costs
    /\ Cap \in Nat /\ MaxCrashes \in Nat /\ MaxRuns \in Nat

ASSUME BatchesFinite == \A b \in DOMAIN Batches : IsFiniteSet(Batches[b])

Statuses == {"success", "provider_error", "schema_error", "interrupted_unknown"}

CONSTANTS NoCall, NoResult, NoCache

ASSUME Distinct ==
    /\ NoCall \notin Calls
    /\ NoResult \notin [status : Statuses, cost : Nat]
    /\ NoCache \notin Nat

CallResult == [status : Statuses, cost : Nat]

VARIABLES
    intent,     \* calls whose <id>.intent.json exists
    result,     \* content of <id>.result.json, or NoResult
    cache,      \* _observed_cost_cache: NoCache stands for None
    pending,    \* _pending_cost_estimate
    main,       \* control of the main thread
    batch,      \* index of the batch the main thread is in
    unread,     \* calls the main thread has yet to look up before submitting
    queue,      \* calls submitted to the executor and not yet taken
    pc,         \* control of each worker thread
    job,        \* the call a worker executes
    held,       \* the CallResult a worker got from the adapter
    failed,     \* a future of the current batch raised
    attempts,   \* ghost: provider attempts made for a call, ever
    billed,     \* ghost: what the provider really charged for a call
    crashes,    \* bound counter
    runs        \* bound counter

disk == <<intent, result>>
memory == <<cache, pending>>
engine == <<main, batch, unread, queue, failed>>
threads == <<pc, job, held>>
ghosts == <<attempts, billed>>
counters == <<crashes, runs>>
vars == <<disk, memory, engine, threads, ghosts, counters>>

(* Bug: recovery does not look whether the result exists.                  *)
OrphanUnchecked(c) == c \in intent

Orphan(c) == c \in intent /\ result[c] = NoResult

(* Bug: recovery writes a status the reader's schema does not know.        *)
InterruptedMisspelt == [status |-> "interrupted", cost |-> 0]

Interrupted == [status |-> "interrupted_unknown", cost |-> 0]

(* What get() leaves on disk: an intent without a result is settled.       *)
AfterGet(c) == [result EXCEPT ![c] = IF Orphan(c) THEN Interrupted ELSE @]

RoleCount(r) == Cardinality({c \in intent : RoleOf[c] = r})

RecordedIn(res) ==
    LET known == {c \in Calls : res[c] # NoResult}
    IN  FoldFunctionOnSet(+, 0, [c \in known |-> res[c].cost], known)

(* _load_observed_cost_unlocked: the sum of the results on disk when the   *)
(* process has none cached, else the cached sum.                           *)
ObservedCost == IF cache = NoCache THEN RecordedIn(result) ELSE cache

EstimateOf(c) == Estimate[RoleOf[c]]

(* Bug: the calls already admitted are not counted.                        *)
ProjectedUnreserved(c) == ObservedCost + EstimateOf(c)

(* What the journal would hold if every admitted call cost its estimate.   *)
Projected(c) == ObservedCost + pending + EstimateOf(c)

(* Bug: the intent is not on disk before the provider is called.           *)
WithoutIntent(c) == intent

(* The durable pre-call record.                                            *)
WithIntent(c) == intent \union {c}

Idle == [w \in Workers |-> "idle"]
NoJobs == [w \in Workers |-> NoCall]
NoHeld == [w \in Workers |-> NoResult]

Init ==
    /\ intent = {}
    /\ result = [c \in Calls |-> NoResult]
    /\ cache = NoCache
    /\ pending = 0
    /\ main = "down"
    /\ batch = 1
    /\ unread = {}
    /\ queue = {}
    /\ failed = FALSE
    /\ pc = Idle
    /\ job = NoJobs
    /\ held = NoHeld
    /\ attempts = [c \in Calls |-> 0]
    /\ billed = [c \in Calls |-> 0]
    /\ crashes = 0
    /\ runs = 0

-----------------------------------------------------------------------------
(* The main thread.                                                        *)

EnterBatch(b) ==
    /\ batch' = b
    /\ queue' = {}
    /\ IF b \in DOMAIN Batches
       THEN main' = "scan" /\ unread' = Batches[b]
       ELSE main' = "done" /\ unread' = {}

(* The command is started, for the first time or again, on the same output *)
(* root: a new process has an empty cache and no reservation.              *)
Start ==
    /\ main \in {"down", "failed"}
    /\ runs < MaxRuns
    /\ runs' = runs + 1
    /\ cache' = NoCache
    /\ pending' = 0
    /\ failed' = FALSE
    /\ EnterBatch(1)
    /\ UNCHANGED <<disk, threads, ghosts, crashes>>

(* One get() of the list comprehension that selects the pending queries;   *)
(* it runs without the lock, before any worker of the batch is started.    *)
Scan(c) ==
    /\ main = "scan"
    /\ c \in unread
    /\ result' = AfterGet(c)
    /\ unread' = unread \ {c}
    /\ UNCHANGED <<intent, memory, main, batch, queue, failed, threads, ghosts, counters>>

(* ensure_budget(role, len(pending)), then pool.submit for every query of  *)
(* the batch, settled ones included.                                       *)
Missing == {c \in Batches[batch] : result[c] = NoResult}

BatchEstimate == FoldFunctionOnSet(+, 0, [c \in Missing |-> EstimateOf(c)], Missing)

Submit ==
    /\ main = "scan"
    /\ unread = {}
    /\ LET checks == batch \in Preflight /\ Missing # {}
       IN  /\ cache' = IF checks THEN ObservedCost ELSE cache
           /\ IF checks /\ ObservedCost + pending + BatchEstimate > Cap
              THEN main' = "failed" /\ UNCHANGED queue
              ELSE main' = "pool" /\ queue' = Batches[batch]
    /\ UNCHANGED <<disk, pending, batch, unread, failed, threads, ghosts, counters>>

(* Bug: an error of a future is swallowed.                                 *)
PoolRaisesNothing == FALSE

PoolRaises == failed

(* Bug: the batch just finished is entered again.                          *)
NextBatchStuck == batch

NextBatch == batch + 1

(* Leaving the executor waits for every submitted call, also when a future *)
(* raised; only then does the exception end the process.                   *)
JoinPool ==
    /\ main = "pool"
    /\ queue = {}
    /\ pc = Idle
    /\ IF PoolRaises
       THEN main' = "failed" /\ UNCHANGED <<batch, unread, queue>>
       ELSE EnterBatch(NextBatch)
    /\ UNCHANGED <<disk, memory, failed, threads, ghosts, counters>>

-----------------------------------------------------------------------------
(* A worker thread: _call, then CallStore.invoke.                          *)

(* Bug: a call stays in the queue and a second worker takes it too.        *)
DequeueNothing(c) == queue

Dequeue(c) == queue \ {c}

Take(w, c) ==
    /\ main = "pool"
    /\ pc[w] = "idle"
    /\ c \in queue
    /\ queue' = Dequeue(c)
    /\ job' = [job EXCEPT ![w] = c]
    /\ pc' = [pc EXCEPT ![w] = "lookup"]
    /\ UNCHANGED <<disk, memory, main, batch, unread, failed, held, ghosts, counters>>

(* The worker's future completes; strict roles raise on a failed result.   *)
Return(w, raised) ==
    /\ pc' = [pc EXCEPT ![w] = "idle"]
    /\ job' = [job EXCEPT ![w] = NoCall]
    /\ held' = [held EXCEPT ![w] = NoResult]
    /\ failed' = (failed \/ raised)

RaisesOn(c, res) == RoleOf[c] \in StrictRoles /\ res.status # "success"

(* The unlocked get of _call and its per-role limit.                       *)
Lookup(w) ==
    LET c == job[w] IN
    /\ pc[w] = "lookup"
    /\ result' = AfterGet(c)
    /\ IF result'[c] = NoResult /\ RoleCount(RoleOf[c]) >= RoleLimit[RoleOf[c]]
       THEN Return(w, TRUE)
       ELSE /\ pc' = [pc EXCEPT ![w] = "admit"]
            /\ UNCHANGED <<job, held, failed>>
    /\ UNCHANGED <<intent, memory, main, batch, unread, queue, ghosts, counters>>

(* invoke, first locked section, a settled or orphaned call: the result is *)
(* returned and nothing is reserved.                                       *)
Reuse(w) ==
    LET c == job[w] IN
    /\ pc[w] = "admit"
    /\ c \in intent \/ result[c] # NoResult
    /\ result' = AfterGet(c)
    /\ Return(w, RaisesOn(c, result'[c]))
    /\ UNCHANGED <<intent, memory, main, batch, unread, queue, ghosts, counters>>

(* invoke, first locked section, a call without files: reserve and journal *)
(* it, or refuse it when the projection exceeds the cap.                   *)
Admit(w) ==
    LET c == job[w] IN
    /\ pc[w] = "admit"
    /\ c \notin intent /\ result[c] = NoResult
    /\ cache' = ObservedCost
    /\ IF Projected(c) > Cap
       THEN Return(w, TRUE) /\ UNCHANGED <<intent, pending>>
       ELSE /\ intent' = WithIntent(c)
            /\ pending' = pending + EstimateOf(c)
            /\ pc' = [pc EXCEPT ![w] = "calling"]
            /\ UNCHANGED <<job, held, failed>>
    /\ UNCHANGED <<result, main, batch, unread, queue, ghosts, counters>>

Attempt(c, charge) ==
    /\ attempts' = [attempts EXCEPT ![c] = @ + 1]
    /\ billed' = [billed EXCEPT ![c] = @ + charge]

(* The adapter returns a result that carries what the provider charged.    *)
ProviderAnswers(w, status, charge) ==
    /\ pc[w] = "calling"
    /\ Attempt(job[w], charge)
    /\ held' = [held EXCEPT ![w] = [status |-> status, cost |-> charge]]
    /\ pc' = [pc EXCEPT ![w] = "writing"]
    /\ UNCHANGED <<disk, memory, engine, job, counters>>

(* The adapter raises: invoke builds a provider_error result of cost 0,    *)
(* whatever the provider charged before the failure.                       *)
ProviderRaises(w, charge) ==
    /\ pc[w] = "calling"
    /\ Attempt(job[w], charge)
    /\ held' = [held EXCEPT ![w] = [status |-> "provider_error", cost |-> 0]]
    /\ pc' = [pc EXCEPT ![w] = "writing"]
    /\ UNCHANGED <<disk, memory, engine, job, counters>>

(* The adapter answers for another call, role or model: invoke raises and  *)
(* the intent is left without a result.                                    *)
ProviderMismatch(w, charge) ==
    /\ pc[w] = "calling"
    /\ Attempt(job[w], charge)
    /\ pc' = [pc EXCEPT ![w] = "release"]
    /\ failed' = TRUE
    /\ UNCHANGED <<disk, memory, main, batch, unread, queue, job, held, counters>>

(* atomic_write_json of the result, outside the lock; it refuses to        *)
(* overwrite a result somebody else wrote.                                 *)
WriteResult(w) ==
    LET c == job[w] IN
    /\ pc[w] = "writing"
    /\ IF result[c] = NoResult
       THEN /\ result' = [result EXCEPT ![c] = held[w]]
            /\ pc' = [pc EXCEPT ![w] = "account"]
            /\ UNCHANGED failed
       ELSE /\ pc' = [pc EXCEPT ![w] = "release"]
            /\ failed' = TRUE
            /\ UNCHANGED result
    /\ UNCHANGED <<intent, memory, main, batch, unread, queue, job, held, ghosts, counters>>

(* invoke, second locked section: the cost enters the cached sum.          *)
Account(w) ==
    /\ pc[w] = "account"
    /\ cache' = ObservedCost + held[w].cost
    /\ pc' = [pc EXCEPT ![w] = "release"]
    /\ UNCHANGED <<disk, pending, engine, job, held, ghosts, counters>>

(* invoke, the finally clause: the reservation is returned on every path.  *)
Release(w) ==
    LET c == job[w] IN
    /\ pc[w] = "release"
    /\ pending' = pending - EstimateOf(c)
    /\ Return(w, result[c] # NoResult /\ RaisesOn(c, result[c]))
    /\ UNCHANGED <<disk, cache, main, batch, unread, queue, ghosts, counters>>

-----------------------------------------------------------------------------
(* The process dies anywhere; only the two files of each call survive.     *)
Crash ==
    /\ main \in {"scan", "pool"}
    /\ crashes < MaxCrashes
    /\ crashes' = crashes + 1
    /\ main' = "down"
    /\ cache' = NoCache
    /\ pending' = 0
    /\ batch' = 1
    /\ unread' = {}
    /\ queue' = {}
    /\ failed' = FALSE
    /\ pc' = Idle
    /\ job' = NoJobs
    /\ held' = NoHeld
    /\ UNCHANGED <<disk, ghosts, runs>>

Worker(w) ==
    \/ \E c \in Calls : Take(w, c)
    \/ Lookup(w)
    \/ Reuse(w)
    \/ Admit(w)
    \/ \E s \in {"success", "schema_error"}, k \in Costs : ProviderAnswers(w, s, k)
    \/ \E k \in Costs : ProviderRaises(w, k)
    \/ \E k \in Costs : ProviderMismatch(w, k)
    \/ WriteResult(w)
    \/ Account(w)
    \/ Release(w)

Main ==
    \/ \E c \in Calls : Scan(c)
    \/ Submit
    \/ JoinPool

(* The command has returned and nobody starts it again.                    *)
Stopped ==
    /\ main = "done" \/ (main \in {"failed", "down"} /\ runs = MaxRuns)
    /\ UNCHANGED vars

Next ==
    \/ Start
    \/ Main
    \/ \E w \in Workers : Worker(w)
    \/ Crash
    \/ Stopped

Spec == Init /\ [][Next]_vars

(* The scheduler runs every thread that can run; the adapter always comes  *)
(* back because the command has a timeout.  Nothing forces a crash or an   *)
(* operator to start the command again.                                    *)
FairSpec == Spec /\ WF_vars(Main) /\ \A w \in Workers : WF_vars(Worker(w))

-----------------------------------------------------------------------------
(* Properties.                                                             *)

(* Sum of f over a set of calls.                                           *)
Total(f, S) == FoldFunctionOnSet(+, 0, f, S)

InFlight(w) == pc[w] \in {"calling", "writing"}
Reserving == {w \in Workers : pc[w] \in {"calling", "writing", "account", "release"}}

JournalTypeOK ==
    /\ intent \subseteq Calls
    /\ result \in [Calls -> CallResult \union {NoResult}]

EngineTypeOK ==
    /\ main \in {"down", "scan", "pool", "done", "failed"}
    /\ batch \in Nat
    /\ main = "scan" => batch \in DOMAIN Batches
    /\ unread \subseteq Calls
    /\ queue \subseteq Calls
    /\ failed \in BOOLEAN

ThreadTypeOK ==
    /\ pc \in [Workers -> {"idle", "lookup", "admit", "calling", "writing",
                           "account", "release"}]
    /\ job \in [Workers -> Calls \union {NoCall}]
    /\ held \in [Workers -> CallResult \union {NoResult}]
    /\ \A w \in Workers : pc[w] # "idle" => job[w] \in Calls
    /\ \A w \in Workers : pc[w] \in {"writing", "account"} => held[w] \in CallResult

GhostTypeOK ==
    /\ attempts \in [Calls -> Nat]
    /\ billed \in [Calls -> Nat]
    /\ crashes \in Nat
    /\ runs \in Nat

(* Every variable holds a value of its type.                                *)
TypeOK == JournalTypeOK /\ EngineTypeOK /\ ThreadTypeOK /\ GhostTypeOK

(* An intent without a result "is never silently replayed": over crashes,  *)
(* restarts and every order of the threads, the provider is asked at most  *)
(* once for a call.                                                        *)
AttemptedAtMostOnce == \A c \in Calls : attempts[c] <= 1

(* Recovery never gives up a call that its own process still executes: the *)
(* unlocked get() cannot settle as interrupted an intent whose worker is   *)
(* alive, so no paid answer is thrown away with a FileExistsError.         *)
NoSelfInterrupt == \A w \in Workers : InFlight(w) => result[job[w]] = NoResult

(* The charges the journal never gets to know: those of calls that raised, *)
(* answered for another call or were interrupted, which it holds at cost 0 *)
(* or not at all.                                                          *)
Unrecorded ==
    {c \in Calls : IF result[c] = NoResult THEN \A w \in Reserving : job[w] # c
                                          ELSE result[c].cost # billed[c]}

Excess(c) == IF billed[c] > EstimateOf(c) THEN billed[c] - EstimateOf(c) ELSE 0

(* The hard cap of invoke caps the spending, however the threads           *)
(* interleave and however often the command is restarted: only what single *)
(* calls cost beyond their estimate, and what the journal never gets to    *)
(* know, can push the sum the provider charged beyond it.                  *)
SpendWithinCap ==
    LET known == Calls \ Unrecorded
    IN  Total([c \in known |-> billed[c]], known)
            <= Cap + Total([c \in known |-> Excess(c)], known)

(* A command that ends normally has settled every call of every batch: no  *)
(* future was skipped and no error of an earlier batch was swallowed.      *)
DoneMeansSettled ==
    main = "done" =>
        \A b \in DOMAIN Batches : \A c \in Batches[b] :
            /\ c \in intent
            /\ result[c] # NoResult
            /\ RoleOf[c] \in StrictRoles => result[c].status = "success"

(* A result file is final: no step, recovery included, replaces it.        *)
ResultsImmutable ==
    [][\A c \in Calls : result[c] # NoResult => result'[c] = result[c]]_vars

(* A started command ends: it finishes, fails or is killed, it never hangs *)
(* in the executor or loops over its batches.                              *)
RunEnds == main \in {"scan", "pool"} ~> main \in {"done", "failed", "down"}
=============================================================================
