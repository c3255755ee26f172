-------------------------- MODULE CallStoreProofs --------------------------
(***************************************************************************)
(* Proofs about CallStore: type correctness, that the provider is asked at *)
(* most once for a call, that recovery never settles a live call, that a   *)
(* result file is final, that a command that ends without an error has     *)
(* settled every call of every batch, and that the spending stays within   *)
(* the cap.                                                                *)
(***************************************************************************)
EXTENDS CallStore, SumLemmas

(* What get() leaves behind is a well-typed journal that differs from the  *)
(* old one in nothing but the settled orphan.                              *)
LEMMA AfterGetType ==
    ASSUME TypeOK, NEW c \in Calls
    PROVE  /\ AfterGet(c) \in [Calls -> CallResult \union {NoResult}]
           /\ \A d \in Calls : d # c => AfterGet(c)[d] = result[d]
           /\ result[c] # NoResult => AfterGet(c)[c] = result[c]
           /\ c \notin intent => AfterGet(c)[c] = result[c]
BY DEF TypeOK, JournalTypeOK, AfterGet, Orphan, Interrupted, CallResult, Statuses

LEMMA BatchType == ASSUME NEW b \in DOMAIN Batches PROVE Batches[b] \subseteq Calls
BY CallStoreAssumption

(* Entering a batch keeps the main thread's variables well typed.          *)
LEMMA EnterBatchType ==
    ASSUME NEW b \in Nat, EnterBatch(b), failed' \in BOOLEAN
    PROVE  EngineTypeOK'
BY BatchType DEF EnterBatch, EngineTypeOK

(* Completing a future keeps the worker variables well typed.              *)
LEMMA ReturnType ==
    ASSUME ThreadTypeOK, failed \in BOOLEAN,
           NEW w \in Workers, NEW raised \in BOOLEAN, Return(w, raised)
    PROVE  ThreadTypeOK' /\ failed' \in BOOLEAN
BY DEF ThreadTypeOK, Return

(* Every reachable state is well typed.                                    *)
THEOREM TypeCorrect == Spec => []TypeOK
<1> USE DEF TypeOK
<1>1. Init => TypeOK
  <2> SUFFICES ASSUME Init PROVE TypeOK
    OBVIOUS
  <2>1. JournalTypeOK
    BY DEF Init, JournalTypeOK
  <2>2. EngineTypeOK
    BY DEF Init, EngineTypeOK
  <2>3. ThreadTypeOK
    BY DEF Init, ThreadTypeOK, Idle, NoJobs, NoHeld
  <2>4. GhostTypeOK
    BY DEF Init, GhostTypeOK
  <2>5. QED
    BY <2>1, <2>2, <2>3, <2>4
<1>2. TypeOK /\ [Next]_vars => TypeOK'
  <2> SUFFICES ASSUME TypeOK, [Next]_vars PROVE TypeOK'
    OBVIOUS
  <2> USE CallStoreAssumption
  <2>1. CASE Start
    <3>1. JournalTypeOK' /\ ThreadTypeOK' /\ GhostTypeOK'
      BY <2>1 DEF Start, JournalTypeOK, ThreadTypeOK, GhostTypeOK, disk, threads, ghosts
    <3>2. EngineTypeOK'
      BY <2>1, EnterBatchType DEF Start
    <3>3. QED
      BY <3>1, <3>2
  <2>2. ASSUME NEW c \in Calls, Scan(c) PROVE TypeOK'
    <3>1. JournalTypeOK'
      BY <2>2, AfterGetType DEF Scan, JournalTypeOK
    <3>2. EngineTypeOK' /\ ThreadTypeOK' /\ GhostTypeOK'
      BY <2>2 DEF Scan, EngineTypeOK, ThreadTypeOK, GhostTypeOK, threads, ghosts, counters
    <3>3. QED
      BY <3>1, <3>2
  <2>3. CASE Submit
    <3>1. EngineTypeOK'
      BY <2>3, BatchType DEF Submit, EngineTypeOK
    <3>2. JournalTypeOK' /\ ThreadTypeOK' /\ GhostTypeOK'
      BY <2>3 DEF Submit, JournalTypeOK, ThreadTypeOK, GhostTypeOK, disk, threads,
                  ghosts, counters
    <3>3. QED
      BY <3>1, <3>2
  <2>4. CASE JoinPool
    <3>1. JournalTypeOK' /\ ThreadTypeOK' /\ GhostTypeOK'
      BY <2>4 DEF JoinPool, JournalTypeOK, ThreadTypeOK, GhostTypeOK, disk, threads,
                  ghosts, counters
    <3>2. CASE PoolRaises
      BY <2>4, <3>1, <3>2 DEF JoinPool, EngineTypeOK
    <3>3. CASE ~PoolRaises
      <4>1. EnterBatch(NextBatch) /\ NextBatch \in Nat /\ failed' \in BOOLEAN
        BY <2>4, <3>3 DEF JoinPool, EngineTypeOK, NextBatch
      <4>2. QED
        BY <3>1, <4>1, EnterBatchType
    <3>4. QED
      BY <3>2, <3>3
  <2>5. ASSUME NEW w \in Workers, Worker(w) PROVE TypeOK'
    <3>1. ASSUME NEW c \in Calls, Take(w, c) PROVE TypeOK'
      BY <3>1 DEF Take, Dequeue, JournalTypeOK, EngineTypeOK, ThreadTypeOK, GhostTypeOK,
                  disk, ghosts, counters
    <3>2. CASE Lookup(w)
      <4>1. job[w] \in Calls
        BY <3>2 DEF Lookup, ThreadTypeOK
      <4>2. JournalTypeOK' /\ GhostTypeOK'
        BY <3>2, <4>1, AfterGetType DEF Lookup, JournalTypeOK, GhostTypeOK, ghosts, counters
      <4>3. ThreadTypeOK' /\ failed' \in BOOLEAN
        <5>1. CASE Return(w, TRUE)
          BY <5>1, ReturnType DEF EngineTypeOK
        <5>2. CASE /\ pc' = [pc EXCEPT ![w] = "admit"]
                   /\ UNCHANGED <<job, held, failed>>
          BY <4>1, <5>2 DEF ThreadTypeOK, EngineTypeOK
        <5>3. QED
          BY <3>2, <5>1, <5>2 DEF Lookup
      <4>4. EngineTypeOK'
        BY <3>2, <4>3 DEF Lookup, EngineTypeOK
      <4>5. QED
        BY <4>2, <4>3, <4>4
    <3>3. CASE Reuse(w)
      <4>1. job[w] \in Calls
        BY <3>3 DEF Reuse, ThreadTypeOK
      <4>2. JournalTypeOK' /\ GhostTypeOK'
        BY <3>3, <4>1, AfterGetType DEF Reuse, JournalTypeOK, GhostTypeOK, ghosts, counters
      <4>3. ThreadTypeOK' /\ failed' \in BOOLEAN
        BY <3>3, ReturnType DEF Reuse, RaisesOn, EngineTypeOK
      <4>4. EngineTypeOK'
        BY <3>3, <4>3 DEF Reuse, EngineTypeOK
      <4>5. QED
        BY <4>2, <4>3, <4>4
    <3>4. CASE Admit(w)
      <4>1. job[w] \in Calls
        BY <3>4 DEF Admit, ThreadTypeOK
      <4>2. JournalTypeOK' /\ GhostTypeOK'
        BY <3>4, <4>1 DEF Admit, WithIntent, JournalTypeOK, GhostTypeOK, ghosts, counters
      <4>3. ThreadTypeOK' /\ failed' \in BOOLEAN
        <5>1. CASE Return(w, TRUE)
          BY <5>1, ReturnType DEF EngineTypeOK
        <5>2. CASE /\ pc' = [pc EXCEPT ![w] = "calling"]
                   /\ UNCHANGED <<job, held, failed>>
          BY <4>1, <5>2 DEF ThreadTypeOK, EngineTypeOK
        <5>3. QED
          BY <3>4, <5>1, <5>2 DEF Admit
      <4>4. EngineTypeOK'
        BY <3>4, <4>3 DEF Admit, EngineTypeOK
      <4>5. QED
        BY <4>2, <4>3, <4>4
    <3>5. ASSUME NEW s \in {"success", "schema_error"}, NEW k \in Costs,
                 ProviderAnswers(w, s, k)
          PROVE  TypeOK'
      BY <3>5 DEF ProviderAnswers, Attempt, CallResult, Statuses, JournalTypeOK,
                  EngineTypeOK, ThreadTypeOK, GhostTypeOK, disk, engine, counters
    <3>6. ASSUME NEW k \in Costs, ProviderRaises(w, k) PROVE TypeOK'
      BY <3>6 DEF ProviderRaises, Attempt, CallResult, Statuses, JournalTypeOK,
                  EngineTypeOK, ThreadTypeOK, GhostTypeOK, disk, engine, counters
    <3>7. ASSUME NEW k \in Costs, ProviderMismatch(w, k) PROVE TypeOK'
      BY <3>7 DEF ProviderMismatch, Attempt, JournalTypeOK, EngineTypeOK, ThreadTypeOK,
                  GhostTypeOK, disk, counters
    <3>8. CASE WriteResult(w)
      BY <3>8 DEF WriteResult, JournalTypeOK, EngineTypeOK, ThreadTypeOK, GhostTypeOK,
                  ghosts, counters
    <3>9. CASE Account(w)
      BY <3>9 DEF Account, JournalTypeOK, EngineTypeOK, ThreadTypeOK, GhostTypeOK,
                  disk, engine, ghosts, counters
    <3>10. CASE Release(w)
      <4>1. JournalTypeOK' /\ GhostTypeOK'
        BY <3>10 DEF Release, JournalTypeOK, GhostTypeOK, disk, ghosts, counters
      <4>2. ThreadTypeOK' /\ failed' \in BOOLEAN
        BY <3>10, ReturnType DEF Release, RaisesOn, EngineTypeOK
      <4>3. EngineTypeOK'
        BY <3>10, <4>2 DEF Release, EngineTypeOK
      <4>4. QED
        BY <4>1, <4>2, <4>3
    <3>11. QED
      BY <2>5, <3>1, <3>2, <3>3, <3>4, <3>5, <3>6, <3>7, <3>8, <3>9, <3>10 DEF Worker
  <2>6. CASE Crash
    <3>1. JournalTypeOK' /\ GhostTypeOK'
      BY <2>6 DEF Crash, JournalTypeOK, GhostTypeOK, disk, ghosts
    <3>2. EngineTypeOK'
      BY <2>6 DEF Crash, EngineTypeOK
    <3>3. ThreadTypeOK'
      BY <2>6 DEF Crash, ThreadTypeOK, Idle, NoJobs, NoHeld
    <3>4. QED
      BY <3>1, <3>2, <3>3
  <2>7. CASE UNCHANGED vars
    BY <2>7 DEF JournalTypeOK, EngineTypeOK, ThreadTypeOK, GhostTypeOK, vars, disk,
                memory, engine, threads, ghosts, counters
  <2>8. QED
    BY <2>1, <2>2, <2>3, <2>4, <2>5, <2>6, <2>7 DEF Next, Main, Stopped
<1>3. QED
  BY <1>1, <1>2, PTL DEF Spec

-----------------------------------------------------------------------------
(* Why the provider is asked only once: an attempt leaves an intent behind *)
(* for ever, admission refuses a call that has one, and only one worker is *)
(* between admission and attempt for a call.                               *)
AttemptInv ==
    /\ \A c \in Calls : attempts[c] <= 1 /\ (c \notin intent => attempts[c] = 0)
    /\ \A w \in Workers :
           pc[w] = "calling" => attempts[job[w]] = 0 /\ job[w] \in intent
    /\ \A v, w \in Workers :
           pc[v] = "calling" /\ pc[w] = "calling" /\ v # w => job[v] # job[w]

(* A step that makes no attempt, admits nothing and starts no call keeps   *)
(* the attempt invariant.                                                  *)
LEMMA NoAttemptStep ==
    ASSUME TypeOK, AttemptInv, UNCHANGED <<intent, attempts>>,
           \A w \in Workers : pc'[w] = "calling" => pc[w] = "calling" /\ job'[w] = job[w]
    PROVE  AttemptInv'
BY DEF AttemptInv

(* The provider call of a worker keeps the attempt invariant.              *)
LEMMA AttemptStep ==
    ASSUME TypeOK, AttemptInv, NEW w \in Workers, NEW k \in Costs, pc[w] = "calling",
           NEW next \in {"writing", "release"},
           Attempt(job[w], k), pc' = [pc EXCEPT ![w] = next], UNCHANGED <<intent, job>>
    PROVE  AttemptInv'
<1>1. /\ job[w] \in Calls /\ attempts[job[w]] = 0 /\ job[w] \in intent
      /\ pc \in [Workers -> {"idle", "lookup", "admit", "calling", "writing",
                             "account", "release"}]
      /\ attempts \in [Calls -> Nat]
  BY DEF TypeOK, ThreadTypeOK, GhostTypeOK, AttemptInv
<1>2. /\ attempts'[job[w]] = 1
      /\ \A c \in Calls : c # job[w] => attempts'[c] = attempts[c]
  BY <1>1 DEF Attempt
<1>3. /\ pc'[w] # "calling"
      /\ \A v \in Workers : v # w => pc'[v] = pc[v]
  BY <1>1
<1>4. \A v \in Workers : pc[v] # "idle" => job[v] \in Calls
  BY DEF TypeOK, ThreadTypeOK
<1>5. QED
  BY <1>1, <1>2, <1>3, <1>4 DEF AttemptInv

(* Every step of the engine keeps the attempt invariant.                   *)
LEMMA AttemptInvStep == TypeOK /\ AttemptInv /\ [Next]_vars => AttemptInv'
<1> SUFFICES ASSUME TypeOK, AttemptInv, [Next]_vars PROVE AttemptInv'
  OBVIOUS
<1>1. pc \in [Workers -> {"idle", "lookup", "admit", "calling", "writing",
                          "account", "release"}]
  BY DEF TypeOK, ThreadTypeOK
<1>2. CASE Start \/ Main \/ UNCHANGED vars
  <2>1. UNCHANGED <<intent, attempts, pc, job>>
    BY <1>2 DEF Start, Main, Scan, Submit, JoinPool, vars, disk, threads, ghosts
  <2>2. QED
    BY <2>1, NoAttemptStep
<1>3. CASE Crash
  BY <1>3, NoAttemptStep DEF Crash, Idle, disk, ghosts
<1>4. ASSUME NEW w \in Workers, Worker(w) PROVE AttemptInv'
  <2>1. ASSUME NEW c \in Calls, Take(w, c) PROVE AttemptInv'
    <3>1. pc[w] = "idle" /\ pc' = [pc EXCEPT ![w] = "lookup"]
          /\ job' = [job EXCEPT ![w] = c] /\ UNCHANGED <<intent, attempts>>
      BY <2>1 DEF Take, disk, ghosts
    <3>2. \A v \in Workers : pc'[v] = "calling" => pc[v] = "calling" /\ job'[v] = job[v]
      BY <1>1, <3>1 DEF TypeOK, ThreadTypeOK
    <3>3. QED
      BY <3>1, <3>2, NoAttemptStep
  <2>2. CASE Lookup(w) \/ Reuse(w) \/ Release(w)
    <3>1. /\ UNCHANGED <<intent, attempts>>
          /\ \A v \in Workers : v # w => pc'[v] = pc[v] /\ job'[v] = job[v]
          /\ pc'[w] # "calling"
      BY <1>1, <2>2 DEF Lookup, Reuse, Release, Return, TypeOK, ThreadTypeOK, disk, ghosts
    <3>2. QED
      BY <3>1, NoAttemptStep
  <2>3. CASE Admit(w)
    <3>1. CASE Return(w, TRUE) /\ UNCHANGED intent
      <4>1. /\ UNCHANGED <<intent, attempts>>
            /\ \A v \in Workers : v # w => pc'[v] = pc[v] /\ job'[v] = job[v]
            /\ pc'[w] # "calling"
        BY <1>1, <2>3, <3>1 DEF Admit, Return, TypeOK, ThreadTypeOK, ghosts
      <4>2. QED
        BY <4>1, NoAttemptStep
    <3>2. CASE /\ intent' = WithIntent(job[w])
               /\ pc' = [pc EXCEPT ![w] = "calling"]
               /\ UNCHANGED job
      <4>1. /\ job[w] \in Calls /\ job[w] \notin intent
            /\ UNCHANGED attempts
            /\ pc'[w] = "calling"
            /\ \A v \in Workers : v # w => pc'[v] = pc[v]
        BY <1>1, <2>3, <3>2 DEF Admit, TypeOK, ThreadTypeOK, ghosts
      <4>2. QED
        BY <3>2, <4>1 DEF AttemptInv, WithIntent
    <3>3. QED
      BY <2>3, <3>1, <3>2 DEF Admit
  <2>4. ASSUME NEW s \in {"success", "schema_error"}, NEW k \in Costs, ProviderAnswers(w, s, k)
        PROVE  AttemptInv'
    BY <2>4, AttemptStep DEF ProviderAnswers, disk
  <2>5. ASSUME NEW k \in Costs, ProviderRaises(w, k) PROVE AttemptInv'
    BY <2>5, AttemptStep DEF ProviderRaises, disk
  <2>6. ASSUME NEW k \in Costs, ProviderMismatch(w, k) PROVE AttemptInv'
    BY <2>6, AttemptStep DEF ProviderMismatch, disk
  <2>7. CASE WriteResult(w) \/ Account(w)
    <3>1. /\ UNCHANGED <<intent, attempts, job>>
          /\ \A v \in Workers : v # w => pc'[v] = pc[v]
          /\ pc'[w] # "calling"
      BY <1>1, <2>7 DEF WriteResult, Account, disk, ghosts
    <3>2. QED
      BY <3>1, NoAttemptStep
  <2>8. QED
    BY <1>4, <2>1, <2>2, <2>3, <2>4, <2>5, <2>6, <2>7 DEF Worker
<1>5. QED
  BY <1>2, <1>3, <1>4 DEF Next, Stopped

(* The provider is asked at most once for a call, over every crash,        *)
(* restart and interleaving (the promise of the CallStore docstring).      *)
THEOREM AtMostOnce == Spec => []AttemptedAtMostOnce
<1>1. Init => AttemptInv
  BY DEF Init, AttemptInv, Idle
<1>2. AttemptInv => AttemptedAtMostOnce
  BY DEF AttemptInv, AttemptedAtMostOnce
<1>3. QED
  BY <1>1, <1>2, TypeCorrect, AttemptInvStep, PTL DEF Spec

-----------------------------------------------------------------------------
(* A step leaves every result file as it is and deletes no intent file.    *)
ResultsKept == \A c \in Calls : result[c] # NoResult => result'[c] = result[c]

LEMMA ResultsKeptStep == TypeOK /\ [Next]_vars => ResultsKept
<1> SUFFICES ASSUME TypeOK, [Next]_vars PROVE ResultsKept
  OBVIOUS
<1> USE DEF ResultsKept
<1>1. ASSUME NEW d \in Calls, result' = AfterGet(d) PROVE ResultsKept
  BY <1>1, AfterGetType
<1>2. ASSUME NEW c \in Calls, Scan(c) PROVE ResultsKept
  BY <1>1, <1>2 DEF Scan
<1>3. CASE Start \/ Submit \/ JoinPool \/ Crash \/ Stopped \/ UNCHANGED vars
  BY <1>3 DEF Start, Submit, JoinPool, Crash, Stopped, vars, disk
<1>4. ASSUME NEW w \in Workers, Worker(w) PROVE ResultsKept
  <2>1. CASE Lookup(w) \/ Reuse(w)
    <3>1. job[w] \in Calls
      BY <2>1 DEF Lookup, Reuse, TypeOK, ThreadTypeOK
    <3>2. QED
      BY <1>1, <2>1, <3>1 DEF Lookup, Reuse
  <2>2. CASE WriteResult(w)
    BY <2>2 DEF WriteResult, TypeOK, JournalTypeOK
  <2>3. CASE UNCHANGED result
    BY <2>3
  <2>4. QED
    BY <1>4, <2>1, <2>2, <2>3 DEF Worker, Take, Admit, ProviderAnswers, ProviderRaises,
       ProviderMismatch, Account, Release, disk
<1>5. QED
  BY <1>2, <1>3, <1>4 DEF Next, Main

LEMMA IntentsKeptStep == TypeOK /\ [Next]_vars => intent \subseteq intent'
BY DEF Next, Start, Main, Scan, Submit, JoinPool, Worker, Take, Lookup, Reuse, Admit,
   WithIntent, ProviderAnswers, ProviderRaises, ProviderMismatch, WriteResult, Account,
   Release, Crash, Stopped, disk, vars

(* A result file is final: no step of any process replaces it.             *)
THEOREM ResultsFinal == Spec => ResultsImmutable
<1>1. Spec => [][ResultsKept]_vars
  BY TypeCorrect, ResultsKeptStep, PTL DEF Spec
<1>2. QED
  BY <1>1 DEF ResultsImmutable, ResultsKept

-----------------------------------------------------------------------------
(* Why recovery leaves live calls alone: workers run only inside the pool, *)
(* a call is in the queue or with one worker, and a call in flight has no  *)
(* result.                                                                 *)
OwnershipInv ==
    /\ \A w \in Workers : pc[w] # "idle" => main = "pool" /\ job[w] \notin queue
    /\ \A v, w \in Workers : pc[v] # "idle" /\ pc[w] # "idle" /\ v # w => job[v] # job[w]
    /\ NoSelfInterrupt

(* A step that ends no idleness, frees no call for a second worker and     *)
(* writes no result of another worker's call keeps the ownership.          *)
LEMMA OwnershipStep ==
    ASSUME TypeOK, OwnershipInv, NEW w \in Workers, pc[w] # "idle",
           UNCHANGED <<main, queue>>,
           \A v \in Workers : v # w => pc'[v] = pc[v] /\ job'[v] = job[v],
           pc'[w] # "idle" => job'[w] = job[w],
           \A c \in Calls : c # job[w] => result'[c] = result[c],
           pc'[w] \in {"calling", "writing"} => result'[job[w]] = NoResult
    PROVE  OwnershipInv'
<1>1. \A v \in Workers : pc[v] # "idle" => job[v] \in Calls
  BY DEF TypeOK, ThreadTypeOK
<1>2. \A v \in Workers :
          pc'[v] # "idle" => pc[v] # "idle" /\ job'[v] = job[v]
  OBVIOUS
<1>3. NoSelfInterrupt'
  <2> SUFFICES ASSUME NEW v \in Workers, pc'[v] \in {"calling", "writing"}
               PROVE  result'[job'[v]] = NoResult
    BY DEF NoSelfInterrupt, InFlight
  <2>1. CASE v = w
    BY <2>1, <1>2
  <2>2. CASE v # w
    <3>1. pc[v] = pc'[v] /\ job'[v] = job[v] /\ job[v] # job[w] /\ job[v] \in Calls
      BY <2>2, <1>1, <1>2 DEF OwnershipInv
    <3>2. QED
      BY <3>1 DEF OwnershipInv, NoSelfInterrupt, InFlight
  <2>3. QED
    BY <2>1, <2>2
<1>4. QED
  BY <1>2, <1>3 DEF OwnershipInv

(* Every step of the engine keeps the ownership invariant.                 *)
LEMMA OwnershipInvStep == TypeOK /\ OwnershipInv /\ [Next]_vars => OwnershipInv'
<1> SUFFICES ASSUME TypeOK, OwnershipInv, [Next]_vars PROVE OwnershipInv'
  OBVIOUS
<1>1. pc \in [Workers -> {"idle", "lookup", "admit", "calling", "writing",
                          "account", "release"}]
  BY DEF TypeOK, ThreadTypeOK
<1>2. ASSUME \A w \in Workers : pc'[w] = "idle" PROVE OwnershipInv'
  BY <1>2 DEF OwnershipInv, NoSelfInterrupt, InFlight
<1>3. ASSUME main # "pool" PROVE \A w \in Workers : pc[w] = "idle"
  BY <1>3 DEF OwnershipInv
<1>4. CASE Start
  BY <1>2, <1>3, <1>4 DEF Start, threads
<1>5. CASE Main
  <2>1. ASSUME NEW c \in Calls, Scan(c) PROVE OwnershipInv'
    BY <1>2, <1>3, <2>1 DEF Scan, threads
  <2>2. CASE Submit
    BY <1>2, <1>3, <2>2 DEF Submit, threads
  <2>3. CASE JoinPool
    BY <1>2, <2>3 DEF JoinPool, Idle, threads
  <2>4. QED
    BY <1>5, <2>1, <2>2, <2>3 DEF Main
<1>6. CASE Crash
  BY <1>2, <1>6 DEF Crash, Idle
<1>7. CASE UNCHANGED vars
  BY <1>7 DEF OwnershipInv, NoSelfInterrupt, InFlight, vars, disk, engine, threads
<1>8. ASSUME NEW w \in Workers, Worker(w) PROVE OwnershipInv'
  <2>1. ASSUME NEW c \in Calls, Take(w, c) PROVE OwnershipInv'
    <3>1. /\ main = "pool" /\ UNCHANGED <<main, result>>
          /\ pc[w] = "idle" /\ pc'[w] = "lookup" /\ job'[w] = c
          /\ c \in queue /\ queue' = queue \ {c}
          /\ \A v \in Workers : v # w => pc'[v] = pc[v] /\ job'[v] = job[v]
      BY <1>1, <2>1 DEF Take, Dequeue, disk, TypeOK, ThreadTypeOK
    <3>2. QED
      BY <3>1 DEF OwnershipInv, NoSelfInterrupt, InFlight
  <2>2. CASE Lookup(w) \/ Reuse(w)
    <3>1. /\ pc[w] # "idle" /\ UNCHANGED <<main, queue>>
          /\ \A v \in Workers : v # w => pc'[v] = pc[v] /\ job'[v] = job[v]
          /\ pc'[w] \in {"idle", "admit"}
          /\ pc'[w] # "idle" => job'[w] = job[w]
      BY <1>1, <2>2 DEF Lookup, Reuse, Return, TypeOK, ThreadTypeOK
    <3>2. \A c \in Calls : c # job[w] => result'[c] = result[c]
      BY <2>2, AfterGetType DEF Lookup, Reuse, TypeOK, ThreadTypeOK
    <3>3. QED
      BY <3>1, <3>2, OwnershipStep
  <2>3. CASE Admit(w)
    <3>1. /\ pc[w] # "idle" /\ UNCHANGED <<main, queue, result>>
          /\ result[job[w]] = NoResult
      BY <2>3 DEF Admit
    <3>2. /\ \A v \in Workers : v # w => pc'[v] = pc[v] /\ job'[v] = job[v]
          /\ pc'[w] # "idle" => job'[w] = job[w]
      BY <1>1, <2>3 DEF Admit, Return, TypeOK, ThreadTypeOK
    <3>3. QED
      BY <3>1, <3>2, OwnershipStep
  <2>4. ASSUME NEW s \in {"success", "schema_error"}, NEW k \in Costs, ProviderAnswers(w, s, k)
        PROVE  OwnershipInv'
    <3>1. /\ pc[w] = "calling" /\ UNCHANGED <<main, queue, result, job>>
          /\ \A v \in Workers : v # w => pc'[v] = pc[v]
      BY <1>1, <2>4 DEF ProviderAnswers, disk, engine
    <3>2. result[job[w]] = NoResult
      BY <3>1 DEF OwnershipInv, NoSelfInterrupt, InFlight
    <3>3. QED
      BY <3>1, <3>2, OwnershipStep
  <2>5. ASSUME NEW k \in Costs, ProviderRaises(w, k) PROVE OwnershipInv'
    <3>1. /\ pc[w] = "calling" /\ UNCHANGED <<main, queue, result, job>>
          /\ \A v \in Workers : v # w => pc'[v] = pc[v]
      BY <1>1, <2>5 DEF ProviderRaises, disk, engine
    <3>2. result[job[w]] = NoResult
      BY <3>1 DEF OwnershipInv, NoSelfInterrupt, InFlight
    <3>3. QED
      BY <3>1, <3>2, OwnershipStep
  <2>6. ASSUME NEW k \in Costs, ProviderMismatch(w, k) PROVE OwnershipInv'
    <3>1. /\ pc[w] # "idle" /\ UNCHANGED <<main, queue, result, job>>
          /\ pc'[w] = "release"
          /\ \A v \in Workers : v # w => pc'[v] = pc[v]
      BY <1>1, <2>6 DEF ProviderMismatch, disk
    <3>2. QED
      BY <3>1, OwnershipStep
  <2>7. CASE WriteResult(w) \/ Account(w)
    <3>1. /\ pc[w] # "idle" /\ UNCHANGED <<main, queue, job>>
          /\ pc'[w] \in {"account", "release"}
          /\ \A v \in Workers : v # w => pc'[v] = pc[v]
      BY <1>1, <2>7 DEF WriteResult, Account, engine
    <3>2. \A c \in Calls : c # job[w] => result'[c] = result[c]
      BY <2>7 DEF WriteResult, Account, disk, TypeOK, JournalTypeOK
    <3>3. QED
      BY <3>1, <3>2, OwnershipStep
  <2>8. CASE Release(w)
    <3>1. /\ pc[w] # "idle" /\ UNCHANGED <<main, queue, result>>
          /\ pc'[w] = "idle"
          /\ \A v \in Workers : v # w => pc'[v] = pc[v] /\ job'[v] = job[v]
      BY <1>1, <2>8 DEF Release, Return, disk, TypeOK, ThreadTypeOK
    <3>2. QED
      BY <3>1, OwnershipStep
  <2>9. QED
    BY <1>8, <2>1, <2>2, <2>3, <2>4, <2>5, <2>6, <2>7, <2>8 DEF Worker
<1>9. QED
  BY <1>4, <1>5, <1>6, <1>7, <1>8 DEF Next, Stopped

(* No call is settled as interrupted while its own process executes it, so *)
(* the FileExistsError of invoke is unreachable.                           *)
THEOREM LiveCallsKept == Spec => []NoSelfInterrupt
<1>1. Init => OwnershipInv
  BY DEF Init, OwnershipInv, NoSelfInterrupt, InFlight, Idle
<1>2. OwnershipInv => NoSelfInterrupt
  BY DEF OwnershipInv
<1>3. QED
  BY <1>1, <1>2, TypeCorrect, OwnershipInvStep, PTL DEF Spec

-----------------------------------------------------------------------------
(* Why a finished command has settled everything: while the pool runs and  *)
(* no future has raised, every call of the batch is in the queue, with a   *)
(* worker, or settled, and the batches before it are settled.              *)
Settled(c) ==
    /\ c \in intent
    /\ result[c] # NoResult
    /\ RoleOf[c] \in StrictRoles => result[c].status = "success"

AtWork(c) == \E w \in Workers : pc[w] # "idle" /\ job[w] = c

(* The files of a call, against the place where its worker is.             *)
FilesInv ==
    /\ \A c \in Calls : result[c] # NoResult => c \in intent
    /\ \A w \in Workers :
         /\ pc[w] \in {"calling", "writing", "account", "release"} => job[w] \in intent
         /\ pc[w] = "account" => result[job[w]] # NoResult
         /\ pc[w] = "release" => failed \/ result[job[w]] # NoResult

(* The calls of the batches, against the place where the main thread is.   *)
BatchInv ==
    /\ main = "pool" => batch \in DOMAIN Batches
    /\ main \in {"scan", "pool", "done"} =>
         \A b \in DOMAIN Batches : b < batch => \A c \in Batches[b] : Settled(c)
    /\ main = "pool" /\ ~failed =>
         \A c \in Batches[batch] : c \in queue \/ AtWork(c) \/ Settled(c)
    /\ main = "done" => \A b \in DOMAIN Batches : b < batch

SettledInv == FilesInv /\ BatchInv

(* A settled call stays settled.                                           *)
LEMMA SettledStays ==
    ASSUME intent \subseteq intent', ResultsKept, NEW c \in Calls, Settled(c)
    PROVE  Settled(c)'
BY DEF ResultsKept, Settled

(* A step of a worker that has a call: it keeps the call, or it ends with  *)
(* the call settled or with a raised future.                               *)
LEMMA SettledWorkerStep ==
    ASSUME TypeOK, SettledInv, intent \subseteq intent', ResultsKept,
           NEW w \in Workers, pc[w] # "idle", NEW d, d = job[w],
           UNCHANGED <<main, batch, queue>>, failed => failed',
           \A v \in Workers : v # w => pc'[v] = pc[v] /\ job'[v] = job[v],
           pc'[w] # "idle" => job'[w] = job[w],
           pc'[w] = "idle" => failed' \/ Settled(d)',
           \A c \in Calls : c # job[w] => result'[c] = result[c],
           result'[job[w]] # NoResult => job[w] \in intent',
           pc'[w] \in {"calling", "writing", "account", "release"} => job[w] \in intent',
           pc'[w] = "account" => result'[job[w]] # NoResult,
           pc'[w] = "release" => failed' \/ result'[job[w]] # NoResult
    PROVE  SettledInv'
<1>1. \A v \in Workers : pc[v] # "idle" => job[v] \in Calls
  BY DEF TypeOK, ThreadTypeOK
<1>2. FilesInv'
  <2>1. \A c \in Calls : result'[c] # NoResult => c \in intent'
    BY DEF SettledInv, FilesInv
  <2>2. ASSUME NEW v \in Workers, pc'[v] # "idle"
        PROVE  /\ pc'[v] \in {"calling", "writing", "account", "release"} => job'[v] \in intent'
               /\ pc'[v] = "account" => result'[job'[v]] # NoResult
               /\ pc'[v] = "release" => failed' \/ result'[job'[v]] # NoResult
    <3>1. CASE v = w
      BY <2>2, <3>1
    <3>2. CASE v # w
      <4>1. pc'[v] = pc[v] /\ job'[v] = job[v] /\ job[v] \in Calls
        BY <1>1, <2>2, <3>2
      <4>2. QED
        BY <4>1 DEF SettledInv, FilesInv, ResultsKept
    <3>3. QED
      BY <3>1, <3>2
  <2>3. QED
    BY <2>1, <2>2 DEF FilesInv
<1>3. BatchInv'
  <2>1. \A b \in DOMAIN Batches : \A c \in Batches[b] : Settled(c) => Settled(c)'
    BY SettledStays, BatchType
  <2>2. ASSUME main = "pool", ~failed', NEW c \in Batches[batch]
        PROVE  c \in queue' \/ AtWork(c)' \/ Settled(c)'
    <3>1. c \in queue \/ AtWork(c) \/ Settled(c)
      BY <2>2 DEF SettledInv, BatchInv
    <3>2. CASE c \in queue
      BY <3>2
    <3>3. CASE Settled(c)
      BY <2>1, <2>2, <3>3 DEF SettledInv, BatchInv
    <3>4. ASSUME NEW v \in Workers, pc[v] # "idle", job[v] = c
          PROVE  AtWork(c)' \/ Settled(c)'
      <4>1. CASE pc'[v] # "idle"
        <5>1. job'[v] = c
          BY <3>4, <4>1
        <5>2. QED
          BY <4>1, <5>1 DEF AtWork
      <4>2. CASE pc'[v] = "idle"
        <5>1. v = w /\ d = c
          BY <3>4, <4>2
        <5>2. QED
          BY <2>2, <4>2, <5>1
      <4>3. QED
        BY <4>1, <4>2
    <3>5. QED
      BY <3>1, <3>2, <3>3, <3>4 DEF AtWork
  <2>3. QED
    BY <2>1, <2>2 DEF SettledInv, BatchInv
<1>4. QED
  BY <1>2, <1>3 DEF SettledInv

(* What Return leaves of the threads.                                      *)
LEMMA ReturnFrame ==
    ASSUME TypeOK, NEW w \in Workers, NEW raised, Return(w, raised)
    PROVE  /\ pc'[w] = "idle"
           /\ \A v \in Workers : v # w => pc'[v] = pc[v] /\ job'[v] = job[v]
           /\ failed' = (failed \/ raised)
BY DEF Return, TypeOK, ThreadTypeOK

(* Entering a batch when all the batches before it are settled, with no    *)
(* worker at work.                                                         *)
LEMMA EnterBatchSettled ==
    ASSUME FilesInv', NEW b \in Nat, EnterBatch(b), b = 1 \/ b - 1 \in DOMAIN Batches,
           \A i \in DOMAIN Batches : i < b => \A c \in Batches[i] : Settled(c)'
    PROVE  SettledInv'
<1>1. DOMAIN Batches = 1..Len(Batches) /\ Len(Batches) \in Nat
  BY CallStoreAssumption
<1>2. batch' = b /\ main' \in {"scan", "done"}
  BY DEF EnterBatch
<1>3. main' = "done" => \A i \in DOMAIN Batches : i < b
  BY <1>1 DEF EnterBatch
<1>4. QED
  BY <1>2, <1>3 DEF SettledInv, BatchInv

(* Every step of the engine keeps what is settled and loses no call.       *)
LEMMA SettledInvStep ==
    TypeOK /\ OwnershipInv /\ SettledInv /\ [Next]_vars => SettledInv'
<1> SUFFICES ASSUME TypeOK, OwnershipInv, SettledInv, [Next]_vars PROVE SettledInv'
  OBVIOUS
<1>1. intent \subseteq intent' /\ ResultsKept
  BY IntentsKeptStep, ResultsKeptStep
<1>2. \A b \in DOMAIN Batches : \A c \in Batches[b] : Settled(c) => Settled(c)'
  BY <1>1, SettledStays, BatchType
<1>3. ASSUME \A w \in Workers : pc'[w] = "idle",
             \A c \in Calls : result'[c] # NoResult => c \in intent'
      PROVE  FilesInv'
  BY <1>3 DEF FilesInv
<1>4. ASSUME main # "pool" PROVE \A w \in Workers : pc[w] = "idle"
  BY <1>4 DEF OwnershipInv
<1>5. \A c \in Calls : result[c] # NoResult => c \in intent
  BY DEF SettledInv, FilesInv
<1>6. ASSUME NEW c \in Calls, result' = AfterGet(c), UNCHANGED intent
      PROVE  \A d \in Calls : result'[d] # NoResult => d \in intent'
  BY <1>5, <1>6, AfterGetType
<1>7. CASE Start
  <2>1. FilesInv'
    BY <1>3, <1>4, <1>5, <1>7 DEF Start, threads, disk
  <2>2. \A i \in DOMAIN Batches : ~(i < 1)
    BY CallStoreAssumption
  <2>3. QED
    BY <1>7, <2>1, <2>2, EnterBatchSettled DEF Start
<1>8. CASE Main
  <2>1. ASSUME NEW c \in Calls, Scan(c) PROVE SettledInv'
    <3>1. FilesInv'
      BY <1>3, <1>4, <1>6, <2>1 DEF Scan, threads
    <3>2. BatchInv'
      BY <1>2, <2>1 DEF Scan, SettledInv, BatchInv
    <3>3. QED
      BY <3>1, <3>2 DEF SettledInv
  <2>2. CASE Submit
    <3>1. FilesInv'
      BY <1>3, <1>4, <1>5, <2>2 DEF Submit, threads, disk
    <3>2. /\ main = "scan" /\ batch \in DOMAIN Batches
          /\ batch' = batch /\ main' \in {"failed", "pool"}
          /\ main' = "pool" => queue' = Batches[batch]
      BY <2>2 DEF Submit, TypeOK, EngineTypeOK
    <3>3. BatchInv'
      BY <1>2, <3>2 DEF SettledInv, BatchInv
    <3>4. QED
      BY <3>1, <3>3 DEF SettledInv
  <2>3. CASE JoinPool
    <3>1. FilesInv'
      BY <1>3, <1>5, <2>3 DEF JoinPool, Idle, threads, disk
    <3>2. CASE failed
      <4>1. main' = "failed"
        BY <2>3, <3>2 DEF JoinPool, PoolRaises
      <4>2. QED
        BY <3>1, <4>1 DEF SettledInv, BatchInv
    <3>3. CASE ~failed
      <4>1. EnterBatch(batch + 1) /\ batch \in DOMAIN Batches /\ batch \in Nat
        BY <2>3, <3>3 DEF JoinPool, PoolRaises, NextBatch, SettledInv, BatchInv, TypeOK,
           EngineTypeOK
      <4>2. \A c \in Batches[batch] : Settled(c)
        BY <2>3, <3>3 DEF JoinPool, Idle, SettledInv, BatchInv, AtWork
      <4>3. \A i \in DOMAIN Batches : i < batch + 1 => i < batch \/ i = batch
        BY <4>1, CallStoreAssumption
      <4>4. \A i \in DOMAIN Batches : i < batch + 1 => \A c \in Batches[i] : Settled(c)'
        BY <1>2, <2>3, <4>2, <4>3 DEF JoinPool, SettledInv, BatchInv
      <4>5. QED
        BY <3>1, <4>1, <4>4, EnterBatchSettled
    <3>4. QED
      BY <3>2, <3>3
  <2>4. QED
    BY <1>8, <2>1, <2>2, <2>3 DEF Main
<1>9. CASE Crash
  <2>1. FilesInv'
    BY <1>3, <1>5, <1>9 DEF Crash, Idle, disk
  <2>2. main' = "down"
    BY <1>9 DEF Crash
  <2>3. QED
    BY <2>1, <2>2 DEF SettledInv, BatchInv
<1>10. CASE UNCHANGED vars
  BY <1>10 DEF SettledInv, FilesInv, BatchInv, AtWork, Settled, vars, disk, engine, threads
<1>11. ASSUME NEW w \in Workers, Worker(w) PROVE SettledInv'
  <2> PICK d : d = job[w]
    OBVIOUS
  <2>1. ASSUME NEW c \in Calls, Take(w, c) PROVE SettledInv'
    <3>1. /\ main = "pool" /\ UNCHANGED <<main, batch, disk, failed>>
          /\ pc[w] = "idle" /\ pc'[w] = "lookup" /\ job'[w] = c
          /\ queue' = queue \ {c}
          /\ \A v \in Workers : v # w => pc'[v] = pc[v] /\ job'[v] = job[v]
      BY <2>1 DEF Take, Dequeue, TypeOK, ThreadTypeOK
    <3>2. FilesInv'
      BY <3>1 DEF SettledInv, FilesInv, disk
    <3>3. ASSUME NEW e \in Calls, AtWork(e) \/ e = c PROVE AtWork(e)'
      BY <3>1, <3>3 DEF AtWork
    <3>4. BatchInv'
      BY <1>2, <3>1, <3>3, BatchType DEF SettledInv, BatchInv
    <3>5. QED
      BY <3>2, <3>4 DEF SettledInv
  <2>2. CASE Lookup(w)
    <3>1. /\ pc[w] = "lookup" /\ d \in Calls /\ UNCHANGED <<main, batch, queue, intent>>
          /\ result' = AfterGet(d)
      BY <2>2 DEF Lookup, TypeOK, ThreadTypeOK
    <3>2. /\ \A v \in Workers : v # w => pc'[v] = pc[v] /\ job'[v] = job[v]
          /\ pc'[w] \in {"idle", "admit"}
          /\ pc'[w] # "idle" => job'[w] = job[w]
          /\ pc'[w] = "idle" => failed'
          /\ failed => failed'
      <4>1. CASE Return(w, TRUE)
        BY <4>1, ReturnFrame
      <4>2. CASE ~Return(w, TRUE)
        BY <2>2, <4>2 DEF Lookup, TypeOK, ThreadTypeOK
      <4>3. QED
        BY <4>1, <4>2
    <3>3. \A c \in Calls : c # d => result'[c] = result[c]
      BY <3>1, AfterGetType
    <3>4. result'[d] # NoResult => d \in intent'
      BY <1>6, <3>1
    <3>5. QED
      BY <1>1, <3>1, <3>2, <3>3, <3>4, SettledWorkerStep
  <2>3. CASE Reuse(w)
    <3>1. /\ pc[w] = "admit" /\ d \in Calls /\ UNCHANGED <<main, batch, queue, intent>>
          /\ result' = AfterGet(d) /\ Return(w, RaisesOn(d, result'[d]))
          /\ d \in intent \/ result[d] # NoResult
      BY <2>3 DEF Reuse, TypeOK, ThreadTypeOK
    <3>2. /\ pc'[w] = "idle"
          /\ \A v \in Workers : v # w => pc'[v] = pc[v] /\ job'[v] = job[v]
          /\ failed' = (failed \/ RaisesOn(d, result'[d]))
      BY <3>1, ReturnFrame
    <3>3. d \in intent
      BY <1>5, <3>1
    <3>4. result'[d] # NoResult
      BY <3>1, <3>3, Distinct DEF AfterGet, Orphan, Interrupted, Statuses, TypeOK, JournalTypeOK
    <3>5. failed' \/ Settled(d)'
      BY <3>1, <3>2, <3>3, <3>4 DEF RaisesOn, Settled
    <3>6. \A c \in Calls : c # d => result'[c] = result[c]
      BY <3>1, AfterGetType
    <3>7. QED
      BY <1>1, <3>1, <3>2, <3>3, <3>5, <3>6, SettledWorkerStep
  <2>4. CASE Admit(w)
    <3>1. /\ pc[w] = "admit" /\ d \in Calls /\ UNCHANGED <<main, batch, queue, result>>
          /\ result[d] = NoResult
      BY <2>4 DEF Admit, TypeOK, ThreadTypeOK
    <3>2. /\ \A v \in Workers : v # w => pc'[v] = pc[v] /\ job'[v] = job[v]
          /\ pc'[w] \in {"idle", "calling"}
          /\ pc'[w] = "calling" => job'[w] = job[w] /\ d \in intent'
          /\ pc'[w] = "idle" => failed'
          /\ failed => failed'
      <4>1. CASE Return(w, TRUE)
        BY <4>1, ReturnFrame
      <4>2. CASE ~Return(w, TRUE)
        BY <2>4, <4>2 DEF Admit, WithIntent, TypeOK, ThreadTypeOK
      <4>3. QED
        BY <4>1, <4>2
    <3>3. QED
      BY <1>1, <3>1, <3>2, SettledWorkerStep
  <2>5. CASE pc[w] = "calling" /\ UNCHANGED <<main, batch, queue, disk, job>>
             /\ (failed => failed')
             /\ \/ pc' = [pc EXCEPT ![w] = "writing"]
                \/ pc' = [pc EXCEPT ![w] = "release"] /\ failed'
    <3>1. /\ \A v \in Workers : v # w => pc'[v] = pc[v] /\ job'[v] = job[v]
          /\ pc'[w] = "writing" \/ (pc'[w] = "release" /\ failed')
      BY <2>5 DEF TypeOK, ThreadTypeOK
    <3>2. d \in Calls /\ d \in intent'
      BY <2>5 DEF disk, SettledInv, FilesInv, TypeOK, ThreadTypeOK
    <3>3. QED
      BY <1>1, <2>5, <3>1, <3>2, SettledWorkerStep DEF disk
  <2>6. CASE WriteResult(w)
    <3>1. /\ pc[w] = "writing" /\ d \in Calls /\ UNCHANGED <<main, batch, queue, intent, job>>
          /\ held[w] \in CallResult /\ d \in intent
      BY <2>6 DEF WriteResult, SettledInv, FilesInv, TypeOK, ThreadTypeOK
    <3>2. held[w] # NoResult
      BY <3>1, Distinct DEF CallResult
    <3>3. /\ \A v \in Workers : v # w => pc'[v] = pc[v]
          /\ \/ pc'[w] = "account" /\ result'[d] = held[w]
             \/ pc'[w] = "release" /\ failed'
          /\ failed => failed'
          /\ \A c \in Calls : c # d => result'[c] = result[c]
      BY <2>6, <3>1 DEF WriteResult, TypeOK, ThreadTypeOK, JournalTypeOK
    <3>4. QED
      BY <1>1, <3>1, <3>2, <3>3, SettledWorkerStep
  <2>7. CASE Account(w)
    <3>1. /\ pc[w] = "account" /\ d \in Calls
          /\ UNCHANGED <<main, batch, queue, disk, job, failed>>
          /\ d \in intent /\ result[d] # NoResult
          /\ pc'[w] = "release"
          /\ \A v \in Workers : v # w => pc'[v] = pc[v]
      BY <2>7 DEF Account, engine, SettledInv, FilesInv, TypeOK, ThreadTypeOK
    <3>2. QED
      BY <1>1, <3>1, SettledWorkerStep DEF disk
  <2>8. CASE Release(w)
    <3>1. /\ pc[w] = "release" /\ d \in Calls /\ UNCHANGED <<main, batch, queue, disk>>
          /\ Return(w, result[d] # NoResult /\ RaisesOn(d, result[d]))
          /\ d \in intent
          /\ failed \/ result[d] # NoResult
      BY <2>8 DEF Release, SettledInv, FilesInv, TypeOK, ThreadTypeOK
    <3>2. /\ pc'[w] = "idle"
          /\ \A v \in Workers : v # w => pc'[v] = pc[v] /\ job'[v] = job[v]
          /\ failed' = (failed \/ (result[d] # NoResult /\ RaisesOn(d, result[d])))
      BY <3>1, ReturnFrame
    <3>3. failed' \/ Settled(d)'
      BY <1>5, <3>1, <3>2 DEF RaisesOn, Settled, disk
    <3>4. QED
      BY <1>1, <1>5, <3>1, <3>2, <3>3, SettledWorkerStep DEF disk
  <2>9. ASSUME NEW k \in Costs,
               \/ \E s \in {"success", "schema_error"} : ProviderAnswers(w, s, k)
               \/ ProviderRaises(w, k) \/ ProviderMismatch(w, k)
        PROVE  SettledInv'
    BY <2>5, <2>9 DEF ProviderAnswers, ProviderRaises, ProviderMismatch, engine
  <2>10. QED
    BY <1>11, <2>1, <2>2, <2>3, <2>4, <2>6, <2>7, <2>8, <2>9 DEF Worker
<1>12. QED
  BY <1>7, <1>8, <1>9, <1>10, <1>11 DEF Next, Stopped

(* Both invariants hold in every reachable state.                          *)
LEMMA SettledInvariant == Spec => [](OwnershipInv /\ SettledInv)
<1>1. Init => OwnershipInv
  BY DEF Init, OwnershipInv, NoSelfInterrupt, InFlight, Idle
<1>2. Init => SettledInv
  BY DEF Init, SettledInv, FilesInv, BatchInv, Idle
<1>3. QED
  BY <1>1, <1>2, TypeCorrect, OwnershipInvStep, SettledInvStep, PTL DEF Spec

(* A command that ends normally has settled every call of every batch: the *)
(* pool skips no future, and one that raised ends the command with an      *)
(* error.                                                                  *)
THEOREM DoneIsComplete == Spec => []DoneMeansSettled
<1>1. SettledInv => DoneMeansSettled
  BY DEF SettledInv, BatchInv, Settled, DoneMeansSettled
<1>2. QED
  BY <1>1, SettledInvariant, PTL

-----------------------------------------------------------------------------
(* Why the cap holds: the journal's books.  The cached sum is that of the  *)
(* results whose worker has accounted for them, the pending estimate that  *)
(* of the calls with a reservation, and what was granted under the cap, an *)
(* estimate while the reservation lasts and a cost up to it afterwards,    *)
(* never adds up to more than the cap.                                     *)
Reserves == {"calling", "writing", "account", "release"}
Awaits == {"calling", "writing", "account"}

ReservedFor(c) == \E w \in Workers : pc[w] \in Reserves /\ job[w] = c
Awaited(c) == \E w \in Workers : pc[w] \in Awaits /\ job[w] = c

CostOf(c) == IF result[c] = NoResult THEN 0 ELSE result[c].cost

Booked == [c \in Calls |-> IF Awaited(c) THEN 0 ELSE CostOf(c)]
Reserved == [c \in Calls |-> IF ReservedFor(c) THEN EstimateOf(c) ELSE 0]
Granted ==
    [c \in Calls |-> IF ReservedFor(c) \/ CostOf(c) > EstimateOf(c)
                     THEN EstimateOf(c) ELSE CostOf(c)]

BooksInv ==
    /\ IsFiniteSet(intent)
    /\ \A w \in Workers : pc[w] = "account" => held[w] = result[job[w]]
    /\ cache = NoCache => \A w \in Workers : pc[w] \notin Reserves
    /\ cache # NoCache => cache = Sum(Booked, intent)
    /\ pending = Sum(Reserved, intent)
    /\ Sum(Granted, intent) <= Cap

(* The three books hold an amount for every call.                          *)
LEMMA BooksType ==
    TypeOK => /\ \A c \in Calls : EstimateOf(c) \in Nat /\ CostOf(c) \in Nat
              /\ \A c \in Calls : Booked[c] \in Nat /\ Reserved[c] \in Nat /\ Granted[c] \in Nat
<1> SUFFICES ASSUME TypeOK
             PROVE  /\ \A c \in Calls : EstimateOf(c) \in Nat /\ CostOf(c) \in Nat
                    /\ \A c \in Calls : Booked[c] \in Nat /\ Reserved[c] \in Nat /\ Granted[c] \in Nat
  OBVIOUS
<1>1. ASSUME NEW c \in Calls PROVE EstimateOf(c) \in Nat
  BY CallStoreAssumption DEF EstimateOf
<1>2. ASSUME NEW c \in Calls PROVE CostOf(c) \in Nat
  BY DEF TypeOK, JournalTypeOK, CallResult, CostOf
<1>3. QED
  BY <1>1, <1>2 DEF Booked, Reserved, Granted

(* Outside the pool nothing is reserved.                                   *)
LEMMA NothingReserved ==
    ASSUME \A w \in Workers : pc[w] \notin Reserves
    PROVE  \A c \in Calls : ~ReservedFor(c) /\ ~Awaited(c)
BY DEF ReservedFor, Awaited, Reserves, Awaits

(* What the process takes for the spending so far is what is booked.       *)
LEMMA ObservedIsBooked ==
    ASSUME TypeOK, FilesInv, BooksInv
    PROVE  ObservedCost = Sum(Booked, intent) /\ ObservedCost \in Nat
<1>1. intent \subseteq Calls /\ IsFiniteSet(intent) /\ \A c \in intent : Booked[c] \in Nat
  BY BooksType DEF TypeOK, JournalTypeOK, BooksInv
<1>2. Sum(Booked, intent) \in Nat
  BY <1>1, SumNat
<1>3. CASE cache # NoCache
  BY <1>2, <1>3 DEF BooksInv, ObservedCost
<1>4. CASE cache = NoCache
  <2> DEFINE known == {c \in Calls : result[c] # NoResult}
             cost == [c \in known |-> result[c].cost]
  <2>1. known \subseteq intent
    BY DEF FilesInv
  <2>2. \A c \in Calls : ~Awaited(c)
    BY <1>4, NothingReserved DEF BooksInv
  <2>3. \A c \in intent \ known : Booked[c] = 0
    BY <1>1, <2>2 DEF Booked, CostOf
  <2>4. \A c \in known : cost[c] = Booked[c]
    BY <2>2 DEF Booked, CostOf
  <2>5. RecordedIn(result) = Sum(cost, known)
    BY DEF RecordedIn, Sum
  <2> HIDE DEF known, cost
  <2>6. \A c \in intent : Booked[c] \in Int
    BY <1>1
  <2>7. Sum(Booked, known) = Sum(Booked, intent)
    BY <1>1, <2>1, <2>3, <2>6, SumPadded
  <2>8. Sum(cost, known) = Sum(Booked, known)
    <3>1. IsFiniteSet(known)
      BY <1>1, <2>1, FS_Subset
    <3>2. \A c \in known : cost[c] \in Int /\ cost[c] = Booked[c]
      BY <2>1, <2>4, <2>6
    <3>3. QED
      BY <3>1, <3>2, SumCongruent
  <2>9. QED
    BY <1>2, <1>4, <2>5, <2>7, <2>8 DEF ObservedCost
<1>5. QED
  BY <1>3, <1>4

(* A step of a worker touches the reservation of its own call only.        *)
LEMMA WorkerBooks ==
    ASSUME OwnershipInv, NEW w \in Workers, pc[w] # "idle",
           \A v \in Workers : v # w => pc'[v] = pc[v] /\ job'[v] = job[v],
           pc'[w] # "idle" => job'[w] = job[w]
    PROVE  /\ \A c \in Calls : c # job[w] =>
                  (ReservedFor(c)' <=> ReservedFor(c)) /\ (Awaited(c)' <=> Awaited(c))
           /\ ReservedFor(job[w]) <=> pc[w] \in Reserves
           /\ Awaited(job[w]) <=> pc[w] \in Awaits
           /\ \A c : c = job[w] => /\ ReservedFor(c)' <=> pc'[w] \in Reserves
                                   /\ Awaited(c)' <=> pc'[w] \in Awaits
<1>1. \A v \in Workers : v # w /\ pc[v] # "idle" => job[v] # job[w]
  BY DEF OwnershipInv
<1>2. "idle" \notin Reserves /\ "idle" \notin Awaits
  BY DEF Reserves, Awaits
<1>3. QED
  BY <1>1, <1>2 DEF ReservedFor, Awaited

(* A step that changes no amount of any call keeps the books, also when it *)
(* refreshes the cached sum.                                               *)
LEMMA BooksKept ==
    ASSUME TypeOK, FilesInv, BooksInv, UNCHANGED <<intent, pending>>,
           cache' = cache \/ cache' = ObservedCost,
           \A c \in Calls : /\ Booked'[c] = Booked[c]
                            /\ Reserved'[c] = Reserved[c]
                            /\ Granted'[c] = Granted[c],
           \A w \in Workers : pc'[w] = "account" => held'[w] = result'[job'[w]],
           \A w \in Workers : pc'[w] \in Reserves => pc[w] \in Reserves
    PROVE  BooksInv'
<1>1. intent \subseteq Calls /\ IsFiniteSet(intent)
  BY DEF TypeOK, JournalTypeOK, BooksInv
<1>2. /\ Sum(Booked', intent) = Sum(Booked, intent)
      /\ Sum(Reserved', intent) = Sum(Reserved, intent)
      /\ Sum(Granted', intent) = Sum(Granted, intent)
  BY <1>1, BooksType, SumCongruent
<1>3. ObservedCost = Sum(Booked, intent) /\ ObservedCost # NoCache
  BY ObservedIsBooked, Distinct
<1>4. QED
  BY <1>1, <1>2, <1>3 DEF BooksInv

(* What a step of a worker leaves of the others' threads and files.        *)
OthersKept(w) ==
    /\ \A v \in Workers : v # w => pc'[v] = pc[v] /\ job'[v] = job[v] /\ held'[v] = held[v]
    /\ pc'[w] # "idle" => job'[w] = job[w]
    /\ \A c \in Calls : c # job[w] => result'[c] = result[c]

(* Nor does it move an amount of another call.                             *)
LEMMA OtherBooks ==
    ASSUME OwnershipInv, NEW w \in Workers, pc[w] # "idle", OthersKept(w)
    PROVE  /\ \A c \in Calls : c # job[w] => /\ Booked'[c] = Booked[c]
                                             /\ Reserved'[c] = Reserved[c]
                                             /\ Granted'[c] = Granted[c]
           /\ \A v \in Workers : v # w /\ pc[v] # "idle" => job[v] # job[w]
BY WorkerBooks DEF OthersKept, Booked, Reserved, Granted, CostOf, EstimateOf, OwnershipInv

(* A worker at "account" still holds the result it wrote.                  *)
LEMMA HeldKept ==
    ASSUME TypeOK, OwnershipInv, BooksInv, NEW w \in Workers, pc[w] # "idle", OthersKept(w),
           pc'[w] = "account" => held'[w] = result'[job'[w]]
    PROVE  \A v \in Workers : pc'[v] = "account" => held'[v] = result'[job'[v]]
<1> SUFFICES ASSUME NEW v \in Workers, v # w, pc'[v] = "account"
             PROVE  held'[v] = result'[job'[v]]
  OBVIOUS
<1>1. pc[v] = "account" /\ job'[v] = job[v] /\ held'[v] = held[v]
  BY DEF OthersKept
<1>2. job[v] \in Calls /\ job[v] # job[w]
  BY <1>1, OtherBooks DEF TypeOK, ThreadTypeOK
<1>3. QED
  BY <1>1, <1>2 DEF OthersKept, BooksInv

(* A step of a worker that moves no amount of its own call.                *)
LEMMA OwnBooksKept ==
    ASSUME TypeOK, OwnershipInv, FilesInv, BooksInv,
           NEW w \in Workers, pc[w] # "idle", OthersKept(w),
           UNCHANGED <<intent, pending>>, cache' = cache \/ cache' = ObservedCost,
           pc'[w] \in Reserves <=> pc[w] \in Reserves,
           \/ pc[w] \in Awaits /\ pc'[w] \in Awaits
           \/ /\ \A c : c = job[w] => CostOf(c)' = CostOf(c)
              /\ (pc[w] \in Awaits <=> pc'[w] \in Awaits) \/ CostOf(job[w]) = 0,
           pc'[w] = "account" => held'[w] = result'[job'[w]]
    PROVE  BooksInv'
<1>1. job[w] \in Calls
  BY DEF TypeOK, ThreadTypeOK
<1>2. \A c \in Calls : /\ Booked'[c] = Booked[c]
                       /\ Reserved'[c] = Reserved[c]
                       /\ Granted'[c] = Granted[c]
  <2>1. ASSUME NEW c \in Calls, c = job[w]
        PROVE  /\ Booked'[c] = Booked[c]
               /\ Reserved'[c] = Reserved[c]
               /\ Granted'[c] = Granted[c]
    <3>1. /\ ReservedFor(c)' <=> ReservedFor(c)
          /\ Awaited(c)' <=> pc'[w] \in Awaits
          /\ Awaited(c) <=> pc[w] \in Awaits
          /\ Awaited(c) => ReservedFor(c)
      BY <2>1, WorkerBooks DEF OthersKept, Awaits, Reserves
    <3>2. EstimateOf(c)' = EstimateOf(c) /\ (Awaited(c)' => ReservedFor(c)')
      BY DEF EstimateOf, Awaited, ReservedFor, Awaits, Reserves
    <3>3. CASE Awaited(c) /\ Awaited(c)'
      BY <3>1, <3>2, <3>3 DEF Booked, Reserved, Granted
    <3>4. CASE CostOf(c)' = CostOf(c) /\ ((Awaited(c) <=> Awaited(c)') \/ CostOf(c) = 0)
      BY <3>1, <3>2, <3>4 DEF Booked, Reserved, Granted
    <3>5. QED
      BY <2>1, <3>1, <3>3, <3>4
  <2>2. QED
    BY <2>1, OtherBooks
<1>3. \A v \in Workers : pc'[v] = "account" => held'[v] = result'[job'[v]]
  BY HeldKept
<1>4. \A v \in Workers : pc'[v] \in Reserves => pc[v] \in Reserves
  BY DEF OthersKept
<1>5. QED
  BY <1>2, <1>3, <1>4, BooksKept

(* Accounting books the cost of the worker's own call.                     *)
LEMMA AccountBooks ==
    ASSUME TypeOK, OwnershipInv, FilesInv, BooksInv, NEW w \in Workers, Account(w)
    PROVE  BooksInv'
<1> DEFINE c == job[w]
<1>1. /\ pc[w] = "account" /\ c \in Calls /\ c \in intent
      /\ pc'[w] = "release" /\ job' = job /\ held' = held /\ result' = result
      /\ UNCHANGED <<intent, pending>> /\ cache' = ObservedCost + held[w].cost
      /\ \A v \in Workers : v # w => pc'[v] = pc[v]
  BY DEF Account, TypeOK, ThreadTypeOK, FilesInv, disk, engine
<1>2. OthersKept(w)
  BY <1>1 DEF OthersKept
<1>3. held[w] = result[c] /\ result[c] # NoResult /\ held[w].cost = CostOf(c)
  BY <1>1 DEF BooksInv, FilesInv, CostOf
<1>4. /\ ReservedFor(c) /\ Awaited(c)
      /\ \A d : d = c => ReservedFor(d)' /\ ~Awaited(d)'
  BY <1>1, <1>2, WorkerBooks DEF OthersKept, Reserves, Awaits
<1>5. /\ Booked[c] = 0 /\ Booked'[c] = CostOf(c)
      /\ Reserved'[c] = Reserved[c] /\ Granted'[c] = Granted[c]
  BY <1>1, <1>4 DEF Booked, Reserved, Granted, CostOf, EstimateOf
<1> HIDE DEF c
<1>6. intent \subseteq Calls /\ IsFiniteSet(intent)
      /\ \A d \in Calls : d # c => /\ Booked'[d] = Booked[d]
                                   /\ Reserved'[d] = Reserved[d]
                                   /\ Granted'[d] = Granted[d]
  BY <1>1, <1>2, OtherBooks DEF TypeOK, JournalTypeOK, BooksInv, c
<1>7. /\ Sum(Reserved', intent) = Sum(Reserved, intent)
      /\ Sum(Granted', intent) = Sum(Granted, intent)
  BY <1>5, <1>6, BooksType, SumCongruent
<1>8. Sum(Booked', intent) = Sum(Booked, intent) + CostOf(c)
  <2>1. \A d \in intent : Booked[d] \in Int /\ Booked'[d] \in Int
    BY <1>1, <1>5, <1>6, BooksType
  <2>2. Sum(Booked', intent) = Sum(Booked, intent) - Booked[c] + Booked'[c]
    BY <1>1, <1>6, <2>1, SumChange
  <2>3. CostOf(c) \in Nat /\ Sum(Booked, intent) \in Int
    BY <1>1, <1>6, <2>1, BooksType, SumType
  <2>4. QED
    BY <1>5, <2>2, <2>3
<1>9. /\ cache' = Sum(Booked', intent')
      /\ cache' # NoCache
  <2>1. ObservedCost = Sum(Booked, intent) /\ ObservedCost \in Nat /\ CostOf(c) \in Nat
    BY <1>1, ObservedIsBooked, BooksType
  <2>2. cache' = ObservedCost + CostOf(c) /\ cache' \in Nat
    BY <1>1, <1>3, <2>1 DEF c
  <2>3. QED
    BY <1>1, <1>8, <2>1, <2>2, Distinct
<1>10. \A v \in Workers : pc'[v] = "account" => held'[v] = result'[job'[v]]
  BY <1>1, <1>2, HeldKept
<1>11. QED
  BY <1>1, <1>6, <1>7, <1>9, <1>10 DEF BooksInv

(* Releasing gives back the estimate; what the call cost up to it stays    *)
(* granted.                                                                *)
LEMMA ReleaseBooks ==
    ASSUME TypeOK, OwnershipInv, FilesInv, BooksInv, NEW w \in Workers, Release(w)
    PROVE  BooksInv'
<1> DEFINE c == job[w]
<1>1. /\ pc[w] = "release" /\ c \in Calls /\ c \in intent
      /\ pc'[w] = "idle" /\ result' = result
      /\ UNCHANGED <<intent, cache>> /\ pending' = pending - EstimateOf(c)
  BY DEF Release, Return, TypeOK, ThreadTypeOK, FilesInv, disk
<1>2. OthersKept(w)
  BY <1>1 DEF OthersKept, Release, Return, TypeOK, ThreadTypeOK
<1>3. /\ ReservedFor(c) /\ ~Awaited(c)
      /\ \A d : d = c => ~ReservedFor(d)' /\ ~Awaited(d)'
  BY <1>1, <1>2, WorkerBooks DEF OthersKept, Reserves, Awaits
<1>4. CostOf(c) \in Nat /\ EstimateOf(c) \in Nat
  BY <1>1, BooksType
<1>5. /\ Booked'[c] = Booked[c]
      /\ Reserved[c] = EstimateOf(c) /\ Reserved'[c] = 0
      /\ Granted[c] = EstimateOf(c) /\ Granted'[c] \in Nat /\ Granted'[c] <= EstimateOf(c)
  BY <1>1, <1>3, <1>4 DEF Booked, Reserved, Granted, CostOf, EstimateOf
<1> HIDE DEF c
<1>6. intent \subseteq Calls /\ IsFiniteSet(intent)
      /\ \A d \in Calls : d # c => /\ Booked'[d] = Booked[d]
                                   /\ Reserved'[d] = Reserved[d]
                                   /\ Granted'[d] = Granted[d]
  BY <1>1, <1>2, OtherBooks DEF TypeOK, JournalTypeOK, BooksInv, c
<1>7. \A d \in intent : /\ Booked[d] \in Int /\ Reserved[d] \in Int /\ Granted[d] \in Int
                        /\ Reserved'[d] \in Int /\ Granted'[d] \in Int
  BY <1>5, <1>6, BooksType
<1>8. Sum(Booked', intent) = Sum(Booked, intent)
  BY <1>5, <1>6, <1>7, SumCongruent
<1>9. Sum(Reserved', intent) = Sum(Reserved, intent) - Reserved[c] + Reserved'[c]
  <2>1. \A d \in intent : d # c => Reserved[d] = Reserved'[d]
    BY <1>6
  <2>2. \A d \in intent : Reserved[d] \in Int /\ Reserved'[d] \in Int
    BY <1>7
  <2>3. c \in intent /\ IsFiniteSet(intent)
    BY <1>1, <1>6
  <2>4. QED
    BY <2>1, <2>2, <2>3, SumChange
<1>10. Sum(Granted', intent) = Sum(Granted, intent) - Granted[c] + Granted'[c]
  <2>1. \A d \in intent : d # c => Granted[d] = Granted'[d]
    BY <1>6
  <2>2. \A d \in intent : Granted[d] \in Int /\ Granted'[d] \in Int
    BY <1>7
  <2>3. c \in intent /\ IsFiniteSet(intent)
    BY <1>1, <1>6
  <2>4. QED
    BY <2>1, <2>2, <2>3, SumChange
<1>11. Sum(Reserved, intent) \in Int /\ Sum(Granted, intent) \in Int
  BY <1>6, <1>7, SumType
<1>12. pending' = Sum(Reserved', intent)
  BY <1>1, <1>4, <1>5, <1>9, <1>11 DEF BooksInv
<1>13. Sum(Granted', intent) <= Cap
  BY <1>4, <1>5, <1>10, <1>11, CallStoreAssumption DEF BooksInv
<1>14. \A v \in Workers : pc'[v] = "account" => held'[v] = result'[job'[v]]
  BY <1>1, <1>2, HeldKept
<1>15. \A v \in Workers : pc'[v] \in Reserves => pc[v] \in Reserves
  BY <1>1, <1>2 DEF OthersKept, Reserves
<1>16. QED
  BY <1>1, <1>6, <1>8, <1>12, <1>13, <1>14, <1>15 DEF BooksInv

(* What was granted so far is booked or reserved.                          *)
LEMMA GrantedIsBooked ==
    ASSUME TypeOK, FilesInv, BooksInv
    PROVE  Sum(Granted, intent) <= ObservedCost + pending /\ pending \in Nat
<1>1. intent \subseteq Calls /\ IsFiniteSet(intent)
  BY DEF TypeOK, JournalTypeOK, BooksInv
<1>2. ASSUME NEW c \in intent
      PROVE  /\ Booked[c] \in Nat /\ Reserved[c] \in Nat /\ Granted[c] \in Nat
             /\ Granted[c] <= Booked[c] + Reserved[c]
  <2>1. c \in Calls /\ EstimateOf(c) \in Nat /\ CostOf(c) \in Nat
    BY <1>1, BooksType
  <2>2. Awaited(c) => ReservedFor(c)
    BY DEF Awaited, ReservedFor, Awaits, Reserves
  <2>3. Granted[c] <= Booked[c] + Reserved[c]
    BY <2>1, <2>2 DEF Granted, Booked, Reserved
  <2>4. QED
    BY <2>1, <2>3, BooksType
<1>3. Sum(Granted, intent) <= Sum(Booked, intent) + Sum(Reserved, intent)
  BY <1>1, <1>2, SumBounded
<1>4. Sum(Reserved, intent) \in Nat
  BY <1>1, <1>2, SumNat
<1>5. QED
  BY <1>3, <1>4, ObservedIsBooked DEF BooksInv

(* Admission grants an estimate when the projection stays under the cap.   *)
LEMMA AdmitBooks ==
    ASSUME TypeOK, OwnershipInv, FilesInv, BooksInv, NEW w \in Workers, Admit(w),
           Projected(job[w]) <= Cap
    PROVE  BooksInv'
<1> DEFINE c == job[w]
<1>1. /\ pc[w] = "admit" /\ c \in Calls /\ c \notin intent /\ result[c] = NoResult
      /\ EstimateOf(c) \in Nat
      /\ ObservedCost \in Nat /\ pending \in Nat
  BY BooksType, ObservedIsBooked, GrantedIsBooked DEF Admit, TypeOK, ThreadTypeOK
<1>2. /\ pc'[w] = "calling" /\ job' = job /\ held' = held /\ result' = result
      /\ intent' = intent \union {c} /\ cache' = ObservedCost
      /\ pending' = pending + EstimateOf(c)
      /\ \A v \in Workers : v # w => pc'[v] = pc[v]
  <2>1. ~(Projected(c) > Cap)
    BY <1>1, CallStoreAssumption DEF Projected
  <2>2. QED
    BY <2>1 DEF Admit, WithIntent, TypeOK, ThreadTypeOK
<1>3. OthersKept(w)
  BY <1>2 DEF OthersKept
<1>4. \A d : d = c => ReservedFor(d)' /\ Awaited(d)'
  BY <1>1, <1>2, <1>3, WorkerBooks DEF OthersKept, Reserves, Awaits
<1>5. Booked'[c] = 0 /\ Reserved'[c] = EstimateOf(c) /\ Granted'[c] = EstimateOf(c)
  BY <1>1, <1>4 DEF Booked, Reserved, Granted, EstimateOf
<1>6. Projected(c) = ObservedCost + pending + EstimateOf(c) /\ Projected(c) <= Cap
  BY DEF Projected
<1>7. intent \subseteq Calls /\ IsFiniteSet(intent)
      /\ \A d \in Calls : d # c => /\ Booked'[d] = Booked[d]
                                   /\ Reserved'[d] = Reserved[d]
                                   /\ Granted'[d] = Granted[d]
  BY <1>1, <1>3, OtherBooks DEF TypeOK, JournalTypeOK, BooksInv
<1>8. \A v \in Workers : pc'[v] = "account" => held'[v] = result'[job'[v]]
  BY <1>1, <1>2, <1>3, HeldKept
<1> HIDE DEF c
<1>9. \A d \in intent : /\ Booked[d] \in Int /\ Reserved[d] \in Int /\ Granted[d] \in Int
                        /\ Booked'[d] = Booked[d]
                        /\ Reserved'[d] = Reserved[d]
                        /\ Granted'[d] = Granted[d]
  BY <1>1, <1>7, BooksType
<1>10. /\ Sum(Booked', intent) = Sum(Booked, intent)
       /\ Sum(Reserved', intent) = Sum(Reserved, intent)
       /\ Sum(Granted', intent) = Sum(Granted, intent)
  BY <1>7, <1>9, SumCongruent
<1>11. /\ Sum(Booked', intent') = Sum(Booked', intent) + Booked'[c]
       /\ Sum(Reserved', intent') = Sum(Reserved', intent) + Reserved'[c]
       /\ Sum(Granted', intent') = Sum(Granted', intent) + Granted'[c]
  <2>1. \A d \in intent \union {c} :
            Booked'[d] \in Int /\ Reserved'[d] \in Int /\ Granted'[d] \in Int
    BY <1>1, <1>5, <1>9
  <2>2. IsFiniteSet(intent) /\ c \notin intent /\ intent' = intent \union {c}
    BY <1>1, <1>2, <1>7 DEF c
  <2>3. Sum(Booked', intent') = Sum(Booked', intent) + Booked'[c]
    BY <2>1, <2>2, SumAdd
  <2>4. Sum(Reserved', intent') = Sum(Reserved', intent) + Reserved'[c]
    BY <2>1, <2>2, SumAdd
  <2>5. Sum(Granted', intent') = Sum(Granted', intent) + Granted'[c]
    BY <2>1, <2>2, SumAdd
  <2>6. QED
    BY <2>3, <2>4, <2>5
<1>12. ObservedCost = Sum(Booked, intent) /\ Sum(Granted, intent) <= ObservedCost + pending
  BY ObservedIsBooked, GrantedIsBooked
<1>13. /\ cache' = Sum(Booked', intent')
       /\ cache' # NoCache
  BY <1>1, <1>2, <1>5, <1>10, <1>11, <1>12, Distinct
<1>14. pending' = Sum(Reserved', intent')
  BY <1>2, <1>5, <1>10, <1>11 DEF BooksInv
<1>15. Sum(Granted', intent') <= Cap
  <2>1. Sum(Granted, intent) \in Int
    BY <1>7, <1>9, SumType
  <2>2. QED
    BY <1>1, <1>5, <1>6, <1>10, <1>11, <1>12, <2>1, CallStoreAssumption
<1>16. IsFiniteSet(intent')
  BY <1>2, <1>7, FS_AddElement
<1>17. QED
  BY <1>8, <1>13, <1>14, <1>15, <1>16 DEF BooksInv

(* What get() settles it settles at no cost.                               *)
LEMMA AfterGetCost ==
    ASSUME TypeOK, NEW d \in Calls, result' = AfterGet(d)
    PROVE  \A c \in Calls : CostOf(c)' = CostOf(c)
<1>1. ASSUME NEW c \in Calls, result[c] = NoResult, c = d, c \in intent
      PROVE  CostOf(c)' = 0
  <2>1. result'[c] = Interrupted
    BY <1>1 DEF AfterGet, Orphan, TypeOK, JournalTypeOK
  <2>2. QED
    BY <2>1 DEF CostOf, Interrupted
<1>2. ASSUME NEW c \in Calls, ~(result[c] = NoResult /\ c = d /\ c \in intent)
      PROVE  result'[c] = result[c]
  BY <1>2 DEF AfterGet, Orphan, TypeOK, JournalTypeOK
<1>3. QED
  BY <1>1, <1>2 DEF CostOf

(* A step that moves no worker into, out of or within the reservations and *)
(* changes no cost keeps the books.                                        *)
LEMMA UnmovedBooks ==
    ASSUME TypeOK, FilesInv, BooksInv, UNCHANGED <<intent, pending>>,
           cache' = cache \/ cache' = ObservedCost,
           \A v \in Workers : pc[v] \in Reserves \/ pc'[v] \in Reserves
                                  => pc'[v] = pc[v] /\ job'[v] = job[v] /\ held'[v] = held[v],
           \A v \in Workers : pc[v] \in Reserves => result'[job[v]] = result[job[v]],
           \A c \in Calls : CostOf(c)' = CostOf(c)
    PROVE  BooksInv'
<1>1. \A c \in Calls : (ReservedFor(c)' <=> ReservedFor(c)) /\ (Awaited(c)' <=> Awaited(c))
  BY DEF ReservedFor, Awaited, Reserves, Awaits
<1>2. \A c \in Calls : /\ Booked'[c] = Booked[c]
                       /\ Reserved'[c] = Reserved[c]
                       /\ Granted'[c] = Granted[c]
  BY <1>1 DEF Booked, Reserved, Granted, EstimateOf
<1>3. \A v \in Workers : pc'[v] = "account" => held'[v] = result'[job'[v]]
  BY DEF BooksInv, Reserves
<1>4. QED
  BY <1>2, <1>3, BooksKept

(* A new process has no reservation; what was granted before it is booked  *)
(* at the cost the journal holds, or at nothing.                           *)
LEMMA NewProcessBooks ==
    ASSUME TypeOK, BooksInv, UNCHANGED disk, cache' = NoCache, pending' = 0,
           \A w \in Workers : pc'[w] = "idle"
    PROVE  BooksInv'
<1>1. intent \subseteq Calls /\ IsFiniteSet(intent) /\ intent' = intent /\ result' = result
  BY DEF TypeOK, JournalTypeOK, BooksInv, disk
<1>2. ASSUME NEW c \in Calls
      PROVE  /\ Reserved'[c] = 0 /\ Granted'[c] \in Nat /\ Granted[c] \in Nat
             /\ Granted'[c] <= Granted[c] + Reserved'[c]
  <2>1. ~ReservedFor(c)'
    BY DEF ReservedFor, Reserves
  <2>2. CostOf(c)' = CostOf(c) /\ EstimateOf(c)' = EstimateOf(c)
    BY <1>1 DEF CostOf, EstimateOf
  <2>3. CostOf(c) \in Nat /\ EstimateOf(c) \in Nat
    BY BooksType
  <2>4. QED
    BY <2>1, <2>2, <2>3 DEF Reserved, Granted
<1>3. Sum(Reserved', intent) = 0
  <2>1. Sum(Reserved', {}) = Sum(Reserved', intent)
    BY <1>1, <1>2, SumPadded
  <2>2. QED
    BY <2>1, SumEmpty
<1>4. Sum(Granted', intent) <= Sum(Granted, intent) + Sum(Reserved', intent)
  <2>1. \A c \in intent : /\ Granted'[c] \in Int /\ Granted[c] \in Int /\ Reserved'[c] \in Int
                          /\ Granted'[c] <= Granted[c] + Reserved'[c]
    BY <1>1, <1>2
  <2>2. QED
    BY <1>1, <2>1, SumBounded
<1>5. Sum(Granted', intent) \in Int /\ Sum(Granted, intent) \in Int
  BY <1>1, <1>2, SumType
<1>6. Sum(Granted', intent') <= Cap
  BY <1>1, <1>3, <1>4, <1>5, CallStoreAssumption DEF BooksInv
<1>7. QED
  BY <1>1, <1>3, <1>6 DEF BooksInv, Reserves

(* Every step of the engine keeps the books.                               *)
LEMMA BooksInvStep ==
    TypeOK /\ OwnershipInv /\ FilesInv /\ BooksInv /\ [Next]_vars => BooksInv'
<1> SUFFICES ASSUME TypeOK, OwnershipInv, FilesInv, BooksInv, [Next]_vars PROVE BooksInv'
  OBVIOUS
<1>1. ASSUME main # "pool" PROVE \A w \in Workers : pc[w] = "idle"
  BY <1>1 DEF OwnershipInv
<1>2. CASE Start
  BY <1>1, <1>2, NewProcessBooks DEF Start, threads
<1>3. CASE Crash
  BY <1>3, NewProcessBooks DEF Crash, Idle
<1>4. ASSUME NEW c \in Calls, Scan(c) PROVE BooksInv'
  <2>1. \A w \in Workers : pc[w] = "idle"
    BY <1>1, <1>4 DEF Scan
  <2>2. \A d \in Calls : CostOf(d)' = CostOf(d)
    BY <1>4, AfterGetCost DEF Scan
  <2>3. UNCHANGED <<intent, memory, threads>>
    BY <1>4 DEF Scan
  <2>4. QED
    BY <2>1, <2>2, <2>3, UnmovedBooks DEF memory, threads, Reserves
<1>5. CASE Submit \/ JoinPool \/ UNCHANGED vars
  <2>1. /\ UNCHANGED <<intent, result, pending, pc, job, held>>
        /\ cache' = cache \/ cache' = ObservedCost
    BY <1>5 DEF Submit, JoinPool, vars, disk, memory, threads
  <2>2. \A d \in Calls : CostOf(d)' = CostOf(d)
    BY <2>1 DEF CostOf
  <2>3. QED
    BY <2>1, <2>2, UnmovedBooks
<1>6. ASSUME NEW w \in Workers, Worker(w) PROVE BooksInv'
  <2>1. ASSUME NEW c \in Calls, Take(w, c) PROVE BooksInv'
    <3>1. /\ UNCHANGED <<intent, result, pending, cache, held>>
          /\ pc[w] = "idle" /\ pc'[w] = "lookup"
          /\ \A v \in Workers : v # w => pc'[v] = pc[v] /\ job'[v] = job[v]
      BY <2>1 DEF Take, TypeOK, ThreadTypeOK, disk, memory
    <3>2. \A d \in Calls : CostOf(d)' = CostOf(d)
      BY <3>1 DEF CostOf
    <3>3. QED
      BY <3>1, <3>2, UnmovedBooks DEF Reserves
  <2>2. CASE Lookup(w) \/ Reuse(w)
    <3>1. /\ pc[w] \in {"lookup", "admit"} /\ pc'[w] \in {"idle", "admit"}
          /\ job[w] \in Calls /\ result' = AfterGet(job[w])
          /\ UNCHANGED <<intent, pending, cache>>
          /\ \A v \in Workers : v # w => pc'[v] = pc[v] /\ job'[v] = job[v] /\ held'[v] = held[v]
          /\ pc'[w] # "idle" => job'[w] = job[w]
      BY <2>2 DEF Lookup, Reuse, Return, TypeOK, ThreadTypeOK, memory
    <3>2. OthersKept(w)
      BY <3>1, AfterGetType DEF OthersKept
    <3>3. \A c : c = job[w] => CostOf(c)' = CostOf(c)
      BY <3>1, AfterGetCost
    <3>4. QED
      BY <3>1, <3>2, <3>3, OwnBooksKept DEF Reserves, Awaits
  <2>3. CASE Admit(w)
    <3>1. CASE Projected(job[w]) <= Cap
      BY <2>3, <3>1, AdmitBooks
    <3>2. CASE ~(Projected(job[w]) <= Cap)
      <4>1. Projected(job[w]) > Cap
        <5>1. job[w] \in Calls
          BY <2>3 DEF Admit, TypeOK, ThreadTypeOK
        <5>2. Projected(job[w]) \in Int
          BY <5>1, BooksType, ObservedIsBooked, GrantedIsBooked DEF Projected
        <5>3. QED
          BY <3>2, <5>2, CallStoreAssumption
      <4>2. /\ pc[w] = "admit" /\ pc'[w] = "idle" /\ result' = result
            /\ UNCHANGED <<intent, pending>> /\ cache' = ObservedCost
            /\ \A v \in Workers : v # w => pc'[v] = pc[v] /\ job'[v] = job[v] /\ held'[v] = held[v]
        BY <2>3, <4>1 DEF Admit, Return, TypeOK, ThreadTypeOK
      <4>3. OthersKept(w) /\ \A c : c = job[w] => CostOf(c)' = CostOf(c)
        BY <4>2 DEF OthersKept, CostOf
      <4>4. QED
        BY <4>2, <4>3, OwnBooksKept DEF Reserves, Awaits
    <3>3. QED
      BY <3>1, <3>2
  <2>4. ASSUME NEW s \in {"success", "schema_error"}, NEW k \in Costs,
               ProviderAnswers(w, s, k) \/ ProviderRaises(w, k) \/ ProviderMismatch(w, k)
        PROVE  BooksInv'
    <3>1. /\ pc[w] = "calling" /\ pc'[w] \in {"writing", "release"}
          /\ UNCHANGED <<intent, result, pending, cache, job>>
          /\ \A v \in Workers : v # w => pc'[v] = pc[v] /\ held'[v] = held[v]
      BY <2>4 DEF ProviderAnswers, ProviderRaises, ProviderMismatch, TypeOK, ThreadTypeOK,
                  disk, memory
    <3>2. OthersKept(w)
      BY <3>1 DEF OthersKept
    <3>3. CostOf(job[w]) = 0 /\ \A c : c = job[w] => CostOf(c)' = CostOf(c)
      BY <3>1 DEF CostOf, OwnershipInv, NoSelfInterrupt, InFlight
    <3>4. QED
      BY <3>1, <3>2, <3>3, OwnBooksKept DEF Reserves, Awaits
  <2>5. CASE WriteResult(w)
    <3>1. /\ pc[w] = "writing" /\ result[job[w]] = NoResult /\ job[w] \in Calls
      BY <2>5 DEF WriteResult, OwnershipInv, NoSelfInterrupt, InFlight, TypeOK, ThreadTypeOK
    <3>2. /\ pc'[w] = "account" /\ result' = [result EXCEPT ![job[w]] = held[w]]
          /\ UNCHANGED <<intent, pending, cache, job, held>>
          /\ \A v \in Workers : v # w => pc'[v] = pc[v]
      BY <2>5, <3>1 DEF WriteResult, TypeOK, ThreadTypeOK, memory
    <3>3. OthersKept(w) /\ held'[w] = result'[job'[w]]
      BY <3>1, <3>2 DEF OthersKept, TypeOK, JournalTypeOK
    <3>4. QED
      BY <3>1, <3>2, <3>3, OwnBooksKept DEF Reserves, Awaits
  <2>6. CASE Account(w)
    BY <2>6, AccountBooks
  <2>7. CASE Release(w)
    BY <2>7, ReleaseBooks
  <2>8. QED
    BY <1>6, <2>1, <2>2, <2>3, <2>4, <2>5, <2>6, <2>7 DEF Worker
<1>7. QED
  BY <1>2, <1>3, <1>4, <1>5, <1>6 DEF Next, Main, Stopped

(* The charges of the calls the journal knows stay within what was granted *)
(* and their own excess.                                                   *)
LEMMA BooksCapSpending ==
    ASSUME TypeOK, FilesInv, BooksInv
    PROVE  SpendWithinCap
<1> DEFINE known == Calls \ Unrecorded
           charge == [c \in known |-> billed[c]]
           excess == [c \in known |-> Excess(c)]
<1>1. intent \subseteq Calls /\ IsFiniteSet(intent)
      /\ \A c \in intent : Granted[c] \in Nat /\ Granted[c] \in Int
  BY BooksType DEF TypeOK, JournalTypeOK, BooksInv
<1>2. ASSUME NEW c \in known
      PROVE  /\ c \in intent
             /\ charge[c] \in Int /\ excess[c] \in Int /\ charge[c] <= Granted[c] + excess[c]
  <2>1. /\ c \in Calls /\ billed[c] \in Nat /\ EstimateOf(c) \in Nat /\ CostOf(c) \in Nat
        /\ charge[c] = billed[c] /\ excess[c] = Excess(c)
    BY BooksType DEF TypeOK, GhostTypeOK
  <2>2. excess[c] \in Nat /\ billed[c] <= EstimateOf(c) + excess[c]
    BY <2>1 DEF Excess
  <2>3. CASE ReservedFor(c)
    <3>1. c \in intent
      BY <2>3 DEF ReservedFor, Reserves, FilesInv
    <3>2. Granted[c] = EstimateOf(c)
      BY <2>1, <2>3 DEF Granted
    <3>3. QED
      BY <2>1, <2>2, <3>1, <3>2
  <2>4. CASE ~ReservedFor(c)
    <3>1. result[c] # NoResult /\ result[c].cost = billed[c]
      BY <2>1, <2>4 DEF Unrecorded, Reserving, ReservedFor, Reserves
    <3>2. c \in intent
      BY <2>1, <3>1 DEF FilesInv
    <3>3. CostOf(c) = billed[c]
      BY <3>1 DEF CostOf
    <3>4. Granted[c] = IF billed[c] > EstimateOf(c) THEN EstimateOf(c) ELSE billed[c]
      BY <2>1, <2>4, <3>3 DEF Granted
    <3>5. charge[c] <= Granted[c] + excess[c]
      BY <2>1, <2>2, <3>4
    <3>6. QED
      BY <2>1, <2>2, <3>2, <3>5
  <2>5. QED
    BY <2>3, <2>4
<1>3. known \subseteq intent /\ IsFiniteSet(known)
  BY <1>1, <1>2, FS_Subset
<1> HIDE DEF known, charge, excess
<1>4. \A c \in known : /\ charge[c] \in Int /\ Granted[c] \in Int /\ excess[c] \in Int
                       /\ charge[c] <= Granted[c] + excess[c]
  BY <1>1, <1>2, <1>3
<1>5. Sum(charge, known) <= Sum(Granted, known) + Sum(excess, known)
  BY <1>3, <1>4, SumBounded
<1>6. Sum(Granted, known) <= Sum(Granted, intent)
  <2>1. \A c \in intent \ known : Granted[c] >= 0
    BY <1>1
  <2>2. QED
    BY <1>1, <1>3, <2>1, SumSubset
<1>7. /\ Sum(charge, known) \in Int /\ Sum(excess, known) \in Int
      /\ Sum(Granted, known) \in Int /\ Sum(Granted, intent) \in Int
  BY <1>1, <1>3, <1>4, SumType
<1>8. Sum(charge, known) <= Cap + Sum(excess, known)
  BY <1>5, <1>6, <1>7, CallStoreAssumption DEF BooksInv
<1>9. /\ Total(charge, known) = Sum(charge, known)
      /\ Total(excess, known) = Sum(excess, known)
  BY DEF Total, Sum
<1>10. QED
  BY <1>8, <1>9 DEF SpendWithinCap, known, charge, excess

(* The books are in order at the start.                                    *)
LEMMA BooksInvInit == Init => BooksInv
<1> SUFFICES ASSUME Init PROVE BooksInv
  OBVIOUS
<1>1. intent = {} /\ IsFiniteSet(intent)
  BY FS_EmptySet DEF Init
<1>2. Sum(Reserved, intent) = 0 /\ Sum(Granted, intent) = 0
  BY <1>1, SumEmpty
<1>3. QED
  BY <1>1, <1>2, CallStoreAssumption DEF Init, Idle, BooksInv, Reserves

(* The books hold in every reachable state: the cached sum and the pending *)
(* estimate never drift from the journal, however the threads interleave.  *)
THEOREM BooksBalance == Spec => []BooksInv
<1>1. SettledInv => FilesInv
  BY DEF SettledInv
<1>2. QED
  BY <1>1, BooksInvInit, BooksInvStep, TypeCorrect, SettledInvariant, PTL DEF Spec

(* The cap of invoke caps the spending of every run of the command.        *)
THEOREM SpendingWithinCap == Spec => []SpendWithinCap
<1>1. TypeOK /\ SettledInv /\ BooksInv => SpendWithinCap
  BY BooksCapSpending DEF SettledInv
<1>2. QED
  BY <1>1, TypeCorrect, SettledInvariant, BooksBalance, PTL
=============================================================================
