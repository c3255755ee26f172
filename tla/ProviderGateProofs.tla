------------------------- MODULE ProviderGateProofs -------------------------
(***************************************************************************)
(* Proofs about ProviderGate: type correctness, that a query in progress   *)
(* owns its permit, that the stage limits hold across processes, and that  *)
(* the aggregate rate holds over everything ever started.                  *)
(***************************************************************************)
EXTENDS ProviderGate, FiniteSetTheorems, TLAPS

LEMMA OwnPermitType ==
    ASSUME TypeOK, NEW t \in Threads, Running(t)
    PROVE  OwnPermit(t) \in Permit
BY GateAssumption DEF TypeOK, ProcessTypeOK, Running, OwnPermit, Permit

(* Every reachable state is well typed.                                    *)
THEOREM TypeCorrect == Spec => []TypeOK
<1> USE DEF TypeOK
<1>1. Init => TypeOK
  BY DEF Init, ProcessTypeOK, TableTypeOK, ThreadTypeOK
<1>2. TypeOK /\ [Next]_vars => TypeOK'
  <2> SUFFICES ASSUME TypeOK, [Next]_vars PROVE TypeOK'
    OBVIOUS
  <2> USE GateAssumption
  <2>1. ASSUME NEW p \in Procs, NEW k \in Pids, StartProcess(p, k) PROVE TypeOK'
    <3>1. ProcessTypeOK'
      BY <2>1 DEF StartProcess, ProcessTypeOK
    <3>2. TableTypeOK'
      BY <2>1 DEF StartProcess, TableTypeOK
    <3>3. ThreadTypeOK'
      BY <2>1 DEF StartProcess, ThreadTypeOK, ProcessTypeOK, Running
    <3>4. QED
      BY <3>1, <3>2, <3>3
  <2>2. ASSUME NEW t \in Threads, Refuse(t) PROVE TypeOK'
    BY <2>2 DEF Refuse, ProcessTypeOK, TableTypeOK, ThreadTypeOK, Running
  <2>3. ASSUME NEW t \in Threads, Acquire(t) PROVE TypeOK'
    <3>1. Running(t)
      BY <2>3 DEF Acquire, ThreadTypeOK
    <3>2. TableTypeOK'
      BY <2>3, <3>1, OwnPermitType DEF Acquire, TableTypeOK, LivePermits, RecentStarts
    <3>3. ProcessTypeOK' /\ ThreadTypeOK'
      BY <2>3, <3>1 DEF Acquire, ProcessTypeOK, ThreadTypeOK, Running
    <3>4. QED
      BY <3>2, <3>3
  <2>4. ASSUME NEW t \in Threads, ReserveStart(t) PROVE TypeOK'
    <3>1. Running(t)
      BY <2>4 DEF ReserveStart, ThreadTypeOK
    <3>2. [thread |-> t, life |-> lives[ProcOf[t]], call |-> made[t], at |-> clock] \in CallStart
      BY DEF CallStart, ProcessTypeOK, TableTypeOK, ThreadTypeOK
    <3>3. TableTypeOK'
      BY <2>4, <3>2 DEF ReserveStart, TableTypeOK, LivePermits, RecentStarts
    <3>4. ProcessTypeOK' /\ ThreadTypeOK'
      BY <2>4, <3>1 DEF ReserveStart, ProcessTypeOK, ThreadTypeOK, Running
    <3>5. QED
      BY <3>3, <3>4
  <2>5. ASSUME NEW t \in Threads, CallReturns(t) PROVE TypeOK'
    BY <2>5 DEF CallReturns, ProcessTypeOK, TableTypeOK, ThreadTypeOK, Running
  <2>6. ASSUME NEW t \in Threads, Release(t) PROVE TypeOK'
    BY <2>6 DEF Release, WithoutOwn, ProcessTypeOK, TableTypeOK, ThreadTypeOK, Running
  <2>7. ASSUME NEW p \in Procs, Crash(p) PROVE TypeOK'
    <3>1. ProcessTypeOK' /\ TableTypeOK'
      BY <2>7 DEF Crash, ProcessTypeOK, TableTypeOK
    <3>2. ThreadTypeOK'
      BY <2>7 DEF Crash, ThreadTypeOK, ProcessTypeOK, Running
    <3>3. QED
      BY <3>1, <3>2
  <2>8. ASSUME NEW p \in Procs, Exit(p) PROVE TypeOK'
    <3>1. ProcessTypeOK' /\ TableTypeOK'
      BY <2>8 DEF Exit, ProcessTypeOK, TableTypeOK
    <3>2. ThreadTypeOK'
      BY <2>8 DEF Exit, QueriesDone, ThreadTypeOK, ProcessTypeOK, Running
    <3>3. QED
      BY <3>1, <3>2
  <2>9. CASE Tick
    BY <2>9 DEF Tick, ProcessTypeOK, TableTypeOK, ThreadTypeOK, Running
  <2>10. CASE Stopped \/ UNCHANGED vars
    BY <2>10 DEF Stopped, vars, ProcessTypeOK, TableTypeOK, ThreadTypeOK, Running
  <2>11. QED
    BY <2>1, <2>2, <2>3, <2>4, <2>5, <2>6, <2>7, <2>8, <2>9, <2>10 DEF Next, Thread
<1>3. QED
  BY <1>1, <1>2, PTL DEF Spec

-----------------------------------------------------------------------------
(* A query keeps its row: cleanup spares the rows of running processes and *)
(* release takes nothing but the row of the releasing thread.              *)
LEMMA PermitBackedStep ==
    ASSUME TypeOK, PermitBacked, [Next]_vars
    PROVE  PermitBacked'
<1> USE DEF PermitBacked, InUse, OwnPermit
<1>0. \A t \in InUse : OwnPermit(t) \in permits /\ PidIsAlive(OwnPermit(t).pid)
  BY GateAssumption DEF PidIsAlive, TypeOK
<1>1. ASSUME NEW p \in Procs, NEW k \in Pids, StartProcess(p, k) PROVE PermitBacked'
  BY <1>1 DEF StartProcess, TypeOK, ProcessTypeOK, ThreadTypeOK, Running
<1>2. ASSUME NEW t \in Threads, Refuse(t) PROVE PermitBacked'
  BY <1>2 DEF Refuse, TypeOK, ThreadTypeOK
<1>3. ASSUME NEW t \in Threads, Acquire(t) PROVE PermitBacked'
  BY <1>0, <1>3 DEF Acquire, LivePermits, TypeOK, ThreadTypeOK
<1>4. ASSUME NEW t \in Threads, ReserveStart(t) PROVE PermitBacked'
  BY <1>0, <1>4 DEF ReserveStart, LivePermits, TypeOK, ThreadTypeOK
<1>5. ASSUME NEW t \in Threads, CallReturns(t) PROVE PermitBacked'
  BY <1>5 DEF CallReturns, TypeOK, ThreadTypeOK
<1>6. ASSUME NEW t \in Threads, Release(t) PROVE PermitBacked'
  BY <1>6 DEF Release, WithoutOwn, TypeOK, ThreadTypeOK
<1>7. ASSUME NEW p \in Procs, Crash(p) PROVE PermitBacked'
  BY <1>7 DEF Crash, TypeOK, ProcessTypeOK, ThreadTypeOK
<1>8. ASSUME NEW p \in Procs, Exit(p) PROVE PermitBacked'
  BY <1>8 DEF Exit, QueriesDone, TypeOK, ProcessTypeOK, ThreadTypeOK
<1>9. CASE Tick \/ Stopped \/ UNCHANGED vars
  BY <1>9 DEF Tick, Stopped, vars
<1>10. QED
  BY <1>1, <1>2, <1>3, <1>4, <1>5, <1>6, <1>7, <1>8, <1>9 DEF Next, Thread

(* A query in progress owns a row of the permit table.                     *)
THEOREM PermitKept == Spec => []PermitBacked
<1>1. Init => PermitBacked
  BY DEF Init, PermitBacked, InUse
<1>2. QED
  BY <1>1, PermitBackedStep, TypeCorrect, PTL DEF Spec

-----------------------------------------------------------------------------
(* The table itself never holds more rows of a stage than its limit.       *)
TableBounded ==
    /\ IsFiniteSet(permits)
    /\ \A st \in Stages : Cardinality(Held(permits, st)) <= Limit[st]

LEMMA FewerRows ==
    ASSUME TableBounded, NEW P \in SUBSET permits
    PROVE  /\ IsFiniteSet(P)
           /\ \A st \in Stages : /\ Cardinality(Held(P, st)) \in Nat
                                 /\ Cardinality(Held(P, st)) <= Limit[st]
<1>1. IsFiniteSet(P)
  BY FS_Subset DEF TableBounded
<1>2. ASSUME NEW st \in Stages
      PROVE  Cardinality(Held(P, st)) \in Nat /\ Cardinality(Held(P, st)) <= Limit[st]
  <2>1. Held(permits, st) \in SUBSET permits /\ Held(P, st) \in SUBSET Held(permits, st)
    BY DEF Held
  <2>2. IsFiniteSet(Held(permits, st)) /\ IsFiniteSet(Held(P, st))
    BY <2>1, FS_Subset DEF TableBounded
  <2>3. Cardinality(Held(P, st)) <= Cardinality(Held(permits, st))
    BY <2>1, <2>2, FS_Subset
  <2>4. Cardinality(Held(P, st)) \in Nat /\ Cardinality(Held(permits, st)) \in Nat
    BY <2>2, FS_CardinalityType
  <2>5. QED
    BY <2>3, <2>4, GateAssumption DEF TableBounded
<1>3. QED
  BY <1>1, <1>2

(* The committing transaction of acquire counts before it inserts.         *)
LEMMA AcquireBounded ==
    ASSUME TypeOK, TableBounded, NEW t \in Threads, Acquire(t)
    PROVE  TableBounded'
<1> DEFINE L == LivePermits(t)
<1>1. L \in SUBSET permits
  BY DEF LivePermits
<1>2. permits' = L \union {OwnPermit(t)}
  BY DEF Acquire
<1>3. IsFiniteSet(permits')
  BY <1>1, <1>2, FewerRows, FS_AddElement
<1>4. ASSUME NEW st \in Stages
      PROVE  Cardinality(Held(permits', st)) <= Limit[st]
  <2>1. IsFiniteSet(Held(L, st))
    <3>1. IsFiniteSet(L)
      BY <1>1, FewerRows
    <3>2. Held(L, st) \in SUBSET L
      BY DEF Held
    <3>3. QED
      BY <3>1, <3>2, FS_Subset
  <2>2. CASE st = StageOf[t]
    <3>1. Held(permits', st) = Held(L, st) \union {OwnPermit(t)}
      BY <1>2, <2>2 DEF Held, OwnPermit
    <3>2. Cardinality(Held(L, st)) < Limit[st] /\ Cardinality(Held(L, st)) \in Nat
      BY <1>1, <2>2, FewerRows DEF Acquire, Room
    <3>3. Cardinality(Held(permits', st)) =
            IF OwnPermit(t) \in Held(L, st) THEN Cardinality(Held(L, st))
                                            ELSE Cardinality(Held(L, st)) + 1
      BY <2>1, <3>1, FS_AddElement
    <3>4. QED
      BY <3>2, <3>3, GateAssumption
  <2>3. CASE st # StageOf[t]
    <3>1. Held(permits', st) = Held(L, st)
      BY <1>2, <2>3 DEF Held, OwnPermit
    <3>2. QED
      BY <1>1, <3>1, FewerRows
  <2>4. QED
    BY <2>2, <2>3
<1>5. QED
  BY <1>3, <1>4 DEF TableBounded, Held

LEMMA TableBoundedStep ==
    ASSUME TypeOK, TableBounded, [Next]_vars
    PROVE  TableBounded'
<1>1. ASSUME NEW t \in Threads, Acquire(t) PROVE TableBounded'
  BY <1>1, AcquireBounded
<1>2. ASSUME permits' \subseteq permits PROVE TableBounded'
  <2>1. permits' \in SUBSET permits
    BY <1>2
  <2>2. QED
    BY <2>1, FewerRows DEF TableBounded, Held
<1>3. ASSUME NEW t \in Threads, ReserveStart(t) \/ Release(t) PROVE TableBounded'
  BY <1>2, <1>3 DEF ReserveStart, Release, LivePermits, WithoutOwn
<1>4. CASE UNCHANGED permits
  BY <1>2, <1>4
<1>5. QED
  BY <1>1, <1>3, <1>4 DEF Next, Thread, StartProcess, Refuse, CallReturns, Crash, Exit,
                          Tick, Stopped, vars

(* Queries in progress own different rows, so they are no more than rows.  *)
LEMMA QueriesOwnRows ==
    ASSUME TypeOK, PermitBacked, TableBounded
    PROVE  WithinLimit
<1> SUFFICES ASSUME NEW st \in Stages
             PROVE  Cardinality({t \in InUse : StageOf[t] = st}) <= Limit[st]
  BY DEF WithinLimit
<1> DEFINE Q == {t \in InUse : StageOf[t] = st}
<1> DEFINE R == Held(permits, st)
<1> DEFINE f == [t \in Q |-> OwnPermit(t)]
<1>1. f \in Injection(Q, R)
  <2>1. f \in [Q -> R]
    BY DEF PermitBacked, Held, OwnPermit, InUse
  <2>2. \A a, b \in Q : f[a] = f[b] => a = b
    BY DEF OwnPermit
  <2>3. QED
    BY <2>1, <2>2 DEF Injection, IsInjective
<1>2. IsFiniteSet(R) /\ Cardinality(R) \in Nat /\ Cardinality(R) <= Limit[st]
  <2>1. R \in SUBSET permits
    BY DEF Held
  <2>2. QED
    BY <2>1, FewerRows, FS_Subset, FS_CardinalityType DEF TableBounded
<1>3. IsFiniteSet(Q) /\ Cardinality(Q) <= Cardinality(R)
  BY <1>1, <1>2, FS_Injection
<1>4. Cardinality(Q) \in Nat
  BY <1>3, FS_CardinalityType
<1>5. QED
  BY <1>2, <1>3, <1>4, GateAssumption

(* No more queries of a stage run than its limit, whatever dies, restarts  *)
(* or gets a recycled pid.                                                 *)
THEOREM StageLimit == Spec => []WithinLimit
<1>1. Init => TableBounded
  <2> SUFFICES ASSUME Init PROVE TableBounded
    OBVIOUS
  <2>1. permits = {} /\ \A st \in Stages : Held(permits, st) = {}
    BY DEF Init, Held
  <2>2. QED
    BY <2>1, FS_EmptySet, GateAssumption DEF TableBounded
<1>2. Spec => []TableBounded
  BY <1>1, TableBoundedStep, TypeCorrect, PTL DEF Spec
<1>3. QED
  BY <1>2, TypeCorrect, PermitKept, QueriesOwnRows, PTL

-----------------------------------------------------------------------------
(* What the table remembers is all that the windows still need: the recent *)
(* rows are the recent starts of the whole history, and no start lies in   *)
(* the future.                                                             *)
WindowKept ==
    /\ RecentStarts = {s \in history : s.at > clock - Window}
    /\ \A s \in history : s.at <= clock
    /\ IsFiniteSet(starts)

RateInv == WindowKept /\ AggregateRate

InWindow(H, a) == {b \in H : b.at <= a.at /\ b.at > a.at - Window}

LEMMA IntervalWithinWindow == Interval <= Window
<1>1. RpmCap \in Nat /\ RpmCap >= 1 /\ Interval \in Nat
  BY GateAssumption
<1>2. \A r, i \in Nat : r >= 1 => i <= r * i
  OBVIOUS
<1>3. QED
  BY <1>1, <1>2, IntervalIsEven

(* Reserving a start is the only step that adds to the history.            *)
LEMMA ReserveKeepsRate ==
    ASSUME TypeOK, RateInv, NEW t \in Threads, ReserveStart(t)
    PROVE  RateInv'
<1> DEFINE s == [thread |-> t, life |-> lives[ProcOf[t]], call |-> made[t], at |-> clock]
<1> USE DEF RateInv, WindowKept
<1>1. /\ starts' = RecentStarts \union {s} /\ history' = history \union {s}
      /\ clock' = clock /\ clock \in Nat /\ s.at = clock
      /\ \A h \in history : h.at \in Nat /\ h.at <= clock
      /\ Window \in Nat /\ Interval \in Nat /\ RpmCap \in Nat
  BY GateAssumption DEF ReserveStart, TypeOK, TableTypeOK, CallStart
<1>2. WindowKept'
  <2>1. IsFiniteSet(RecentStarts)
    <3>1. RecentStarts \in SUBSET starts
      BY DEF RecentStarts
    <3>2. QED
      BY <3>1, FS_Subset
  <2>2. IsFiniteSet(starts')
    BY <1>1, <2>1, FS_AddElement
  <2>3. RecentStarts' = {h \in history' : h.at > clock' - Window}
    <3>1. RecentStarts' = {h \in RecentStarts \union {s} : h.at > clock - Window}
      BY <1>1 DEF RecentStarts
    <3>2. QED
      BY <1>1, <3>1
  <2>4. QED
    BY <1>1, <2>2, <2>3
<1>3. \A a \in history : clock - a.at >= Interval
  <2> SUFFICES ASSUME NEW a \in history PROVE clock - a.at >= Interval
    OBVIOUS
  <2>1. CASE a.at > clock - Window
    BY <2>1 DEF ReserveStart, Spaced
  <2>2. CASE ~(a.at > clock - Window)
    BY <1>1, <2>2, IntervalWithinWindow
  <2>3. QED
    BY <2>1, <2>2
<1>4. \A a, b \in history' : a # b => a.at - b.at >= Interval \/ b.at - a.at >= Interval
  BY <1>1, <1>3 DEF AggregateRate
<1>5. ASSUME NEW a \in history' PROVE Cardinality(InWindow(history', a)) <= RpmCap
  <2>1. CASE a.at = clock
    <3>1. InWindow(history', a) \in SUBSET (RecentStarts \union {s})
      BY <1>1, <2>1 DEF InWindow
    <3>2. RecentStarts \in SUBSET starts /\ IsFiniteSet(starts)
      BY DEF RecentStarts
    <3>3. IsFiniteSet(RecentStarts)
      BY <3>2, FS_Subset
    <3>4. Cardinality(RecentStarts) \in Nat /\ Cardinality(RecentStarts) < RpmCap
      BY <3>3, FS_CardinalityType DEF ReserveStart
    <3>5. /\ IsFiniteSet(RecentStarts \union {s})
          /\ Cardinality(RecentStarts \union {s}) =
               IF s \in RecentStarts THEN Cardinality(RecentStarts)
                                     ELSE Cardinality(RecentStarts) + 1
      BY <3>3, FS_AddElement
    <3>6. /\ IsFiniteSet(InWindow(history', a))
          /\ Cardinality(InWindow(history', a)) <= Cardinality(RecentStarts \union {s})
      BY <3>1, <3>5, FS_Subset
    <3>7. Cardinality(InWindow(history', a)) \in Nat
      BY <3>6, FS_CardinalityType
    <3>8. QED
      BY <1>1, <3>4, <3>5, <3>6, <3>7
  <2>2. CASE a.at # clock
    <3>1. a \in history /\ a.at < clock
      BY <1>1, <2>2
    <3>2. InWindow(history', a) = InWindow(history, a)
      BY <1>1, <3>1 DEF InWindow
    <3>3. QED
      BY <3>1, <3>2 DEF AggregateRate, InWindow
  <2>3. QED
    BY <2>1, <2>2
<1>6. AggregateRate'
  BY <1>4, <1>5 DEF AggregateRate, InWindow
<1>7. QED
  BY <1>2, <1>6

LEMMA RateStep ==
    ASSUME TypeOK, RateInv, [Next]_vars
    PROVE  RateInv'
<1> USE DEF RateInv, WindowKept
<1>1. ASSUME NEW t \in Threads, ReserveStart(t) PROVE RateInv'
  BY <1>1, ReserveKeepsRate
<1>2. ASSUME NEW t \in Threads, Acquire(t) PROVE RateInv'
  <2>1. starts' = RecentStarts /\ clock' = clock /\ history' = history
    BY <1>2 DEF Acquire
  <2>2. RecentStarts' = RecentStarts
    BY <2>1 DEF RecentStarts
  <2>3. RecentStarts \in SUBSET starts
    BY DEF RecentStarts
  <2>4. IsFiniteSet(starts')
    BY <2>1, <2>3, FS_Subset
  <2>5. QED
    BY <2>1, <2>2, <2>4 DEF AggregateRate
<1>3. CASE Tick
  <2>1. starts' = starts /\ clock' = clock + 1 /\ history' = history /\ clock \in Nat
    BY <1>3 DEF Tick, TypeOK, TableTypeOK
  <2>2. /\ \A h \in history \union starts : h.at \in Nat
        /\ Window \in Nat
    BY GateAssumption DEF TypeOK, TableTypeOK, CallStart
  <2>3. RecentStarts' = {h \in RecentStarts : h.at > clock + 1 - Window}
    BY <2>1, <2>2 DEF RecentStarts
  <2>4. {h \in history' : h.at > clock' - Window}
          = {h \in {g \in history : g.at > clock - Window} : h.at > clock + 1 - Window}
    BY <2>1, <2>2
  <2>5. \A h \in history' : h.at <= clock'
    BY <2>1, <2>2
  <2>6. QED
    BY <2>1, <2>3, <2>4, <2>5 DEF AggregateRate
<1>4. CASE UNCHANGED <<starts, clock, history>>
  BY <1>4 DEF AggregateRate, RecentStarts
<1>5. QED
  BY <1>1, <1>2, <1>3, <1>4
     DEF Next, Thread, StartProcess, Refuse, CallReturns, Release, Crash, Exit, Stopped, vars

(* Provider starts are evenly spaced and no window exceeds the cap, over   *)
(* all processes that ever ran.                                            *)
THEOREM RateKept == Spec => []AggregateRate
<1>1. Init => RateInv
  <2> SUFFICES ASSUME Init PROVE RateInv
    OBVIOUS
  <2>1. starts = {} /\ history = {}
    BY DEF Init
  <2>2. QED
    BY <2>1, FS_EmptySet DEF RateInv, WindowKept, RecentStarts, AggregateRate
<1>2. RateInv => AggregateRate
  BY DEF RateInv
<1>3. QED
  BY <1>1, <1>2, RateStep, TypeCorrect, PTL DEF Spec
=============================================================================
