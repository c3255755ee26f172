---------------------------- MODULE ProviderGate ----------------------------
(***************************************************************************)
(* PortfolioAggregateProviderGate (evaluation/portfolio_parallel.py): the  *)
(* SQLite tables that make worker processes share one budget of query      *)
(* permits and of provider-call starts.                                    *)
(*                                                                         *)
(* Every method runs one BEGIN IMMEDIATE transaction, an atomic step here. *)
(* A transaction that finds no room is rolled back, cleanup included: it   *)
(* changes nothing, and the poll that follows is the same step tried again.*)
(***************************************************************************)
EXTENDS Integers, FiniteSets

CONSTANTS
    Procs,       \* worker processes (shards)
    Threads,     \* query executions; those of a process may be concurrent
    ProcOf,      \* process of each thread
    Pids,        \* process identifiers of the operating system
    NoPid,       \* pid of a process that does not run
    Stages,      \* gate stages
    StageOf,     \* stage each thread's query is gated by
    Limit,       \* concurrency of each stage
    Window,      \* _QWEN_RATE_WINDOW_SECONDS, in ticks
    RpmCap,      \* qwen_requests_per_minute_cap
    Interval,    \* qwen_minimum_start_interval_seconds
    MaxCalls,    \* bound: provider calls of one query
    MaxTime,     \* bound: clock ticks
    MaxLives     \* bound: times each process is started

ASSUME GateAssumption ==
    /\ ProcOf \in [Threads -> Procs]
    /\ StageOf \in [Threads -> Stages]
    /\ Limit \in [Stages -> Nat]
    /\ NoPid \notin Pids
    /\ Window \in Nat /\ RpmCap \in Nat \ {0} /\ Interval \in Nat
    /\ MaxCalls \in Nat /\ MaxTime \in Nat /\ MaxLives \in [Procs -> Nat]

(* qwen_minimum_start_interval_seconds is the window divided by the cap.   *)
ASSUME IntervalIsEven == RpmCap * Interval = Window

VARIABLES
    pid,       \* pid of each process, NoPid when it does not run
    lives,     \* times each process was started
    permits,   \* table provider_permits
    starts,    \* table provider_call_starts
    pc,        \* control of each thread
    made,      \* provider calls its query has made
    clock,     \* time.time()
    history    \* ghost: every reserved start, purged or not

vars == <<pid, lives, permits, starts, pc, made, clock, history>>

Permit == [thread : Threads, life : Nat, pid : Pids]
CallStart == [thread : Threads, life : Nat, call : Nat, at : Nat]

Init ==
    /\ pid = [p \in Procs |-> NoPid]
    /\ lives = [p \in Procs |-> 0]
    /\ permits = {}
    /\ starts = {}
    /\ pc = [t \in Threads |-> "off"]
    /\ made = [t \in Threads |-> 0]
    /\ clock = 0
    /\ history = {}

(* _pid_is_alive: some running process has this pid, not necessarily the   *)
(* process that wrote the row.                                             *)
PidIsAlive(k) == \E p \in Procs : pid[p] = k

Running(t) == pid[ProcOf[t]] # NoPid
InUse == {t \in Threads : pc[t] \in {"holding", "calling"}}

-----------------------------------------------------------------------------
(* _cleanup_dead: permits of dead pids and starts out of the window go.    *)

(* Bug: nothing is ever cleaned up.                                        *)
NothingDead(t) == permits

LivePermits(t) == {r \in permits : PidIsAlive(r.pid)}

(* Bug: the starts of dead processes are dropped with their permits.       *)
RecentAndAlive == {s \in starts : s.at > clock - Window /\ Running(s.thread)}

RecentStarts == {s \in starts : s.at > clock - Window}

Held(P, st) == {r \in P : StageOf[r.thread] = st}

(* Bug: one permit too many.                                               *)
RoomForOneMore(t) == Cardinality(Held(LivePermits(t), StageOf[t])) <= Limit[StageOf[t]]

Room(t) == Cardinality(Held(LivePermits(t), StageOf[t])) < Limit[StageOf[t]]

OwnPermit(t) == [thread |-> t, life |-> lives[ProcOf[t]], pid |-> pid[ProcOf[t]]]

(* A process starts, with any pid no running process has: the operating    *)
(* system may give it that of a dead one.                                  *)
StartProcess(p, k) ==
    /\ pid[p] = NoPid
    /\ lives[p] < MaxLives[p]
    /\ ~PidIsAlive(k)
    /\ \E t \in Threads : ProcOf[t] = p /\ pc[t] # "done"
    /\ pid' = [pid EXCEPT ![p] = k]
    /\ lives' = [lives EXCEPT ![p] = @ + 1]
    /\ pc' = [t \in Threads |-> IF ProcOf[t] = p /\ pc[t] # "done" THEN "want" ELSE pc[t]]
    /\ UNCHANGED <<permits, starts, made, clock, history>>

(* acquire on a stage of limit 0 raises RuntimeError.                      *)
Refuse(t) ==
    /\ pc[t] = "want"
    /\ Limit[StageOf[t]] = 0
    /\ pc' = [pc EXCEPT ![t] = "done"]
    /\ UNCHANGED <<pid, lives, permits, starts, made, clock, history>>

(* acquire: the committing transaction.                                    *)
Acquire(t) ==
    /\ pc[t] = "want"
    /\ Room(t)
    /\ permits' = LivePermits(t) \union {OwnPermit(t)}
    /\ starts' = RecentStarts
    /\ pc' = [pc EXCEPT ![t] = "holding"]
    /\ made' = [made EXCEPT ![t] = 0]
    /\ UNCHANGED <<pid, lives, clock, history>>

Spaced == \A s \in RecentStarts : clock - s.at >= Interval

(* wait_for_qwen_call_start: the committing transaction.  The time is read *)
(* inside it, and the reservation is the time the caller gets back.        *)
ReserveStart(t) ==
    /\ pc[t] = "holding"
    /\ made[t] < MaxCalls
    /\ Cardinality(RecentStarts) < RpmCap
    /\ Spaced
    /\ LET s == [thread |-> t, life |-> lives[ProcOf[t]], call |-> made[t], at |-> clock]
       IN  starts' = RecentStarts \union {s} /\ history' = history \union {s}
    /\ permits' = LivePermits(t)
    /\ pc' = [pc EXCEPT ![t] = "calling"]
    /\ UNCHANGED <<pid, lives, made, clock>>

CallReturns(t) ==
    /\ pc[t] = "calling"
    /\ pc' = [pc EXCEPT ![t] = "holding"]
    /\ made' = [made EXCEPT ![t] = @ + 1]
    /\ UNCHANGED <<pid, lives, permits, starts, clock, history>>

(* Bug: the finally clause removes every permit of the process.            *)
WithoutProcess(t) == {r \in permits : r.pid # pid[ProcOf[t]]}

WithoutOwn(t) == permits \ {OwnPermit(t)}

(* The finally clause of acquire, after a query that ended or raised.      *)
Release(t) ==
    /\ pc[t] = "holding"
    /\ permits' = WithoutOwn(t)
    /\ pc' = [pc EXCEPT ![t] = "done"]
    /\ UNCHANGED <<pid, lives, starts, made, clock, history>>

(* A worker process dies; its rows stay in the database.                   *)
Crash(p) ==
    /\ pid[p] # NoPid
    /\ \E t \in Threads : ProcOf[t] = p /\ pc[t] # "done"
    /\ pid' = [pid EXCEPT ![p] = NoPid]
    /\ pc' = [t \in Threads |-> IF ProcOf[t] = p /\ pc[t] # "done" THEN "off" ELSE pc[t]]
    /\ UNCHANGED <<lives, permits, starts, made, clock, history>>

(* Bug: the process does not wait for all of its queries.                  *)
SomeQueryDone(p) == \E t \in Threads : ProcOf[t] = p /\ pc[t] = "done"

QueriesDone(p) == \A t \in Threads : ProcOf[t] = p => pc[t] = "done"

(* A worker process whose queries are all finished ends.                   *)
Exit(p) ==
    /\ pid[p] # NoPid
    /\ QueriesDone(p)
    /\ pid' = [pid EXCEPT ![p] = NoPid]
    /\ UNCHANGED <<lives, permits, starts, pc, made, clock, history>>

Tick ==
    /\ clock < MaxTime
    /\ clock' = clock + 1
    /\ UNCHANGED <<pid, lives, permits, starts, pc, made, history>>

Thread(t) == Refuse(t) \/ Acquire(t) \/ ReserveStart(t) \/ CallReturns(t) \/ Release(t)

(* Nothing is left to start or to run, or the bounds are used up.          *)
Stopped ==
    /\ \A p \in Procs : pid[p] = NoPid \/ clock = MaxTime
    /\ UNCHANGED vars

Next ==
    \/ \E p \in Procs, k \in Pids : StartProcess(p, k)
    \/ \E t \in Threads : Thread(t)
    \/ \E p \in Procs : Crash(p) \/ Exit(p)
    \/ Tick
    \/ Stopped

Spec == Init /\ [][Next]_vars

(* Threads that can run do run and finished processes end.  A poll that    *)
(* finds room succeeds once no other thread takes the room away, and every *)
(* query is finite: weak fairness is enough.                               *)
FairSpec ==
    /\ Spec
    /\ \A t \in Threads : WF_vars(Thread(t))
    /\ \A p \in Procs : WF_vars(Exit(p))

-----------------------------------------------------------------------------
(* Properties.                                                             *)

ProcessTypeOK ==
    /\ pid \in [Procs -> Pids \union {NoPid}]
    /\ lives \in [Procs -> Nat]

TableTypeOK ==
    /\ permits \subseteq Permit
    /\ starts \subseteq CallStart
    /\ history \subseteq CallStart
    /\ clock \in Nat

ThreadTypeOK ==
    /\ pc \in [Threads -> {"off", "want", "holding", "calling", "done"}]
    /\ made \in [Threads -> Nat]
    /\ \A t \in Threads : pc[t] \in {"want", "holding", "calling"} => Running(t)

(* Every variable holds a value of its type, and a query in progress       *)
(* belongs to a process that runs.                                         *)
TypeOK == ProcessTypeOK /\ TableTypeOK /\ ThreadTypeOK

(* The stage limit holds across processes, also after crashes, restarts    *)
(* and recycled pids: cleanup never frees a permit still in use.           *)
WithinLimit ==
    \A st \in Stages : Cardinality({t \in InUse : StageOf[t] = st}) <= Limit[st]

(* A query in progress owns a row of the table: no cleanup or release of   *)
(* another thread, living or dead, took it.                                *)
PermitBacked == \A t \in InUse : OwnPermit(t) \in permits

(* The aggregate rate holds over every process that ever ran: reserved     *)
(* starts are evenly spaced, and no window holds more than the cap, even   *)
(* though the table forgets old starts and dead processes.                 *)
AggregateRate ==
    /\ \A a, b \in history : a # b => a.at - b.at >= Interval \/ b.at - a.at >= Interval
    /\ \A a \in history :
           Cardinality({b \in history : b.at <= a.at /\ b.at > a.at - Window}) <= RpmCap

(* A permit of a dead process whose pid some running process has got.      *)
Recycled ==
    \E r \in permits :
        /\ PidIsAlive(r.pid)
        /\ r.pid # pid[ProcOf[r.thread]] \/ r.life # lives[ProcOf[r.thread]]

(* "preventing a crashed worker from blocking resume": a thread that wants *)
(* a permit gets it, or its own process dies, unless the operating system  *)
(* gave a dead holder's pid to a living process.                           *)
CrashNeverBlocks ==
    \A t \in Threads : pc[t] = "want" ~> pc[t] # "want" \/ Recycled
=============================================================================
