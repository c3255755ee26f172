---------------------------- MODULE BudgetLedger ----------------------------
(***************************************************************************)
(* The hard-budget ledger of the Portfolio matrix and the shard processes  *)
(* that share it (evaluation/portfolio_execution.py, the call sites in     *)
(* runners/assistant.py and evaluation/final_runtime.py, and the main loop *)
(* of scripts/run_portfolio_shard.py).                                     *)
(*                                                                         *)
(* The ledger is a directory of create-only files 00000001.json, ... : a   *)
(* writer validates the prefix it knows, builds the next event and tries   *)
(* to create the next file; whoever loses reloads and tries again.  `log', *)
(* `receipts' and `saved' are files and survive a crash; `sent' is a ghost *)
(* (what the provider was asked and charged); the rest is process memory.  *)
(***************************************************************************)
EXTENDS Integers, Sequences, FiniteSets, Functions

CONSTANTS
    Shards,          \* shards; one process at a time works on each
    Queries,         \* members of a shard
    Phases,          \* per shard: the checkpoints of a member, each with the
                     \* stages of the provider calls that lead to it
    Reserve,         \* reserved_cost_cny of each stage
    VolatileStages,  \* stages whose wire hash covers the remaining time
    Costs,           \* what a provider may report for one call
    Cap, Prior,      \* phase_cap_cny, prior_observed_cost_cny
    MaxAttempts,     \* PORTFOLIO_MAX_RETRYABLE_ATTEMPTS_PER_QUERY
    AppendAttempts,  \* _BUDGET_APPEND_ATTEMPTS
    MaxRuns          \* bound: times each shard's process is started

ASSUME BudgetLedgerAssumption ==
    /\ Queries \in Nat \ {0} /\ MaxAttempts \in Nat \ {0}
    /\ AppendAttempts \in Nat \ {0} /\ MaxRuns \in [Shards -> Nat]
    /\ \A s \in DOMAIN Reserve : Reserve[s] \in Nat \ {0}
    /\ VolatileStages \subseteq DOMAIN Reserve
    /\ Phases \in [Shards -> Seq(Seq(DOMAIN Reserve) \ {<<>>})]
    /\ Costs \subseteq Nat
    /\ Cap \in Nat /\ Prior \in Nat /\ Prior < Cap

CONSTANTS NoEvent, NoSession

VARIABLES
    log,       \* the events of the ledger directory, in file order
    receipts,  \* attempt receipts of each member
    saved,     \* checkpoints of each member that exist, in phase order
    mode,      \* control of each shard process
    member,    \* the member its loop is at
    call,      \* which call of the phase the process is at
    session,   \* the validated prefix it holds: PortfolioBudgetLedgerState
    books,     \* the cost totals of that prefix
    want,      \* the event it builds
    tries,     \* appends it lost in the current loop
    run,       \* how often it was started
    sent       \* ghost: the provider calls made

files == <<log, receipts, saved>>
memory == <<mode, member, call, session, books, want, tries>>
vars == <<files, memory, run, sent>>

Members == Shards \X (1..Queries)
Stopped == {"down", "done", "budget", "limit", "recoverable", "error"}
Running == {"select", "reserve", "create", "close", "chat", "captured",
            "failed", "orphan", "receipt"}
Terminals == {"settlement", "forfeit", "orphan"}
Forfeits == {"forfeit", "orphan"}

-----------------------------------------------------------------------------
(* Identities.  `wire' stands for wire_request_sha256: it hashes the exact *)
(* request with its timeout_seconds.  Route and Judge requests repeat      *)
(* byte for byte; an action request carries the time the member has left,  *)
(* so that each execution hashes another value.                            *)
IdIn(p, i) == [shard : {p}, query : 1..Queries, attempt : 1..MaxAttempts,
               phase : {i}, call : DOMAIN Phases[p][i], wire : 0..MaxRuns[p]]

Id == UNION {IdIn(pi[1], pi[2]) :
               pi \in UNION {{p} \X DOMAIN Phases[p] : p \in Shards}}

StageOf(id) == Phases[id.shard][id.phase][id.call]
Full(id) == Reserve[StageOf(id)]

Member(p) == <<p, member[p]>>
Finished(m) == saved[m] = Len(Phases[m[1]])
Phase(p) == Phases[p][saved[Member(p)] + 1]

Wire(p) == IF Phase(p)[call[p]] \in VolatileStages THEN run[p] ELSE 0

Identity(p) ==
    [shard |-> p, query |-> member[p], attempt |-> receipts[Member(p)] + 1,
     phase |-> saved[Member(p)] + 1, call |-> call[p], wire |-> Wire(p)]

-----------------------------------------------------------------------------
(* The state of the ledger.                                                *)
Charge(ix) == FoldFunctionOnSet(+, 0, [i \in ix |-> log[i].cost], ix)

Indexes(kinds, n) == {i \in 1..n : log[i].kind \in kinds}
IdsOf(kinds, n) == {log[i].id : i \in Indexes(kinds, n)}
OpenIndexes(n) ==
    {i \in Indexes({"reservation"}, n) : log[i].id \notin IdsOf(Terminals, n)}

(* load_portfolio_budget_ledger: replay of the first n events into the two *)
(* halves of a PortfolioBudgetLedgerState, what is reserved and ended ...  *)
Prefix(n) ==
    [index |-> n,
     reserved |-> IdsOf({"reservation"}, n),
     settled |-> IdsOf({"settlement"}, n),
     forfeited |-> IdsOf(Forfeits, n)]

(* ... and what it costs.                                                  *)
Books(n) ==
    [actual |-> Charge(Indexes({"settlement"}, n)),
     forfeit |-> Charge(Indexes(Forfeits, n)),
     open |-> Charge(OpenIndexes(n))]

Ledger == Prefix(Len(log))
LedgerBooks == Books(Len(log))

Closed(s) == s.settled \union s.forfeited
Open(s) == s.reserved \ Closed(s)
Accountable(b) == Prior + b.actual + b.forfeit + b.open

(* accept_reservation, accept_settlement, accept_forfeit: advance the      *)
(* validated prefix by the event this process has just created ...         *)
Accept(s, e) ==
    [index |-> s.index + 1,
     reserved |-> s.reserved \union {id \in {e.id} : e.kind = "reservation"},
     settled |-> s.settled \union {id \in {e.id} : e.kind = "settlement"},
     forfeited |-> s.forfeited \union {id \in {e.id} : e.kind \in Forfeits}]

(* ... and its three totals.                                               *)
Enter(b, e) ==
    [actual |-> IF e.kind = "settlement" THEN b.actual + e.cost ELSE b.actual,
     forfeit |-> IF e.kind \in Forfeits THEN b.forfeit + e.cost ELSE b.forfeit,
     open |-> IF e.kind = "reservation" THEN b.open + e.cost
                                        ELSE b.open - Full(e.id)]

(* require_current: reload if another writer has created the next event.   *)
Current(p) == IF session[p].index < Len(log) THEN Ledger ELSE session[p]
CurrentBooks(p) ==
    IF session[p].index < Len(log) THEN LedgerBooks ELSE books[p]

Event(kind, id, cost) == [kind |-> kind, id |-> id, cost |-> cost]

(* Bug: a call without an answer gives its reserve back.                   *)
ForfeitReleased(kind, id) == Event(kind, id, 0)

(* A forfeit keeps the complete reserve charged.                           *)
Forfeit(kind, id) == Event(kind, id, Full(id))

(* Bug: a call is known only while its reservation is open.                *)
KnownWhileOpen(s, id) == id \in Open(s)

Known(s, id) == id \in s.reserved

(* The call's whole reserve still fits below the cap.                      *)
Fits(b, id) == Accountable(b) + Full(id) <= Cap

-----------------------------------------------------------------------------
Init ==
    /\ log = <<>>
    /\ receipts = [m \in Members |-> 0]
    /\ saved = [m \in Members |-> 0]
    /\ mode = [p \in Shards |-> "down"]
    /\ member = [p \in Shards |-> 1]
    /\ call = [p \in Shards |-> 1]
    /\ session = [p \in Shards |-> NoSession]
    /\ books = [p \in Shards |-> NoSession]
    /\ want = [p \in Shards |-> NoEvent]
    /\ tries = [p \in Shards |-> 0]
    /\ run = [p \in Shards |-> 0]
    /\ sent = {}

Goto(p, m) == mode' = [mode EXCEPT ![p] = m]

Adopt(p, s, b) ==
    /\ session' = [session EXCEPT ![p] = s]
    /\ books' = [books EXCEPT ![p] = b]

(* The process exits: its memory is gone.                                  *)
Stop(p, m) ==
    /\ Goto(p, m)
    /\ member' = [member EXCEPT ![p] = 1]
    /\ call' = [call EXCEPT ![p] = 1]
    /\ session' = [session EXCEPT ![p] = NoSession]
    /\ books' = [books EXCEPT ![p] = NoSession]
    /\ want' = [want EXCEPT ![p] = NoEvent]
    /\ tries' = [tries EXCEPT ![p] = 0]

(* main: load or create the authority, open a session, look whether any    *)
(* budget is left.                                                         *)
Start(p) ==
    /\ mode[p] \in Stopped \ {"done"}
    /\ run[p] < MaxRuns[p]
    /\ run' = [run EXCEPT ![p] = @ + 1]
    /\ IF Cap - Accountable(LedgerBooks) <= 0
       THEN Stop(p, "budget")
       ELSE /\ Goto(p, "select")
            /\ Adopt(p, Ledger, LedgerBooks)
            /\ UNCHANGED <<member, call, want, tries>>
    /\ UNCHANGED <<files, sent>>

(* The loop over the members: after the last one the shard is complete, a *)
(* member with all its checkpoints is passed over, ...                     *)
AllComplete(p) ==
    /\ mode[p] = "select"
    /\ member[p] > Queries
    /\ Stop(p, "done")
    /\ UNCHANGED <<files, run, sent>>

PassOver(p) ==
    /\ mode[p] = "select"
    /\ member[p] <= Queries
    /\ Finished(Member(p))
    /\ member' = [member EXCEPT ![p] = @ + 1]
    /\ UNCHANGED <<files, mode, call, session, books, want, tries, run, sent>>

(* ... and for the first missing checkpoint of any other one               *)
(* require_retryable_attempt_available decides.                            *)
AttemptLimit(p) ==
    /\ mode[p] = "select"
    /\ member[p] <= Queries
    /\ ~ Finished(Member(p))
    /\ receipts[Member(p)] >= MaxAttempts
    /\ Stop(p, "limit")
    /\ UNCHANGED <<files, run, sent>>

Begin(p) ==
    /\ mode[p] = "select"
    /\ member[p] <= Queries
    /\ ~ Finished(Member(p))
    /\ receipts[Member(p)] < MaxAttempts
    /\ Goto(p, "reserve")
    /\ UNCHANGED <<files, member, call, session, books, want, tries, run, sent>>

(* reserve_portfolio_provider_call up to the create: three outcomes.       *)
DuplicateCall(p) ==
    /\ mode[p] = "reserve"
    /\ Known(Current(p), Identity(p))
    /\ Adopt(p, Current(p), CurrentBooks(p))
    /\ tries' = [tries EXCEPT ![p] = 0]
    /\ Goto(p, "orphan")
    /\ UNCHANGED <<files, member, call, want, run, sent>>

BudgetExceeded(p) ==
    /\ mode[p] = "reserve"
    /\ ~ Known(Current(p), Identity(p))
    /\ ~ Fits(CurrentBooks(p), Identity(p))
    /\ Stop(p, "budget")
    /\ UNCHANGED <<files, run, sent>>

BuildReservation(p) ==
    /\ mode[p] = "reserve"
    /\ ~ Known(Current(p), Identity(p))
    /\ Fits(CurrentBooks(p), Identity(p))
    /\ Adopt(p, Current(p), CurrentBooks(p))
    /\ want' = [want EXCEPT ![p] =
                  Event("reservation", Identity(p), Full(Identity(p)))]
    /\ Goto(p, "create")
    /\ UNCHANGED <<files, member, call, tries, run, sent>>

(* Bug: the reported usage is not compared with the reservation.           *)
ClosableAtAnyCost(s, e) == e.id \in Open(s)

(* What settle and forfeit require of the reservation they close.          *)
Closable(s, e) == e.id \in Open(s) /\ e.cost <= Full(e.id)

(* settle_portfolio_provider_call_success, forfeit_portfolio_provider_call *)
(* up to the create; a PortfolioBudgetSettlementError ends the process.    *)
BuildTerminal(p) ==
    /\ mode[p] = "close"
    /\ IF Closable(Current(p), want[p])
       THEN /\ Adopt(p, Current(p), CurrentBooks(p))
            /\ Goto(p, "create")
            /\ UNCHANGED <<member, call, want, tries>>
       ELSE Stop(p, "error")
    /\ UNCHANGED <<files, run, sent>>

(* The next ordinal of the validated prefix has no file yet.               *)
NextFileFree(p) == session[p].index = Len(log)

(* Bug: the resumed shard tries the recovered call again in place.         *)
RetryInPlace == "reserve"

(* A recovered orphan consumes the attempt.                                *)
AfterRecovery == "receipt"

AfterAppend(e) ==
    CASE e.kind = "reservation" -> "chat"
      [] e.kind = "settlement" -> "captured"
      [] e.kind = "forfeit" -> "failed"
      [] e.kind = "orphan" -> AfterRecovery

(* atomic_create_file of the next event, and the session's own advance.    *)
Create(p) ==
    /\ mode[p] = "create"
    /\ NextFileFree(p)
    /\ log' = Append(log, want[p])
    /\ Adopt(p, Accept(session[p], want[p]), Enter(books[p], want[p]))
    /\ tries' = [tries EXCEPT ![p] = 0]
    /\ Goto(p, AfterAppend(want[p]))
    /\ UNCHANGED <<receipts, saved, member, call, want, run, sent>>

(* Bug: one more attempt than _BUDGET_APPEND_ATTEMPTS.                     *)
OneMoreTry(p) == tries[p] + 1 > AppendAttempts

(* The append was lost for the last time (PortfolioBudgetLedgerBusyError). *)
GivesUp(p) == tries[p] + 1 = AppendAttempts

(* FileExistsError: another shard was first; reload and start over.        *)
Collide(p) ==
    /\ mode[p] = "create"
    /\ ~ NextFileFree(p)
    /\ IF GivesUp(p)
       THEN Stop(p, "error")
       ELSE /\ tries' = [tries EXCEPT ![p] = @ + 1]
            /\ Adopt(p, Ledger, LedgerBooks)
            /\ Goto(p, IF want[p].kind = "reservation" THEN "reserve" ELSE "close")
            /\ UNCHANGED <<member, call, want>>
    /\ UNCHANGED <<files, run, sent>>

(* llm.chat: the provider is asked.  A typed response is settled from its  *)
(* usage; any other end forfeits the reserve, and the provider may then    *)
(* have charged as much.                                                   *)
Chat(p) ==
    /\ mode[p] = "chat"
    /\ \E e \in {Event("settlement", want[p].id, c) : c \in Costs}
              \union {Forfeit("forfeit", want[p].id)} :
         /\ want' = [want EXCEPT ![p] = e]
         /\ sent' = sent \union {[id |-> e.id, run |-> run[p],
                               cost |-> IF e.kind = "forfeit" THEN Full(e.id) ELSE e.cost]}
    /\ Goto(p, "close")
    /\ UNCHANGED <<files, member, call, session, books, tries, run>>

-----------------------------------------------------------------------------
(* After a captured response: the next call of the phase, ...              *)
NextCall(p) ==
    /\ mode[p] = "captured"
    /\ call[p] < Len(Phase(p))
    /\ call' = [call EXCEPT ![p] = @ + 1]
    /\ Goto(p, "reserve")
    /\ UNCHANGED <<files, member, session, books, want, tries, run, sent>>

(* ... the checkpoint of the phase, ...                                    *)
Save(p) ==
    /\ mode[p] = "captured"
    /\ saved' = [saved EXCEPT ![Member(p)] = @ + 1]
    /\ call' = [call EXCEPT ![p] = 1]
    /\ Goto(p, "select")
    /\ UNCHANGED <<log, receipts, member, session, books, want, tries, run, sent>>

(* ... an Assistant row with an error, whose final row is a fixed zero, so *)
(* that the remaining phases make no call, ...                             *)
SaveError(p) ==
    /\ mode[p] \in {"captured", "failed"}
    /\ Phase(p)[call[p]] # "final_judge"
    /\ saved' = [saved EXCEPT ![Member(p)] = Len(Phases[p])]
    /\ call' = [call EXCEPT ![p] = 1]
    /\ Goto(p, "select")
    /\ UNCHANGED <<log, receipts, member, session, books, want, tries, run, sent>>

(* ... or a malformed route that may be asked for once more.               *)
RouteRetry(p) ==
    /\ mode[p] = "captured"
    /\ Phase(p)[call[p]] \in {"shared_route", "assistant_route"}
    /\ receipts[Member(p)] + 1 < MaxAttempts
    /\ Goto(p, "receipt")
    /\ UNCHANGED <<files, member, call, session, books, want, tries, run, sent>>

(* After a forfeit: a retryable failure is recorded, a configuration error *)
(* ends the process with no receipt.                                       *)
RetryableFailure(p) ==
    /\ mode[p] = "failed"
    /\ Goto(p, "receipt")
    /\ UNCHANGED <<files, member, call, session, books, want, tries, run, sent>>

FatalFailure(p) ==
    /\ mode[p] = "failed"
    /\ Stop(p, "error")
    /\ UNCHANGED <<files, run, sent>>

(* The reservations of the attempt that is being resumed.                  *)
Matching(p, s) ==
    {id \in s.reserved :
        /\ id.shard = p /\ id.query = member[p]
        /\ id.attempt = receipts[Member(p)] + 1
        /\ id.phase = saved[Member(p)] + 1}

(* Bug: only the duplicated call is looked at, not the whole attempt.      *)
OrphansOfCall(p, s) == {id \in Matching(p, s) \ Closed(s) : id.call = call[p]}

Orphans(p, s) == Matching(p, s) \ Closed(s)

(* _record_orphaned_provider_call_if_present, from a fresh replay.         *)
RecoverOrphan(p) ==
    /\ mode[p] = "orphan"
    /\ IF \/ Cardinality(Orphans(p, Ledger)) > 1
          \/ Cardinality(Matching(p, Ledger) \intersect Ledger.forfeited) > 1
       THEN Stop(p, "error")
       ELSE /\ IF Orphans(p, Ledger) = {}
               THEN Goto(p, AfterRecovery) /\ UNCHANGED want
               ELSE \E id \in Orphans(p, Ledger) :
                      /\ want' = [want EXCEPT ![p] = Forfeit("orphan", id)]
                      /\ Goto(p, "close")
            /\ UNCHANGED <<member, call, session, books, tries>>
    /\ UNCHANGED <<files, run, sent>>

(* create_retryable_attempt_receipt, then _recoverable_stop.               *)
WriteReceipt(p) ==
    /\ mode[p] = "receipt"
    /\ receipts' = [receipts EXCEPT ![Member(p)] = @ + 1]
    /\ Stop(p, "recoverable")
    /\ UNCHANGED <<log, saved, run, sent>>

(* The process is killed.                                                  *)
Crash(p) ==
    /\ mode[p] \in Running
    /\ Stop(p, "down")
    /\ UNCHANGED <<files, run, sent>>

Step(p) ==
    \/ AllComplete(p) \/ PassOver(p) \/ AttemptLimit(p) \/ Begin(p)
    \/ DuplicateCall(p) \/ BudgetExceeded(p) \/ BuildReservation(p)
    \/ BuildTerminal(p) \/ Create(p) \/ Collide(p) \/ Chat(p)
    \/ NextCall(p) \/ Save(p) \/ SaveError(p) \/ RouteRetry(p)
    \/ RetryableFailure(p) \/ FatalFailure(p)
    \/ RecoverOrphan(p) \/ WriteReceipt(p)

Next == \E p \in Shards : Start(p) \/ Step(p) \/ Crash(p)

Spec == Init /\ [][Next]_vars

(* A started process keeps running until it exits or is killed.            *)
FairSpec == Spec /\ \A p \in Shards : WF_vars(Step(p))

-----------------------------------------------------------------------------
LedgerEvent == [kind : {"reservation"} \union Terminals, id : Id, cost : Nat]
Session == [index : Nat, reserved : SUBSET Id, settled : SUBSET Id,
            forfeited : SUBSET Id]

(* Every variable keeps the shape the code's schemas give it, and the      *)
(* attempts and the lost appends of a shard stay below their limits.       *)
TypeOK ==
    /\ log \in Seq(LedgerEvent)
    /\ receipts \in [Members -> 0..MaxAttempts]
    /\ saved \in [Members -> Nat]
    /\ mode \in [Shards -> Stopped \union Running]
    /\ member \in [Shards -> 1..(Queries + 1)]
    /\ call \in [Shards -> Nat \ {0}]
    /\ session \in [Shards -> Session \union {NoSession}]
    /\ DOMAIN books = Shards
    /\ want \in [Shards -> LedgerEvent \union {NoEvent}]
    /\ tries \in [Shards -> 0..(AppendAttempts - 1)]
    /\ run \in [Shards -> Nat]
    /\ sent \subseteq [id : Id, run : Nat, cost : Nat]

(* What load_portfolio_budget_ledger requires of event n in the light of   *)
(* the events before it.                                                   *)
Follows(n) ==
    LET e == log[n]
    IN  /\ e.kind = "reservation" => e.id \notin IdsOf({"reservation"}, n - 1)
        /\ e.kind \in Terminals => e.id \in IdsOf({"reservation"}, n - 1)
                                            \ IdsOf(Terminals, n - 1)
        /\ e.kind = "settlement" => e.cost <= Full(e.id)
        /\ e.kind \in Forfeits => e.cost = Full(e.id)

(* However the shards race for the next file and whenever they are killed, *)
(* the directory replays: no identity is reserved twice, no reservation    *)
(* has two outcomes or one before it exists, no outcome costs more than    *)
(* the reserve.  Otherwise load_portfolio_budget_ledger raises ValueError  *)
(* and no shard starts again (portfolio_execution.py:1633-1785).           *)
EventsFollow == \A n \in 1..Len(log) : Follows(n)

(* No identity is ever sent to a provider twice, by any process, before or *)
(* after a crash: the reservation is a durable claim on the call           *)
(* (reserve_portfolio_provider_call, portfolio_execution.py:1849-1926).    *)
IdentitySentOnce == \A s, t \in sent : s.id = t.id => s = t

Least(a, b) == IF a <= b THEN a ELSE b

(* Whatever the providers have charged, up to the reserve of each call, is *)
(* in the accountable cost, also for calls whose answer was lost: so the   *)
(* cap on the ledger is a cap on the spending.                             *)
SpendIsAccounted ==
    LET charged == [s \in sent |-> Least(s.cost, Full(s.id))]
    IN  Prior + FoldFunctionOnSet(+, 0, charged, sent) <= Accountable(LedgerBooks)

(* A phase that opens with a request that repeats byte for byte.           *)
Anchored(id) == Phases[id.shard][id.phase][1] \notin VolatileStages

(* In a phase whose first request repeats exactly, an open reservation     *)
(* always belongs to the attempt in progress: neither a receipt nor a      *)
(* checkpoint ever leaves a reservation without an outcome behind          *)
(* (_record_orphaned_provider_call_if_present, run_portfolio_shard.py:     *)
(* 1032-1124).                                                             *)
OpenMeansInProgress ==
    \A id \in Open(Ledger) :
        Anchored(id) =>
            /\ id.attempt = receipts[<<id.shard, id.query>>] + 1
            /\ id.phase = saved[<<id.shard, id.query>>] + 1

(* The race for files implements the atomic account.                       *)
Account == INSTANCE AtomicBudget
    WITH open <- {log[i].id : i \in OpenIndexes(Len(log))},
         closed <- IdsOf(Terminals, Len(log)),
         charged <- Accountable(LedgerBooks)

(* The create-only files, the optimistic writers and the crashes together  *)
(* amount to one atomic capped account: every step of a shard is one       *)
(* authorisation, settlement or forfeit of it, or invisible.               *)
ImplementsAccount == Account!Spec

(* A started process always exits by itself, or is killed: the append      *)
(* loops give up, and no member is tried for ever.                         *)
RunEnds == \A p \in Shards : mode[p] \in Running ~> mode[p] \in Stopped

(* docs/plans/2026-08-05-parallel-portfolio-execution-status.md, line 24,  *)
(* says that a reservation interrupted by a crash is not replayed: the     *)
(* resumed shard records an orphan instead.  So no call of an attempt      *)
(* would be sent by two runs of the shard.                                 *)
NoReplayAfterCrash ==
    \A s, t \in sent :
        [s.id EXCEPT !.wire = 0] = [t.id EXCEPT !.wire = 0] => s.run = t.run
=============================================================================
