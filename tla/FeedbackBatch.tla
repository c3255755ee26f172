--------------------------- MODULE FeedbackBatch ---------------------------
(***************************************************************************)
(* The Feedback phase of CoreFastEngine.run_s1: the canary batch, the      *)
(* remaining batch, the format retries of each, the two operational gates  *)
(* and the evidence bundle, over crashes and resumes on one output root.   *)
(*                                                                         *)
(* A call is <<sample, attempt>>; attempt 0 is the first one.  The journal *)
(* is CallStore seen through its promises: a call is made once, a result   *)
(* is final, an intent without a result is settled as interrupted.         *)
(***************************************************************************)
EXTENDS Integers, FiniteSets

CONSTANTS
    Samples,         \* the frozen selected samples
    Canary,          \* the first feedback_canary_count of them
    RetryLimit,      \* feedback_format_retry_limit, 0 or 1
    MaxFeedback,     \* limits.max_feedback_calls
    Concurrency,     \* concurrency.feedback
    ParsePercent,    \* FEEDBACK_JUDGE_ACCEPTABLE_ERROR_RATE, in percent
    ServicePercent,  \* FEEDBACK_JUDGE_SERVICE_ERROR_RATE, in percent
    MaxCrashes       \* bound: crashes explored

ASSUME FeedbackAssumption ==
    /\ IsFiniteSet(Samples)
    /\ Canary \subseteq Samples /\ Canary # {}
    /\ RetryLimit \in {0, 1}
    /\ MaxFeedback \in Nat /\ Concurrency \in Nat \ {0}
    /\ ParsePercent \in Nat /\ ServicePercent \in Nat /\ MaxCrashes \in Nat

(* validate_contract: the limit is that of the pre-frozen attempts.        *)
ASSUME LimitIsFrozen == MaxFeedback = Cardinality(Samples) * (1 + RetryLimit)

(* A result as the phase sees it: parsed, a success that does not parse, a *)
(* format failure (empty_response, schema_error), a provider error, or an  *)
(* interrupted call.                                                       *)
Answers == {"parsed", "unparsed", "format", "service"}
Outcomes == Answers \union {"interrupted"}
None == "none"

Calls == Samples \X (0 .. RetryLimit)

VARIABLES
    intent,    \* disk: journalled calls
    result,    \* disk: their results
    bundle,    \* disk: rows of inputs/feedback-evidence-bundle.json, or <<>>
    decision,  \* disk: decision of the stage so far
    phase,     \* control of run_s1
    scope,     \* samples of the batch being run
    attempt,   \* attempt the batch is at
    todo,      \* submitted calls not yet started
    running,   \* calls at the provider
    rows,      \* memory: status of each sample's row
    crashes    \* bound counter

disk == <<intent, result, bundle, decision>>
vars == <<intent, result, bundle, decision, phase, scope, attempt, todo, running, rows, crashes>>

NoRows == [s \in Samples |-> None]

Init ==
    /\ intent = {}
    /\ result = [c \in Calls |-> None]
    /\ bundle = <<>>
    /\ decision = "none"
    /\ phase = "down"
    /\ scope = {}
    /\ attempt = 0
    /\ todo = {}
    /\ running = {}
    /\ rows = NoRows
    /\ crashes = 0

RoleCount == Cardinality(intent)

Retryable(S) == {s \in S : rows[s] = "format"}

(* _feedback_batch_gate on the rows of a batch.                            *)
ParseFailures(r, S) == Cardinality({s \in S : r[s] # "parsed"})
ServiceFailures(r, S) == Cardinality({s \in S : r[s] \in {"service", "interrupted"}})

(* Bug: only missing rows count as parse failures.                         *)
GateCountsMissing(r, S) == \A s \in S : r[s] # None

GatePassed(r, S) ==
    /\ \A s \in S : r[s] # None
    /\ 100 * ParseFailures(r, S) <= ParsePercent * Cardinality(S)
    /\ 100 * ServiceFailures(r, S) <= ServicePercent * Cardinality(S)

-----------------------------------------------------------------------------
(* Submitting the first attempts of a batch.                               *)
OpenBatch(S) ==
    /\ phase' = "pool"
    /\ scope' = S
    /\ attempt' = 0
    /\ todo' = S \X {0}

(* run_s1 is entered, for the first time or on resume; a decision on disk  *)
(* is returned as it is.                                                   *)
Start ==
    /\ phase = "down"
    /\ IF decision # "none"
       THEN phase' = "returned" /\ UNCHANGED <<scope, attempt, todo>>
       ELSE OpenBatch(Canary)
    /\ rows' = NoRows
    /\ running' = {}
    /\ UNCHANGED <<disk, crashes>>

Settle(c, status) ==
    /\ result' = [result EXCEPT ![c] = status]
    /\ rows' = [rows EXCEPT ![c[1]] = status]

(* A call with files: its result, or its interruption, becomes the row.    *)
Reuse(c) ==
    /\ phase = "pool"
    /\ c \in todo /\ c \in intent
    /\ Settle(c, IF result[c] = None THEN "interrupted" ELSE result[c])
    /\ todo' = todo \ {c}
    /\ UNCHANGED <<intent, bundle, decision, phase, scope, attempt, running, crashes>>

(* A fresh call below the role limit.  Beyond it _call raises; the limit is *)
(* the number of attempts, so that this never happens: a state where it    *)
(* would has no successor, and the runs find no deadlock.                  *)
Begin(c) ==
    /\ phase = "pool"
    /\ c \in todo /\ c \notin intent
    /\ Cardinality(running) < Concurrency
    /\ RoleCount < MaxFeedback
    /\ todo' = todo \ {c}
    /\ intent' = intent \union {c}
    /\ running' = running \union {c}
    /\ UNCHANGED <<result, bundle, decision, phase, scope, attempt, rows, crashes>>

Answer(c, status) ==
    /\ phase = "pool"
    /\ c \in running
    /\ Settle(c, status)
    /\ running' = running \ {c}
    /\ UNCHANGED <<intent, bundle, decision, phase, scope, attempt, todo, crashes>>

PoolEmpty == phase = "pool" /\ todo = {} /\ running = {}

Remaining == MaxFeedback - RoleCount

RetriesOpen == attempt < RetryLimit /\ Retryable(scope) # {} /\ Remaining > 0

(* Bug: the attempt number is not advanced.                                *)
SameAttempt == attempt

(* Bug: the attempt number is advanced twice.                              *)
SkippedAttempt == attempt + 2

NextAttempt == attempt + 1

(* The retry round.  retryable[:remaining_budget] keeps the rows whose     *)
(* first attempts finished first, which is any subset of that size.        *)
Retry(R) ==
    /\ PoolEmpty /\ RetriesOpen
    /\ R \subseteq Retryable(scope)
    /\ Cardinality(R) = IF Cardinality(Retryable(scope)) <= Remaining
                        THEN Cardinality(Retryable(scope)) ELSE Remaining
    /\ attempt' = NextAttempt
    /\ todo' = R \X {NextAttempt}
    /\ UNCHANGED <<disk, phase, scope, running, rows, crashes>>

BatchOver == PoolEmpty /\ ~RetriesOpen

(* The canary gate: go on with the remaining samples, or reject the round  *)
(* with the parent Bank selected.                                          *)
CanaryGate ==
    /\ BatchOver /\ scope = Canary
    /\ IF GatePassed(rows, Canary)
       THEN OpenBatch(Samples \ Canary) /\ UNCHANGED decision
       ELSE /\ decision' = "rejected" /\ phase' = "returned"
            /\ UNCHANGED <<scope, attempt, todo>>
    /\ UNCHANGED <<intent, result, bundle, running, rows, crashes>>

(* The full gate, then the evidence bundle: written once, and compared on  *)
(* resume.                                                                 *)
FullGate ==
    /\ BatchOver /\ scope # Canary
    /\ IF ~GatePassed(rows, Samples)
       THEN decision' = "rejected" /\ phase' = "returned" /\ UNCHANGED bundle
       ELSE /\ UNCHANGED decision
            /\ IF bundle = <<>>
               THEN bundle' = rows /\ phase' = "bundled"
               ELSE phase' = (IF bundle = rows THEN "bundled" ELSE "failed") /\ UNCHANGED bundle
    /\ UNCHANGED <<intent, result, scope, attempt, todo, running, rows, crashes>>

(* The rest of run_s1, up to its decision.                                 *)
Decide ==
    /\ phase = "bundled"
    /\ decision' = "decided"
    /\ phase' = "returned"
    /\ UNCHANGED <<intent, result, bundle, scope, attempt, todo, running, rows, crashes>>

Crash ==
    /\ phase \in {"pool", "bundled"}
    /\ crashes < MaxCrashes
    /\ crashes' = crashes + 1
    /\ phase' = "down"
    /\ scope' = {} /\ attempt' = 0 /\ todo' = {} /\ running' = {}
    /\ rows' = NoRows
    /\ UNCHANGED disk

Step ==
    \/ Start
    \/ \E c \in Calls : Reuse(c) \/ Begin(c)
    \/ \E c \in Calls, a \in Answers : Answer(c, a)
    \/ \E R \in SUBSET Samples : Retry(R)
    \/ CanaryGate
    \/ FullGate
    \/ Decide

Stopped == phase \in {"returned", "failed"} /\ UNCHANGED vars

Next == Step \/ Crash \/ Stopped

Spec == Init /\ [][Next]_vars

FairSpec == Spec /\ WF_vars(Step)

-----------------------------------------------------------------------------
(* Properties.                                                             *)

(* The last result the journal holds for a sample.                         *)
Latest(s) ==
    LET settled == {a \in 0 .. RetryLimit : result[<<s, a>>] # None}
    IN  IF settled = {} THEN None
        ELSE result[<<s, CHOOSE a \in settled : \A b \in settled : b <= a>>]

JournalRows == [s \in Samples |-> Latest(s)]

(* What a usable set of rows is, stated without the gate of the code.      *)
Usable(r, S) ==
    /\ \A s \in S : r[s] \in {"parsed", "unparsed", "format"}
    /\ 100 * Cardinality({s \in S : r[s] # "parsed"}) <= ParsePercent * Cardinality(S)

(* Every variable holds a value of its type, and results have intents.     *)
TypeOK ==
    /\ intent \subseteq Calls
    /\ result \in [Calls -> Outcomes \union {None}]
    /\ \A c \in Calls : result[c] # None => c \in intent
    /\ bundle = <<>> \/ bundle \in [Samples -> Outcomes \union {None}]
    /\ decision \in {"none", "rejected", "decided"}
    /\ phase \in {"down", "pool", "bundled", "returned", "failed"}
    /\ scope \subseteq Samples
    /\ attempt \in 0 .. RetryLimit
    /\ todo \subseteq Calls
    /\ running \subseteq intent
    /\ rows \in [Samples -> Outcomes \union {None}]
    /\ crashes \in Nat

(* No sample beyond the canary is paid for before the canary's journal     *)
(* passes the operational gate, also when a later process resumes.         *)
CanaryBeforeRest ==
    (\E c \in intent : c[1] \notin Canary) => Usable(JournalRows, Canary)

(* The evidence bundle handed to the Creator is complete, passes the gate  *)
(* and says exactly what the journal says of every sample, after any       *)
(* crashes.  (With no tolerated failure, as for fewer than 50 samples.)    *)
BundleIsJournal ==
    bundle # <<>> => Usable(bundle, Samples) /\ bundle = JournalRows

(* Every process that enters the phase leaves it.                          *)
PhaseEnds == phase = "pool" ~> phase \in {"returned", "failed", "down", "bundled"}

(* "A complete result is reused directly" when the command is repeated on  *)
(* the same output root (docs/core-fast-path.md:740): when a batch is      *)
(* over, the row of a sample is the last result the journal holds for it.  *)
ResumeReusesResults ==
    BatchOver => \A s \in scope : rows[s] = Latest(s)
=============================================================================
