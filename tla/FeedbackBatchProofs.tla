------------------------- MODULE FeedbackBatchProofs -------------------------
(***************************************************************************)
(* Theorems of FeedbackBatch: types, that the role limit refuses no call,  *)
(* and, where no failure is tolerated, that the canary comes first and     *)
(* that the evidence bundle is what the journal says.                      *)
(*                                                                         *)
(* A row in memory and the journal can differ: a resumed process may not   *)
(* repeat a retry.  They agree on what is parsed, since a retry is made    *)
(* only after a format failure, whatever process made it, and a result is  *)
(* final.                                                                  *)
(***************************************************************************)
EXTENDS FeedbackBatch, FiniteSetTheorems, TLAPS

(* No share of the samples is so large that one failure may be tolerated.  *)
NothingTolerated == ParsePercent * Cardinality(Samples) < 100

-----------------------------------------------------------------------------
(* The inductive invariant.                                                *)

(* A retry is made, or about to be, only after a format failure.           *)
RetriesFollowFormat ==
    \A s \in Samples, c \in intent \union todo :
        c = <<s, 1>> => result[<<s, 0>>] = "format"

(* Every row was read from a call; a row of the running batch, from one of *)
(* the attempts this process has come to.                                  *)
RowsAreResults ==
    \A s \in Samples : rows[s] # None =>
        /\ s \in scope \/ scope = Samples \ Canary
        /\ \E a \in 0 .. RetryLimit :
               result[<<s, a>>] = rows[s] /\ (s \in scope => a <= attempt)

(* The calls ahead are of the running batch and of no later attempt.       *)
AttemptsReached == \A c \in todo \union running : c[1] \in scope /\ c[2] <= attempt

(* A call at the provider has no result, and is not submitted again.       *)
RunningOpen ==
    /\ \A c \in running : result[c] = None
    /\ todo \intersect running = {}

JournalInv ==
    TypeOK /\ RetriesFollowFormat /\ RowsAreResults /\ AttemptsReached /\ RunningOpen

Parsed(s) == \E a \in 0 .. RetryLimit : result[<<s, a>>] = "parsed"

(* Calls of the remaining samples come after a parsed canary; the rows of  *)
(* the bundle are parsed results.                                          *)
CanaryFirst == (\E c \in intent \union todo : c[1] \notin Canary) => \A s \in Canary : Parsed(s)

BundleParsed ==
    bundle # <<>> => bundle = [s \in Samples |-> "parsed"] /\ \A s \in Samples : Parsed(s)

-----------------------------------------------------------------------------
(* Types and the journal.                                                  *)

(* A call is a sample and an attempt.                                      *)
LEMMA CallsTyped ==
    ASSUME FeedbackAssumption
    PROVE  /\ \A c \in Calls : c = <<c[1], c[2]>> /\ c[1] \in Samples /\ c[2] \in 0 .. RetryLimit
           /\ \A s \in Samples, a \in 0 .. RetryLimit : <<s, a>> \in Calls
           /\ \A s \in Samples : <<s, 0>> \in Calls
BY DEF Calls, FeedbackAssumption

(* Settling a call that has no result, or has this one, changes no result. *)
LEMMA SettleKeeps ==
    ASSUME FeedbackAssumption, TypeOK, NEW c \in Calls, NEW v \in Outcomes, Settle(c, v),
           result[c] # None => result[c] = v
    PROVE  /\ result' \in [Calls -> Outcomes \union {None}]
           /\ rows' \in [Samples -> Outcomes \union {None}]
           /\ result'[c] = v /\ rows'[c[1]] = v
           /\ \A d \in Calls : result[d] # None => result'[d] = result[d]
           /\ \A d \in Calls : d # c => result'[d] = result[d]
           /\ \A s \in Samples : s # c[1] => rows'[s] = rows[s]
BY CallsTyped DEF Settle, TypeOK

(* The journal invariant holds before the first process.                   *)
LEMMA InitJournal == FeedbackAssumption /\ Init => JournalInv
<1> SUFFICES ASSUME FeedbackAssumption, Init PROVE JournalInv
  OBVIOUS
<1>1. TypeOK
  BY DEF Init, TypeOK, NoRows, FeedbackAssumption
<1>2. RetriesFollowFormat /\ RowsAreResults /\ AttemptsReached /\ RunningOpen
  BY DEF Init, RetriesFollowFormat, RowsAreResults, AttemptsReached, RunningOpen, NoRows
<1> QED
  BY <1>1, <1>2 DEF JournalInv

(* A new process, on resume too, starts from the canary with no rows.      *)
LEMMA StartJournal == FeedbackAssumption /\ JournalInv /\ Start => JournalInv'
<1> SUFFICES ASSUME FeedbackAssumption, JournalInv, Start PROVE JournalInv'
  OBVIOUS
<1>1. /\ UNCHANGED <<intent, result, bundle, decision, crashes>>
      /\ running' = {} /\ rows' = NoRows
      /\ \/ phase' = "returned" /\ UNCHANGED <<scope, attempt, todo>>
         \/ /\ phase' = "pool" /\ scope' = Canary /\ attempt' = 0
            /\ todo' = Canary \X {0}
  BY DEF Start, OpenBatch, disk
<1>2. TypeOK'
  BY <1>1 DEF JournalInv, TypeOK, NoRows, FeedbackAssumption, Calls
<1>3. RetriesFollowFormat'
  BY <1>1 DEF JournalInv, RetriesFollowFormat
<1>4. RowsAreResults' /\ AttemptsReached' /\ RunningOpen'
  BY <1>1 DEF JournalInv, RowsAreResults, AttemptsReached, RunningOpen, NoRows
<1> QED
  BY <1>2, <1>3, <1>4 DEF JournalInv

(* The row of a call that was made before.                                 *)
LEMMA ReuseJournal ==
    ASSUME FeedbackAssumption, JournalInv, NEW c \in Calls, Reuse(c)
    PROVE  JournalInv'
<1> DEFINE v == IF result[c] = None THEN "interrupted" ELSE result[c]
<1>1. /\ c \in todo /\ c \in intent /\ Settle(c, v)
      /\ todo' = todo \ {c}
      /\ UNCHANGED <<intent, bundle, decision, phase, scope, attempt, running, crashes>>
  BY DEF Reuse
<1>2. v \in Outcomes /\ (result[c] # None => result[c] = v)
  BY DEF JournalInv, TypeOK, Outcomes
<1> HIDE DEF v
<1>3. /\ result' \in [Calls -> Outcomes \union {None}]
      /\ rows' \in [Samples -> Outcomes \union {None}]
      /\ result'[c] = v /\ rows'[c[1]] = v
      /\ \A d \in Calls : result[d] # None => result'[d] = result[d]
      /\ \A d \in Calls : d # c => result'[d] = result[d]
      /\ \A s \in Samples : s # c[1] => rows'[s] = rows[s]
  BY <1>1, <1>2, SettleKeeps DEF JournalInv
<1>4. TypeOK'
  BY <1>1, <1>3 DEF JournalInv, TypeOK
<1>5. RetriesFollowFormat'
  BY <1>1, <1>3, CallsTyped DEF JournalInv, RetriesFollowFormat, None
<1>6. RowsAreResults'
  <2> SUFFICES ASSUME NEW s \in Samples, rows'[s] # None
               PROVE  /\ s \in scope \/ scope = Samples \ Canary
                      /\ \E a \in 0 .. RetryLimit :
                             result'[<<s, a>>] = rows'[s] /\ (s \in scope => a <= attempt)
    BY <1>1 DEF RowsAreResults
  <2>1. CASE s = c[1]
    <3>1. c[1] \in scope /\ c[2] <= attempt
      BY <1>1 DEF JournalInv, AttemptsReached
    <3>2. c = <<s, c[2]>> /\ c[2] \in 0 .. RetryLimit
      BY <2>1, CallsTyped
    <3> QED
      BY <1>3, <2>1, <3>1, <3>2
  <2>2. CASE s # c[1]
    <3>1. PICK a \in 0 .. RetryLimit :
                  result[<<s, a>>] = rows[s] /\ (s \in scope => a <= attempt)
      BY <1>3, <2>2 DEF JournalInv, RowsAreResults
    <3>2. <<s, a>> \in Calls
      BY <3>1, CallsTyped
    <3>3. s \in scope \/ scope = Samples \ Canary
      BY <1>3, <2>2 DEF JournalInv, RowsAreResults
    <3> QED
      BY <1>3, <2>2, <3>1, <3>2, <3>3
  <2> QED
    BY <2>1, <2>2
<1>7. AttemptsReached' /\ RunningOpen'
  BY <1>1, <1>3 DEF JournalInv, AttemptsReached, RunningOpen, TypeOK
<1> QED
  BY <1>4, <1>5, <1>6, <1>7 DEF JournalInv

(* A call gets its intent; of a retry, the first attempt was a format      *)
(* failure.                                                                *)
LEMMA BeginJournal ==
    ASSUME FeedbackAssumption, JournalInv, NEW c \in Calls, Begin(c)
    PROVE  JournalInv'
<1>1. /\ c \in todo /\ c \notin intent
      /\ todo' = todo \ {c} /\ intent' = intent \union {c} /\ running' = running \union {c}
      /\ UNCHANGED <<result, bundle, decision, phase, scope, attempt, rows, crashes>>
  BY DEF Begin
<1>2. TypeOK'
  BY <1>1 DEF JournalInv, TypeOK
<1>3. RetriesFollowFormat'
  BY <1>1 DEF JournalInv, RetriesFollowFormat
<1>4. RowsAreResults' /\ AttemptsReached'
  BY <1>1 DEF JournalInv, RowsAreResults, AttemptsReached
<1>5. RunningOpen'
  BY <1>1 DEF JournalInv, RunningOpen, TypeOK
<1> QED
  BY <1>2, <1>3, <1>4, <1>5 DEF JournalInv

(* The provider's answer becomes the result and the row.                   *)
LEMMA AnswerJournal ==
    ASSUME FeedbackAssumption, JournalInv, NEW c \in Calls, NEW v \in Answers, Answer(c, v)
    PROVE  JournalInv'
<1>1. /\ c \in running /\ Settle(c, v)
      /\ running' = running \ {c}
      /\ UNCHANGED <<intent, bundle, decision, phase, scope, attempt, todo, crashes>>
  BY DEF Answer
<1>2. v \in Outcomes /\ result[c] = None
  BY <1>1 DEF JournalInv, RunningOpen, Outcomes
<1>3. /\ result' \in [Calls -> Outcomes \union {None}]
      /\ rows' \in [Samples -> Outcomes \union {None}]
      /\ result'[c] = v /\ rows'[c[1]] = v
      /\ \A d \in Calls : result[d] # None => result'[d] = result[d]
      /\ \A d \in Calls : d # c => result'[d] = result[d]
      /\ \A s \in Samples : s # c[1] => rows'[s] = rows[s]
  BY <1>1, <1>2, SettleKeeps DEF JournalInv
<1>4. TypeOK'
  BY <1>1, <1>3 DEF JournalInv, TypeOK
<1>5. RetriesFollowFormat'
  BY <1>1, <1>3, CallsTyped DEF JournalInv, RetriesFollowFormat, None
<1>6. RowsAreResults'
  <2> SUFFICES ASSUME NEW s \in Samples, rows'[s] # None
               PROVE  /\ s \in scope \/ scope = Samples \ Canary
                      /\ \E a \in 0 .. RetryLimit :
                             result'[<<s, a>>] = rows'[s] /\ (s \in scope => a <= attempt)
    BY <1>1 DEF RowsAreResults
  <2>1. CASE s = c[1]
    <3>1. c[1] \in scope /\ c[2] <= attempt
      BY <1>1 DEF JournalInv, AttemptsReached
    <3>2. c = <<s, c[2]>> /\ c[2] \in 0 .. RetryLimit
      BY <2>1, CallsTyped
    <3> QED
      BY <1>3, <2>1, <3>1, <3>2
  <2>2. CASE s # c[1]
    <3>1. PICK a \in 0 .. RetryLimit :
                  result[<<s, a>>] = rows[s] /\ (s \in scope => a <= attempt)
      BY <1>3, <2>2 DEF JournalInv, RowsAreResults
    <3>2. <<s, a>> \in Calls
      BY <3>1, CallsTyped
    <3>3. s \in scope \/ scope = Samples \ Canary
      BY <1>3, <2>2 DEF JournalInv, RowsAreResults
    <3> QED
      BY <1>3, <2>2, <3>1, <3>2, <3>3
  <2> QED
    BY <2>1, <2>2
<1>7. AttemptsReached' /\ RunningOpen'
  BY <1>1, <1>3 DEF JournalInv, AttemptsReached, RunningOpen, TypeOK
<1> QED
  BY <1>4, <1>5, <1>6, <1>7 DEF JournalInv

(* The retry round repeats what the first attempts left as format          *)
(* failures.                                                               *)
LEMMA RetryJournal ==
    ASSUME FeedbackAssumption, JournalInv, NEW R \in SUBSET Samples, Retry(R)
    PROVE  JournalInv'
<1>1. /\ running = {} /\ attempt < RetryLimit /\ R \subseteq Retryable(scope)
      /\ attempt' = attempt + 1 /\ todo' = R \X {attempt + 1}
      /\ UNCHANGED <<intent, result, bundle, decision, phase, scope, running, rows, crashes>>
  BY DEF Retry, PoolEmpty, RetriesOpen, NextAttempt, disk
<1>2. attempt = 0 /\ RetryLimit = 1
  BY <1>1 DEF FeedbackAssumption, JournalInv, TypeOK
<1>3. TypeOK'
  BY <1>1, <1>2 DEF JournalInv, TypeOK, Calls
<1>4. \A s \in R : s \in scope /\ result[<<s, 0>>] = "format"
  <2> SUFFICES ASSUME NEW s \in R PROVE s \in scope /\ result[<<s, 0>>] = "format"
    OBVIOUS
  <2>1. s \in scope /\ rows[s] = "format" /\ s \in Samples
    BY <1>1 DEF Retryable
  <2>2. PICK a \in 0 .. RetryLimit : result[<<s, a>>] = rows[s] /\ a <= attempt
    BY <2>1 DEF JournalInv, RowsAreResults, None
  <2>3. a = 0
    BY <1>2, <2>2
  <2> QED
    BY <2>1, <2>2, <2>3
<1>5. RetriesFollowFormat'
  BY <1>1, <1>2, <1>4 DEF JournalInv, RetriesFollowFormat
<1>6. RowsAreResults'
  <2>1. \A a \in 0 .. RetryLimit : a <= attempt + 1
    BY <1>2
  <2> QED
    BY <1>1, <2>1 DEF JournalInv, RowsAreResults
<1>7. AttemptsReached' /\ RunningOpen'
  <2>1. scope' = scope /\ attempt' = 1 /\ running' = {} /\ todo' = R \X {1}
    BY <1>1, <1>2
  <2>2. \A c \in R \X {1} : c[1] \in R /\ c[2] = 1
    OBVIOUS
  <2>3. ASSUME NEW c \in todo' \union running' PROVE c[1] \in scope' /\ c[2] <= attempt'
    <3>1. c \in R \X {1}
      BY <2>1
    <3>2. c[1] \in R /\ c[2] = 1
      BY <3>1, <2>2
    <3>3. c[1] \in scope
      BY <3>2, <1>4
    <3> QED
      BY <2>1, <3>2, <3>3
  <2> QED
    BY <2>1, <2>3 DEF AttemptsReached, RunningOpen
<1> QED
  BY <1>3, <1>5, <1>6, <1>7 DEF JournalInv

(* The rest of the samples are submitted after the canary's gate.          *)
LEMMA CanaryGateJournal == FeedbackAssumption /\ JournalInv /\ CanaryGate => JournalInv'
<1> SUFFICES ASSUME FeedbackAssumption, JournalInv, CanaryGate PROVE JournalInv'
  OBVIOUS
<1>1. /\ scope = Canary /\ running = {}
      /\ UNCHANGED <<intent, result, bundle, running, rows, crashes>>
  BY DEF CanaryGate, BatchOver, PoolEmpty
<1>2. CASE /\ phase' = "pool" /\ scope' = Samples \ Canary /\ attempt' = 0
           /\ todo' = (Samples \ Canary) \X {0} /\ UNCHANGED decision
  <2>1. TypeOK'
    BY <1>1, <1>2 DEF JournalInv, TypeOK, Calls, FeedbackAssumption
  <2>2. RetriesFollowFormat' /\ AttemptsReached' /\ RunningOpen'
    BY <1>1, <1>2 DEF JournalInv, RetriesFollowFormat, AttemptsReached, RunningOpen
  <2>3. RowsAreResults'
    BY <1>1, <1>2 DEF JournalInv, RowsAreResults
  <2> QED
    BY <2>1, <2>2, <2>3 DEF JournalInv
<1>3. CASE /\ decision' = "rejected" /\ phase' = "returned"
           /\ UNCHANGED <<scope, attempt, todo>>
  BY <1>1, <1>3 DEF JournalInv, TypeOK, RetriesFollowFormat, RowsAreResults, AttemptsReached,
                    RunningOpen
<1> QED
  BY <1>2, <1>3 DEF CanaryGate, OpenBatch

(* The other steps leave the journal and the rows alone.                   *)
LEMMA RestJournal ==
    FeedbackAssumption /\ JournalInv /\ (FullGate \/ Decide \/ UNCHANGED vars) => JournalInv'
<1> SUFFICES ASSUME FeedbackAssumption, JournalInv, FullGate \/ Decide \/ UNCHANGED vars
             PROVE  JournalInv'
  OBVIOUS
<1>1. UNCHANGED <<intent, result, scope, attempt, todo, running, rows, crashes>>
  BY DEF FullGate, Decide, vars
<1>2. TypeOK'
  BY <1>1 DEF JournalInv, TypeOK, FullGate, Decide, vars
<1>3. RetriesFollowFormat' /\ RowsAreResults' /\ AttemptsReached' /\ RunningOpen'
  BY <1>1 DEF JournalInv, RetriesFollowFormat, RowsAreResults, AttemptsReached, RunningOpen
<1> QED
  BY <1>2, <1>3 DEF JournalInv

(* A crash forgets the rows.                                               *)
LEMMA CrashJournal == FeedbackAssumption /\ JournalInv /\ Crash => JournalInv'
<1> SUFFICES ASSUME FeedbackAssumption, JournalInv, Crash PROVE JournalInv'
  OBVIOUS
<1>1. /\ scope' = {} /\ attempt' = 0 /\ todo' = {} /\ running' = {} /\ rows' = NoRows
      /\ phase' = "down" /\ crashes' = crashes + 1
      /\ UNCHANGED <<intent, result, bundle, decision>>
  BY DEF Crash, disk
<1>2. TypeOK'
  BY <1>1 DEF JournalInv, TypeOK, NoRows, FeedbackAssumption
<1>3. RetriesFollowFormat' /\ RowsAreResults' /\ AttemptsReached' /\ RunningOpen'
  BY <1>1 DEF JournalInv, RetriesFollowFormat, RowsAreResults, AttemptsReached, RunningOpen, NoRows
<1> QED
  BY <1>2, <1>3 DEF JournalInv

(* The journal invariant holds in every reachable state.                   *)
LEMMA JournalInductive == Spec => []JournalInv
<1>1. Init => JournalInv
  BY FeedbackAssumption, InitJournal
<1>2. JournalInv /\ [Next]_vars => JournalInv'
  BY FeedbackAssumption, StartJournal, ReuseJournal, BeginJournal, AnswerJournal, RetryJournal,
     CanaryGateJournal, RestJournal, CrashJournal DEF Next, Step, Stopped
<1> QED
  BY <1>1, <1>2, PTL DEF Spec

(* Every variable of the Feedback phase always has its type.               *)
THEOREM TypeCorrect == Spec => []TypeOK
<1>1. JournalInv => TypeOK
  BY DEF JournalInv
<1> QED
  BY <1>1, JournalInductive, PTL

-----------------------------------------------------------------------------
(* The role limit.                                                         *)

(* A submitted call is always below the role limit: there are as many      *)
(* calls as the limit allows, and each has at most one intent.  So Begin   *)
(* (_call) refuses none, on resume either.                                 *)
THEOREM LimitSuffices == Spec => [](\A c \in todo \ intent : RoleCount < MaxFeedback)
<1>1. ASSUME JournalInv, NEW c \in todo \ intent PROVE RoleCount < MaxFeedback
  <2>1. c \in Calls /\ intent \subseteq Calls
    BY <1>1 DEF JournalInv, TypeOK
  <2>2. IsFiniteSet(0 .. RetryLimit) /\ Cardinality(0 .. RetryLimit) = 1 + RetryLimit
    BY FeedbackAssumption, FS_Interval DEF FeedbackAssumption
  <2>3. IsFiniteSet(Calls) /\ Cardinality(Calls) = MaxFeedback
    BY <2>2, FeedbackAssumption, LimitIsFrozen, FS_Product DEF FeedbackAssumption, Calls
  <2>4. /\ Cardinality(intent) <= Cardinality(Calls)
        /\ Cardinality(intent) = Cardinality(Calls) => intent = Calls
        /\ IsFiniteSet(intent)
    BY <2>1, <2>3, FS_Subset
  <2>5. Cardinality(intent) # Cardinality(Calls)
    BY <1>1, <2>1, <2>4
  <2>6. Cardinality(intent) \in Nat /\ Cardinality(Calls) \in Nat
    BY <2>3, <2>4, FS_CardinalityType
  <2> QED
    BY <2>3, <2>4, <2>5, <2>6 DEF RoleCount
<1>2. JournalInv => \A c \in todo \ intent : RoleCount < MaxFeedback
  BY <1>1
<1> QED
  BY <1>2, JournalInductive, PTL

-----------------------------------------------------------------------------
(* The gates.                                                              *)

(* Where nothing is tolerated, a passed gate has seen only parsed rows.    *)
LEMMA PassedIsParsed ==
    ASSUME FeedbackAssumption, NothingTolerated, JournalInv, NEW S \in SUBSET Samples,
           GatePassed(rows, S)
    PROVE  \A s \in S : rows[s] = "parsed"
<1> DEFINE F == {s \in S : rows[s] # "parsed"}
<1>1. IsFiniteSet(Samples) /\ IsFiniteSet(S) /\ Cardinality(S) <= Cardinality(Samples)
  BY FS_Subset DEF FeedbackAssumption
<1>2. IsFiniteSet(F)
  BY <1>1, FS_Subset
<1>3. Cardinality(S) \in Nat /\ Cardinality(Samples) \in Nat /\ Cardinality(F) \in Nat
  BY <1>1, <1>2, FS_CardinalityType
<1>4. 100 * Cardinality(F) <= ParsePercent * Cardinality(S)
  BY DEF GatePassed, ParseFailures
<1>5. ParsePercent * Cardinality(S) <= ParsePercent * Cardinality(Samples)
  <2>1. \A n, x, y \in Nat : x <= y => n * x <= n * y
    OBVIOUS
  <2> QED
    BY <1>1, <1>3, <2>1 DEF FeedbackAssumption
<1>6. Cardinality(F) = 0
  <2>1. ParsePercent * Cardinality(S) \in Nat /\ ParsePercent * Cardinality(Samples) \in Nat
    BY <1>3 DEF FeedbackAssumption
  <2> HIDE DEF F
  <2> QED
    BY <1>3, <1>4, <1>5, <2>1 DEF NothingTolerated
<1> QED
  BY <1>2, <1>6, FS_EmptySet

(* A parsed row is a parsed result of the journal.                         *)
LEMMA RowParsed ==
    ASSUME FeedbackAssumption, JournalInv, NEW s \in Samples, rows[s] = "parsed"
    PROVE  Parsed(s)
BY DEF JournalInv, RowsAreResults, Parsed, None

(* What is parsed is the last result of its sample, as no retry follows.   *)
LEMMA ParsedIsLatest ==
    ASSUME FeedbackAssumption, JournalInv, NEW s \in Samples, Parsed(s)
    PROVE  Latest(s) = "parsed"
<1> DEFINE settled == {a \in 0 .. RetryLimit : result[<<s, a>>] # None}
           last == CHOOSE a \in settled : \A b \in settled : b <= a
<1>1. PICK p \in 0 .. RetryLimit : result[<<s, p>>] = "parsed"
  BY DEF Parsed
<1>2. p \in settled
  BY <1>1 DEF None
<1>3. \A b \in settled : b <= p
  <2> SUFFICES ASSUME NEW b \in settled, b > p PROVE FALSE
    BY <1>1 DEF FeedbackAssumption
  <2>1. p = 0 /\ b = 1
    BY <1>1 DEF FeedbackAssumption
  <2>2. <<s, 1>> \in Calls /\ result[<<s, 1>>] # None
    BY <2>1, CallsTyped
  <2>3. <<s, 1>> \in intent
    BY <2>2 DEF JournalInv, TypeOK
  <2>4. result[<<s, 0>>] = "format"
    BY <2>3 DEF JournalInv, RetriesFollowFormat
  <2> QED
    BY <1>1, <2>1, <2>4
<1>4. last \in settled /\ \A b \in settled : b <= last
  BY <1>2, <1>3
<1>5. last = p
  <2>1. last \in Nat /\ p \in Nat /\ last <= p /\ p <= last
    BY <1>1, <1>2, <1>3, <1>4
  <2> QED
    BY <2>1
<1>6. Latest(s) = result[<<s, last>>]
  BY <1>2 DEF Latest
<1> QED
  BY <1>1, <1>5, <1>6

(* A result is final: no step changes one.                                 *)
LEMMA ResultsFinal ==
    ASSUME FeedbackAssumption, JournalInv, [Next]_vars
    PROVE  \A c \in Calls : result[c] # None => result'[c] = result[c]
<1>1. ASSUME NEW c \in Calls, Reuse(c)
      PROVE  \A d \in Calls : result[d] # None => result'[d] = result[d]
  <2> DEFINE v == IF result[c] = None THEN "interrupted" ELSE result[c]
  <2>1. Settle(c, v)
    BY <1>1 DEF Reuse
  <2>2. v \in Outcomes /\ (result[c] # None => result[c] = v)
    BY DEF JournalInv, TypeOK, Outcomes
  <2> HIDE DEF v
  <2> QED
    BY <2>1, <2>2, SettleKeeps DEF JournalInv
<1>2. ASSUME NEW c \in Calls, NEW v \in Answers, Answer(c, v)
      PROVE  \A d \in Calls : result[d] # None => result'[d] = result[d]
  <2>1. Settle(c, v) /\ result[c] = None /\ v \in Outcomes
    BY <1>2 DEF Answer, JournalInv, RunningOpen, Outcomes
  <2> QED
    BY <2>1, SettleKeeps DEF JournalInv
<1>3. CASE UNCHANGED result
  BY <1>3
<1> QED
  BY <1>1, <1>2, <1>3
     DEF Next, Step, Stopped, Start, Begin, Retry, CanaryGate, FullGate, Decide, Crash, disk, vars

(* A parsed sample stays parsed.                                           *)
LEMMA ParsedKept ==
    ASSUME FeedbackAssumption, JournalInv, [Next]_vars, NEW s \in Samples, Parsed(s)
    PROVE  Parsed(s)'
<1>1. PICK a \in 0 .. RetryLimit : result[<<s, a>>] = "parsed"
  BY DEF Parsed
<1>2. <<s, a>> \in Calls
  BY CallsTyped
<1>3. result'[<<s, a>>] = "parsed"
  BY <1>1, <1>2, ResultsFinal DEF None
<1> QED
  BY <1>3 DEF Parsed

(* The calls that a step adds are of the canary, of the running batch, or  *)
(* come after a passed canary gate.                                        *)
LEMMA NewCalls ==
    ASSUME FeedbackAssumption, JournalInv, [Next]_vars
    PROVE  \/ \A c \in intent' \union todo' : c \in intent \union todo \/ c[1] \in Canary
           \/ \E R \in SUBSET Samples : Retry(R)
           \/ CanaryGate /\ GatePassed(rows, Canary)
<1>1. CASE Start
  BY <1>1 DEF Start, OpenBatch, disk
<1>2. CASE CanaryGate
  BY <1>2 DEF CanaryGate
<1>3. CASE FullGate \/ Decide \/ Crash \/ Stopped \/ UNCHANGED vars
  BY <1>3 DEF FullGate, Decide, Crash, Stopped, disk, vars
<1>4. ASSUME NEW c \in Calls, Reuse(c) \/ Begin(c) \/ \E v \in Answers : Answer(c, v)
      PROVE  \A d \in intent' \union todo' : d \in intent \union todo
  BY <1>4 DEF Reuse, Begin, Answer
<1> QED
  BY <1>1, <1>2, <1>3, <1>4 DEF Next, Step

(* The inductive invariant of the gates.                                   *)
SafeInv == JournalInv /\ CanaryFirst /\ BundleParsed

(* Where nothing is tolerated, a call beyond the canary has a parsed       *)
(* canary behind it, and the bundle is parsed.                             *)
LEMMA SafeNext ==
    ASSUME FeedbackAssumption, NothingTolerated, SafeInv, [Next]_vars, JournalInv'
    PROVE  SafeInv'
<1>1. JournalInv
  BY DEF SafeInv
<1>2. CanaryFirst'
  <2> SUFFICES ASSUME NEW c \in intent' \union todo', c[1] \notin Canary, NEW s \in Canary
               PROVE  Parsed(s)'
    BY DEF CanaryFirst
  <2>1. s \in Samples
    BY DEF FeedbackAssumption
  <2>2. Parsed(s)
    <3>1. CASE c \in intent \union todo
      BY <3>1 DEF SafeInv, CanaryFirst
    <3>2. CASE CanaryGate /\ GatePassed(rows, Canary)
      BY <1>1, <2>1, <3>2, PassedIsParsed, RowParsed DEF FeedbackAssumption
    <3>3. ASSUME NEW R \in SUBSET Samples, Retry(R), c \notin intent \union todo
          PROVE  Parsed(s)
      <4>1. attempt = 0 /\ R \subseteq Retryable(scope) /\ c[1] \in R
        BY <1>1, <3>3 DEF Retry, RetriesOpen, disk, JournalInv, TypeOK, FeedbackAssumption
      <4>2. c[1] \in scope /\ c[1] \in Samples /\ rows[c[1]] = "format"
        BY <4>1 DEF Retryable
      <4>3. PICK a \in 0 .. RetryLimit : result[<<c[1], a>>] = "format"
        BY <1>1, <4>2 DEF JournalInv, RowsAreResults, None
      <4>4. <<c[1], a>> \in intent
        BY <1>1, <4>2, <4>3, CallsTyped DEF JournalInv, TypeOK, None
      <4> QED
        BY <4>4 DEF SafeInv, CanaryFirst
    <3> QED
      BY <1>1, <3>1, <3>2, <3>3, NewCalls
  <2> QED
    BY <1>1, <2>1, <2>2, ParsedKept
<1>3. BundleParsed'
  <2>1. CASE bundle' = bundle
    BY <1>1, <2>1, ParsedKept DEF SafeInv, BundleParsed
  <2>2. CASE bundle' # bundle
    <3>1. bundle' = rows /\ GatePassed(rows, Samples)
      BY <2>2 DEF Next, Step, Stopped, Start, Reuse, Begin, Answer, Retry, CanaryGate, FullGate,
                  Decide, Crash, disk, vars
    <3>2. \A s \in Samples : rows[s] = "parsed"
      BY <1>1, <3>1, PassedIsParsed
    <3>3. rows = [s \in Samples |-> "parsed"]
      BY <1>1, <3>2 DEF JournalInv, TypeOK
    <3>4. \A s \in Samples : Parsed(s)'
      BY <1>1, <3>2, RowParsed, ParsedKept
    <3> QED
      BY <3>1, <3>3, <3>4 DEF BundleParsed
  <2> QED
    BY <2>1, <2>2
<1> QED
  BY <1>2, <1>3 DEF SafeInv

(* Where nothing is tolerated, the three parts hold in every reachable     *)
(* state.                                                                  *)
LEMMA SafeInductive ==
    ASSUME NothingTolerated
    PROVE  Spec => []SafeInv
<1>1. Init => SafeInv
  <2> SUFFICES ASSUME Init PROVE SafeInv
    OBVIOUS
  <2>1. JournalInv
    BY FeedbackAssumption, InitJournal
  <2>2. CanaryFirst /\ BundleParsed
    BY DEF Init, CanaryFirst, BundleParsed
  <2> QED
    BY <2>1, <2>2 DEF SafeInv
<1>2. SafeInv /\ [Next]_vars /\ JournalInv' => SafeInv'
  BY FeedbackAssumption, SafeNext
<1> QED
  BY <1>1, <1>2, JournalInductive, PTL DEF Spec

(* Samples that are all parsed are usable: no failure among them.          *)
LEMMA ParsedIsUsable ==
    ASSUME FeedbackAssumption, NEW r, NEW S \in SUBSET Samples, \A s \in S : r[s] = "parsed"
    PROVE  Usable(r, S)
<1>1. {s \in S : r[s] # "parsed"} = {}
  OBVIOUS
<1>2. Cardinality({s \in S : r[s] # "parsed"}) = 0
  BY <1>1, FS_EmptySet
<1>3. ParsePercent * Cardinality(S) >= 0
  <2>1. Cardinality(S) \in Nat
    BY FS_Subset, FS_CardinalityType DEF FeedbackAssumption
  <2>2. \A x, y \in Nat : x * y >= 0
    OBVIOUS
  <2> QED
    BY <2>1, <2>2 DEF FeedbackAssumption
<1> QED
  BY <1>2, <1>3 DEF Usable

(* No sample beyond the canary is asked about before the canary's journal  *)
(* passes the gate, whatever process asks (_feedback_batch, run_s1).       *)
THEOREM CanaryGuards ==
    ASSUME NothingTolerated
    PROVE  Spec => []CanaryBeforeRest
<1>1. ASSUME SafeInv PROVE CanaryBeforeRest
  <2> SUFFICES ASSUME NEW c \in intent, c[1] \notin Canary
               PROVE  Usable(JournalRows, Canary)
    BY DEF CanaryBeforeRest
  <2>1. \A s \in Canary : s \in Samples /\ Parsed(s)
    BY <1>1, FeedbackAssumption DEF SafeInv, CanaryFirst, FeedbackAssumption
  <2>2. \A s \in Canary : JournalRows[s] = "parsed"
    BY <1>1, <2>1, FeedbackAssumption, ParsedIsLatest DEF JournalRows, SafeInv
  <2> QED
    BY <2>2, FeedbackAssumption, ParsedIsUsable DEF FeedbackAssumption
<1>2. SafeInv => CanaryBeforeRest
  BY <1>1
<1> QED
  BY <1>2, SafeInductive, PTL

(* The evidence bundle handed to the Creator is complete and says of every *)
(* sample what the journal says, then and after every resume.              *)
THEOREM BundleFollowsJournal ==
    ASSUME NothingTolerated
    PROVE  Spec => []BundleIsJournal
<1>1. ASSUME SafeInv PROVE BundleIsJournal
  <2> SUFFICES ASSUME bundle # <<>>
               PROVE  Usable(bundle, Samples) /\ bundle = JournalRows
    BY DEF BundleIsJournal
  <2>1. bundle = [s \in Samples |-> "parsed"] /\ \A s \in Samples : Parsed(s)
    BY <1>1 DEF SafeInv, BundleParsed
  <2>2. \A s \in Samples : Latest(s) = "parsed"
    BY <1>1, <2>1, FeedbackAssumption, ParsedIsLatest DEF SafeInv
  <2>3. bundle = JournalRows
    BY <2>1, <2>2 DEF JournalRows
  <2>4. Usable(bundle, Samples)
    BY <2>1, FeedbackAssumption, ParsedIsUsable
  <2> QED
    BY <2>3, <2>4
<1>2. SafeInv => BundleIsJournal
  BY <1>1
<1> QED
  BY <1>2, SafeInductive, PTL
=============================================================================
