------------------------- MODULE StagePipelineProofs -------------------------
(***************************************************************************)
(* Theorems of StagePipeline: types, the lineage of the Banks, that an     *)
(* accepted candidate passed its gates, that a label names one Bank, and   *)
(* that the pipeline implements the Ladder.                                *)
(*                                                                         *)
(* A process computes what is ahead of it from the decisions on disk and   *)
(* the Banks from the files on disk, while a crash may come between any    *)
(* two writes.  What carries the proof is that each file that a later step *)
(* reads is settled before that step: BankFor(k) is the Bank that the      *)
(* batch k is for, and Settled(k) says that it will not change any more.   *)
(***************************************************************************)
EXTENDS StagePipeline, FiniteSetTheorems, SequenceTheorems, TLAPS

-----------------------------------------------------------------------------
(* The inductive invariant.                                                *)

(* The stages below a stage.                                               *)
Below(s) == CASE s = "s1" -> {} [] s = "s2" -> {"s1"} [] s = "full" -> {"s1", "s2"}

(* A stage is decided after those below it.                                *)
InOrder == \A s \in Stages : Decided(s) => \A t \in Below(s) : Decided(t)

(* A decision names the parent's Bank, and selects it or the candidate; it *)
(* agrees with the Bank file.                                              *)
Chain ==
    \A s \in Stages : Decided(s) =>
        /\ bank[s] = decision[s].selected
        /\ decision[s].parent = Parent(s)
        /\ decision[s].selected = IF decision[s].accepted THEN Candidate(s) ELSE Parent(s)

InStage == main \in {"gates", "select", "decide"}

(* A process is in the first stage that has no decision.                   *)
Turn == InStage => /\ stage \in Stages
                   /\ ~Decided(stage)
                   /\ \A t \in Below(stage) : Decided(t)

(* A process was started for a command.                                    *)
Started == main # "idle" => command \in Commands

(* The Bank file is there before the decision.                             *)
BankFirst == main = "decide" => bank[stage] = Selected

(* What a stage has established by a step of its plan that it has behind.  *)
Passed(s, x) ==
    /\ x = "creator" => creator[s] = "candidate"
    /\ x \in {"smoke", "judge"} => outcome[KeyOf(s, x)] = "good"
    /\ x = "replay" => outcome[KeyOf(s, x)] \in {"some", "good"}
    /\ x = "composite" => outcome[KeyOf(s, "replay")] = "good" \/ outcome[KeyOf(s, x)] = "good"

(* The candidate's gate; S3 may go on with its metrics for the record.     *)
GatePassed(s) == outcome[KeyOf(s, "gate")] = "good"

PassedUpTo(s, n) == \A i \in 1 .. n : Passed(s, Plan[s][i])

(* The steps ahead are those of the plan after the n steps behind.         *)
AheadFrom(n) ==
    /\ n \in 0 .. Len(Plan[stage]) - 1
    /\ Len(todo) = Len(Plan[stage]) - n
    /\ \A i \in 1 .. Len(todo) : todo[i] = Plan[stage][n + i]

(* Every step behind has been passed, by this process or an earlier one.   *)
Behind ==
    main = "gates" =>
        \E n \in 0 .. Len(Plan[stage]) - 1 :
            /\ AheadFrom(n)
            /\ PassedUpTo(stage, n)
            /\ (\E i \in 1 .. n : Plan[stage][i] = "gate") /\ accepted => GatePassed(stage)

(* Only these two gates have three answers.                                *)
SomeOnly ==
    \A k \in Keys : outcome[k] = "some" =>
        k \in {<<"opt-replay200", "s1-candidate">>, <<"val", "full-candidate">>}

(* A stage that selects or has selected its candidate passed all of it.    *)
Selectable ==
    main \in {"select", "decide"} /\ accepted =>
        PassedUpTo(stage, Len(Plan[stage])) /\ GatePassed(stage)

AcceptedPassed ==
    \A s \in Stages : Accepted(s) => PassedUpTo(s, Len(Plan[s])) /\ GatePassed(s)

(* The matrices are run after the last decision.                           *)
MatricesLast ==
    /\ main = "final" /\ (\E i \in DOMAIN todo : todo[i] \in {"val", "test", "routes"})
           => AllDecided
    /\ left # {} => /\ main = "final" /\ AllDecided
                    /\ todo # <<>> /\ Head(todo) \in {"val", "test", "routes"}
                    /\ ~RoutesWritten(Head(todo))

(* The Bank that a label means on a split.                                 *)
BankFor(k) ==
    CASE k[2] = "noskill" -> "no bank"
      [] k[2] = "llm_static" -> "static"
      [] k[2] = "s1-candidate" -> IF k[1] \in {"dev-smoke24", "opt-replay200"} THEN "raw"
                                  ELSE Candidate("s1")
      [] k[2] = "s2-candidate" -> "routed"
      [] k[2] \in {"full-candidate", "candidate"} -> "refined"
      [] k[2] = "s1" -> bank["s1"]
      [] k[2] \in {"s1s2", "parent"} -> bank["s2"]
      [] k[2] = "full" -> bank["full"]

(* What that depends on is on disk for good.                               *)
Settled(k) ==
    /\ k[2] = "s1-candidate" /\ k[1] \notin {"dev-smoke24", "opt-replay200"} =>
           outcome[<<"opt-replay200", "s1-candidate">>] # "none"
    /\ k[2] = "s1" => Decided("s1")
    /\ k[2] \in {"s1s2", "parent"} => Decided("s2")
    /\ k[2] = "full" => Decided("full")

Fits(k, b) == b = BankFor(k) /\ Settled(k)

(* Batches are requested for the Bank of their label, now and before.      *)
AskedFits == \A k \in Keys : \A b \in asked[k] : Fits(k, b)
LeftFits == \A kb \in left : Fits(kb[1], kb[2])

(* A final batch is one of the matrices.                                   *)
LeftSplits == \A kb \in left : kb[1] \in Keys /\ kb[1][1] \in {"val", "test_frozen", "all1500"}

(* A completed test batch has been requested.                              *)
TestAsked ==
    \A p \in Labels :
        outcome[<<"test_frozen", p>>] # "none" => asked[<<"test_frozen", p>>] # {}

PipelineInv ==
    /\ TypeOK
    /\ InOrder /\ Chain
    /\ Turn /\ Started /\ BankFirst
    /\ Behind /\ SomeOnly /\ Selectable /\ AcceptedPassed
    /\ MatricesLast
    /\ AskedFits /\ LeftFits /\ LeftSplits /\ TestAsked

-----------------------------------------------------------------------------
(* The plans, the labels and the Banks.                                    *)

Batches == Gates \union {"parentGate", "body", "parentSmoke", "parentJudge"}
Matrices == {"val", "test", "routes"}

(* The plans, step by step.                                                *)
LEMMA PlanFacts ==
    /\ Len(Plan["s1"]) = 7
    /\ Plan["s1"][1] = "feedback" /\ Plan["s1"][2] = "creator" /\ Plan["s1"][3] = "smoke"
    /\ Plan["s1"][4] = "replay" /\ Plan["s1"][5] = "composite" /\ Plan["s1"][6] = "parentGate"
    /\ Plan["s1"][7] = "gate"
    /\ Len(Plan["s2"]) = 4
    /\ Plan["s2"][1] = "creator" /\ Plan["s2"][2] = "smoke" /\ Plan["s2"][3] = "parentGate"
    /\ Plan["s2"][4] = "gate"
    /\ Len(Plan["full"]) = 8
    /\ Plan["full"][1] = "body" /\ Plan["full"][2] = "creator" /\ Plan["full"][3] = "parentSmoke"
    /\ Plan["full"][4] = "smoke" /\ Plan["full"][5] = "parentGate" /\ Plan["full"][6] = "gate"
    /\ Plan["full"][7] = "parentJudge" /\ Plan["full"][8] = "judge"
BY DEF Plan

(* A plan is a nonempty list of steps.                                     *)
LEMMA PlanTyped == \A s \in Stages : Plan[s] \in Seq(Steps) /\ Len(Plan[s]) \in 4 .. 8
<1>1. Plan["s1"] \in Seq(Steps)
  BY DEF Plan, Steps
<1>2. Plan["s2"] \in Seq(Steps)
  BY DEF Plan, Steps
<1>3. Plan["full"] \in Seq(Steps)
  BY DEF Plan, Steps
<1> QED
  BY <1>1, <1>2, <1>3, PlanFacts DEF Stages

(* The final steps; only the full commands run matrices.                   *)
LEMMA FinalFacts ==
    ASSUME NEW c
    PROVE  /\ FinalPlan(c) \in Seq(Steps)
           /\ (\E i \in DOMAIN FinalPlan(c) : FinalPlan(c)[i] \in Matrices)
                  => c \in {"full", "test"}
<1>1. CASE c = "full"
  BY <1>1 DEF FinalPlan, Steps
<1>2. CASE c = "test"
  BY <1>2 DEF FinalPlan, Steps
<1>3. CASE c = "report"
  BY <1>3 DEF FinalPlan, Steps, Matrices
<1>4. CASE c \notin {"full", "test", "report"}
  BY <1>4 DEF FinalPlan
<1> QED
  BY <1>1, <1>2, <1>3, <1>4

(* The stages of a command, in order.                                      *)
LEMMA ThroughFacts ==
    ASSUME NEW c \in {"s1", "s2", "full", "test", "report"}
    PROVE  /\ DOMAIN Through(c) = 1 .. Len(Through(c))
           /\ Len(Through(c)) \in 0 .. 3
           /\ Len(Through(c)) >= 1 => Through(c)[1] = "s1"
           /\ Len(Through(c)) >= 2 => Through(c)[2] = "s2"
           /\ Len(Through(c)) >= 3 => Through(c)[3] = "full"
           /\ c \in {"full", "test"} => Len(Through(c)) = 3
<1>1. CASE c = "s1"
  BY <1>1 DEF Through
<1>2. CASE c = "s2"
  BY <1>2 DEF Through
<1>3. CASE c = "report"
  BY <1>3 DEF Through
<1>4. CASE c \in {"full", "test"}
  <2>1. Through(c) = <<"s1", "s2", "full">>
    BY <1>4 DEF Through, Order
  <2> QED
    BY <1>4, <2>1
<1> QED
  BY <1>1, <1>2, <1>3, <1>4

(* A command goes to its first stage without a decision, or to its final   *)
(* steps.                                                                  *)
LEMMA EnterGives ==
    ASSUME NEW c \in {"s1", "s2", "full", "test", "report"}, Enter(c)
    PROVE  /\ accepted' = TRUE /\ left' = {}
           /\ \/ /\ main' = "final" /\ stage' = "final" /\ todo' = FinalPlan(c)
                 /\ c \in {"full", "test"} => \A s \in Stages : decision'[s] # NoDecision
              \/ \E s \in Stages :
                    /\ main' = "gates" /\ stage' = s /\ todo' = Plan[s]
                    /\ decision'[s] = NoDecision
                    /\ \A t \in Below(s) : decision'[t] # NoDecision
<1> DEFINE th == Through(c)
<1>1. accepted' = TRUE /\ left' = {}
  BY DEF Enter
<1>2. CASE /\ \A i \in DOMAIN th : decision'[th[i]] # NoDecision
           /\ main' = "final" /\ stage' = "final" /\ todo' = FinalPlan(c)
  <2>1. ASSUME c \in {"full", "test"} PROVE \A s \in Stages : decision'[s] # NoDecision
    <3>1. 1 \in DOMAIN th /\ 2 \in DOMAIN th /\ 3 \in DOMAIN th
      BY <2>1, ThroughFacts
    <3>2. th[1] = "s1" /\ th[2] = "s2" /\ th[3] = "full"
      BY <2>1, ThroughFacts
    <3> HIDE DEF th
    <3> QED
      BY <1>2, <3>1, <3>2 DEF Stages
  <2> QED
    BY <1>1, <1>2, <2>1
<1>3. ASSUME NEW i \in DOMAIN th, decision'[th[i]] = NoDecision,
             \A j \in 1 .. i - 1 : decision'[th[j]] # NoDecision,
             main' = "gates", stage' = th[i], todo' = Plan[th[i]]
      PROVE  \E s \in Stages :
                 /\ main' = "gates" /\ stage' = s /\ todo' = Plan[s]
                 /\ decision'[s] = NoDecision
                 /\ \A t \in Below(s) : decision'[t] # NoDecision
  <2>1. i \in 1 .. 3 /\ i <= Len(th)
    BY ThroughFacts
  <2>2. CASE i = 1
    <3>1. th[1] = "s1"
      BY <2>1, <2>2, ThroughFacts
    <3> QED
      BY <1>3, <2>2, <3>1 DEF Stages, Below
  <2>3. CASE i = 2
    <3>1. th[1] = "s1" /\ th[2] = "s2"
      BY <2>1, <2>3, ThroughFacts
    <3>2. decision'["s1"] # NoDecision
      BY <1>3, <2>3, <3>1
    <3> HIDE DEF th
    <3> QED
      BY <1>3, <2>3, <3>1, <3>2 DEF Stages, Below
  <2>4. CASE i = 3
    <3>1. th[1] = "s1" /\ th[2] = "s2" /\ th[3] = "full"
      BY <2>1, <2>4, ThroughFacts
    <3>2. decision'["s1"] # NoDecision /\ decision'["s2"] # NoDecision
      BY <1>3, <2>4, <3>1
    <3> HIDE DEF th
    <3> QED
      BY <1>3, <2>4, <3>1, <3>2 DEF Stages, Below
  <2> QED
    BY <2>1, <2>2, <2>3, <2>4
<1> QED
  BY <1>1, <1>2, <1>3 DEF Enter

(* The batch of a step is a key.                                           *)
LEMMA KeyTyped == \A s \in Stages, x \in Batches : KeyOf(s, x) \in Keys
  BY DEF Stages, Batches, Gates, KeyOf, CandidateLabel, ParentLabel, GateSplit, Keys, Splits,
         Labels

(* The Banks of a stage whose lower stages are decided.                    *)
LEMMA BankTyped ==
    ASSUME TypeOK, Chain, NEW s \in Stages, \A t \in Below(s) : Decided(t)
    PROVE  /\ Parent(s) \in Banks /\ Candidate(s) \in Banks
           /\ \A x \in Batches : BankOf(s, x) \in Banks
<1>1. Candidate(s) \in Banks
  BY DEF Candidate, Stages, Banks
<1>2. Parent(s) \in Banks
  <2>1. \A t \in Stages : Decided(t) => bank[t] \in Banks
    BY DEF TypeOK, Chain, Decided, Decision
  <2> QED
    BY <2>1 DEF Parent, Below, Stages, Banks
<1>3. "raw" \in Banks
  BY DEF Banks
<1> QED
  BY <1>1, <1>2, <1>3 DEF BankOf

-----------------------------------------------------------------------------
(* What is on disk for good.                                               *)

Replay == <<"opt-replay200", "s1-candidate">>

Kept ==
    /\ \A k \in Keys : outcome[k] # "none" => outcome'[k] = outcome[k]
    /\ \A s \in Stages : creator[s] # "none" => creator'[s] = creator[s]
    /\ \A s \in Stages : Decided(s) => decision'[s] = decision[s] /\ bank'[s] = bank[s]
    /\ Decided("s1") => outcome'[Replay] = outcome[Replay]

(* A batch of a stage keeps what is on disk.                               *)
LEMMA StageBatchKeeps ==
    ASSUME PipelineInv, NEW x \in Batches, StageBatch(x)
    PROVE  Kept
<1>1. stage \in Stages /\ ~Decided(stage)
  BY DEF StageBatch, At, PipelineInv, Turn, InStage
<1> DEFINE k == KeyOf(stage, x)
<1>2. PICK r : /\ r \in IF outcome[k] = "none" THEN OutcomesOf(stage, x) ELSE {outcome[k]}
               /\ outcome' = [outcome EXCEPT ![k] = r]
  BY DEF StageBatch
<1>3. Decided("s1") => k # Replay
  BY <1>1 DEF Batches, Gates, Stages, KeyOf, CandidateLabel, ParentLabel, GateSplit, Replay
<1>4. Replay \in Keys
  BY DEF Replay, Keys, Splits, Labels
<1>5. outcome \in [Keys -> Outcomes \union {"none"}]
  BY DEF PipelineInv, TypeOK
<1>6. UNCHANGED <<creator, decision, bank>>
  BY DEF StageBatch, results
<1> HIDE DEF k
<1> QED
  BY <1>2, <1>3, <1>4, <1>5, <1>6 DEF Kept

(* So does a batch of a final step.                                        *)
LEMMA FinalBatchKeeps ==
    ASSUME PipelineInv, NEW kb \in left, FinalBatch(kb)
    PROVE  Kept
<1>1. outcome \in [Keys -> Outcomes \union {"none"}]
  BY DEF PipelineInv, TypeOK
<1>2. outcome' = outcome \/ outcome' = [outcome EXCEPT ![kb[1]] = IF @ = "none" THEN "good" ELSE @]
  BY DEF FinalBatch
<1>3. UNCHANGED <<creator, decision, bank>>
  BY DEF FinalBatch, results
<1>4. kb[1] # Replay
  BY DEF PipelineInv, LeftSplits, Replay
<1>5. Replay \in Keys
  BY DEF Replay, Keys, Splits, Labels
<1> QED
  BY <1>1, <1>2, <1>3, <1>4, <1>5 DEF Kept

(* Every step does.                                                        *)
LEMMA StepKeeps ==
    ASSUME PipelineInv, [Next]_vars
    PROVE  Kept
<1>1. CASE UNCHANGED <<outcome, creator, decision, bank>>
  BY <1>1 DEF Kept
<1>2. CASE FeedbackPhase
  BY <1>2, <1>1 DEF FeedbackPhase, results
<1>3. CASE CreatorCall
  BY <1>3 DEF CreatorCall, results, Kept, PipelineInv, TypeOK
<1>4. CASE Select
  <2>1. stage \in Stages /\ ~Decided(stage)
    BY <1>4 DEF Select, PipelineInv, Turn, InStage
  <2> QED
    BY <1>4, <2>1 DEF Select, journal, Kept, PipelineInv, TypeOK
<1>5. CASE Decide
  <2>1. stage \in Stages /\ ~Decided(stage)
    BY <1>5 DEF Decide, PipelineInv, Turn, InStage
  <2>2. decision' = [decision EXCEPT ![stage] =
           [accepted |-> accepted, parent |-> Parent(stage), selected |-> Selected]]
        /\ UNCHANGED <<outcome, creator, bank>>
    BY <1>5 DEF Decide, journal
  <2> QED
    BY <2>1, <2>2 DEF Kept, PipelineInv, TypeOK
<1>6. CASE Crash
  BY <1>6 DEF Crash, results, Kept, PipelineInv, TypeOK
<1>7. ASSUME NEW c \in Commands, Start(c) PROVE Kept
  BY <1>1, <1>7 DEF Start, journal, results
<1>8. ASSUME NEW x \in Matrices, OpenFinal(x) PROVE Kept
  BY <1>1, <1>8 DEF OpenFinal, journal, results
<1>9. CASE ReadRoutes \/ Rebuild \/ RouteSummary \/ FinalReport \/ Return \/ UNCHANGED vars
  BY <1>1, <1>9 DEF ReadRoutes, Rebuild, RouteSummary, FinalReport, Return, vars, journal, results
<1> QED
  BY <1>2, <1>3, <1>4, <1>5, <1>6, <1>7, <1>8, <1>9, StageBatchKeeps, FinalBatchKeeps
     DEF Next, Step, Batches, Matrices

(* What is kept keeps the meaning of settled labels.                       *)
LEMMA FitsKept ==
    ASSUME TypeOK, Kept, NEW k \in Keys, NEW b, Fits(k, b)
    PROVE  Fits(k, b)'
<1>1. Replay \in Keys /\ outcome[Replay] \in Outcomes \union {"none"}
  BY DEF Replay, Keys, Splits, Labels, TypeOK
<1>2. \A s \in Stages : Decided(s) => Decided(s)' /\ bank'[s] = bank[s]
  BY DEF Kept, Decided
<1>3. outcome[Replay] # "none" => outcome'[Replay] = outcome[Replay]
  BY <1>1 DEF Kept
<1>4. Settled(k)'
  BY <1>2, <1>3 DEF Fits, Settled, Stages, Replay
<1>5. BankFor(k)' = BankFor(k)
  <2>1. outcome[Replay] # "none" => Candidate("s1")' = Candidate("s1")
    BY <1>3 DEF Candidate, Replay
  <2>2. CASE k[2] \in {"noskill", "llm_static", "s2-candidate", "full-candidate", "candidate"}
    BY <2>2 DEF BankFor
  <2>3. CASE k[2] = "s1-candidate"
    BY <2>1, <2>3 DEF BankFor, Fits, Settled, Replay
  <2>4. CASE k[2] \in {"s1", "s1s2", "parent", "full"}
    BY <1>2, <2>4 DEF BankFor, Fits, Settled, Stages
  <2> QED
    BY <2>2, <2>3, <2>4 DEF Keys, Labels
<1> QED
  BY <1>4, <1>5 DEF Fits

-----------------------------------------------------------------------------
(* The Banks that batches are requested with.                              *)

(* A parent's label means the parent's Bank: an accepted stage selected    *)
(* its candidate, a rejected one its own parent.                           *)
LEMMA ParentFits ==
    ASSUME PipelineInv, NEW s \in Stages, \A t \in Below(s) : Decided(t),
           NEW p \in Splits \ {"dev-smoke24", "opt-replay200"}
    PROVE  Fits(<<p, ParentLabel(s)>>, Parent(s))
<1>1. \A t \in {"s1", "s2"} : Decided(t) =>
          bank[t] = IF Accepted(t) THEN Candidate(t) ELSE Parent(t)
  BY DEF PipelineInv, Chain, Accepted, Stages
<1>2. Accepted("s1") => outcome[Replay] # "none"
  <2>1. Accepted("s1") => Passed("s1", Plan["s1"][4])
    BY PlanFacts DEF PipelineInv, AcceptedPassed, PassedUpTo, Stages
  <2> QED
    BY <2>1, PlanFacts DEF Passed, KeyOf, CandidateLabel, Replay
<1>3. /\ Accepted("s1") => Fits(<<p, "s1-candidate">>, Candidate("s1"))
      /\ Fits(<<p, "s2-candidate">>, "routed")
      /\ Fits(<<p, "llm_static">>, "static")
  BY <1>2 DEF Fits, BankFor, Settled, Replay
<1>4. Parent("s1") = "static" /\ Parent("s2") = bank["s1"] /\ Parent("full") = bank["s2"]
      /\ Candidate("s2") = "routed"
  BY DEF Parent, Candidate
<1>5. CASE s = "s1"
  BY <1>3, <1>4, <1>5 DEF ParentLabel
<1>6. CASE s = "s2"
  <2>1. Decided("s1")
    BY <1>6 DEF Below
  <2> QED
    BY <1>1, <1>3, <1>4, <1>6, <2>1 DEF ParentLabel
<1>7. CASE s = "full"
  <2>1. Decided("s1") /\ Decided("s2")
    BY <1>7 DEF Below
  <2> QED
    BY <1>1, <1>3, <1>4, <1>7, <2>1 DEF ParentLabel
<1> QED
  BY <1>5, <1>6, <1>7 DEF Stages

(* The step ahead of a process in a stage, and what is behind it.          *)
LEMMA HeadAhead ==
    ASSUME PipelineInv, main = "gates"
    PROVE  /\ stage \in Stages /\ ~Decided(stage) /\ \A t \in Below(stage) : Decided(t)
           /\ \E n \in 0 .. Len(Plan[stage]) - 1 :
                  /\ todo # <<>> /\ Head(todo) = Plan[stage][n + 1]
                  /\ AheadFrom(n) /\ PassedUpTo(stage, n)
                  /\ (\E i \in 1 .. n : Plan[stage][i] = "gate") /\ accepted => GatePassed(stage)
<1>1. stage \in Stages /\ ~Decided(stage) /\ \A t \in Below(stage) : Decided(t)
  BY DEF PipelineInv, Turn, InStage
<1>2. PICK n \in 0 .. Len(Plan[stage]) - 1 :
          /\ AheadFrom(n) /\ PassedUpTo(stage, n)
          /\ (\E i \in 1 .. n : Plan[stage][i] = "gate") /\ accepted => GatePassed(stage)
  BY DEF PipelineInv, Behind
<1>3. todo \in Seq(Steps) /\ Len(Plan[stage]) \in 4 .. 8
  BY <1>1, PlanTyped DEF PipelineInv, TypeOK
<1>4. Len(todo) >= 1 /\ todo[1] = Plan[stage][n + 1]
  BY <1>2, <1>3 DEF AheadFrom
<1>5. todo # <<>> /\ Head(todo) = todo[1]
  BY <1>3, <1>4
<1> QED
  BY <1>1, <1>2, <1>4, <1>5

(* S1 tests its screened candidate after replay200.                        *)
LEMMA ReplayBehind ==
    ASSUME PipelineInv, At("gates", "composite") \/ At("gates", "gate"), stage = "s1"
    PROVE  outcome[Replay] # "none"
<1>1. PICK n \in 0 .. Len(Plan[stage]) - 1 :
          Head(todo) = Plan[stage][n + 1] /\ PassedUpTo(stage, n)
  BY HeadAhead DEF At
<1>2. n \in 4 .. 6
  BY <1>1, PlanFacts DEF At
<1>3. Passed("s1", "replay")
  BY <1>1, <1>2, PlanFacts DEF PassedUpTo
<1> QED
  BY <1>3 DEF Passed, KeyOf, CandidateLabel, Replay

(* A batch of a stage is requested for the Bank that its label means.      *)
LEMMA RequestFits ==
    ASSUME PipelineInv, NEW x \in Batches, At("gates", x)
    PROVE  Fits(KeyOf(stage, x), BankOf(stage, x))
<1>1. main = "gates" /\ Head(todo) = x
  BY DEF At
<1>2. stage \in Stages /\ \A t \in Below(stage) : Decided(t)
  BY <1>1, HeadAhead
<1>3. PICK n \in 0 .. Len(Plan[stage]) - 1 : x = Plan[stage][n + 1]
  BY <1>1, HeadAhead
<1>4. CASE x \in {"parentGate", "body", "parentSmoke"}
  <2>1. \E p \in Splits \ {"dev-smoke24", "opt-replay200"} :
            KeyOf(stage, x) = <<p, ParentLabel(stage)>>
    BY <1>4 DEF KeyOf, GateSplit, Splits
  <2>2. BankOf(stage, x) = Parent(stage)
    BY <1>4 DEF BankOf
  <2> QED
    BY <1>2, <2>1, <2>2, ParentFits
<1>5. CASE stage = "s1" /\ x \notin {"parentGate", "body", "parentSmoke"}
  <2>1. n \in 0 .. 6
    BY <1>3, <1>5, PlanFacts
  <2>2. x \in {"smoke", "replay", "composite", "gate"}
    BY <1>3, <1>5, <2>1, PlanFacts DEF Batches, Gates
  <2>3. x \in {"composite", "gate"} => outcome[Replay] # "none"
    BY <1>5, ReplayBehind
  <2>4. CASE x \in {"smoke", "replay"}
    BY <1>5, <2>4 DEF KeyOf, BankOf, CandidateLabel, Fits, BankFor, Settled
  <2>5. CASE x \in {"composite", "gate"}
    BY <1>5, <2>3, <2>5
       DEF KeyOf, BankOf, CandidateLabel, GateSplit, Fits, BankFor, Settled, Replay
  <2> QED
    BY <2>2, <2>4, <2>5
<1>6. CASE stage = "s2" /\ x \notin {"parentGate", "body", "parentSmoke"}
  <2>1. n \in 0 .. 3
    BY <1>3, <1>6, PlanFacts
  <2>2. x \in {"smoke", "gate"}
    BY <1>3, <1>6, <2>1, PlanFacts DEF Batches, Gates
  <2> QED
    BY <1>6, <2>2
       DEF KeyOf, BankOf, CandidateLabel, GateSplit, Fits, BankFor, Settled, Candidate
<1>7. CASE stage = "full" /\ x \notin {"parentGate", "body", "parentSmoke"}
  <2>1. n \in 0 .. 7
    BY <1>3, <1>7, PlanFacts
  <2>2. x \in {"smoke", "gate", "parentJudge", "judge"}
    BY <1>3, <1>7, <2>1, PlanFacts DEF Batches, Gates
  <2>3. Decided("s2")
    BY <1>2, <1>7 DEF Below
  <2>4. CASE x = "parentJudge"
    BY <1>7, <2>3, <2>4 DEF KeyOf, BankOf, Parent, Fits, BankFor, Settled
  <2>5. CASE x \in {"smoke", "gate", "judge"}
    BY <1>7, <2>5
       DEF KeyOf, BankOf, CandidateLabel, GateSplit, Fits, BankFor, Settled, Candidate
  <2> QED
    BY <2>2, <2>4, <2>5
<1> QED
  BY <1>2, <1>4, <1>5, <1>6, <1>7 DEF Stages

(* The physical configurations, and their Banks.                           *)
LEMMA PhysicalFits ==
    ASSUME PipelineInv, AllDecided, NEW p \in Physicals
    PROVE  /\ p \in Configs /\ BankForConfig(p) \in Banks
           /\ Fits(<<"val", ValRunLabel(p)>>, BankForConfig(p))
           /\ \A x \in {"test_frozen", "all1500"} : Fits(<<x, p>>, BankForConfig(p))
<1>1. p \in Configs /\ (p = "s1" => Accepted("s1")) /\ (p = "s1s2" => Accepted("s2"))
      /\ (p = "full" => Accepted("full"))
  BY DEF Physicals, PhysicalConfig, Configs
<1>2. \A s \in Stages : Decided(s) /\ bank[s] \in Banks
                        /\ (Accepted(s) => bank[s] = Candidate(s))
  BY DEF AllDecided, PipelineInv, Chain, TypeOK, Decided, Decision, Accepted
<1>3. Accepted("s1") => outcome[Replay] # "none"
  <2>1. Accepted("s1") => Passed("s1", Plan["s1"][4])
    BY PlanFacts DEF PipelineInv, AcceptedPassed, PassedUpTo, Stages
  <2> QED
    BY <2>1, PlanFacts DEF Passed, KeyOf, CandidateLabel, Replay
<1>4. CASE p \in {"noskill", "llm_static"}
  BY <1>1, <1>4 DEF BankForConfig, ValRunLabel, Fits, BankFor, Settled, Banks
<1>5. CASE p = "s1"
  BY <1>1, <1>2, <1>3, <1>5
     DEF BankForConfig, ValRunLabel, Fits, BankFor, Settled, Stages, Replay
<1>6. CASE p = "s1s2"
  BY <1>1, <1>2, <1>6 DEF BankForConfig, ValRunLabel, Fits, BankFor, Settled, Stages, Candidate
<1>7. CASE p = "full"
  BY <1>1, <1>2, <1>7 DEF BankForConfig, ValRunLabel, Fits, BankFor, Settled, Stages, Candidate
<1> QED
  BY <1>1, <1>4, <1>5, <1>6, <1>7 DEF Configs

(* The batches of a final step.                                            *)
LEMMA MatrixFits ==
    ASSUME PipelineInv, AllDecided, NEW x \in Matrices, NEW kb \in BatchesOf(x)
    PROVE  /\ kb \in Keys \X Banks
           /\ kb[1][1] \in {"val", "test_frozen", "all1500"}
           /\ Fits(kb[1], kb[2])
<1>1. PICK p \in Physicals :
          \/ kb = <<<<"val", ValRunLabel(p)>>, BankForConfig(p)>>
          \/ kb = <<<<"test_frozen", p>>, BankForConfig(p)>>
          \/ kb = <<<<"all1500", p>>, BankForConfig(p)>>
  BY DEF BatchesOf, Matrices, Physicals, Configs
<1>2. p \in Labels /\ ValRunLabel(p) \in Labels
  BY PhysicalFits DEF Configs, Labels, ValRunLabel
<1>3. {"val", "test_frozen", "all1500"} \subseteq Splits
  BY DEF Splits
<1>4. BankForConfig(p) \in Banks /\ Fits(<<"val", ValRunLabel(p)>>, BankForConfig(p))
      /\ Fits(<<"test_frozen", p>>, BankForConfig(p)) /\ Fits(<<"all1500", p>>, BankForConfig(p))
  BY PhysicalFits
<1>5. \A x1 \in {"val", "test_frozen", "all1500"}, l \in Labels : <<x1, l>> \in Keys
  BY <1>3 DEF Keys
<1>6. CASE kb = <<<<"val", ValRunLabel(p)>>, BankForConfig(p)>>
  BY <1>2, <1>4, <1>5, <1>6
<1>7. CASE kb = <<<<"test_frozen", p>>, BankForConfig(p)>>
  BY <1>2, <1>4, <1>5, <1>7
<1>8. CASE kb = <<<<"all1500", p>>, BankForConfig(p)>>
  BY <1>2, <1>4, <1>5, <1>8
<1> QED
  BY <1>1, <1>6, <1>7, <1>8

-----------------------------------------------------------------------------
(* The decisions on disk.                                                  *)

(* What a stage has passed, it has passed for good.                        *)
LEMMA PassedKept ==
    ASSUME TypeOK, Kept, NEW s \in Stages
    PROVE  /\ \A x : Passed(s, x) => Passed(s, x)'
           /\ GatePassed(s) => GatePassed(s)'
<1>1. \A x \in Gates : KeyOf(s, x) \in Keys /\ KeyOf(s, x)' = KeyOf(s, x)
  <2>1. \A x \in Gates : KeyOf(s, x) \in Keys
    BY KeyTyped DEF Batches
  <2>2. \A x \in Gates : KeyOf(s, x)' = KeyOf(s, x)
    BY DEF Gates, KeyOf, CandidateLabel, GateSplit
  <2> QED
    BY <2>1, <2>2
<1>2. \A x \in Gates : outcome[KeyOf(s, x)] # "none" =>
          outcome'[KeyOf(s, x)'] = outcome[KeyOf(s, x)]
  BY <1>1 DEF Kept
<1>3. creator[s] = "candidate" => creator'[s] = "candidate"
  BY DEF Kept
<1>4. GatePassed(s) => GatePassed(s)'
  BY <1>2 DEF GatePassed, Gates
<1>5. ASSUME NEW x, Passed(s, x) PROVE Passed(s, x)'
  <2>1. x = "creator" => creator'[s] = "candidate"
    BY <1>3, <1>5 DEF Passed
  <2>2. x \in {"smoke", "judge"} => (outcome[KeyOf(s, x)] = "good")'
    BY <1>2, <1>5 DEF Passed, Gates
  <2>3. x = "replay" => (outcome[KeyOf(s, x)] \in {"some", "good"})'
    BY <1>2, <1>5 DEF Passed, Gates
  <2>4. x = "composite" =>
            (outcome[KeyOf(s, "replay")] = "good" \/ outcome[KeyOf(s, x)] = "good")'
    BY <1>2, <1>5 DEF Passed, Gates
  <2> QED
    BY <2>1, <2>2, <2>3, <2>4 DEF Passed
<1> QED
  BY <1>4, <1>5

(* So the parts of an earlier decision stay what they were.                *)
LEMMA DecidedKept ==
    ASSUME PipelineInv, Kept, NEW s \in Stages, Decided(s), Decided(s)'
    PROVE  /\ Parent(s)' = Parent(s) /\ Candidate(s)' = Candidate(s)
           /\ decision'[s] = decision[s] /\ bank'[s] = bank[s]
           /\ Accepted(s)' => (PassedUpTo(s, Len(Plan[s])) /\ GatePassed(s))'
<1>1. decision'[s] = decision[s] /\ bank'[s] = bank[s]
  BY DEF Kept
<1>2. Candidate(s)' = Candidate(s)
  <2>1. CASE s = "s1"
    <3>1. outcome'[Replay] = outcome[Replay]
      BY <2>1 DEF Kept
    <3> QED
      BY <2>1, <3>1 DEF Candidate, Replay
  <2>2. CASE s \in {"s2", "full"}
    BY <2>2 DEF Candidate
  <2> QED
    BY <2>1, <2>2 DEF Stages
<1>3. Parent(s)' = Parent(s)
  BY DEF Kept, Parent, PipelineInv, InOrder, Below, Stages
<1>4. ASSUME Accepted(s)' PROVE (PassedUpTo(s, Len(Plan[s])) /\ GatePassed(s))'
  <2>1. PassedUpTo(s, Len(Plan[s])) /\ GatePassed(s)
    BY <1>1, <1>4 DEF Accepted, PipelineInv, AcceptedPassed
  <2>2. \A x : Passed(s, x) => Passed(s, x)'
    BY PassedKept DEF PipelineInv
  <2>3. GatePassed(s)'
    BY <2>1, PassedKept DEF PipelineInv
  <2> QED
    BY <2>1, <2>2, <2>3 DEF PassedUpTo, Plan
<1> QED
  BY <1>1, <1>2, <1>3, <1>4

(* The decisions stay in order, each with its parent and its Bank.         *)
LEMMA DecisionsNext ==
    ASSUME PipelineInv, [Next]_vars
    PROVE  InOrder' /\ Chain' /\ AcceptedPassed'
<1>1. Kept
  BY StepKeeps
<1>2. \A s \in Stages : Decided(s) => Decided(s)'
  BY <1>1 DEF Kept, Decided
<1>3. decision' = decision \/ Decide
  BY DEF Next, Step, FeedbackPhase, CreatorCall, StageBatch, Select, OpenFinal, ReadRoutes,
         FinalBatch, Rebuild, RouteSummary, FinalReport, Return, Crash, Start, vars, results
<1>4. \A s \in Stages : Decided(s)' => Decided(s) \/ (Decide /\ s = stage)
  BY <1>3 DEF Decide, Decided, PipelineInv, TypeOK
<1>5. ASSUME Decide
      PROVE  /\ stage \in Stages /\ \A t \in Below(stage) : Decided(t)
             /\ decision'[stage] =
                    [accepted |-> accepted, parent |-> Parent(stage), selected |-> Selected]
             /\ UNCHANGED <<bank, outcome, creator>>
             /\ bank[stage] = Selected
             /\ accepted => PassedUpTo(stage, Len(Plan[stage])) /\ GatePassed(stage)
             /\ accepted \in BOOLEAN
  <2>1. main = "decide"
    BY <1>5 DEF Decide
  <2>2. stage \in Stages /\ \A t \in Below(stage) : Decided(t)
    BY <2>1 DEF PipelineInv, Turn, InStage
  <2>3. bank[stage] = Selected
        /\ (accepted => PassedUpTo(stage, Len(Plan[stage])) /\ GatePassed(stage))
    BY <2>1 DEF PipelineInv, BankFirst, Selectable
  <2> QED
    BY <1>5, <2>2, <2>3 DEF Decide, journal, PipelineInv, TypeOK
<1>6. InOrder'
  <2> SUFFICES ASSUME NEW s \in Stages, Decided(s)', NEW t \in Below(s) PROVE Decided(t)'
    BY DEF InOrder
  <2>1. t \in Stages
    BY DEF Below, Stages
  <2> QED
    BY <1>2, <1>4, <1>5, <2>1 DEF PipelineInv, InOrder
<1>7. ASSUME NEW s \in Stages, Decided(s)'
      PROVE  /\ bank'[s] = decision'[s].selected
             /\ decision'[s].parent = Parent(s)'
             /\ decision'[s].selected = IF decision'[s].accepted THEN Candidate(s)' ELSE Parent(s)'
             /\ Accepted(s)' => (PassedUpTo(s, Len(Plan[s])) /\ GatePassed(s))'
  <2>1. CASE Decided(s)
    BY <1>1, <1>7, <2>1, DecidedKept DEF PipelineInv, Chain
  <2>2. CASE Decide /\ s = stage
    <3>1. Parent(s)' = Parent(s) /\ Candidate(s)' = Candidate(s)
      BY <1>5, <2>2 DEF Parent, Candidate
    <3>2. bank'[s] = Selected /\ decision'[s].selected = Selected
          /\ decision'[s].parent = Parent(s) /\ decision'[s].accepted = accepted
      BY <1>5, <2>2
    <3>3. Selected = IF accepted THEN Candidate(s) ELSE Parent(s)
      BY <2>2 DEF Selected
    <3>4. ASSUME accepted PROVE (PassedUpTo(s, Len(Plan[s])) /\ GatePassed(s))'
      <4>1. PassedUpTo(s, Len(Plan[s])) /\ GatePassed(s)
        BY <1>5, <2>2, <3>4
      <4>2. (\A x : Passed(s, x) => Passed(s, x)') /\ GatePassed(s)'
        BY <1>1, <4>1, PassedKept DEF PipelineInv
      <4> QED
        BY <4>1, <4>2 DEF PassedUpTo, Plan
    <3> QED
      BY <3>1, <3>2, <3>3, <3>4 DEF Accepted
  <2> QED
    BY <1>4, <1>7, <2>1, <2>2
<1> QED
  BY <1>6, <1>7 DEF Chain, AcceptedPassed, Accepted

-----------------------------------------------------------------------------
(* The process.                                                            *)

Control == Turn /\ Started /\ BankFirst /\ Behind /\ Selectable

(* A process that enters a stage or its final steps has nothing behind.    *)
LEMMA EnterControl ==
    ASSUME NEW c \in Commands, Enter(c), command' = c
    PROVE  Control'
<1>1. c \in {"s1", "s2", "full", "test", "report"}
  BY PipelineAssumption DEF PipelineAssumption
<1>2. CASE main' = "final"
  BY <1>2 DEF Control, Turn, Started, BankFirst, Behind, Selectable, InStage
<1>3. ASSUME NEW s \in Stages, main' = "gates", stage' = s, todo' = Plan[s],
             decision'[s] = NoDecision, \A t \in Below(s) : decision'[t] # NoDecision
      PROVE  Control'
  <2>1. Turn' /\ Started' /\ BankFirst' /\ Selectable'
    BY <1>3 DEF Turn, Started, BankFirst, Selectable, InStage, Decided
  <2>2. Len(Plan[s]) \in 4 .. 8
    BY PlanTyped
  <2> \A l \in 4 .. 8 : 0 \in 0 .. l - 1 /\ l = l - 0
    OBVIOUS
  <2>3. AheadFrom(0)'
    <3>1. 0 \in 0 .. Len(Plan[s]) - 1 /\ Len(Plan[s]) = Len(Plan[s]) - 0
      BY <2>2
    <3>2. \A i \in 1 .. Len(Plan[s]) : Plan[s][i] = Plan[s][0 + i]
      BY <2>2
    <3> QED
      BY <1>3, <3>1, <3>2 DEF AheadFrom
  <2>4. PassedUpTo(s, 0)' /\ ~(\E i \in 1 .. 0 : Plan[s][i] = "gate")
    BY DEF PassedUpTo
  <2>5. Behind'
    <3>1. 0 \in 0 .. Len(Plan[s]) - 1
      BY <2>2
    <3> QED
      BY <1>3, <2>3, <2>4, <3>1 DEF Behind
  <2> QED
    BY <2>1, <2>5 DEF Control
<1> QED
  BY <1>1, <1>2, <1>3, EnterGives

(* Going on by m steps, all of them passed.                                *)
LEMMA ContinueControl ==
    ASSUME PipelineInv, Kept, main = "gates", NEW s \in Stages, stage = s,
           NEW n \in 0 .. Len(Plan[s]) - 1, AheadFrom(n), PassedUpTo(s, n),
           (\E i \in 1 .. n : Plan[s][i] = "gate") /\ accepted => GatePassed(s),
           NEW m \in {1, 2}, n + m <= Len(Plan[s]),
           NEW rest \in Seq(Steps), Len(rest) = Len(todo) - m,
           \A i \in 1 .. Len(rest) : rest[i] = todo[m + i],
           Continue(rest), decision' = decision, accepted' => accepted,
           \A i \in n + 1 .. n + m :
               /\ Passed(s, Plan[s][i])'
               /\ Plan[s][i] = "gate" /\ accepted' => GatePassed(s)'
    PROVE  Control'
<1>1. ~Decided(s) /\ (\A t \in Below(s) : Decided(t)) /\ command \in Commands
  BY DEF PipelineInv, Turn, InStage, Started
<1>2. stage' = s /\ command' = command /\ todo' = rest
      /\ main' = IF rest = <<>> THEN "select" ELSE "gates"
  BY DEF Continue
<1>3. Len(Plan[s]) \in 4 .. 8 /\ Len(rest) \in Nat
  BY PlanTyped
<1>4. Turn' /\ Started' /\ BankFirst'
  BY <1>1, <1>2 DEF Turn, Started, BankFirst, InStage, Decided
<1>5. PassedUpTo(s, n + m)'
  <2> SUFFICES ASSUME NEW i \in 1 .. n + m PROVE Passed(s, Plan[s][i])'
    BY DEF PassedUpTo
  <2>1. CASE i \in 1 .. n
    <3>1. Passed(s, Plan[s][i])
      BY <2>1 DEF PassedUpTo
    <3>2. \A x : Passed(s, x) => Passed(s, x)'
      BY PassedKept DEF PipelineInv
    <3> QED
      BY <3>1, <3>2
  <2>2. CASE i \in n + 1 .. n + m
    BY <2>2
  <2> QED
    BY <1>3, <2>1, <2>2
<1>6. ASSUME \E i \in 1 .. n + m : Plan[s][i] = "gate", accepted'
      PROVE  GatePassed(s)'
  <2>1. PICK i \in 1 .. n + m : Plan[s][i] = "gate"
    BY <1>6
  <2>2. CASE i \in 1 .. n
    BY <1>6, <2>1, <2>2, PassedKept DEF PipelineInv
  <2>3. CASE i \in n + 1 .. n + m
    BY <1>6, <2>1, <2>3
  <2> QED
    BY <1>3, <2>1, <2>2, <2>3
<1>7. CASE rest # <<>>
  <2>1. main' = "gates" /\ Len(rest) >= 1
    BY <1>2, <1>3, <1>7
  <2>2. Len(todo) = Len(Plan[s]) - n /\ \A i \in 1 .. Len(todo) : todo[i] = Plan[s][n + i]
    BY DEF AheadFrom
  <2>3. n + m \in 0 .. Len(Plan[s]) - 1 /\ Len(rest) = Len(Plan[s]) - (n + m)
    BY <1>3, <2>1, <2>2
  <2>4. ASSUME NEW i \in 1 .. Len(rest) PROVE rest[i] = Plan[s][n + m + i]
    <3>1. m + i \in 1 .. Len(todo) /\ n + (m + i) = n + m + i
      BY <1>3, <2>2, <2>3
    <3> QED
      BY <2>2, <3>1
  <2>5. AheadFrom(n + m)'
    BY <1>2, <2>3, <2>4 DEF AheadFrom
  <2>6. Behind'
    BY <1>2, <1>5, <1>6, <2>3, <2>5 DEF Behind
  <2> QED
    BY <1>4, <2>1, <2>6 DEF Control, Selectable
<1>8. CASE rest = <<>>
  <2>1. Len(rest) = 0 /\ main' = "select"
    BY <1>2, <1>8
  <2>2. n + m = Len(Plan[s])
    BY <1>3, <2>1 DEF AheadFrom
  <2>3. \E i \in 1 .. n + m : Plan[s][i] = "gate"
    <3>1. CASE s = "s1"
      <4>1. 7 \in 1 .. n + m
        BY <2>2, <3>1, PlanFacts
      <4> QED
        BY <3>1, <4>1, PlanFacts
    <3>2. CASE s = "s2"
      <4>1. 4 \in 1 .. n + m
        BY <2>2, <3>2, PlanFacts
      <4> QED
        BY <3>2, <4>1, PlanFacts
    <3>3. CASE s = "full"
      <4>1. 6 \in 1 .. n + m
        BY <2>2, <3>3, PlanFacts
      <4> QED
        BY <3>3, <4>1, PlanFacts
    <3> QED
      BY <3>1, <3>2, <3>3 DEF Stages
  <2> QED
    BY <1>2, <1>4, <1>5, <1>6, <2>1, <2>2, <2>3 DEF Control, Selectable, Behind
<1> QED
  BY <1>7, <1>8

(* A process that rejects its candidate, or stops.                         *)
LEMMA RejectControl ==
    ASSUME PipelineInv, main = "gates", Reject \/ Fail, decision' = decision
    PROVE  Control'
  BY DEF Reject, Fail, PipelineInv, Control, Turn, Started, BankFirst, Behind, Selectable,
         InStage, Decided

(* One step of a plan.                                                     *)
LEMMA OneStepOn ==
    ASSUME PipelineInv, Kept, NEW x, At("gates", x), NEW s \in Stages, stage = s,
           Continue(Tail(todo)), decision' = decision, accepted' => accepted,
           Passed(s, x)', x = "gate" /\ accepted' => GatePassed(s)'
    PROVE  Control'
<1>1. main = "gates" /\ todo # <<>> /\ Head(todo) = x
  BY DEF At
<1>2. PICK n \in 0 .. Len(Plan[s]) - 1 :
          /\ x = Plan[s][n + 1]
          /\ AheadFrom(n) /\ PassedUpTo(s, n)
          /\ (\E i \in 1 .. n : Plan[s][i] = "gate") /\ accepted => GatePassed(s)
  BY <1>1, HeadAhead
<1>3. Len(Plan[s]) \in 4 .. 8 /\ todo \in Seq(Steps)
  BY PlanTyped DEF PipelineInv, TypeOK
<1> DEFINE rest == Tail(todo)
<1>4. rest \in Seq(Steps) /\ Len(rest) = Len(todo) - 1
      /\ \A i \in 1 .. Len(rest) : rest[i] = todo[1 + i]
  BY <1>1, <1>3
<1>5. \A i \in n + 1 .. n + 1 : Plan[s][i] = x
  BY <1>2
<1>6. Continue(rest) /\ n + 1 <= Len(Plan[s])
  BY <1>3
<1> HIDE DEF rest
<1>7. \A i \in n + 1 .. n + 1 : /\ Passed(s, Plan[s][i])'
                                /\ Plan[s][i] = "gate" /\ accepted' => GatePassed(s)'
  BY <1>5
<1> QED
  BY <1>1, <1>2, <1>4, <1>6, <1>7, ContinueControl

(* What a gate can find, by the key of its batch.                          *)
LEMMA BatchAnswer ==
    ASSUME PipelineInv, NEW x \in Batches, StageBatch(x), NEW s \in Stages, stage = s
    PROVE  /\ At("gates", x) /\ KeyOf(s, x) \in Keys
           /\ \E r \in Outcomes :
                 /\ outcome' = [outcome EXCEPT ![KeyOf(s, x)] = r]
                 /\ r = "some" => x = "replay" \/ (s = "full" /\ x = "gate")
                                  \/ outcome[KeyOf(s, x)] = "some"
                 /\ IF Rejects(x, r) THEN Reject
                    ELSE /\ Continue(IF x = "replay" /\ r = "good" THEN Tail(Tail(todo))
                                                                   ELSE Tail(todo))
                         /\ accepted' = StillAccepted(x, r)
           /\ Request(KeyOf(s, x), BankOf(s, x))
           /\ UNCHANGED <<creator, feedback, bank, decision, files, report, crashes>>
<1>1. KeyOf(s, x) \in Keys /\ outcome[KeyOf(s, x)] \in Outcomes \union {"none"}
  BY KeyTyped DEF PipelineInv, TypeOK
<1>2. OutcomesOf(s, x) \subseteq Outcomes
      /\ ("some" \in OutcomesOf(s, x) => x = "replay" \/ (s = "full" /\ x = "gate"))
  BY DEF OutcomesOf, Outcomes
<1>3. PICK r \in IF outcome[KeyOf(s, x)] = "none" THEN OutcomesOf(s, x)
                 ELSE {outcome[KeyOf(s, x)]} :
          /\ outcome' = [outcome EXCEPT ![KeyOf(s, x)] = r]
          /\ Request(KeyOf(s, x), BankOf(s, x))
          /\ IF Rejects(x, r) THEN Reject
             ELSE /\ Continue(IF x = "replay" /\ r = "good" THEN Tail(Tail(todo))
                                                            ELSE Tail(todo))
                  /\ accepted' = StillAccepted(x, r)
  BY DEF StageBatch
<1>4. r \in Outcomes /\ (r = "some" => x = "replay" \/ (s = "full" /\ x = "gate")
                                       \/ outcome[KeyOf(s, x)] = "some")
  BY <1>1, <1>2, <1>3
<1> QED
  BY <1>1, <1>3, <1>4 DEF StageBatch, results, reports

(* Two steps on in a list of four.                                         *)
LEMMA TailTwice ==
    ASSUME NEW q \in Seq(Steps), Len(q) = 4
    PROVE  /\ Tail(Tail(q)) \in Seq(Steps) /\ Len(Tail(Tail(q))) = Len(q) - 2
           /\ \A i \in 1 .. Len(Tail(Tail(q))) : Tail(Tail(q))[i] = q[2 + i]
<1> DEFINE T(u) == Tail(u)
<1>1. \A u \in Seq(Steps) : u # <<>> =>
          /\ T(u) \in Seq(Steps) /\ Len(T(u)) = Len(u) - 1
          /\ \A i \in 1 .. Len(T(u)) : T(u)[i] = u[i + 1]
  BY HeadTailProperties
<1>2. \A u \in Seq(Steps) : Len(u) # 0 => u # <<>>
  OBVIOUS
<1> HIDE DEF T
<1>3. T(q) \in Seq(Steps) /\ Len(T(q)) = 3 /\ \A i \in 1 .. 3 : T(q)[i] = q[i + 1]
  <2> Len(q) # 0
    OBVIOUS
  <2>1. q # <<>>
    BY <1>2, Zenon
  <2>2. T(q) \in Seq(Steps)
    BY <1>1, <2>1, Zenon
  <2>3. Len(T(q)) = Len(q) - 1
    BY <1>1, <2>1, Zenon
  <2>4. \A i \in 1 .. Len(T(q)) : T(q)[i] = q[i + 1]
    BY <1>1, <2>1, Zenon
  <2>5. Len(T(q)) = 3
    BY <2>3
  <2> QED
    BY <2>2, <2>4, <2>5, Zenon
<1>4. T(T(q)) \in Seq(Steps) /\ Len(T(T(q))) = 2 /\ \A i \in 1 .. 2 : T(T(q))[i] = T(q)[i + 1]
  <2> DEFINE p == T(q)
  <2>1. p \in Seq(Steps) /\ Len(p) = 3
    BY <1>3
  <2> HIDE DEF p
  <2> Len(p) # 0
    BY <2>1
  <2>2. p # <<>>
    BY <1>2, <2>1, Zenon
  <2>3. T(p) \in Seq(Steps)
    BY <1>1, <2>1, <2>2, Zenon
  <2>4. Len(T(p)) = Len(p) - 1
    BY <1>1, <2>1, <2>2, Zenon
  <2>5. \A i \in 1 .. Len(T(p)) : T(p)[i] = p[i + 1]
    BY <1>1, <2>1, <2>2, Zenon
  <2>6. Len(T(p)) = 2
    BY <2>1, <2>4
  <2> QED
    BY <2>3, <2>5, <2>6, Zenon DEF p
<1>5. \A i \in 1 .. 2 : i + 1 \in 1 .. 3 /\ (i + 1) + 1 = 2 + i
  OBVIOUS
<1>6. \A i \in 1 .. 2 : T(T(q))[i] = q[2 + i]
  BY <1>3, <1>4, <1>5
<1> QED
  BY <1>4, <1>6 DEF T

(* replay200 is a step of S1 only.                                         *)
LEMMA ReplayIsFirst ==
    ASSUME PipelineInv, At("gates", "replay")
    PROVE  stage = "s1" /\ AheadFrom(3) /\ PassedUpTo("s1", 3)
<1>1. stage \in Stages
      /\ \E n \in 0 .. Len(Plan[stage]) - 1 :
             "replay" = Plan[stage][n + 1] /\ AheadFrom(n) /\ PassedUpTo(stage, n)
  BY HeadAhead DEF At
<1>2. PICK n \in 0 .. Len(Plan[stage]) - 1 :
          "replay" = Plan[stage][n + 1] /\ AheadFrom(n) /\ PassedUpTo(stage, n)
  BY <1>1
<1>3. CASE stage = "s1"
  <2>1. n \in 0 .. 6
    BY <1>3, PlanFacts
  <2>2. n = 3
    BY <1>2, <1>3, <2>1, PlanFacts
  <2> QED
    BY <1>2, <1>3, <2>2
<1>4. CASE stage = "s2"
  <2>1. n \in 0 .. 3
    BY <1>4, PlanFacts
  <2> QED
    BY <1>2, <1>4, <2>1, PlanFacts
<1>5. CASE stage = "full"
  <2>1. n \in 0 .. 7
    BY <1>5, PlanFacts
  <2> QED
    BY <1>2, <1>5, <2>1, PlanFacts
<1> QED
  BY <1>1, <1>3, <1>4, <1>5 DEF Stages

(* Three answers stay with the two gates that have them.                   *)
LEMMA SomeOnlyNext ==
    ASSUME PipelineInv, [Next]_vars
    PROVE  SomeOnly'
<1> DEFINE Two == {<<"opt-replay200", "s1-candidate">>, <<"val", "full-candidate">>}
<1>1. outcome \in [Keys -> Outcomes \union {"none"}] /\ SomeOnly
  BY DEF PipelineInv, TypeOK
<1>2. CASE outcome' = outcome
  BY <1>1, <1>2 DEF SomeOnly
<1>3. ASSUME NEW x \in Batches, StageBatch(x) PROVE SomeOnly'
  <2>1. PICK s \in Stages : stage = s
    BY <1>3 DEF StageBatch, At, PipelineInv, Turn, InStage
  <2>2. PICK r \in Outcomes :
            /\ outcome' = [outcome EXCEPT ![KeyOf(s, x)] = r]
            /\ r = "some" => x = "replay" \/ (s = "full" /\ x = "gate")
                             \/ outcome[KeyOf(s, x)] = "some"
    BY <1>3, <2>1, BatchAnswer
  <2>3. x = "replay" => s = "s1"
    BY <1>3, <2>1, ReplayIsFirst DEF StageBatch
  <2>4. KeyOf(s, x) \in Keys
    BY KeyTyped
  <2>5. r = "some" => KeyOf(s, x) \in Two
    <3>1. x = "replay" => KeyOf(s, x) = <<"opt-replay200", "s1-candidate">>
      BY <2>3 DEF KeyOf, CandidateLabel
    <3>2. s = "full" /\ x = "gate" => KeyOf(s, x) = <<"val", "full-candidate">>
      BY DEF KeyOf, CandidateLabel, GateSplit
    <3> QED
      BY <1>1, <2>2, <2>4, <3>1, <3>2 DEF SomeOnly
  <2> QED
    BY <1>1, <2>2, <2>4, <2>5 DEF SomeOnly
<1>4. ASSUME NEW kb \in left, FinalBatch(kb) PROVE SomeOnly'
  <2>1. \/ outcome' = outcome
        \/ outcome' = [outcome EXCEPT ![kb[1]] = IF @ = "none" THEN "good" ELSE @]
    BY <1>4 DEF FinalBatch
  <2> QED
    BY <1>1, <2>1 DEF SomeOnly
<1> QED
  BY <1>2, <1>3, <1>4
     DEF Next, Step, Batches, FeedbackPhase, CreatorCall, Select, Decide, OpenFinal, ReadRoutes,
         Rebuild, RouteSummary, FinalReport, Return, Crash, Start, vars, journal

(* A batch of a stage leaves it with what it has passed.                   *)
LEMMA BatchControl ==
    ASSUME PipelineInv, NEW x \in Batches, StageBatch(x)
    PROVE  Control'
<1>1. PICK s \in Stages : stage = s
  BY DEF StageBatch, At, PipelineInv, Turn, InStage
<1>2. Kept /\ At("gates", x) /\ main = "gates" /\ decision' = decision /\ KeyOf(s, x) \in Keys
  BY <1>1, BatchAnswer, StageBatchKeeps DEF At
<1>3. PICK r \in Outcomes :
          /\ outcome' = [outcome EXCEPT ![KeyOf(s, x)] = r]
          /\ r = "some" => x = "replay" \/ (s = "full" /\ x = "gate")
                           \/ outcome[KeyOf(s, x)] = "some"
          /\ IF Rejects(x, r) THEN Reject
             ELSE /\ Continue(IF x = "replay" /\ r = "good" THEN Tail(Tail(todo))
                                                            ELSE Tail(todo))
                  /\ accepted' = StillAccepted(x, r)
  BY <1>1, BatchAnswer
<1>4. CASE Rejects(x, r)
  BY <1>2, <1>3, <1>4, RejectControl
<1>5. CASE ~Rejects(x, r)
  <2>1. x \in Gates => r \in {"some", "good"}
    BY <1>3, <1>5 DEF Rejects, Outcomes
  <2>2. accepted' => accepted
    BY <1>3, <1>5 DEF StillAccepted
  <2>3. outcome'[KeyOf(s, x)] = r
    BY <1>2, <1>3 DEF PipelineInv, TypeOK
  <2>4. x \in {"smoke", "judge", "composite"} => r = "good"
    <3>1. x \in {"smoke", "judge", "composite"} =>
              KeyOf(s, x) \notin {<<"opt-replay200", "s1-candidate">>, <<"val", "full-candidate">>}
      BY DEF KeyOf
    <3> QED
      BY <1>2, <1>3, <2>1, <3>1 DEF PipelineInv, SomeOnly, Gates
  <2>5. x \in Gates => KeyOf(s, x)' = KeyOf(s, x)
    BY DEF Gates, KeyOf, CandidateLabel, GateSplit
  <2>6. Passed(s, x)'
    BY <2>1, <2>3, <2>4, <2>5 DEF Passed, Gates, Batches
  <2>7. x = "gate" /\ accepted' => GatePassed(s)'
    <3>1. ASSUME x = "gate", accepted' PROVE r = "good"
      <4>1. r # "some" \/ s # "full"
        BY <1>1, <1>3, <1>5, <3>1 DEF StillAccepted
      <4>2. s # "full" => KeyOf(s, x) \notin {<<"opt-replay200", "s1-candidate">>,
                                             <<"val", "full-candidate">>}
        BY <3>1 DEF KeyOf, CandidateLabel, GateSplit, Stages
      <4> QED
        BY <1>2, <1>3, <2>1, <3>1, <4>1, <4>2 DEF PipelineInv, SomeOnly, Gates
    <3> QED
      BY <2>3, <2>5, <3>1 DEF GatePassed, Gates
  <2>8. CASE ~(x = "replay" /\ r = "good")
    BY <1>1, <1>2, <1>3, <1>5, <2>2, <2>6, <2>7, <2>8, OneStepOn
  <2>9. CASE x = "replay" /\ r = "good"
    <3>1. s = "s1" /\ AheadFrom(3) /\ PassedUpTo("s1", 3)
      BY <1>1, <1>2, <2>9, ReplayIsFirst
    <3>2. Len(Plan["s1"]) = 7 /\ Len(todo) = 4 /\ todo \in Seq(Steps)
      BY <1>1, <3>1, PlanFacts DEF AheadFrom, PipelineInv, TypeOK
    <3> DEFINE rest == Tail(Tail(todo))
    <3>3. rest \in Seq(Steps) /\ Len(rest) = Len(todo) - 2
          /\ \A i \in 1 .. Len(rest) : rest[i] = todo[2 + i]
      BY <3>2, TailTwice
    <3>4. Continue(rest)
      BY <1>3, <1>5, <2>9
    <3>5. Passed("s1", "composite")'
      BY <2>3, <2>5, <2>9, <3>1 DEF Passed, Gates
    <3> HIDE DEF rest
    <3>6. \A i \in 3 + 1 .. 3 + 2 :
              /\ Passed("s1", Plan["s1"][i])'
              /\ Plan["s1"][i] = "gate" /\ accepted' => GatePassed("s1")'
      <4>1. \A i \in 3 + 1 .. 3 + 2 : i = 4 \/ i = 5
        OBVIOUS
      <4> QED
        BY <2>6, <2>9, <3>1, <3>5, <4>1, PlanFacts
    <3>7. ~(\E i \in 1 .. 3 : Plan["s1"][i] = "gate")
      <4>1. \A i \in 1 .. 3 : i = 1 \/ i = 2 \/ i = 3
        OBVIOUS
      <4> QED
        BY <4>1, PlanFacts
    <3>8. 3 \in 0 .. Len(Plan["s1"]) - 1 /\ 3 + 2 <= Len(Plan["s1"]) /\ "s1" \in Stages
          /\ 2 \in {1, 2}
      BY <3>2 DEF Stages
    <3> QED
      BY <1>1, <1>2, <2>2, <3>1, <3>3, <3>4, <3>6, <3>7, <3>8, ContinueControl
  <2> QED
    BY <2>8, <2>9
<1> QED
  BY <1>4, <1>5

(* Every step leaves a process in its stage with what is behind it.        *)
LEMMA ControlNext ==
    ASSUME PipelineInv, [Next]_vars
    PROVE  Control'
<1>1. Kept
  BY StepKeeps
<1>2. Control
  BY DEF PipelineInv, Control
<1>3. ASSUME NEW c \in Commands, Start(c) PROVE Control'
  BY <1>3, EnterControl DEF Start
<1>4. CASE Decide
  BY <1>2, <1>4, EnterControl DEF Decide, Control, Started
<1>5. CASE FeedbackPhase
  <2>1. At("gates", "feedback") /\ main = "gates" /\ decision' = decision
    BY <1>5 DEF FeedbackPhase, At, results
  <2>2. CASE Reject \/ Fail
    BY <2>1, <2>2, RejectControl
  <2>3. CASE Continue(Tail(todo)) /\ UNCHANGED accepted
    <3>1. PICK s \in Stages : stage = s
      BY <2>1, HeadAhead
    <3>2. Passed(s, "feedback")'
      BY DEF Passed
    <3> QED
      BY <1>1, <2>1, <2>3, <3>1, <3>2, OneStepOn
  <2> QED
    BY <1>5, <2>2, <2>3 DEF FeedbackPhase
<1>6. CASE CreatorCall
  <2>1. At("gates", "creator") /\ main = "gates" /\ decision' = decision
    BY <1>6 DEF CreatorCall, At, results
  <2>2. PICK s \in Stages : stage = s
    BY <2>1, HeadAhead
  <2>3. PICK r \in {"refused", "candidate"} :
            /\ creator' = [creator EXCEPT ![s] = r]
            /\ IF r = "refused" THEN Reject ELSE Continue(Tail(todo)) /\ UNCHANGED accepted
    BY <1>6, <2>2 DEF CreatorCall, PipelineInv, TypeOK
  <2>4. CASE r = "refused"
    BY <2>1, <2>3, <2>4, RejectControl
  <2>5. CASE r = "candidate"
    <3>1. creator'[s] = "candidate"
      BY <2>3, <2>5 DEF PipelineInv, TypeOK
    <3>2. Passed(s, "creator")'
      BY <3>1 DEF Passed
    <3> QED
      BY <1>1, <2>1, <2>2, <2>3, <2>5, <3>2, OneStepOn
  <2> QED
    BY <2>3, <2>4, <2>5
<1>7. CASE Select
  <2>1. PICK s \in Stages : stage = s /\ ~Decided(s) /\ \A t \in Below(s) : Decided(t)
    BY <1>7 DEF Select, PipelineInv, Turn, InStage
  <2>2. CASE main' = "idle"
    BY <2>2 DEF Control, Turn, Started, BankFirst, Behind, Selectable, InStage
  <2>3. CASE main' # "idle"
    <3>1. /\ main' = "decide" /\ bank' = [bank EXCEPT ![s] = Selected]
          /\ UNCHANGED <<stage, command, accepted, decision, outcome, creator>>
      BY <1>7, <2>1, <2>3 DEF Select, Fail, journal
    <3>2. Turn' /\ Started' /\ Behind'
      BY <1>2, <1>7, <2>1, <3>1 DEF Select, Control, Turn, Started, Behind, InStage, Decided
    <3>3. Selected' = Selected
      <4>1. Candidate(stage)' = Candidate(stage)
        BY <3>1 DEF Candidate
      <4>2. Parent(stage)' = Parent(stage)
        BY <2>1, <3>1 DEF Parent, Stages, PipelineInv, TypeOK
      <4> QED
        BY <3>1, <4>1, <4>2 DEF Selected
    <3>4. BankFirst'
      BY <2>1, <3>1, <3>3 DEF BankFirst, PipelineInv, TypeOK
    <3>5. ASSUME accepted PROVE PassedUpTo(s, Len(Plan[s]))' /\ GatePassed(s)'
      <4>1. PassedUpTo(s, Len(Plan[s])) /\ GatePassed(s)
        BY <1>2, <1>7, <2>1, <3>5 DEF Control, Selectable, Select
      <4> QED
        BY <1>1, <4>1, PassedKept DEF PassedUpTo, PipelineInv
    <3>6. Selectable'
      BY <2>1, <3>1, <3>5 DEF Selectable
    <3> QED
      BY <3>2, <3>4, <3>6 DEF Control
  <2> QED
    BY <2>2, <2>3
<1>8. ASSUME main' \in {"idle", "final"}, command' = command, main # "idle" PROVE Control'
  BY <1>2, <1>8 DEF Control, Turn, Started, BankFirst, Behind, Selectable, InStage
<1>9. CASE Crash
  BY <1>8, <1>9 DEF Crash
<1>10. ASSUME NEW x \in Matrices, OpenFinal(x) PROVE Control'
  BY <1>8, <1>10 DEF OpenFinal, At
<1>11. CASE ReadRoutes \/ RouteSummary \/ FinalReport \/ Return
  BY <1>8, <1>11 DEF ReadRoutes, RouteSummary, FinalReport, Return, At, Advance, Fail
<1>12. CASE Rebuild
  BY <1>8, <1>12 DEF Rebuild, At, Advance, Fail
<1>13. ASSUME NEW kb \in left, FinalBatch(kb) PROVE Control'
  BY <1>8, <1>13 DEF FinalBatch, Fail
<1>14. CASE UNCHANGED vars
  <2>1. /\ UNCHANGED <<main, stage, decision, command, bank, todo, accepted, outcome, creator>>
    BY <1>14 DEF vars, journal, results, process
  <2>2. Selected' = Selected
    BY <2>1 DEF Selected, Candidate, Parent
  <2>3. Turn' /\ Started' /\ BankFirst'
    BY <1>2, <2>1, <2>2 DEF Control, Turn, Started, BankFirst, InStage, Decided
  <2>4. InStage => /\ \A x : Passed(stage, x) => Passed(stage, x)'
                   /\ GatePassed(stage) => GatePassed(stage)'
    <3>1. \A s \in Stages : \A x : Passed(s, x) => Passed(s, x)'
      BY <1>1, PassedKept DEF PipelineInv
    <3>2. \A s \in Stages : GatePassed(s) => GatePassed(s)'
      BY <1>1, PassedKept DEF PipelineInv
    <3>3. InStage => stage \in Stages
      BY <1>2 DEF Control, Turn
    <3>4. \A s \in Stages : s = stage => s = stage'
      BY <2>1
    <3> QED
      BY <3>1, <3>2, <3>3, <3>4, <2>1 DEF Passed, GatePassed
  <2>5. Behind'
    <3>1. \A n : AheadFrom(n) => AheadFrom(n)'
      BY <2>1 DEF AheadFrom
    <3>2. \A n : InStage /\ PassedUpTo(stage, n) => PassedUpTo(stage, n)'
      BY <2>1, <2>4 DEF PassedUpTo
    <3> QED
      BY <1>2, <2>1, <2>4, <3>1, <3>2 DEF Control, Behind, InStage
  <2>6. Selectable'
    BY <1>2, <2>1, <2>4 DEF Control, Selectable, PassedUpTo, InStage
  <2> QED
    BY <2>3, <2>5, <2>6 DEF Control
<1> QED
  BY <1>3, <1>4, <1>5, <1>6, <1>7, <1>9, <1>10, <1>11, <1>12, <1>13, <1>14, BatchControl
     DEF Next, Step, Batches, Matrices

-----------------------------------------------------------------------------
(* The batches that are requested.                                         *)

Matrical == \E i \in DOMAIN todo : todo[i] \in Matrices

(* Entering the final steps after the last decision.                       *)
LEMMA EnterMatrices ==
    ASSUME NEW c \in Commands, Enter(c)
    PROVE  MatricesLast' /\ left' = {}
<1>1. c \in {"s1", "s2", "full", "test", "report"}
  BY PipelineAssumption DEF PipelineAssumption
<1>2. left' = {} /\ (main' = "final" => todo' = FinalPlan(c))
      /\ (main' = "final" /\ c \in {"full", "test"} => \A s \in Stages : decision'[s] # NoDecision)
  BY <1>1, EnterGives
<1>3. Matrical' /\ main' = "final" => c \in {"full", "test"}
  BY <1>2, FinalFacts DEF Matrical
<1>4. main' = "final" /\ c \in {"full", "test"} => AllDecided'
  BY <1>2 DEF AllDecided, Decided
<1> QED
  BY <1>2, <1>3, <1>4 DEF MatricesLast, Matrical, Matrices

(* Matrices stay behind the last decision, and their batches fit.          *)
LEMMA MatricesNext ==
    ASSUME PipelineInv, [Next]_vars
    PROVE  MatricesLast' /\ LeftSplits' /\ LeftFits'
<1>1. Kept /\ (AllDecided => AllDecided')
  BY StepKeeps DEF Kept, AllDecided, Decided
<1>2. MatricesLast /\ LeftSplits /\ LeftFits /\ todo \in Seq(Steps)
  BY DEF PipelineInv, TypeOK
<1>3. \A kb \in left : Fits(kb[1], kb[2])' /\ kb[1] \in Keys
  BY <1>1, <1>2, FitsKept DEF LeftFits, LeftSplits, PipelineInv
<1>4. left' \subseteq left => LeftSplits' /\ LeftFits'
  BY <1>2, <1>3 DEF LeftFits, LeftSplits
<1>5. ASSUME todo # <<>> PROVE (Matrical' /\ todo' = Tail(todo) => Matrical)
  <2> SUFFICES ASSUME todo' = Tail(todo), NEW i \in DOMAIN todo', todo'[i] \in Matrices
               PROVE  \E j \in DOMAIN todo : todo[j] \in Matrices
    BY DEF Matrical
  <2>1. i + 1 \in DOMAIN todo /\ todo[i + 1] = todo'[i]
    BY <1>2, <1>5
  <2> QED
    BY <2>1
<1>6. main = "final" /\ Matrical => AllDecided
  BY <1>2 DEF MatricesLast, Matrical, Matrices
<1>7. ASSUME main' # "final", left' = {} PROVE MatricesLast' /\ LeftSplits' /\ LeftFits'
  BY <1>7 DEF MatricesLast, LeftSplits, LeftFits
<1>8. main # "final" => left = {}
  BY <1>2 DEF MatricesLast
<1>9. ASSUME NEW c \in Commands, Start(c) PROVE MatricesLast' /\ LeftSplits' /\ LeftFits'
  BY <1>4, <1>9, EnterMatrices DEF Start
<1>10. CASE Decide
  BY <1>4, <1>10, EnterMatrices DEF Decide, PipelineInv, Started
<1>11. CASE FeedbackPhase \/ CreatorCall \/ Select
  <2>1. main # "final"
    BY <1>11 DEF FeedbackPhase, CreatorCall, Select, At
  <2>2. main' # "final" /\ (left' = left \/ left' = {})
    BY <1>11 DEF FeedbackPhase, CreatorCall, Select, Continue, Reject, Fail
  <2> QED
    BY <1>7, <1>8, <2>1, <2>2
<1>12. ASSUME NEW x \in Batches, StageBatch(x) PROVE MatricesLast' /\ LeftSplits' /\ LeftFits'
  <2>1. main # "final"
    BY <1>12 DEF StageBatch, At
  <2>2. main' # "final" /\ (left' = left \/ left' = {})
    BY <1>12 DEF StageBatch, Continue, Reject
  <2> QED
    BY <1>7, <1>8, <2>1, <2>2
<1>13. ASSUME NEW x \in Matrices, OpenFinal(x) PROVE MatricesLast' /\ LeftSplits' /\ LeftFits'
  <2>1. main = "final" /\ todo # <<>> /\ Head(todo) = x /\ left' = BatchesOf(x)
        /\ UNCHANGED <<main, todo, decision>>
    BY <1>13 DEF OpenFinal, At, results
  <2>6. ~RoutesWritten(x)' /\ Head(todo') = x
    BY <1>13, <2>1 DEF OpenFinal, RoutesWritten, reports
  <2>2. Matrical
    BY <1>2, <2>1 DEF Matrical
  <2>3. AllDecided
    BY <1>6, <2>1, <2>2
  <2>4. \A kb \in left' : /\ kb[1] \in Keys /\ kb[1][1] \in {"val", "test_frozen", "all1500"}
                          /\ Fits(kb[1], kb[2])
    BY <2>1, <2>3, MatrixFits
  <2>5. \A kb \in left' : Fits(kb[1], kb[2])'
    BY <1>1, <2>4, FitsKept DEF PipelineInv
  <2> QED
    BY <1>1, <2>1, <2>3, <2>4, <2>5, <2>6 DEF MatricesLast, LeftSplits, LeftFits, Matrices
<1>14. ASSUME NEW kb \in left, FinalBatch(kb) PROVE MatricesLast' /\ LeftSplits' /\ LeftFits'
  <2>1. main = "final" /\ AllDecided /\ todo # <<>>
    BY <1>2, <1>14 DEF MatricesLast
  <2>2. left' \subseteq left /\ left' = left \ {kb} /\ main' = main
        /\ todo' = (IF left' = {} THEN Tail(todo) ELSE todo)
        /\ (left' # {} => files' = files)
    BY <1>14, <2>1 DEF FinalBatch
  <2>3. CASE left' = {}
    BY <1>1, <1>4, <2>1, <2>2, <2>3 DEF MatricesLast
  <2>4. CASE left' # {}
    BY <1>1, <1>2, <1>4, <2>1, <2>2, <2>4 DEF MatricesLast, RoutesWritten
  <2> QED
    BY <2>3, <2>4
<1>15. ASSUME todo # <<>>, main = "final", left = {}, Advance \/ Fail
       PROVE  MatricesLast' /\ LeftSplits' /\ LeftFits'
  <2>1. CASE Fail
    BY <1>7, <2>1 DEF Fail
  <2>2. CASE Advance
    <3>1. todo' = Tail(todo) /\ main' = main /\ left' = {}
      BY <1>15, <2>2 DEF Advance
    <3> QED
      BY <1>1, <1>4, <1>5, <1>6, <1>15, <3>1 DEF MatricesLast, Matrical, Matrices
  <2> QED
    BY <1>15, <2>1, <2>2
<1>16. CASE ReadRoutes \/ Rebuild \/ RouteSummary \/ FinalReport
  <2>1. left = {}
    BY <1>2, <1>16 DEF MatricesLast, ReadRoutes, Rebuild, RouteSummary, FinalReport, At
  <2>2. main = "final" /\ todo # <<>> /\ (Advance \/ Fail)
    BY <1>16 DEF ReadRoutes, Rebuild, RouteSummary, FinalReport, At
  <2> QED
    BY <1>15, <2>1, <2>2
<1>17. CASE Return
  <2>1. main' = "idle" /\ left' = left /\ todo = <<>>
    BY <1>17 DEF Return
  <2> QED
    BY <1>2, <1>7, <2>1 DEF MatricesLast
<1>18. CASE Crash
  BY <1>7, <1>18 DEF Crash
<1>19. CASE UNCHANGED vars
  BY <1>1, <1>2, <1>4, <1>19 DEF vars, process, reports, MatricesLast, RoutesWritten
<1> QED
  BY <1>9, <1>10, <1>11, <1>12, <1>13, <1>14, <1>16, <1>17, <1>18, <1>19
     DEF Next, Step, Batches, Matrices

(* A step requests nothing, or a batch with the Bank that its label means. *)
LEMMA AskedNow ==
    ASSUME PipelineInv, [Next]_vars
    PROVE  \/ asked' = asked
           \/ \E k \in Keys, b \in Banks : Request(k, b) /\ Fits(k, b)
<1>1. ASSUME NEW x \in Batches, At("gates", x), Request(KeyOf(stage, x), BankOf(stage, x))
      PROVE  \E k \in Keys, b \in Banks : Request(k, b) /\ Fits(k, b)
  <2>1. stage \in Stages /\ \A t \in Below(stage) : Decided(t)
    BY <1>1 DEF At, PipelineInv, Turn, InStage
  <2>2. KeyOf(stage, x) \in Keys /\ BankOf(stage, x) \in Banks
    BY <2>1, KeyTyped, BankTyped DEF PipelineInv
  <2> QED
    BY <1>1, <2>2, RequestFits
<1>2. ASSUME NEW kb \in left, Request(kb[1], kb[2])
      PROVE  \E k \in Keys, b \in Banks : Request(k, b) /\ Fits(k, b)
  <2>1. kb[1] \in Keys /\ kb[2] \in Banks /\ Fits(kb[1], kb[2])
    BY DEF PipelineInv, TypeOK, LeftFits
  <2> QED
    BY <1>2, <2>1
<1>3. ASSUME NEW x \in Batches, StageBatch(x)
      PROVE  At("gates", x) /\ Request(KeyOf(stage, x), BankOf(stage, x))
  BY <1>3 DEF StageBatch
<1>4. ASSUME NEW kb \in left, FinalBatch(kb)
      PROVE  asked' = asked \/ Request(kb[1], kb[2])
  BY <1>4 DEF FinalBatch
<1>5. ASSUME Crash
      PROVE  \/ asked' = asked
             \/ \E x \in Batches : At("gates", x) /\ Request(KeyOf(stage, x), BankOf(stage, x))
             \/ \E kb \in left : Request(kb[1], kb[2])
  BY <1>5 DEF Crash, Batches
<1>6. \/ asked' = asked
      \/ \E x \in Batches : StageBatch(x)
      \/ \E kb \in left : FinalBatch(kb)
      \/ Crash
  BY DEF Next, Step, Batches, FeedbackPhase, CreatorCall, Select, Decide, OpenFinal, ReadRoutes,
         Rebuild, RouteSummary, FinalReport, Return, Start, vars
<1>7. CASE \E x \in Batches : StageBatch(x)
  BY <1>1, <1>3, <1>7
<1>8. CASE \E kb \in left : FinalBatch(kb)
  BY <1>2, <1>4, <1>8
<1>9. CASE Crash
  BY <1>1, <1>2, <1>5, <1>9
<1> QED
  BY <1>6, <1>7, <1>8, <1>9

(* Whatever was requested was requested for the Bank of its label, and a   *)
(* test batch that is complete was requested.                              *)
LEMMA AskedNext ==
    ASSUME PipelineInv, [Next]_vars
    PROVE  AskedFits' /\ TestAsked' /\ asked' \in [Keys -> SUBSET Banks]
<1>1. Kept /\ TypeOK /\ AskedFits /\ asked \in [Keys -> SUBSET Banks]
  BY StepKeeps DEF PipelineInv, TypeOK
<1>2. ASSUME NEW k \in Keys, NEW b \in Banks, Request(k, b), Fits(k, b)
      PROVE  /\ asked' \in [Keys -> SUBSET Banks]
             /\ \A j \in Keys : asked'[j] = asked[j] \/ (j = k /\ asked'[j] = asked[j] \union {b})
  BY <1>1, <1>2 DEF Request
<1>3. asked' \in [Keys -> SUBSET Banks]
  BY <1>1, <1>2, AskedNow
<1>4. ASSUME NEW k \in Keys PROVE asked[k] \subseteq asked'[k] /\ \A b \in asked'[k] : Fits(k, b)
  <2>1. CASE asked' = asked
    BY <1>1, <2>1 DEF AskedFits
  <2>2. ASSUME NEW j \in Keys, NEW c \in Banks, Request(j, c), Fits(j, c)
        PROVE  asked[k] \subseteq asked'[k] /\ \A b \in asked'[k] : Fits(k, b)
    <3>1. asked'[k] = asked[k] \/ (k = j /\ asked'[k] = asked[k] \union {c})
      BY <1>2, <2>2
    <3>2. \A b \in asked[k] : Fits(k, b)
      BY <1>1 DEF AskedFits
    <3> QED
      BY <2>2, <3>1, <3>2
  <2> QED
    BY <2>1, <2>2, AskedNow
<1>5. AskedFits'
  BY <1>1, <1>4, FitsKept DEF AskedFits
<1>6. TestAsked'
  <2> SUFFICES ASSUME NEW p \in Labels, outcome'[<<"test_frozen", p>>] # "none"
               PROVE  asked'[<<"test_frozen", p>>] # {}
    BY DEF TestAsked
  <2> DEFINE k == <<"test_frozen", p>>
  <2>1. k \in Keys
    BY DEF Keys, Splits
  <2>2. CASE outcome[k] # "none"
    <3>1. asked[k] # {}
      BY <2>2 DEF PipelineInv, TestAsked
    <3> QED
      BY <1>4, <2>1, <3>1
  <2>3. CASE outcome[k] = "none"
    <3>1. ASSUME NEW x \in Batches, StageBatch(x) PROVE FALSE
      <4>1. PICK s \in Stages : stage = s
        BY <3>1 DEF StageBatch, At, PipelineInv, Turn, InStage
      <4>2. \E r : outcome' = [outcome EXCEPT ![KeyOf(s, x)] = r]
        BY <3>1, <4>1 DEF StageBatch
      <4>3. KeyOf(s, x) # k
        BY DEF KeyOf, GateSplit, Batches, Gates
      <4> QED
        BY <1>1, <2>1, <2>3, <4>2, <4>3 DEF TypeOK
    <3>2. \E kb \in left : FinalBatch(kb)
      <4>1. outcome' # outcome
        BY <2>3
      <4> QED
        BY <3>1, <4>1
           DEF Next, Step, Batches, FeedbackPhase, CreatorCall, Select, Decide, OpenFinal,
               ReadRoutes, Rebuild, RouteSummary, FinalReport, Return, Crash, Start, vars, journal
    <3>3. PICK kb \in left : FinalBatch(kb)
      BY <3>2
    <3>4. outcome' = [outcome EXCEPT ![kb[1]] = IF @ = "none" THEN "good" ELSE @]
          /\ Request(kb[1], kb[2])
      BY <2>3, <3>3 DEF FinalBatch
    <3> HIDE DEF k
    <3>5. kb[1] = k
      BY <1>1, <2>1, <2>3, <3>4 DEF TypeOK, k
    <3>6. kb[2] \in asked'[k]
      BY <1>1, <2>1, <3>4, <3>5 DEF Request
    <3> QED
      BY <3>6 DEF k
  <2> QED
    BY <2>2, <2>3
<1> QED
  BY <1>3, <1>5, <1>6

-----------------------------------------------------------------------------
(* Types.                                                                  *)

(* The journal and the results.                                            *)
LEMMA DiskTyped ==
    ASSUME PipelineInv, [Next]_vars
    PROVE  /\ outcome' \in [Keys -> Outcomes \union {"none"}]
           /\ creator' \in [Stages -> {"none", "refused", "candidate"}]
           /\ feedback' \in {"none", "rejected", "clean", "retried"}
           /\ bank' \in [Stages -> Banks \union {NoBank}]
           /\ decision' \in [Stages -> Decision \union {NoDecision}]
<1>1. TypeOK
  BY DEF PipelineInv
<1>2. ASSUME InStage PROVE stage \in Stages /\ Parent(stage) \in Banks /\ Selected \in Banks
  <2>1. stage \in Stages /\ \A t \in Below(stage) : Decided(t)
    BY <1>2 DEF PipelineInv, Turn
  <2> QED
    BY <2>1, BankTyped DEF PipelineInv, Selected
<1>3. CASE FeedbackPhase
  BY <1>1, <1>3 DEF FeedbackPhase, TypeOK, results
<1>4. CASE CreatorCall
  BY <1>1, <1>4 DEF CreatorCall, TypeOK, results
<1>5. ASSUME NEW x \in Batches, StageBatch(x)
      PROVE  /\ outcome' \in [Keys -> Outcomes \union {"none"}]
             /\ UNCHANGED <<creator, feedback, bank, decision>>
  <2>1. PICK s \in Stages : stage = s
    BY <1>5 DEF StageBatch, At, PipelineInv, Turn, InStage
  <2> QED
    BY <1>1, <1>5, <2>1, BatchAnswer DEF TypeOK
<1>6. CASE Select
  <2>1. InStage
    BY <1>6 DEF Select, InStage
  <2>2. bank' = bank \/ bank' = [bank EXCEPT ![stage] = Selected]
    BY <1>6 DEF Select
  <2> QED
    BY <1>1, <1>2, <1>6, <2>1, <2>2 DEF Select, TypeOK, journal
<1>7. CASE Decide
  <2>1. InStage
    BY <1>7 DEF Decide, InStage
  <2>2. [accepted |-> accepted, parent |-> Parent(stage), selected |-> Selected] \in Decision
    BY <1>1, <1>2, <2>1 DEF TypeOK, Decision
  <2> QED
    BY <1>1, <1>7, <2>2 DEF Decide, TypeOK, journal
<1>8. ASSUME NEW kb \in left, FinalBatch(kb)
      PROVE  /\ outcome' \in [Keys -> Outcomes \union {"none"}]
             /\ UNCHANGED <<creator, feedback, bank, decision>>
  BY <1>1, <1>8 DEF FinalBatch, TypeOK, results, Outcomes
<1>9. CASE Crash
  BY <1>1, <1>9 DEF Crash, TypeOK, results
<1>10. CASE UNCHANGED <<journal, results>>
  BY <1>1, <1>10 DEF TypeOK, journal, results
<1>11. (\E c \in Commands : Start(c)) => UNCHANGED <<journal, results>>
  BY DEF Start
<1>12. (\E x \in Matrices : OpenFinal(x)) => UNCHANGED <<journal, results>>
  BY DEF OpenFinal
<1>13. ReadRoutes \/ Rebuild \/ RouteSummary \/ FinalReport \/ Return \/ UNCHANGED vars
           => UNCHANGED <<journal, results>>
  BY DEF ReadRoutes, Rebuild, RouteSummary, FinalReport, Return, vars
<1> QED
  BY <1>1, <1>3, <1>4, <1>5, <1>6, <1>7, <1>8, <1>9, <1>10, <1>11, <1>12, <1>13
     DEF Next, Step, Batches, Matrices, TypeOK

(* The files that are overwritten.                                         *)
LEMMA ReportsTyped ==
    ASSUME PipelineInv, [Next]_vars
    PROVE  /\ files' \subseteq {"routes", "route-summary", "summary"}
           /\ report' = NoReport \/ report' \in [Configs -> SUBSET Banks]
           /\ crashes' \in Nat
<1>1. TypeOK
  BY DEF PipelineInv
<1>2. CASE UNCHANGED <<files, report>> /\ crashes' \in {crashes, crashes + 1}
  BY <1>1, <1>2 DEF TypeOK
<1>3. CASE Rebuild
  <2>1. \A c \in Configs : <<"test_frozen", PhysicalConfig(c)>> \in Keys
    BY DEF Keys, Splits, Labels, Configs, PhysicalConfig
  <2>2. \A c \in Configs : asked[<<"test_frozen", PhysicalConfig(c)>>] \subseteq Banks
    BY <1>1, <2>1 DEF TypeOK
  <2>3. \/ report' = report
        \/ report' = [c \in Configs |-> asked[<<"test_frozen", PhysicalConfig(c)>>]]
    BY <1>3 DEF Rebuild
  <2> QED
    BY <1>1, <1>3, <2>2, <2>3 DEF Rebuild, TypeOK
<1>4. ASSUME NEW kb \in left, FinalBatch(kb)
      PROVE  report' = report /\ crashes' = crashes
             /\ files' \subseteq {"routes", "route-summary", "summary"}
  BY <1>1, <1>4 DEF FinalBatch, TypeOK
<1>5. CASE RouteSummary \/ FinalReport
  BY <1>1, <1>5 DEF RouteSummary, FinalReport, TypeOK
<1>6. ASSUME NEW x \in Batches, StageBatch(x) PROVE UNCHANGED <<files, report, crashes>>
  BY <1>6 DEF StageBatch, reports
<1>7. FeedbackPhase \/ CreatorCall \/ Select \/ Decide \/ ReadRoutes \/ Return \/ UNCHANGED vars
          => UNCHANGED <<files, report, crashes>>
  BY DEF FeedbackPhase, CreatorCall, Select, Decide, ReadRoutes, Return, vars, reports
<1>8. (\E c \in Commands : Start(c)) \/ (\E x \in Matrices : OpenFinal(x))
          => UNCHANGED <<files, report, crashes>>
  BY DEF Start, OpenFinal, reports
<1>9. Crash => UNCHANGED <<files, report>> /\ crashes' = crashes + 1
  BY DEF Crash, reports
<1> QED
  BY <1>1, <1>2, <1>3, <1>4, <1>5, <1>6, <1>7, <1>8, <1>9 DEF Next, Step, Batches, Matrices, TypeOK

(* What a process is started with.                                         *)
LEMMA EnterTyped ==
    ASSUME NEW c \in Commands, Enter(c)
    PROVE  /\ main' \in {"gates", "final"} /\ stage' \in Stages \union {"final"}
           /\ todo' \in Seq(Steps) /\ left' = {} /\ accepted' = TRUE
<1>1. c \in {"s1", "s2", "full", "test", "report"}
  BY PipelineAssumption DEF PipelineAssumption
<1> QED
  BY <1>1, EnterGives, PlanTyped, FinalFacts

(* The variables of a process.                                             *)
ProcessOK ==
    /\ main \in {"idle", "gates", "select", "decide", "final"}
    /\ exit \in {"none", "ok", "error", "killed"}
    /\ command \in Commands \union {"none"}
    /\ stage \in Stages \union {"final"}
    /\ todo \in Seq(Steps)
    /\ left \subseteq Keys \X Banks
    /\ accepted \in BOOLEAN

(* They keep their types.                                                  *)
LEMMA ProcessTyped ==
    ASSUME PipelineInv, [Next]_vars
    PROVE  ProcessOK'
<1>1. TypeOK /\ <<>> \in Seq(Steps)
  BY DEF PipelineInv
<1>2. \A q \in Seq(Steps) : q # <<>> => Tail(q) \in Seq(Steps)
  OBVIOUS
<1>3. ASSUME NEW c \in Commands, Start(c) PROVE ProcessOK'
  BY <1>3, EnterTyped DEF Start, ProcessOK
<1>4. CASE Decide
  BY <1>1, <1>4, EnterTyped DEF Decide, PipelineInv, Started, TypeOK, ProcessOK
<1>5. ASSUME Reject \/ Fail PROVE ProcessOK'
  BY <1>1, <1>5 DEF Reject, Fail, TypeOK, ProcessOK
<1>6. ASSUME NEW q \in Seq(Steps), Continue(q), accepted' \in BOOLEAN PROVE ProcessOK'
  BY <1>1, <1>6 DEF Continue, TypeOK, ProcessOK
<1>7. ASSUME todo # <<>>, Advance PROVE ProcessOK'
  BY <1>1, <1>2, <1>7 DEF Advance, TypeOK, ProcessOK
<1>8. CASE FeedbackPhase
  <2>1. Tail(todo) \in Seq(Steps)
    BY <1>1, <1>2, <1>8 DEF FeedbackPhase, At, TypeOK
  <2> QED
    BY <1>1, <1>5, <1>6, <1>8, <2>1 DEF FeedbackPhase, TypeOK
<1>9. CASE CreatorCall
  <2>1. Tail(todo) \in Seq(Steps)
    BY <1>1, <1>2, <1>9 DEF CreatorCall, At, TypeOK
  <2> QED
    BY <1>1, <1>5, <1>6, <1>9, <2>1 DEF CreatorCall, TypeOK
<1>10. ASSUME NEW x \in Batches, StageBatch(x) PROVE ProcessOK'
  <2>1. PICK s \in Stages : stage = s
    BY <1>10 DEF StageBatch, At, PipelineInv, Turn, InStage
  <2>2. PICK r \in Outcomes :
            IF Rejects(x, r) THEN Reject
            ELSE /\ Continue(IF x = "replay" /\ r = "good" THEN Tail(Tail(todo))
                                                           ELSE Tail(todo))
                 /\ accepted' = StillAccepted(x, r)
    BY <1>10, <2>1, BatchAnswer
  <2>3. At("gates", x)
    BY <1>10, <2>1, BatchAnswer
  <2>4. Tail(todo) \in Seq(Steps)
    BY <1>1, <1>2, <2>3 DEF At, TypeOK
  <2>5. x = "replay" => Tail(Tail(todo)) \in Seq(Steps)
    <3>1. ASSUME x = "replay" PROVE Len(todo) = 4
      <4>1. stage = "s1" /\ AheadFrom(3)
        BY <2>3, <3>1, ReplayIsFirst
      <4>2. Len(todo) = Len(Plan["s1"]) - 3
        BY <4>1 DEF AheadFrom
      <4> QED
        BY <4>2, PlanFacts
    <3> QED
      BY <1>1, <3>1, TailTwice DEF TypeOK
  <2>6. StillAccepted(x, r) \in BOOLEAN
    BY <1>1 DEF StillAccepted, TypeOK
  <2> QED
    BY <1>5, <1>6, <2>2, <2>4, <2>5, <2>6
<1>11. CASE Select
  BY <1>1, <1>5, <1>11 DEF Select, TypeOK, ProcessOK
<1>12. ASSUME NEW x \in Matrices, OpenFinal(x) PROVE ProcessOK'
  <2>1. main = "final" /\ todo # <<>> /\ Head(todo) = x
    BY <1>12 DEF OpenFinal, At
  <2>2. \E i \in DOMAIN todo : todo[i] = x
    BY <1>1, <2>1 DEF TypeOK
  <2>3. AllDecided
    BY <2>1, <2>2 DEF PipelineInv, MatricesLast, Matrices
  <2>4. BatchesOf(x) \subseteq Keys \X Banks
    BY <2>3, MatrixFits
  <2> QED
    BY <1>1, <1>12, <2>4 DEF OpenFinal, TypeOK, ProcessOK
<1>13. ASSUME NEW kb \in left, FinalBatch(kb) PROVE ProcessOK'
  <2>1. todo # <<>>
    BY <1>13 DEF PipelineInv, MatricesLast
  <2>2. Tail(todo) \in Seq(Steps)
    BY <1>1, <1>2, <2>1 DEF TypeOK
  <2>3. CASE Fail
    BY <1>5, <2>3
  <2>4. CASE ~Fail
    <3>1. left' \subseteq left /\ todo' \in {todo, Tail(todo)}
          /\ UNCHANGED <<main, exit, command, stage, accepted>>
      BY <1>13, <2>4 DEF FinalBatch
    <3> QED
      BY <1>1, <2>2, <3>1 DEF TypeOK, ProcessOK
  <2> QED
    BY <2>3, <2>4
<1>14. CASE ReadRoutes \/ Rebuild \/ RouteSummary \/ FinalReport
  BY <1>5, <1>7, <1>14 DEF ReadRoutes, Rebuild, RouteSummary, FinalReport, At
<1>15. CASE Return
  BY <1>1, <1>15 DEF Return, TypeOK, ProcessOK
<1>16. CASE Crash
  BY <1>1, <1>16 DEF Crash, TypeOK, ProcessOK
<1>17. CASE UNCHANGED vars
  BY <1>1, <1>17 DEF vars, process, TypeOK, ProcessOK
<1> QED
  <2>1. CASE \E x \in Batches : StageBatch(x)
    BY <1>10, <2>1
  <2>2. CASE \E x \in Matrices : OpenFinal(x)
    BY <1>12, <2>2
  <2>3. CASE \E kb \in left : FinalBatch(kb)
    BY <1>13, <2>3
  <2>4. CASE \E c \in Commands : Start(c)
    BY <1>3, <2>4
  <2>5. CASE Step
    BY <1>4, <1>8, <1>9, <1>11, <1>14, <1>15, <2>1, <2>2, <2>3, <2>5
       DEF Step, Batches, Matrices
  <2> QED
    BY <1>16, <1>17, <2>4, <2>5 DEF Next

(* Types are kept.                                                         *)
LEMMA TypeNext ==
    ASSUME PipelineInv, [Next]_vars
    PROVE  TypeOK'
<1>1. Chain' /\ Turn'
  BY ControlNext, DecisionsNext DEF Control
<1>2. \A s \in Stages : Decided(s)' => bank'[s] \in Banks
  BY <1>1, DiskTyped DEF Chain, Decided, Decision
<1>3. main' \in {"gates", "select", "decide"} => stage' \in Stages /\ Parent(stage)' \in Banks
  <2>1. ASSUME main' \in {"gates", "select", "decide"}
        PROVE  stage' \in Stages /\ \A t \in Below(stage') : Decided(t)'
    BY <1>1, <2>1 DEF Turn, InStage
  <2>2. ASSUME main' \in {"gates", "select", "decide"} PROVE Parent(stage)' \in Banks
    BY <1>2, <2>1, <2>2 DEF Parent, Below, Stages, Banks
  <2> QED
    BY <2>1, <2>2
<1> QED
  BY <1>3, AskedNext, DiskTyped, ReportsTyped, ProcessTyped DEF TypeOK, ProcessOK

(* The invariant holds in every reachable state.                           *)
LEMMA PipelineInductive == Spec => []PipelineInv
<1>1. Init => PipelineInv
  <2> SUFFICES ASSUME Init PROVE PipelineInv
    OBVIOUS
  <2>1. \A s \in Stages : ~Decided(s)
    BY DEF Init, Decided
  <2>2. TypeOK
    <3>1. /\ outcome \in [Keys -> Outcomes \union {"none"}]
          /\ creator \in [Stages -> {"none", "refused", "candidate"}]
          /\ bank \in [Stages -> Banks \union {NoBank}]
          /\ decision \in [Stages -> Decision \union {NoDecision}]
          /\ asked \in [Keys -> SUBSET Banks]
      BY DEF Init
    <3>2. <<>> \in Seq(Steps)
      OBVIOUS
    <3>3. main = "idle"
      BY DEF Init
    <3> QED
      BY <3>1, <3>2, <3>3 DEF Init, TypeOK
  <2>3. InOrder /\ Chain /\ AcceptedPassed
    BY <2>1 DEF InOrder, Chain, AcceptedPassed, Accepted
  <2>4. Turn /\ Started /\ BankFirst /\ Behind /\ Selectable
    BY DEF Init, Turn, Started, BankFirst, Behind, Selectable, InStage
  <2>5. SomeOnly /\ MatricesLast /\ AskedFits /\ LeftFits /\ LeftSplits
    BY DEF Init, SomeOnly, MatricesLast, AskedFits, LeftFits, LeftSplits
  <2>6. TestAsked
    BY DEF Init, TestAsked, Keys, Splits
  <2> QED
    BY <2>2, <2>3, <2>4, <2>5, <2>6 DEF PipelineInv
<1>2. PipelineInv /\ [Next]_vars => PipelineInv'
  BY TypeNext, DecisionsNext, ControlNext, SomeOnlyNext, MatricesNext, AskedNext
     DEF PipelineInv, Control
<1> QED
  BY <1>1, <1>2, PTL DEF Spec

-----------------------------------------------------------------------------
(* The safety properties.                                                  *)

(* Every variable of the pipeline always has its type, and a process in a  *)
(* stage has that stage's parent Bank.                                     *)
THEOREM TypeCorrect == Spec => []TypeOK
<1>1. PipelineInv => TypeOK
  BY DEF PipelineInv
<1> QED
  BY <1>1, PipelineInductive, PTL

(* The Bank files, the decisions and the stages agree, whatever write a    *)
(* crash comes before (_write_selected_bank, _save_decision).              *)
THEOREM LineageKept == Spec => []Lineage
<1>1. ASSUME PipelineInv PROVE Lineage
  <2>1. DOMAIN Order = 1 .. 3 /\ Order[1] = "s1" /\ Order[2] = "s2" /\ Order[3] = "full"
    BY DEF Order
  <2>2. \A s \in Stages : Decided(s) => bank[s] = decision[s].selected
                                        /\ decision[s].parent = Parent(s)
    BY <1>1 DEF PipelineInv, Chain
  <2>3. /\ Decided("s2") => bank["s1"] = decision["s1"].selected
        /\ Decided("full") => bank["s2"] = decision["s2"].selected
    BY <1>1, <2>2 DEF PipelineInv, InOrder, Below, Stages
  <2> SUFFICES ASSUME NEW i \in 1 .. 3, Decided(Order[i])
               PROVE  /\ bank[Order[i]] = decision[Order[i]].selected
                      /\ decision[Order[i]].parent =
                             IF i = 1 THEN "static" ELSE decision[Order[i - 1]].selected
    BY <2>1 DEF Lineage
  <2>4. CASE i = 1
    BY <2>1, <2>2, <2>4 DEF Parent, Stages
  <2>5. CASE i = 2
    BY <2>1, <2>2, <2>3, <2>5 DEF Parent, Stages
  <2>6. CASE i = 3
    BY <2>1, <2>2, <2>3, <2>6 DEF Parent, Stages
  <2> QED
    BY <2>4, <2>5, <2>6
<1>2. PipelineInv => Lineage
  BY <1>1
<1> QED
  BY <1>2, PipelineInductive, PTL

(* An accepted candidate exists and passed every gate of its stage,        *)
(* whichever processes read them (run_s1, run_s2, run_full).               *)
THEOREM GatesKept == Spec => []AcceptedPassedGates
<1>1. ASSUME PipelineInv, NEW s \in Stages, Accepted(s)
      PROVE  /\ creator[s] = "candidate"
             /\ outcome[KeyOf(s, "smoke")] = "good" /\ outcome[KeyOf(s, "gate")] = "good"
             /\ s = "s1" => \/ outcome[KeyOf(s, "replay")] = "good"
                            \/ outcome[KeyOf(s, "composite")] = "good"
             /\ s = "full" => outcome[KeyOf(s, "judge")] = "good"
  <2>1. PassedUpTo(s, Len(Plan[s])) /\ GatePassed(s)
    BY <1>1 DEF PipelineInv, AcceptedPassed
  <2>2. /\ Passed(s, "creator") /\ Passed(s, "smoke")
        /\ s = "s1" => Passed(s, "composite")
        /\ s = "full" => Passed(s, "judge")
    <3>1. CASE s = "s1"
      BY <2>1, <3>1, PlanFacts DEF PassedUpTo
    <3>2. CASE s = "s2"
      BY <2>1, <3>2, PlanFacts DEF PassedUpTo
    <3>3. CASE s = "full"
      BY <2>1, <3>3, PlanFacts DEF PassedUpTo
    <3> QED
      BY <3>1, <3>2, <3>3 DEF Stages
  <2> QED
    BY <2>1, <2>2 DEF Passed, GatePassed
<1>2. PipelineInv => AcceptedPassedGates
  BY <1>1 DEF AcceptedPassedGates
<1> QED
  BY <1>2, PipelineInductive, PTL

(* A label names one Bank: no batch is requested, or reused, for two Banks *)
(* over stages, aliases, crashes and resumes (_assistant_many).            *)
THEOREM LabelsKept == Spec => []OneBankPerLabel
<1>1. ASSUME PipelineInv, NEW k \in Keys PROVE Cardinality(asked[k]) <= 1
  <2>1. asked[k] \subseteq {BankFor(k)}
    BY <1>1 DEF PipelineInv, AskedFits, Fits
  <2>2. Cardinality({BankFor(k)}) = 1 /\ IsFiniteSet({BankFor(k)})
    BY FS_Singleton
  <2> QED
    BY <2>1, <2>2, FS_Subset
<1>2. PipelineInv => OneBankPerLabel
  BY <1>1 DEF OneBankPerLabel
<1> QED
  BY <1>2, PipelineInductive, PTL

-----------------------------------------------------------------------------
(* The refinement.                                                         *)

(* The alias of a configuration leads to the Bank its stage selected.      *)
LEMMA AliasBank ==
    ASSUME PipelineInv, AllDecided, NEW s \in Stages
    PROVE  BankForConfig(PhysicalConfig(ConfigOf[s])) = decision[s].selected
<1>1. \A t \in Stages :
          /\ bank[t] = decision[t].selected
          /\ ~Accepted(t) => decision[t].selected = Parent(t)
  BY DEF AllDecided, PipelineInv, Chain, Accepted
<1>2. ConfigOf["s1"] = "s1" /\ ConfigOf["s2"] = "s1s2" /\ ConfigOf["full"] = "full"
  BY DEF ConfigOf
<1>3. ~Accepted("s1") => bank["s1"] = "static"
  BY <1>1 DEF Parent, Stages
<1>4. ~Accepted("s2") => bank["s2"] = bank["s1"]
  BY <1>1 DEF Parent, Stages
<1>5. ~Accepted("full") => bank["full"] = bank["s2"]
  BY <1>1 DEF Parent, Stages
<1>6. BankForConfig(PhysicalConfig(ConfigOf[s])) = bank[s]
  <2>1. CASE s = "s1"
    BY <1>2, <1>3, <2>1 DEF PhysicalConfig, BankForConfig
  <2>2. CASE s = "s2"
    BY <1>2, <1>3, <1>4, <2>2 DEF PhysicalConfig, BankForConfig
  <2>3. CASE s = "full"
    BY <1>2, <1>3, <1>4, <1>5, <2>3 DEF PhysicalConfig, BankForConfig
  <2> QED
    BY <2>1, <2>2, <2>3 DEF Stages
<1> QED
  BY <1>1, <1>6

(* The matrices rebuilt from complete batches hold the selected Banks.     *)
LEMMA RebuildPublishes ==
    ASSUME PipelineInv, Complete, NEW s \in Stages
    PROVE  asked[<<"test_frozen", PhysicalConfig(ConfigOf[s])>>] = {decision[s].selected}
<1> DEFINE p == PhysicalConfig(ConfigOf[s])
           k == <<"test_frozen", p>>
<1>1. AllDecided
  BY DEF Complete
<1>2. p \in Physicals
  BY DEF Physicals, Configs, ConfigOf, Stages
<1>3. p \in Labels /\ k \in Keys
  BY <1>1, <1>2, PhysicalFits DEF Configs, Labels, Keys, Splits
<1>4. outcome[k] # "none"
  BY <1>2 DEF Complete
<1>5. asked[k] # {}
  BY <1>3, <1>4 DEF PipelineInv, TestAsked
<1>6. BankFor(k) = decision[s].selected
  <2>1. BankForConfig(p) = BankFor(k)
    BY <1>1, <1>2, PhysicalFits DEF Fits
  <2> QED
    BY <1>1, <2>1, AliasBank
<1>7. \A b \in asked[k] : b = BankFor(k)
  BY <1>3 DEF PipelineInv, AskedFits, Fits
<1> HIDE DEF k
<1>8. asked[k] = {decision[s].selected}
  BY <1>5, <1>6, <1>7
<1> QED
  BY <1>8 DEF k

(* The abstract state.                                                     *)
Chosen == [s \in Stages |-> IF Decided(s) THEN decision[s].selected ELSE NoDecision]
Published == IF report = NoReport THEN NoReport ELSE [s \in Stages |-> report[ConfigOf[s]]]

(* A decision of the pipeline is one of the ladder.                        *)
LEMMA DecideMaps ==
    ASSUME PipelineInv, Decide
    PROVE  \E i \in DOMAIN Order : Abstract!Decide(i)
<1> DEFINE cands == [s1 |-> {"raw", "screened"}, s2 |-> {"routed"}, full |-> {"refined"}]
<1>1. stage \in Stages /\ ~Decided(stage) /\ \A t \in Below(stage) : Decided(t)
  BY DEF Decide, PipelineInv, Turn, InStage
<1>2. decision' = [decision EXCEPT ![stage] =
           [accepted |-> accepted, parent |-> Parent(stage), selected |-> Selected]]
      /\ report' = report
  BY DEF Decide, reports
<1>3. decision \in [Stages -> Decision \union {NoDecision}] /\ accepted \in BOOLEAN
  BY DEF PipelineInv, TypeOK
<1>4. \A t \in Below(stage) : t \in Stages /\ Chosen[t] = decision[t].selected
                              /\ Chosen[t] # NoDecision
  <2>1. \A t \in Stages : Decided(t) => decision[t].selected \in Banks
    BY <1>3 DEF Decided, Decision
  <2>2. \A t \in Below(stage) : t \in Stages
    BY <1>1 DEF Below, Stages
  <2> QED
    BY <1>1, <2>1, <2>2, MissingAssumption DEF Chosen, MissingAssumption
<1>5. Selected \in Banks
  BY <1>1, <1>3, BankTyped DEF PipelineInv, Selected
<1>6. Chosen' = [Chosen EXCEPT ![stage] = Selected] /\ Chosen[stage] = NoDecision
  <2>1. decision'[stage] # NoDecision /\ decision'[stage].selected = Selected
    <3>1. [accepted |-> accepted, parent |-> Parent(stage), selected |-> Selected] \in Decision
      BY <1>1, <1>3, <1>5, BankTyped DEF Decision, PipelineInv
    <3> QED
      BY <1>1, <1>2, <1>3, <3>1, MissingAssumption DEF MissingAssumption
  <2>2. \A t \in Stages \ {stage} : decision'[t] = decision[t]
    BY <1>2, <1>3
  <2> QED
    BY <1>1, <2>1, <2>2 DEF Chosen, Decided
<1>7. \A t \in Stages : Decided(t) => decision[t].selected = bank[t]
  BY DEF PipelineInv, Chain
<1>8. Selected \in cands[stage] \union {Parent(stage)}
  BY <1>1 DEF Selected, Candidate, Stages
<1>9. Parent(stage) = IF stage = "s1" THEN "static"
                      ELSE IF stage = "s2" THEN Chosen["s1"] ELSE Chosen["s2"]
  BY <1>1, <1>4, <1>7 DEF Parent, Below, Stages
<1>10. Published' = Published
  BY <1>2 DEF Published
<1>11. DOMAIN Order = 1 .. 3 /\ Order[1] = "s1" /\ Order[2] = "s2" /\ Order[3] = "full"
  BY DEF Order
<1>12. PICK i \in DOMAIN Order : Order[i] = stage
  BY <1>1, <1>11 DEF Stages
<1>13. \A j \in 1 .. i - 1 : Chosen[Order[j]] # NoDecision
  BY <1>4, <1>11, <1>12 DEF Below
<1>14. Parent(stage) = IF i = 1 THEN "static" ELSE Chosen[Order[i - 1]]
  BY <1>9, <1>11, <1>12
<1>15. Abstract!Decide(i)
  BY <1>6, <1>8, <1>10, <1>12, <1>13, <1>14
     DEF Abstract!Decide, Abstract!Inherited, Chosen, Published
<1> QED
  BY <1>15

(* Rebuilding the matrices publishes the ladder.                           *)
LEMMA RebuildMaps ==
    ASSUME PipelineInv, Rebuild, report' # report
    PROVE  Abstract!Publish
<1>1. Complete /\ report' = [c \in Configs |-> asked[<<"test_frozen", PhysicalConfig(c)>>]]
      /\ decision' = decision
  BY DEF Rebuild, results
<1>2. \A s \in Stages : Decided(s)
  BY <1>1 DEF Complete, AllDecided
<1>3. report' \in [Configs -> SUBSET Banks]
  <2>1. \A c \in Configs : <<"test_frozen", PhysicalConfig(c)>> \in Keys
    BY DEF Keys, Splits, Labels, Configs, PhysicalConfig
  <2> QED
    BY <1>1, <2>1 DEF PipelineInv, TypeOK
<1>4. report' # NoReport
  BY <1>3, MissingAssumption DEF MissingAssumption
<1>5. Published' = [s \in Stages |-> {Chosen[s]}]
  <2>1. \A s \in Stages : ConfigOf[s] \in Configs
    BY DEF ConfigOf, Configs, Stages
  <2>2. \A s \in Stages : report'[ConfigOf[s]] = {decision[s].selected}
    BY <1>1, <2>1, RebuildPublishes
  <2>3. \A s \in Stages : Chosen[s] = decision[s].selected
    BY <1>2 DEF Chosen
  <2> QED
    BY <1>4, <2>2, <2>3 DEF Published
<1>6. \A s \in Stages : Chosen[s] # NoDecision
  BY <1>2, MissingAssumption DEF Chosen, MissingAssumption, PipelineInv, TypeOK, Decided, Decision
<1>7. Chosen' = Chosen
  BY <1>1 DEF Chosen, Decided
<1>8. Abstract!StageSet = Stages
  BY DEF Abstract!StageSet, Order, Stages
<1> QED
  BY <1>5, <1>6, <1>7, <1>8 DEF Abstract!Publish, Chosen, Published

(* Nothing else changes what the ladder shows.                             *)
LEMMA OthersStutter ==
    ASSUME PipelineInv, [Next]_vars
    PROVE  Decide \/ Rebuild \/ UNCHANGED <<decision, report>>
<1>1. \A x \in Batches : StageBatch(x) => UNCHANGED <<decision, report>>
  BY DEF StageBatch, results, reports
<1>2. \A kb \in left : FinalBatch(kb) => UNCHANGED <<decision, report>>
  BY DEF FinalBatch, results
<1>3. \A c \in Commands : Start(c) => UNCHANGED <<decision, report>>
  BY DEF Start, results, reports
<1>4. \A x \in Matrices : OpenFinal(x) => UNCHANGED <<decision, report>>
  BY DEF OpenFinal, results, reports
<1>5. FeedbackPhase \/ CreatorCall \/ Select \/ ReadRoutes \/ RouteSummary \/ FinalReport
          \/ Return \/ Crash \/ UNCHANGED vars => UNCHANGED <<decision, report>>
  BY DEF FeedbackPhase, CreatorCall, Select, ReadRoutes, RouteSummary, FinalReport, Return,
         Crash, vars, results, reports
<1> QED
  BY <1>1, <1>2, <1>3, <1>4, <1>5 DEF Next, Step, Batches, Matrices

(* The pipeline implements the ladder: one decision for each stage, in     *)
(* order, inheriting where it rejects, and every row of the test matrix    *)
(* from the Bank that its configuration selected                           *)
(* (rebuild_logical_results).                                              *)
THEOREM LadderImplemented == Spec => ImplementsLadder
<1>1. Init => Abstract!LadderInit
  <2> SUFFICES ASSUME Init PROVE Abstract!LadderInit
    OBVIOUS
  <2>1. Chosen = [s \in Stages |-> NoDecision] /\ Published = NoReport
    BY DEF Init, Chosen, Published, Decided
  <2>2. Abstract!StageSet = Stages
    BY DEF Abstract!StageSet, Order, Stages
  <2> QED
    BY <2>1, <2>2 DEF Abstract!LadderInit, Chosen, Published
<1>2. PipelineInv /\ [Next]_vars => [Abstract!LadderNext]_(Abstract!lvars)
  <2> SUFFICES ASSUME PipelineInv, [Next]_vars
               PROVE  [Abstract!LadderNext]_(Abstract!lvars)
    OBVIOUS
  <2>1. CASE Decide
    BY <2>1, DecideMaps DEF Abstract!LadderNext
  <2>2. CASE Rebuild /\ report' # report
    BY <2>2, RebuildMaps DEF Abstract!LadderNext
  <2>3. CASE UNCHANGED <<decision, report>>
    <3>1. Chosen' = Chosen /\ Published' = Published
      BY <2>3 DEF Chosen, Published, Decided
    <3> QED
      BY <3>1 DEF Abstract!lvars, Chosen, Published
  <2>4. Rebuild => decision' = decision
    BY DEF Rebuild, results
  <2> QED
    BY <2>1, <2>2, <2>3, <2>4, OthersStutter
<1> QED
  BY <1>1, <1>2, PipelineInductive, PTL DEF Spec, ImplementsLadder, Abstract!LadderSpec
=============================================================================
