--------------------------- MODULE StagePipeline ----------------------------
(***************************************************************************)
(* CoreFastEngine.run: the stages s1, s2 and full (S3) of the Core Fast    *)
(* Path, the val200 and test300 matrices and the reports, over crashes and *)
(* commands repeated on one output root.                                   *)
(*                                                                         *)
(* A batch of calls is a key <<split, label>>; its results are final, so   *)
(* that what a gate says of a completed batch is stored with the batch.    *)
(* The steps still ahead of a process are a list; a gate that rejects a    *)
(* candidate empties it.                                                   *)
(***************************************************************************)
EXTENDS Integers, Sequences, FiniteSets

CONSTANTS
    Commands,      \* commands an operator gives: run --through ..., report
    MaxCrashes,    \* bound: crashes explored
    NoDecision,    \* stands for a stage without decisions/<stage>.json
    NoReport       \* stands for missing matrices

ASSUME PipelineAssumption ==
    /\ Commands \subseteq {"s1", "s2", "full", "test", "report"}
    /\ MaxCrashes \in Nat

Order == <<"s1", "s2", "full">>
Stages == {"s1", "s2", "full"}
Configs == {"noskill", "llm_static", "s1", "s1s2", "full"}
Banks == {"no bank", "static", "raw", "screened", "routed", "refined"}
NoBank == "none"

Decision == [accepted : BOOLEAN, parent : Banks, selected : Banks]

(* What stands for a missing file is not the contents of one.              *)
ASSUME MissingAssumption ==
    /\ NoDecision \notin Decision /\ NoDecision \notin Banks
    /\ NoReport \notin [Configs -> SUBSET Banks]

Splits == {"dev-smoke24", "opt-replay200", "opt-replay200-composite",
           "body-gate75", "val", "opt-body48", "dev-smoke24-parent-s3",
           "val-s3-gate", "test_frozen", "all1500"}
Labels == {"noskill", "llm_static", "s1-candidate", "s2-candidate",
           "full-candidate", "parent", "candidate", "s1", "s1s2", "full"}
Keys == Splits \X Labels

VARIABLES
    outcome,   \* disk: "none", or what a gate finds in the completed batch
    creator,   \* disk: the single Creator call of each stage
    feedback,  \* disk: the Feedback journal of S1
    bank,      \* disk: banks/<stage>-selected.json
    decision,  \* disk: decisions/<stage>.json
    files,     \* disk: reports written
    report,    \* disk: Banks behind the rows of test-results.jsonl
    main,      \* "idle", in the "gates" of a stage, about to "select" its
               \* Bank or "decide" it, or in the "final" steps
    exit,      \* how the last process ended
    command,   \* what the process was started for
    stage,     \* stage the process is in, or "final"
    todo,      \* its steps ahead
    left,      \* batches ahead in a step that runs one per physical config
    accepted,  \* memory: no gate has rejected the candidate so far
    asked,     \* ghost: Banks a batch was ever requested with
    crashes    \* bound counter

journal == <<outcome, creator, feedback>>
results == <<bank, decision>>
reports == <<files, report>>
process == <<main, exit, command, stage, todo, left, accepted>>
vars == <<journal, results, reports, process, asked, crashes>>

-----------------------------------------------------------------------------
(* The plan of each stage, and the batch behind each step.                 *)

Plan == [s1 |-> <<"feedback", "creator", "smoke", "replay", "composite",
                  "parentGate", "gate">>,
         s2 |-> <<"creator", "smoke", "parentGate", "gate">>,
         full |-> <<"body", "creator", "parentSmoke", "smoke", "parentGate",
                    "gate", "parentJudge", "judge">>]

Gates == {"smoke", "replay", "composite", "gate", "judge"}

Decided(s) == decision[s] # NoDecision
AllDecided == \A s \in Stages : Decided(s)
Accepted(s) == Decided(s) /\ decision[s].accepted

(* Bug: the parent of S3 is labelled as if S2 had been accepted.           *)
ParentLabelUnaliased(s) ==
    CASE s = "s1" -> "llm_static"
      [] s = "s2" -> IF Accepted("s1") THEN "s1-candidate" ELSE "llm_static"
      [] s = "full" -> "s2-candidate"

(* parent_config: the label under which the parent Bank was evaluated.     *)
ParentLabel(s) ==
    IF s = "full" /\ Accepted("s2") THEN "s2-candidate"
    ELSE IF s # "s1" /\ Accepted("s1") THEN "s1-candidate"
    ELSE "llm_static"

CandidateLabel(s) ==
    CASE s = "s1" -> "s1-candidate" [] s = "s2" -> "s2-candidate"
      [] s = "full" -> "full-candidate"

(* Bug: every stage starts from the Static Bank.                           *)
ParentStatic(s) == "static"

Parent(s) == CASE s = "s1" -> "static" [] s = "s2" -> bank["s1"] [] s = "full" -> bank["s2"]

(* S1 drops the patches that replay200 does not retain.                    *)
Candidate(s) ==
    CASE s = "s1" -> IF outcome[<<"opt-replay200", "s1-candidate">>] = "some"
                     THEN "screened" ELSE "raw"
      [] s = "s2" -> "routed"
      [] s = "full" -> "refined"

GateSplit(s) == IF s = "s1" THEN "body-gate75" ELSE "val"

KeyOf(s, x) ==
    CASE x = "smoke" -> <<"dev-smoke24", CandidateLabel(s)>>
      [] x = "replay" -> <<"opt-replay200", CandidateLabel(s)>>
      [] x = "composite" -> <<"opt-replay200-composite", CandidateLabel(s)>>
      [] x = "parentGate" -> <<GateSplit(s), ParentLabel(s)>>
      [] x = "gate" -> <<GateSplit(s), CandidateLabel(s)>>
      [] x = "body" -> <<"opt-body48", ParentLabel(s)>>
      [] x = "parentSmoke" -> <<"dev-smoke24-parent-s3", ParentLabel(s)>>
      [] x = "parentJudge" -> <<"val-s3-gate", "parent">>
      [] x = "judge" -> <<"val-s3-gate", "candidate">>

BankOf(s, x) ==
    IF x \in {"parentGate", "body", "parentSmoke", "parentJudge"} THEN Parent(s)
    ELSE IF s = "s1" /\ x \in {"smoke", "replay"} THEN "raw"
    ELSE Candidate(s)

(* What a gate can find in a completed batch.  "some": replay200 retained  *)
(* only some patches; val200 kept the trace of S3 but not the metrics.     *)
OutcomesOf(s, x) ==
    IF x \notin Gates THEN {"good"}
    ELSE IF x = "replay" \/ (s = "full" /\ x = "gate") THEN {"bad", "some", "good"}
    ELSE {"bad", "good"}

-----------------------------------------------------------------------------
(* The final matrices.                                                     *)

(* Bug: a rejected S2 falls back to the Static Bank and not to S1.         *)
PhysicalConfigShort(c) ==
    IF c = "full" /\ ~Accepted("full")
    THEN IF Accepted("s2") THEN "s1s2" ELSE IF Accepted("s1") THEN "s1" ELSE "llm_static"
    ELSE IF c = "s1s2" /\ ~Accepted("s2") THEN "llm_static"
    ELSE IF c = "s1" /\ ~Accepted("s1") THEN "llm_static"
    ELSE c

(* _physical_config: an alias is followed to the Bank really executed.     *)
PhysicalConfig(c) ==
    LET s1 == IF Accepted("s1") THEN "s1" ELSE "llm_static"
        s2 == IF Accepted("s2") THEN "s1s2" ELSE s1
    IN  CASE c = "s1" -> s1
          [] c = "s1s2" -> s2
          [] c = "full" -> IF Accepted("full") THEN "full" ELSE s2
          [] OTHER -> c

BankForConfig(p) ==
    CASE p = "noskill" -> "no bank" [] p = "llm_static" -> "static"
      [] p = "s1" -> bank["s1"] [] p = "s1s2" -> bank["s2"] [] p = "full" -> bank["full"]

ValRunLabel(p) ==
    CASE p = "s1" -> "s1-candidate" [] p = "s1s2" -> "s2-candidate"
      [] p = "full" -> "full-candidate" [] OTHER -> p

Physicals == {PhysicalConfig(c) : c \in Configs}

(* The batches of a final step, with the Banks they are requested with.    *)
BatchesOf(x) ==
    CASE x = "val" -> {<<<<"val", ValRunLabel(p)>>, BankForConfig(p)>> : p \in Physicals}
      [] x = "test" -> {<<<<"test_frozen", p>>, BankForConfig(p)>> : p \in Physicals}
      [] x = "routes" -> {<<<<"all1500", p>>, BankForConfig(p)>> :
                            p \in {PhysicalConfig(c) : c \in {"llm_static", "s1", "s1s2"}}}
      [] OTHER -> {}

FinalPlan(c) ==
    CASE c = "full" -> <<"val">>
      [] c = "test" -> <<"val", "test", "rebuild", "routes", "summary", "rebuild", "report">>
      [] c = "report" -> <<"rebuild", "report">>
      [] OTHER -> <<>>

-----------------------------------------------------------------------------
Init ==
    /\ outcome = [k \in Keys |-> "none"]
    /\ creator = [s \in Stages |-> "none"]
    /\ feedback = "none"
    /\ bank = [s \in Stages |-> NoBank]
    /\ decision = [s \in Stages |-> NoDecision]
    /\ files = {}
    /\ report = NoReport
    /\ main = "idle"
    /\ exit = "none"
    /\ command = "none"
    /\ stage = "final"
    /\ todo = <<>>
    /\ left = {}
    /\ accepted = FALSE
    /\ asked = [k \in Keys |-> {}]
    /\ crashes = 0

(* Bug: a stage is entered before the one it builds on.                    *)
ThroughSwapped(c) ==
    CASE c = "s1" -> <<"s1">> [] c = "s2" -> <<"s1", "s2">>
      [] c = "report" -> <<>> [] OTHER -> <<"s2", "s1", "full">>

(* The stages a command goes through.                                      *)
Through(c) ==
    CASE c = "s1" -> <<"s1">> [] c = "s2" -> <<"s1", "s2">>
      [] c = "report" -> <<>> [] OTHER -> Order

(* Go to the first stage of the command that has no decision; one that has *)
(* is returned as it is.                                                   *)
Enter(c) ==
    LET th == Through(c)
        open(i) == decision'[th[i]] = NoDecision
    IN  /\ \/ /\ \A i \in DOMAIN th : ~open(i)
              /\ main' = "final" /\ stage' = "final" /\ todo' = FinalPlan(c)
           \/ \E i \in DOMAIN th :
                  /\ open(i) /\ \A j \in 1 .. i - 1 : ~open(j)
                  /\ main' = "gates" /\ stage' = th[i] /\ todo' = Plan[th[i]]
        /\ accepted' = TRUE
        /\ left' = {}

Start(c) ==
    /\ main = "idle"
    /\ exit' = "none" /\ command' = c
    /\ UNCHANGED <<journal, results, reports, asked, crashes>>
    /\ Enter(c)

At(m, x) == main = m /\ todo # <<>> /\ Head(todo) = x

(* On to the steps in rest; after the last gate the Bank is selected.      *)
Continue(rest) ==
    /\ todo' = rest
    /\ main' = IF rest = <<>> THEN "select" ELSE "gates"
    /\ UNCHANGED <<exit, command, stage, left>>

(* The candidate is out: the parent will be selected.                      *)
Reject ==
    /\ todo' = <<>> /\ main' = "select" /\ accepted' = FALSE
    /\ UNCHANGED <<exit, command, stage, left>>

Fail == main' = "idle" /\ exit' = "error" /\ todo' = <<>> /\ left' = {}
        /\ UNCHANGED <<command, stage, accepted>>

(* The Feedback phase (FeedbackBatch): its first pass decides; when format *)
(* retries were made, a resumed pass may lose some of them again.          *)
FeedbackPhase ==
    /\ At("gates", "feedback")
    /\ \E f \in IF feedback = "none" THEN {"rejected", "clean", "retried"} ELSE {feedback} :
           /\ feedback' = f
           /\ IF f = "rejected" THEN Reject
              ELSE \/ Continue(Tail(todo)) /\ UNCHANGED accepted
                   \/ feedback = "retried" /\ (Reject \/ Fail)
    /\ UNCHANGED <<outcome, creator, results, reports, asked, crashes>>

(* The stage's only Creator call and the compilation of its candidate.     *)
CreatorCall ==
    /\ At("gates", "creator")
    /\ \E r \in IF creator[stage] = "none" THEN {"refused", "candidate"}
                ELSE {creator[stage]} :
           /\ creator' = [creator EXCEPT ![stage] = r]
           /\ IF r = "refused" THEN Reject
              ELSE Continue(Tail(todo)) /\ UNCHANGED accepted
    /\ UNCHANGED <<outcome, feedback, results, reports, asked, crashes>>

Request(k, b) == asked' = [asked EXCEPT ![k] = @ \union {b}]

Rejects(x, r) == x \in Gates /\ r = "bad"

(* Bug: S3 keeps a candidate whose metrics fell if its trace did not.      *)
StillAcceptedByTrace(x, r) == accepted

StillAccepted(x, r) == accepted /\ ~(stage = "full" /\ x = "gate" /\ r = "some")

(* A batch of a stage: completed results are reused, the gate then reads   *)
(* them.  The composite replay runs only for a screened candidate.         *)
StageBatch(x) ==
    /\ At("gates", x)
    /\ LET k == KeyOf(stage, x) IN
       \E r \in IF outcome[k] = "none" THEN OutcomesOf(stage, x) ELSE {outcome[k]} :
           /\ outcome' = [outcome EXCEPT ![k] = r]
           /\ Request(k, BankOf(stage, x))
           /\ IF Rejects(x, r) THEN Reject
              ELSE /\ Continue(IF x = "replay" /\ r = "good" THEN Tail(Tail(todo))
                                                             ELSE Tail(todo))
                   /\ accepted' = StillAccepted(x, r)
    /\ UNCHANGED <<creator, feedback, results, reports, crashes>>

(* Bug: a Bank file left by an interrupted process is taken for a clash.   *)
WritableOnce == {NoBank}

Selected == IF accepted THEN Candidate(stage) ELSE Parent(stage)

Writable == {NoBank, Selected}

(* _write_selected_bank: written once, compared on resume.                 *)
Select ==
    /\ main = "select"
    /\ IF bank[stage] \in Writable
       THEN /\ bank' = [bank EXCEPT ![stage] = Selected]
            /\ main' = "decide"
            /\ UNCHANGED <<exit, command, stage, todo, left, accepted>>
       ELSE Fail /\ UNCHANGED bank
    /\ UNCHANGED <<journal, decision, reports, asked, crashes>>

(* _save_decision, then the next stage of the command.                     *)
Decide ==
    /\ main = "decide"
    /\ decision' = [decision EXCEPT ![stage] =
           [accepted |-> accepted, parent |-> Parent(stage), selected |-> Selected]]
    /\ Enter(command)
    /\ UNCHANGED <<journal, bank, reports, exit, command, asked, crashes>>

Advance == todo' = Tail(todo) /\ UNCHANGED <<main, exit, command, stage, left, accepted>>

(* route-all1500.jsonl of an earlier process.                              *)
RoutesWritten(x) == x = "routes" /\ "routes" \in files

(* A final step with a batch for each physical configuration, in the order *)
(* of a Python set, that is in any order.  A test batch stands for the     *)
(* answers and their Final Judge scores.                                   *)
OpenFinal(x) ==
    /\ At("final", x) /\ x \in {"val", "test", "routes"}
    /\ left = {}
    /\ ~RoutesWritten(x)
    /\ left' = BatchesOf(x)
    /\ UNCHANGED <<journal, results, reports, main, exit, command, stage, todo, accepted,
                   asked, crashes>>

(* Route rows already on disk are read back and no call is made.           *)
ReadRoutes ==
    /\ At("final", "routes") /\ RoutesWritten("routes")
    /\ Advance
    /\ UNCHANGED <<journal, results, reports, asked, crashes>>

FinalBatch(kb) ==
    /\ main = "final" /\ kb \in left
    /\ LET k == kb[1] IN
       /\ IF k[1] = "test_frozen" /\ ~AllDecided
          THEN Fail /\ UNCHANGED <<outcome, asked, files>>
          ELSE /\ outcome' = [outcome EXCEPT ![k] = IF @ = "none" THEN "good" ELSE @]
               /\ Request(k, kb[2])
               /\ left' = left \ {kb}
               /\ todo' = (IF left' = {} THEN Tail(todo) ELSE todo)
               /\ files' = (IF left' = {} /\ Head(todo) = "routes"
                            THEN files \union {"routes"} ELSE files)
               /\ UNCHANGED <<main, exit, command, stage, accepted>>
    /\ UNCHANGED <<creator, feedback, results, report, crashes>>

(* Every row comes from a completed call of its physical configuration.    *)
Complete ==
    /\ AllDecided
    /\ \A p \in Physicals :
           \A k \in {<<"val", ValRunLabel(p)>>, <<"test_frozen", p>>} : outcome[k] # "none"

(* rebuild_logical_results: overwrites the two matrices.                   *)
Rebuild ==
    /\ At("final", "rebuild")
    /\ IF Complete
       THEN /\ report' = [c \in Configs |-> asked[<<"test_frozen", PhysicalConfig(c)>>]]
            /\ Advance
       ELSE Fail /\ UNCHANGED report
    /\ UNCHANGED <<journal, results, files, asked, crashes>>

(* The end of _run_all_route_report: its summary is never overwritten.     *)
RouteSummary ==
    /\ At("final", "summary")
    /\ IF "route-summary" \in files THEN Fail /\ UNCHANGED files
       ELSE files' = files \union {"route-summary"} /\ Advance
    /\ UNCHANGED <<journal, results, report, asked, crashes>>

(* build_report, which overwrites its files.                               *)
FinalReport ==
    /\ At("final", "report")
    /\ files' = files \union {"summary"}
    /\ Advance
    /\ UNCHANGED <<journal, results, report, asked, crashes>>

Return ==
    /\ main = "final" /\ todo = <<>>
    /\ main' = "idle" /\ exit' = "ok"
    /\ UNCHANGED <<journal, results, reports, command, stage, todo, left, accepted,
                   asked, crashes>>

(* The process is killed, or stops on a budget error.  A Creator call then *)
(* under way is settled as interrupted, and a batch under way has been     *)
(* requested with its Bank.                                                *)
Crash ==
    /\ main # "idle"
    /\ crashes < MaxCrashes
    /\ crashes' = crashes + 1
    /\ main' = "idle" /\ exit' = "killed" /\ todo' = <<>> /\ left' = {}
    /\ IF At("gates", "creator") /\ creator[stage] = "none"
       THEN \E r \in {"none", "refused"} : creator' = [creator EXCEPT ![stage] = r]
       ELSE UNCHANGED creator
    /\ \/ UNCHANGED asked
       \/ \E x \in Gates \union {"parentGate", "body", "parentSmoke", "parentJudge"} :
              /\ At("gates", x)
              /\ Request(KeyOf(stage, x), BankOf(stage, x))
       \/ \E kb \in left : Request(kb[1], kb[2])
    /\ UNCHANGED <<outcome, feedback, results, reports, command, stage, accepted>>

Step ==
    \/ FeedbackPhase
    \/ CreatorCall
    \/ \E x \in Gates \union {"parentGate", "body", "parentSmoke", "parentJudge"} : StageBatch(x)
    \/ Select
    \/ Decide
    \/ \E x \in {"val", "test", "routes"} : OpenFinal(x)
    \/ ReadRoutes
    \/ \E kb \in left : FinalBatch(kb)
    \/ Rebuild
    \/ RouteSummary
    \/ FinalReport
    \/ Return

Next == Step \/ Crash \/ \E c \in Commands : Start(c)

Spec == Init /\ [][Next]_vars

(* A started process goes on, and the operator does not forget to give the *)
(* full command, again if it was interrupted.                              *)
FairSpec == Spec /\ WF_vars(Step) /\ SF_vars(Start("test"))

-----------------------------------------------------------------------------
(* Properties.                                                             *)

Outcomes == {"bad", "some", "good"}
Steps == {"feedback", "creator", "smoke", "replay", "composite", "parentGate", "gate", "body",
          "parentSmoke", "parentJudge", "judge", "val", "test", "rebuild", "routes", "summary",
          "report"}

(* Every variable holds a value of its type; the process of a stage has    *)
(* that stage's parent Bank, and a decided stage has its selected Bank.    *)
TypeOK ==
    /\ outcome \in [Keys -> Outcomes \union {"none"}]
    /\ creator \in [Stages -> {"none", "refused", "candidate"}]
    /\ feedback \in {"none", "rejected", "clean", "retried"}
    /\ bank \in [Stages -> Banks \union {NoBank}]
    /\ decision \in [Stages -> Decision \union {NoDecision}]
    /\ files \subseteq {"routes", "route-summary", "summary"}
    /\ report = NoReport \/ report \in [Configs -> SUBSET Banks]
    /\ main \in {"idle", "gates", "select", "decide", "final"}
    /\ exit \in {"none", "ok", "error", "killed"}
    /\ command \in Commands \union {"none"}
    /\ stage \in Stages \union {"final"}
    /\ todo \in Seq(Steps)
    /\ left \subseteq Keys \X Banks
    /\ accepted \in BOOLEAN
    /\ asked \in [Keys -> SUBSET Banks]
    /\ crashes \in Nat
    /\ main \in {"gates", "select", "decide"} => stage \in Stages /\ Parent(stage) \in Banks

(* A label names one Bank: over stages, aliases, crashes and resumes, no   *)
(* batch is ever requested, or reused, for two different Banks.            *)
OneBankPerLabel == \A k \in Keys : Cardinality(asked[k]) <= 1

(* An accepted candidate exists and passed every gate of its stage, though *)
(* the gates may have been read by different processes.                    *)
AcceptedPassedGates ==
    \A s \in Stages : Accepted(s) =>
        LET passed(x) == outcome[KeyOf(s, x)] = "good"
        IN  /\ creator[s] = "candidate"
            /\ passed("smoke") /\ passed("gate")
            /\ s = "s1" => passed("replay") \/ passed("composite")
            /\ s = "full" => passed("judge")

(* The Bank file and the decision file agree, though a crash may come      *)
(* between the two writes, and the stages form one lineage: each decision  *)
(* names as its parent what the stage before selected.                     *)
Lineage ==
    \A i \in DOMAIN Order : Decided(Order[i]) =>
        /\ bank[Order[i]] = decision[Order[i]].selected
        /\ decision[Order[i]].parent =
               IF i = 1 THEN "static" ELSE decision[Order[i - 1]].selected

(* What the whole program promises of the stages: see Ladder.              *)
ConfigOf == [s1 |-> "s1", s2 |-> "s1s2", full |-> "full"]

Abstract == INSTANCE Ladder WITH
    Base <- "static",
    Candidates <- [s1 |-> {"raw", "screened"}, s2 |-> {"routed"}, full |-> {"refined"}],
    Undecided <- NoDecision,
    Nothing <- NoReport,
    chosen <- [s \in Stages |-> IF Decided(s) THEN decision[s].selected ELSE NoDecision],
    published <- IF report = NoReport THEN NoReport
                 ELSE [s \in Stages |-> report[ConfigOf[s]]]

(* The detailed program implements the ladder: one decision per stage, in  *)
(* order, inheriting when it rejects, and every row of the test matrix     *)
(* comes from the Bank its configuration selected.                         *)
ImplementsLadder == Abstract!LadderSpec

(* However it is interrupted, a repeated command brings out the matrices,  *)
(* unless Feedback retries were made, which a resumed phase may lose       *)
(* (FeedbackBatch, ResumeReusesResults).                                   *)
Publishes == [](feedback # "retried") => <>(report # NoReport)
=============================================================================
