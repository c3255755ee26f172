---------------------------- MODULE CoreSynthesis -----------------------------
(***************************************************************************)
(* The core synthesis of the portfolio corpus (synthesis/portfolio_core.py *)
(* over synthesis/batches.py and data/__init__.py): work orders, staged    *)
(* revisions, the accepted ledger and its directories, the derived         *)
(* queries.jsonl, the audit sample and its review.                         *)
(*                                                                         *)
(* Commands run one after the other on one run root.  Each step below is   *)
(* one write to the disk with the reads and checks before it; a process    *)
(* may be killed between any two, and a rename of the joint publication    *)
(* may fail, which the code rolls back.                                    *)
(***************************************************************************)
EXTENDS Integers, Sequences, FiniteSets

CONSTANTS
    Size,        \* batches of the active plan, numbered in plan order
    Texts,       \* contents of a batch, told apart by what they repeat
    SampleIds,   \* audit sample names an operator may choose
    NoFile,      \* stands for a file that does not exist
    MaxStops,    \* bound: crashes and failing renames
    MaxRejects   \* bound: revisions rejected, and the number of the last one

Batches == 1 .. Size
Revisions == Batches \X (1 .. MaxRejects + 1)

ASSUME CoreAssumption ==
    /\ Size \in Nat \ {0}
    /\ MaxStops \in Nat /\ MaxRejects \in Nat
    /\ NoFile \notin Texts \union SampleIds \union Seq(Revisions)

VARIABLES
    staging,    \* disk: revisions in staging/
    accepted,   \* disk: revisions in accepted/
    rejected,   \* disk: revisions in rejected/
    content,    \* disk: text of each revision's results.jsonl
    ledger,     \* disk: accepted-ledger.jsonl
    backup,     \* disk: .accepted-ledger.jsonl.backup
    view,       \* disk: revisions concatenated in queries.jsonl
    auto,       \* disk: revisions of the auto-approval ledger
    jobs,       \* disk: checkpoint of each revision's work order
    run,        \* disk: status and audit_sample_id of the run file
    samples,    \* disk: audit-samples/<id>, the corpus it was drawn from
    reviews,    \* disk: audit-samples/<id>/review.json
    todo,       \* steps ahead of the running command, none when it ended
    cmd,        \* the running command and its arguments
    newLedger,  \* memory: ledger bytes accept_generated_batch will publish
    stops       \* bound counter

publication == <<staging, accepted, ledger, backup>>
audit == <<samples, reviews>>
disk == <<publication, rejected, content, view, auto, jobs, run, audit>>
vars == <<disk, todo, cmd, newLedger, stops>>

Commands == {"status", "work-order", "approve", "sample", "pass", "reject"}
NoCommand == [op |-> "none", batch |-> 0, id |-> NoFile]
Terminal == {"approved", "rejected"}
Complete == {"pending"} \union Terminal

-----------------------------------------------------------------------------
(* What the code reads.                                                    *)

(* _load_ledger and _accepted_entries: a missing file is an empty ledger.  *)
Entries == IF ledger = NoFile THEN <<>> ELSE ledger
Entered == {Entries[i] : i \in DOMAIN Entries}

Of(b, S) == {r \in S : r[1] = b}
IsAccepted(b) == Of(b, Entered) # {}
NextBatch == Len(Entries) + 1

(* Bug: a rejected revision's number is given out again.                   *)
NextRevisionFirst(b) == 1

(* next_revision: one more than the highest rejected revision.             *)
NextRevision(b) ==
    1 + (IF Of(b, rejected) = {} THEN 0
         ELSE CHOOSE n \in {r[2] : r \in Of(b, rejected)} :
                  \A r \in Of(b, rejected) : r[2] <= n)

(* corpus_status: the ledger must be a prefix of the plan, and a next      *)
(* batch that is already in accepted/ without being staged is an error.    *)
StatusFails ==
    \/ \E i \in DOMAIN Entries : Entries[i][1] # i
    \/ /\ NextBatch <= Size
       /\ Of(NextBatch, accepted) # {}
       /\ Of(NextBatch, staging) = {}

(* The revision that is being made: the staged one, else the next one.     *)
Current(b) ==
    IF IsAccepted(b) THEN CHOOSE r \in Of(b, Entered) : TRUE
    ELSE IF Of(b, staging) # {} THEN CHOOSE r \in Of(b, staging) : TRUE
    ELSE <<b, NextRevision(b)>>

(* Bug: the complete corpus is not verified before it is reported.         *)
UnverifiedCorpus == TRUE

(* verify_accepted_corpus.                                                 *)
VerifiedCorpus == ledger # NoFile /\ accepted = Entered /\ view = Entries

ViewTexts == {content[view[i]] : i \in DOMAIN view}

-----------------------------------------------------------------------------
(* Control of a command.                                                   *)

Init ==
    /\ staging = {} /\ accepted = {} /\ rejected = {}
    /\ content = [r \in Revisions |-> NoFile]
    /\ ledger = NoFile /\ backup = NoFile
    /\ view = <<>>
    /\ auto = {}
    /\ jobs = [r \in Revisions |-> "none"]
    /\ run = [status |-> "ready", sample |-> NoFile]
    /\ samples = [s \in SampleIds |-> NoFile]
    /\ reviews = [s \in SampleIds |-> "none"]
    /\ todo = <<>> /\ cmd = NoCommand /\ newLedger = NoFile
    /\ stops = 0

At(x) == todo # <<>> /\ Head(todo) = x

Go(rest) ==
    /\ todo' = rest
    /\ cmd' = IF rest = <<>> THEN NoCommand ELSE cmd

(* The command raises; nothing it held in memory is left.                  *)
Fail == todo' = <<>> /\ cmd' = NoCommand /\ newLedger' = NoFile

Pop == Go(Tail(todo)) /\ UNCHANGED newLedger

Reconciled == <<"sync", "run">>

Plan(op) ==
    CASE op = "status" -> Reconciled
      [] op = "work-order" -> Reconciled \o <<"issue">>
      [] op = "approve" -> Reconciled \o <<"branch">>
      [] op = "sample" -> Reconciled \o <<"sample">>
      [] op \in {"pass", "reject"} -> <<"review">>

(* The operator gives a command.  approve-batch on a run with a verdict is *)
(* refused before it does anything.                                        *)
Start(op, b, s) ==
    /\ todo = <<>>
    /\ op = "approve" => run.status \notin Terminal
    /\ todo' = Plan(op)
    /\ cmd' = [op |-> op, batch |-> b, id |-> s]
    /\ UNCHANGED <<disk, newLedger, stops>>

-----------------------------------------------------------------------------
(* The steps every command begins with: _update_run_from_workflow.         *)

(* _sync_auto_ledger: every automatic approval must be in the accepted     *)
(* ledger, and those it lacks are added.                                   *)
Sync ==
    /\ At("sync")
    /\ IF StatusFails \/ ~(auto \subseteq Entered)
       THEN Fail /\ UNCHANGED auto
       ELSE auto' = Entered /\ Pop
    /\ UNCHANGED <<publication, rejected, content, view, jobs, run, audit, stops>>

(* The status of the run follows the ledger; a complete corpus is verified *)
(* before it is reported, and a verdict stays.                             *)
WriteRun ==
    /\ At("run")
    /\ IF NextBatch > Size /\ ~VerifiedCorpus
       THEN Fail /\ UNCHANGED run
       ELSE /\ run' = [run EXCEPT !.status =
                   IF @ \in Terminal THEN @
                   ELSE IF Entries = <<>> THEN "ready"
                   ELSE IF NextBatch > Size THEN "pending" ELSE "running"]
            /\ Pop
    /\ UNCHANGED <<publication, rejected, content, view, auto, jobs, audit, stops>>

-----------------------------------------------------------------------------
(* Work orders.                                                            *)

(* What _reconcile_codex_job_checkpoint finds on disk.                     *)
Evidence(r) ==
    IF IsAccepted(r[1]) THEN "accepted"
    ELSE IF Of(r[1], staging) # {} THEN "staged" ELSE "issued"

(* A checkpoint never moves backward: output it names must still be there. *)
Reconcile(r, next) ==
    IF jobs[r] = "issued" \/ Evidence(r) = jobs[r] \/ Evidence(r) = "accepted"
    THEN jobs' = [jobs EXCEPT ![r] = Evidence(r)] /\ Go(next) /\ UNCHANGED newLedger
    ELSE Fail /\ UNCHANGED jobs

(* emit_or_retrieve_codex_work_order: the order of the next revision is    *)
(* created once and found again afterwards.                                *)
Issue ==
    /\ At("issue")
    /\ IF run.status \in Terminal \/ NextBatch > Size THEN Fail /\ UNCHANGED jobs
       ELSE LET r == Current(NextBatch)
            IN  IF jobs[r] # "none" THEN Reconcile(r, <<>>)
                ELSE jobs' = [jobs EXCEPT ![r] = "issued"] /\ Pop
    /\ UNCHANGED <<publication, rejected, content, view, auto, run, audit, stops>>

-----------------------------------------------------------------------------
(* auto_approve_core_batch.                                                *)

IfJob(r, x) == IF jobs[r] # "none" THEN <<x>> ELSE <<>>

Publication == <<"recover", "retire", "move", "commit", "clean">>
Settle(r) == <<"rebuild">> \o IfJob(r, "reconcile") \o Reconciled

(* Bug: a batch that an earlier process staged is staged again.            *)
StageAgain(r) == <<"stage">> \o IfJob(r, "bind")

StageIfNeeded(r) == IF Of(r[1], staging) # {} THEN <<>> ELSE <<"stage">> \o IfJob(r, "bind")

(* A batch in the ledger is only settled again; else it must be the next   *)
(* one, and is staged, unless it is staged already, and published.         *)
Branch ==
    /\ At("branch")
    /\ LET b == cmd.batch
           r == Current(b)
       IN  IF IsAccepted(b) THEN Go(Settle(r)) /\ UNCHANGED newLedger
           ELSE IF b # NextBatch THEN Fail
           ELSE /\ Go(IfJob(r, "reconcile") \o StageIfNeeded(r) \o Publication \o Settle(r))
                /\ UNCHANGED newLedger
    /\ UNCHANGED <<disk, stops>>

ReconcileJob ==
    /\ At("reconcile")
    /\ Reconcile(Current(cmd.batch), Tail(todo))
    /\ UNCHANGED <<publication, rejected, content, view, auto, run, audit, stops>>

(* stage_generated_batch: the author's draft may not repeat what           *)
(* queries.jsonl holds.                                                    *)
Stage(t) ==
    /\ At("stage")
    /\ Of(cmd.batch, staging \union accepted) = {}
    /\ t \notin ViewTexts
    /\ LET r == <<cmd.batch, NextRevision(cmd.batch)>>
       IN  staging' = staging \union {r} /\ content' = [content EXCEPT ![r] = t]
    /\ Pop
    /\ UNCHANGED <<accepted, ledger, backup, rejected, view, auto, jobs, run, audit, stops>>

StageRefused ==
    /\ At("stage")
    /\ \/ Of(cmd.batch, staging \union accepted) # {}
       \/ Texts \intersect ViewTexts # {}
    /\ Fail
    /\ UNCHANGED <<disk, stops>>

(* _write_codex_checkpoint after staging.                                  *)
Bind ==
    /\ At("bind")
    /\ jobs' = [jobs EXCEPT ![Current(cmd.batch)] = "staged"]
    /\ Pop
    /\ UNCHANGED <<publication, rejected, content, view, auto, run, audit, stops>>

(* Bug: the backup is always taken for the ledger that was lost.           *)
RecoveredFromBackup == IF backup = NoFile THEN ledger ELSE backup

(* recover_directory_and_file_publish, with no directory backup: accepted/ *)
(* never holds a revision that is published again.                         *)
RecoveredLedger == IF ledger = NoFile THEN backup ELSE ledger

(* accept_generated_batch has read the ledger and computes the new one;    *)
(* publish_staged_directory_and_file first recovers.                       *)
Recover ==
    /\ At("recover")
    /\ newLedger' = Append(Entries, Current(cmd.batch))
    /\ ledger' = RecoveredLedger
    /\ accepted' = IF ledger = NoFile /\ backup # NoFile
                   THEN accepted \ {Current(cmd.batch)} ELSE accepted
    /\ backup' = NoFile
    /\ Go(Tail(todo))
    /\ UNCHANGED <<staging, rejected, content, view, auto, jobs, run, audit, stops>>

(* The old ledger, if there is one, becomes the backup.                    *)
Retire ==
    /\ At("retire")
    /\ backup' = ledger /\ ledger' = NoFile
    /\ Pop
    /\ UNCHANGED <<staging, accepted, rejected, content, view, auto, jobs, run, audit, stops>>

(* The revision newLedger ends with.                                       *)
Published == newLedger[Len(newLedger)]

Move ==
    /\ At("move")
    /\ staging' = staging \ {Published} /\ accepted' = accepted \union {Published}
    /\ Pop
    /\ UNCHANGED <<ledger, backup, rejected, content, view, auto, jobs, run, audit, stops>>

Commit ==
    /\ At("commit")
    /\ ledger' = newLedger /\ newLedger' = NoFile
    /\ Go(Tail(todo))
    /\ UNCHANGED <<staging, accepted, backup, rejected, content, view, auto, jobs, run, audit,
                   stops>>

Clean ==
    /\ At("clean")
    /\ backup' = NoFile
    /\ Pop
    /\ UNCHANGED <<staging, accepted, ledger, rejected, content, view, auto, jobs, run, audit,
                   stops>>

(* rebuild_accepted_queries.                                               *)
Rebuild ==
    /\ At("rebuild")
    /\ IF Entered \subseteq accepted THEN view' = Entries /\ Pop
       ELSE Fail /\ UNCHANGED view
    /\ UNCHANGED <<publication, rejected, content, auto, jobs, run, audit, stops>>

(* A rename of the publication fails: the code deletes the directory it    *)
(* has published and puts the old ledger back.                             *)
RenameFails ==
    /\ stops < MaxStops
    /\ (At("retire") /\ ledger # NoFile) \/ At("move") \/ At("commit")
    /\ accepted' = IF At("commit") THEN accepted \ {Published} ELSE accepted
    /\ ledger' = IF backup = NoFile THEN ledger ELSE backup
    /\ backup' = NoFile
    /\ Fail
    /\ stops' = stops + 1
    /\ UNCHANGED <<staging, rejected, content, view, auto, jobs, run, audit>>

(* reject_generated_batch, one rename: reason.json, written just before    *)
(* it, is read by nobody.                                                  *)
RejectBatch(r) ==
    /\ todo = <<>>
    /\ r \in staging
    /\ Cardinality(rejected) < MaxRejects /\ r[2] <= MaxRejects
    /\ staging' = staging \ {r} /\ rejected' = rejected \union {r}
    /\ UNCHANGED <<accepted, ledger, backup, content, view, auto, jobs, run, audit, todo, cmd,
                   newLedger, stops>>

-----------------------------------------------------------------------------
(* The audit of the complete corpus.                                       *)

(* create_audit_sample: the package is published once, from the verified   *)
(* corpus, and must be the same when it is found again.                    *)
PublishSample ==
    /\ At("sample")
    /\ LET s == cmd.id IN
       IF \/ run.status \notin {"pending", "approved"} \/ ~VerifiedCorpus
          \/ run.sample \notin {NoFile, s}
          \/ samples[s] \notin {NoFile, view}
       THEN Fail /\ UNCHANGED samples
       ELSE samples' = [samples EXCEPT ![s] = view] /\ Go(<<"name">>) /\ UNCHANGED newLedger
    /\ UNCHANGED <<publication, rejected, content, view, auto, jobs, run, reviews, stops>>

NameSample ==
    /\ At("name")
    /\ run' = [run EXCEPT !.sample = cmd.id]
    /\ Pop
    /\ UNCHANGED <<publication, rejected, content, view, auto, jobs, audit, stops>>

(* Bug: a review that is already there is replaced.                        *)
ReviewAnyway(s, d) == TRUE

ReviewFits(s, d) == reviews[s] \in {"none", d}

(* record_audit_review: of the run's own sample, drawn from the corpus as  *)
(* it is; the review is written once.                                      *)
Review ==
    /\ At("review")
    /\ LET s == cmd.id IN
       IF \/ run.sample # s \/ run.status \notin Complete
          \/ ~VerifiedCorpus \/ Len(view) # Size \/ samples[s] # view
          \/ ~ReviewFits(s, cmd.op)
       THEN Fail /\ UNCHANGED reviews
       ELSE reviews' = [reviews EXCEPT ![s] = cmd.op] /\ Go(<<"verdict">>) /\ UNCHANGED newLedger
    /\ UNCHANGED <<publication, rejected, content, view, auto, jobs, run, samples, stops>>

(* Bug: the decision itself is written as the status of the run.           *)
VerdictVerbatim(d) == d

VerdictOf(d) == IF d = "pass" THEN "approved" ELSE "rejected"

Verdict ==
    /\ At("verdict")
    /\ LET v == VerdictOf(cmd.op)
       IN  IF run.status \in Terminal \ {v} THEN Fail /\ UNCHANGED run
           ELSE run' = [run EXCEPT !.status = v] /\ Pop
    /\ UNCHANGED <<publication, rejected, content, view, auto, jobs, audit, stops>>

-----------------------------------------------------------------------------
Crash ==
    /\ todo # <<>>
    /\ stops < MaxStops
    /\ stops' = stops + 1
    /\ Fail
    /\ UNCHANGED disk

Step ==
    \/ Sync \/ WriteRun \/ Issue \/ Branch \/ ReconcileJob
    \/ \E t \in Texts : Stage(t)
    \/ StageRefused \/ Bind
    \/ Recover \/ Retire \/ Move \/ Commit \/ Clean \/ Rebuild
    \/ PublishSample \/ NameSample \/ Review \/ Verdict

Operator ==
    \/ \E op \in {"status", "work-order"} : Start(op, 0, NoFile)
    \/ \E b \in Batches : Start("approve", b, NoFile)
    \/ \E op \in {"sample", "pass", "reject"}, s \in SampleIds : Start(op, 0, s)
    \/ \E r \in Revisions : RejectBatch(r)

Next == Step \/ Operator \/ Crash \/ RenameFails

Spec == Init /\ [][Next]_vars

(* A command that was started goes on; the operator goes on approving the  *)
(* batches, the last one again if need be; and among the author's drafts   *)
(* there is always one that repeats nothing.                               *)
FairSpec ==
    /\ Spec
    /\ WF_vars(Step)
    /\ \A b \in Batches : SF_vars(Start("approve", b, NoFile))
    /\ SF_vars(\E t \in Texts : Stage(t))

-----------------------------------------------------------------------------
(* Properties.                                                             *)

SeqOfRevisions == Seq(Revisions)
File == SeqOfRevisions \union {NoFile}

Steps == {"sync", "run", "issue", "branch", "reconcile", "stage", "bind", "recover", "retire",
          "move", "commit", "clean", "rebuild", "sample", "name", "review", "verdict"}

(* Every variable holds a value of its type.                               *)
TypeOK ==
    /\ staging \subseteq Revisions /\ accepted \subseteq Revisions
    /\ rejected \subseteq Revisions
    /\ content \in [Revisions -> Texts \union {NoFile}]
    /\ ledger \in File /\ backup \in File /\ newLedger \in File
    /\ view \in SeqOfRevisions
    /\ auto \subseteq Revisions
    /\ jobs \in [Revisions -> {"none", "issued", "staged", "accepted"}]
    /\ run \in [status : {"ready", "running"} \union Complete,
                sample : SampleIds \union {NoFile}]
    /\ samples \in [SampleIds -> File]
    /\ reviews \in [SampleIds -> {"none", "pass", "reject"}]
    /\ todo \in Seq(Steps)
    /\ cmd \in [op : Commands \union {"none"}, batch : 0 .. Size,
               id : SampleIds \union {NoFile}]
    /\ stops \in Nat

(* The ledger as the publication left it or will put it back.              *)
Committed == IF ledger # NoFile THEN ledger ELSE IF backup # NoFile THEN backup ELSE <<>>

Abstract == INSTANCE Corpus WITH
    corpus <- [i \in DOMAIN Committed |-> content[Committed[i]]],
    verdict <- IF run.status \in Terminal THEN run.status ELSE "open"

(* Whatever is interrupted, rolled back or repeated, the accepted batches  *)
(* are one corpus: it grows in plan order, no accepted text is replaced or *)
(* withdrawn, and one verdict is given, on the complete corpus.            *)
ImplementsCorpus == Abstract!CorpusSpec

(* A run that reports its corpus as complete has it: every batch in the    *)
(* ledger, in accepted/ and in queries.jsonl, then and ever after.         *)
ReadyMeansComplete ==
    run.status \in Complete =>
        /\ ledger # NoFile /\ Len(ledger) = Size
        /\ accepted = Entered
        /\ view = ledger

(* The verdict of a run is the review of its own sample, and the sample    *)
(* was drawn from the corpus that queries.jsonl holds now.                 *)
VerdictFollowsReview ==
    run.status \in Terminal =>
        /\ run.sample # NoFile
        /\ reviews[run.sample] # "none"
        /\ run.status = VerdictOf(reviews[run.sample])
        /\ samples[run.sample] = view

Homes(r) == {h \in {"staging", "accepted", "rejected"} :
                r \in [staging |-> staging, accepted |-> accepted, rejected |-> rejected][h]}

(* A revision number stands for one text: it is never given out twice, and *)
(* at most one revision of a batch is staged or accepted.                  *)
RevisionsDistinct ==
    /\ \A r \in Revisions : Cardinality(Homes(r)) <= 1
    /\ \A b \in Batches : Cardinality(Of(b, staging \union accepted)) <= 1

(* States no command leads out of: the publication of a batch was          *)
(* interrupted while the ledger was away; the last batch is in the ledger  *)
(* but not in queries.jsonl; or a failed rename has deleted the revision a *)
(* work order's checkpoint names.                                          *)
Torn == ledger = NoFile /\ accepted # {}
Unbuilt == Len(Entries) = Size /\ view # Entries
Deleted == NextBatch <= Size /\ jobs[Current(NextBatch)] = "staged"
                             /\ Of(NextBatch, staging) = {}

Stranded == todo = <<>> /\ (Torn \/ Unbuilt \/ Deleted)

(* Except from these states, approving batches again and again completes   *)
(* the corpus, wherever earlier processes were stopped.                    *)
Completes == []~Stranded => <>(run.status \in Complete)

(* "If a process stops just after staging/accepted was published, before   *)
(* the checkpoint or the outer state is updated, repeating work-order or   *)
(* approve-batch recovers" (docs/portfolio-core-synthesis-runbook.md:104): *)
(* a ledger with every batch is eventually reported.                       *)
PublishedIsReported == Len(Entries) = Size ~> run.status \in Complete

(* "Every batch must still pass the ... repeated-text check"               *)
(* (docs/portfolio-core-synthesis-runbook.md:17): no two accepted batches  *)
(* repeat each other.                                                      *)
NoRepeatedText ==
    \A i, j \in DOMAIN Entries :
        i # j => content[Entries[i]] # content[Entries[j]]
=============================================================================
