------------------------- MODULE CoreSynthesisProofs -------------------------
(***************************************************************************)
(* Theorems of CoreSynthesis: an inductive invariant, the safety           *)
(* properties and the refinement of Corpus.                                *)
(*                                                                         *)
(* A command is a list of steps ahead.  That a step finds the disk as it   *)
(* needs it follows from the steps that must have come before it, so the   *)
(* invariant says which lists there are, and, for the step at the head of  *)
(* the list, what the earlier ones have established.  The lemmas on its    *)
(* data come first, then one lemma per action; in each, what holds of the  *)
(* disk and what holds of the command.                                     *)
(***************************************************************************)
EXTENDS CoreSynthesis, SequenceTheorems, FiniteSetTheorems, WellFoundedInduction, TLAPS

-----------------------------------------------------------------------------
(* The steps a command may have ahead, and which may come next to which.   *)

StepsOf(op) ==
    CASE op = "status" -> {"sync", "run"}
      [] op = "work-order" -> {"sync", "run", "issue"}
      [] op = "approve" -> {"sync", "run", "branch", "reconcile", "stage", "bind", "recover",
                            "retire", "move", "commit", "clean", "rebuild"}
      [] op = "sample" -> {"sync", "run", "sample", "name"}
      [] op \in {"pass", "reject"} -> {"review", "verdict"}
      [] OTHER -> {}

Neighbours ==
    {<<"sync", "run">>, <<"run", "issue">>, <<"run", "branch">>, <<"run", "sample">>,
     <<"reconcile", "stage">>, <<"reconcile", "recover">>, <<"reconcile", "sync">>,
     <<"stage", "bind">>, <<"stage", "recover">>, <<"bind", "recover">>,
     <<"recover", "retire">>, <<"retire", "move">>, <<"move", "commit">>,
     <<"commit", "clean">>, <<"clean", "rebuild">>,
     <<"rebuild", "reconcile">>, <<"rebuild", "sync">>}

Lasts == {"run", "issue", "branch", "sample", "name", "review", "verdict"}

(* Only a plan that begins with a reconciliation of the work order goes on *)
(* to stage or publish after it; the later one is followed by "sync".      *)
Chain(s) ==
    \A i \in 1 .. Len(s) - 1 :
        /\ <<s[i], s[i + 1]>> \in Neighbours
        /\ i > 1 /\ s[i] = "reconcile" => s[i + 1] = "sync"

Linked(s, op) == s \in Seq(StepsOf(op)) /\ s # <<>> /\ Chain(s)

Ordered(s, op) == s # <<>> => Linked(s, op) /\ s[Len(s)] \in Lasts

Plans == Ordered(todo, cmd.op)

-----------------------------------------------------------------------------
(* A batch is on its way into the ledger; it is staged already.            *)
Preparing ==
    \/ At("stage") \/ At("bind") \/ At("recover")
    \/ At("reconcile") /\ todo[2] \in {"stage", "recover"}
Prepared ==
    \/ At("bind") \/ At("recover")
    \/ At("reconcile") /\ todo[2] = "recover"
Publishing == At("retire") \/ At("move") \/ At("commit")

(* The arguments fit the command.                                          *)
Arguments ==
    /\ cmd.op = "approve" => cmd.batch \in Batches
    /\ cmd.op \in {"sample", "pass", "reject"} => cmd.id \in SampleIds

(* The ledger lists the batches in order, each with its text.              *)
InOrder ==
    /\ ledger # <<>> /\ backup # <<>>
    /\ \A i \in DOMAIN Committed :
           Committed[i][1] = i /\ content[Committed[i]] \in Texts
    /\ \A r \in staging : content[r] \in Texts

(* While the ledger is away, the automatic approvals tell that there is    *)
(* one; so no command that has compared the two finds it away.             *)
AwayIsNoticed == ledger = NoFile /\ backup # NoFile => auto # {}

Compared ==
    At("run") \/ At("branch") \/ Preparing =>
        /\ ledger = NoFile => backup = NoFile
        /\ ledger # NoFile => auto # {}

NextInPlan ==
    /\ Preparing \/ Publishing => cmd.batch = Len(Committed) + 1
    /\ Prepared => Of(cmd.batch, staging) # {}

NewLedgerFits ==
    Publishing =>
        \E x \in Revisions :
            /\ newLedger = Append(Committed, x)
            /\ x[1] = cmd.batch /\ content[x] \in Texts
            /\ ~At("commit") => x \in staging

FilesInPublication ==
    /\ At("retire") => backup = NoFile /\ (ledger # NoFile => auto # {})
    /\ At("move") \/ At("commit") => ledger = NoFile
    /\ At("clean") => ledger # NoFile

NoVerdictYet == cmd.op = "approve" => run.status \notin Terminal

Naming == At("name") => samples[cmd.id] = view /\ run.sample \in {NoFile, cmd.id}

Judging ==
    At("verdict") =>
        /\ run.status \in Complete
        /\ run.sample = cmd.id
        /\ reviews[cmd.id] = cmd.op
        /\ samples[cmd.id] = view

(* One home for each revision, one revision of each batch at work.         *)
Homed ==
    /\ staging \intersect accepted = {}
    /\ rejected \intersect (staging \union accepted) = {}
    /\ \A r, q \in staging \union accepted : r[1] = q[1] => r = q
    /\ \A r \in rejected : r[2] <= MaxRejects

(* What holds of the disk, and what of the command at its point.           *)
DiskInv == InOrder /\ AwayIsNoticed /\ Homed /\ ReadyMeansComplete /\ VerdictFollowsReview

ControlInv ==
    /\ Plans /\ Arguments /\ Compared /\ NextInPlan /\ NewLedgerFits
    /\ FilesInPublication /\ NoVerdictYet /\ Naming /\ Judging

IInv == TypeOK /\ DiskInv /\ ControlInv

-----------------------------------------------------------------------------
(* Lemmas on plans.                                                        *)

(* s may be followed by t.                                                 *)
Joins(s, t) ==
    /\ <<s[Len(s)], t[1]>> \in Neighbours
    /\ t[1] = "reconcile" => Len(t) > 1 /\ t[2] = "sync"
    /\ Len(s) = 1 \/ s[Len(s)] # "reconcile"

(* u begins like s and ends like t.                                        *)
Joined(u, s, t) ==
    /\ Len(u) = Len(s) + Len(t)
    /\ u[1] = s[1]
    /\ Len(s) = 1 => u[2] = t[1]
    /\ Len(s) # 1 => u[2] = s[2]
    /\ u[Len(u)] = t[Len(t)]

(* Two linked plans that fit join to a linked plan.                        *)
LEMMA JoinLinked ==
    ASSUME NEW op, NEW s, NEW t, Linked(s, op), Linked(t, op), Joins(s, t)
    PROVE  Linked(s \o t, op) /\ Joined(s \o t, s, t)
<1> DEFINE S == StepsOf(op)  u == s \o t
<1>1. /\ s \in Seq(S) /\ t \in Seq(S) /\ s # <<>> /\ t # <<>>
      /\ Chain(s) /\ Chain(t)
      /\ <<s[Len(s)], t[1]>> \in Neighbours
      /\ t[1] = "reconcile" => Len(t) > 1 /\ t[2] = "sync"
      /\ Len(s) = 1 \/ s[Len(s)] # "reconcile"
  BY DEF Linked, Joins
<1>2. Len(s) \in Nat \ {0} /\ Len(t) \in Nat \ {0}
  BY <1>1, EmptySeq
<1>3. /\ u \in Seq(S) /\ Len(u) = Len(s) + Len(t)
      /\ \A i \in 1 .. Len(s) + Len(t) : u[i] = IF i <= Len(s) THEN s[i] ELSE t[i - Len(s)]
  BY <1>1, ConcatProperties
<1> HIDE DEF S, u
<1>4. u # <<>>
  BY <1>2, <1>3, EmptySeq
<1>5. Chain(u)
  <2> SUFFICES ASSUME NEW i \in 1 .. Len(u) - 1
               PROVE  /\ <<u[i], u[i + 1]>> \in Neighbours
                      /\ i > 1 /\ u[i] = "reconcile" => u[i + 1] = "sync"
    BY DEF Chain
  <2>1. CASE i < Len(s)
    <3>1. u[i] = s[i] /\ u[i + 1] = s[i + 1] /\ i \in 1 .. Len(s) - 1
      BY <1>2, <1>3, <2>1
    <3> QED
      BY <1>1, <3>1 DEF Chain
  <2>2. CASE i = Len(s)
    <3>1. i + 1 \in 1 .. Len(s) + Len(t) /\ ~(i + 1 <= Len(s)) /\ (i + 1) - Len(s) = 1
      BY <1>2, <2>2
    <3>2. u[i] = s[Len(s)] /\ u[i + 1] = t[1]
      BY <1>2, <1>3, <2>2, <3>1
    <3> QED
      BY <1>1, <1>2, <2>2, <3>2
  <2>3. CASE i > Len(s)
    <3> DEFINE j == i - Len(s)
    <3>1. u[i] = t[j] /\ u[i + 1] = t[j + 1] /\ j \in 1 .. Len(t) - 1
      BY <1>2, <1>3, <2>3
    <3>2. CASE j = 1
      BY <1>1, <3>1, <3>2 DEF Chain
    <3>3. CASE j > 1
      BY <1>1, <3>1, <3>3 DEF Chain
    <3> QED
      BY <1>2, <3>1, <3>2, <3>3
  <2> QED
    BY <1>2, <1>3, <2>1, <2>2, <2>3
<1>6. /\ u[1] = s[1]
      /\ Len(s) = 1 => u[2] = t[1]
      /\ Len(s) # 1 => u[2] = s[2]
      /\ u[Len(u)] = t[Len(t)]
  <2>1. u[1] = s[1]
    BY <1>2, <1>3
  <2>2. (Len(s) = 1 => u[2] = t[1]) /\ (Len(s) # 1 => u[2] = s[2])
    <3>1. CASE Len(s) = 1
      <4>1. 2 \in 1 .. Len(s) + Len(t) /\ ~(2 <= Len(s)) /\ 2 - Len(s) = 1
        BY <1>2, <3>1
      <4> QED
        BY <1>3, <3>1, <4>1
    <3>2. CASE Len(s) # 1
      <4>1. \A m, n \in Nat \ {0} : m # 1 => 2 \in 1 .. m + n /\ 2 <= m
        OBVIOUS
      <4>2. 2 \in 1 .. Len(s) + Len(t) /\ 2 <= Len(s)
        BY <1>2, <3>2, <4>1
      <4> QED
        BY <1>3, <3>2, <4>2
    <3> QED
      BY <3>1, <3>2
  <2>3. u[Len(u)] = t[Len(t)]
    <3>1. Len(u) \in 1 .. Len(s) + Len(t) /\ ~(Len(u) <= Len(s)) /\ Len(u) - Len(s) = Len(t)
      BY <1>2, <1>3
    <3> QED
      BY <1>3, <3>1
  <2> QED
    BY <2>1, <2>2, <2>3
<1> QED
  BY <1>3, <1>4, <1>5, <1>6 DEF Linked, Joined, S, u

(* What is left of an ordered plan is ordered.                             *)
LEMMA TailOrdered ==
    ASSUME NEW op, NEW t, Ordered(t, op), t # <<>>
    PROVE  /\ Ordered(Tail(t), op)
           /\ Tail(t) # <<>> =>
                /\ <<Head(t), Head(Tail(t))>> \in Neighbours
                /\ Head(Tail(t)) = t[2] /\ t[2] \in StepsOf(op)
                /\ Head(Tail(t)) = "reconcile" => Tail(t)[2] = "sync"
           /\ Tail(t) = <<>> => Head(t) \in Lasts
           /\ Head(t) \in StepsOf(op)
<1> DEFINE S == StepsOf(op)  u == Tail(t)
<1>1. t \in Seq(S) /\ Chain(t) /\ t[Len(t)] \in Lasts
  BY DEF Ordered, Linked
<1>2. /\ u \in Seq(S) /\ Len(u) = Len(t) - 1 /\ Len(t) \in Nat \ {0}
      /\ \A i \in 1 .. Len(u) : u[i] = t[i + 1]
  BY <1>1, HeadTailProperties, EmptySeq
<1>3. Head(t) = t[1] /\ t[1] \in S
  BY <1>1, <1>2
<1>4. CASE u = <<>>
  <2>1. Len(t) = 1
    BY <1>2, <1>4, EmptySeq
  <2> QED
    BY <1>1, <1>3, <1>4, <2>1 DEF Ordered
<1>5. CASE u # <<>>
  <2>1. Len(u) \in Nat \ {0}
    BY <1>2, <1>5, EmptySeq
  <2>2. Head(u) = t[2] /\ u[1] = t[2] /\ t[2] \in S /\ Len(t) >= 2
    BY <1>1, <1>2, <2>1
  <2>3. <<t[1], t[2]>> \in Neighbours
    BY <1>1, <2>2 DEF Chain
  <2>4. u[Len(u)] \in Lasts
    BY <1>1, <1>2, <2>1
  <2>5. Chain(u)
    <3> SUFFICES ASSUME NEW i \in 1 .. Len(u) - 1
                 PROVE  /\ <<u[i], u[i + 1]>> \in Neighbours
                        /\ i > 1 /\ u[i] = "reconcile" => u[i + 1] = "sync"
      BY DEF Chain
    <3>1. u[i] = t[i + 1] /\ u[i + 1] = t[i + 2] /\ i + 1 \in 1 .. Len(t) - 1
      BY <1>2, <2>1
    <3>2. /\ <<t[i + 1], t[(i + 1) + 1]>> \in Neighbours
          /\ i + 1 > 1 /\ t[i + 1] = "reconcile" => t[(i + 1) + 1] = "sync"
      BY <1>1, <3>1 DEF Chain
    <3> QED
      BY <3>1, <3>2
  <2>6. t[2] = "reconcile" => u[2] = "sync"
    <3> SUFFICES ASSUME t[2] = "reconcile" PROVE u[2] = "sync"
      OBVIOUS
    <3>1. Len(t) # 2
      BY <1>1 DEF Lasts
    <3>2. u[2] = t[2 + 1] /\ 2 \in 1 .. Len(t) - 1 /\ 2 > 1
      BY <1>2, <2>2, <3>1
    <3> QED
      BY <1>1, <3>2 DEF Chain
  <2> QED
    BY <1>2, <1>3, <1>5, <2>2, <2>3, <2>4, <2>5, <2>6 DEF Ordered, Linked
<1> QED
  BY <1>4, <1>5

(* An ordered plan is made of steps.                                       *)
LEMMA OrderedTyped ==
    ASSUME NEW op, NEW t, Ordered(t, op)
    PROVE  t \in Seq(Steps)
<1>1. CASE t = <<>>
  BY <1>1
<1>2. CASE t # <<>>
  <2>1. t \in Seq(StepsOf(op))
    BY <1>2 DEF Ordered, Linked
  <2>2. StepsOf(op) \subseteq Steps
    BY DEF StepsOf, Steps
  <2> QED
    BY <2>1, <2>2, ElementOfSeq, LenProperties, SeqDef
<1> QED
  BY <1>1, <1>2

(* The plan of an approval.                                                *)
LEMMA PublicationLinked ==
    /\ Linked(Publication, "approve")
    /\ Len(Publication) = 5 /\ Publication[1] = "recover" /\ Publication[5] = "clean"
BY DEF Publication, Linked, Chain, StepsOf, Neighbours

(* The end of an approval: rebuild, reconcile the work order if there is one,*)
(* report.                                                                 *)
LEMMA SettleLinked ==
    ASSUME NEW r
    PROVE  /\ Linked(Settle(r), "approve")
           /\ Settle(r)[1] = "rebuild"
           /\ Settle(r)[Len(Settle(r))] = "run"
<1> DEFINE A == <<"rebuild">>  C == <<"reconcile">>  R == <<"sync", "run">>  op == "approve"
<1>1. Linked(A, op) /\ Linked(C, op) /\ Linked(R, op)
  BY DEF Linked, Chain, StepsOf, Neighbours
<1>2. Joins(A, R) /\ Joins(C, R)
  BY DEF Joins, Neighbours
<1>3. CASE jobs[r] = "none"
  <2>1. Settle(r) = (A \o <<>>) \o R
    BY <1>3 DEF Settle, IfJob, Reconciled
  <2>2. A \o <<>> = A
    BY <1>1, ConcatEmptySeq DEF Linked
  <2>3. Linked(A \o R, op) /\ Joined(A \o R, A, R)
    <3> HIDE DEF A, R, op
    <3> QED
      BY <1>1, <1>2, JoinLinked
  <2>4. Settle(r) = A \o R
    BY <2>1, <2>2
  <2> QED
    BY <2>3, <2>4 DEF Joined
<1>4. CASE jobs[r] # "none"
  <2> DEFINE T == C \o R
  <2>1. Settle(r) = (A \o C) \o R
    BY <1>4 DEF Settle, IfJob, Reconciled
  <2>2. Settle(r) = A \o T
    <3> HIDE DEF A, C, R, op
    <3> QED
      BY <1>1, <2>1, ConcatAssociative DEF Linked
  <2>3. Linked(T, op) /\ Joined(T, C, R)
    <3> HIDE DEF C, R, op
    <3> QED
      BY <1>1, <1>2, JoinLinked
  <2> HIDE DEF T
  <2>4. Len(T) = 3 /\ T[1] = "reconcile" /\ T[2] = "sync" /\ T[Len(T)] = "run"
    BY <2>3 DEF Joined
  <2>5. Joins(A, T)
    BY <2>4 DEF Joins, Neighbours
  <2>6. Linked(A \o T, op) /\ Joined(A \o T, A, T)
    <3> HIDE DEF A, op
    <3> QED
      BY <1>1, <2>3, <2>5, JoinLinked
  <2> QED
    BY <2>2, <2>4, <2>6 DEF Joined
<1> QED
  BY <1>3, <1>4

(* How the plan of a batch that is not in the ledger begins.               *)
Begins(u, r) ==
    /\ u[1] \in {"reconcile", "stage", "recover"}
    /\ u[1] = "reconcile" => u[2] \in {"stage", "recover"}
    /\ (u[1] = "reconcile" /\ u[2] = "recover") \/ u[1] = "recover"
         => Of(r[1], staging) # {}

(* The plan of a batch that is not in the ledger is ordered, and publishes *)
(* without staging only what is staged.                                    *)
LEMMA PlanToPublish ==
    ASSUME NEW r,
           NEW u, u = IfJob(r, "reconcile") \o StageIfNeeded(r) \o Publication \o Settle(r)
    PROVE  Ordered(u, "approve") /\ u # <<>> /\ Begins(u, r)
<1> DEFINE op == "approve"
           A == IfJob(r, "reconcile")  B == StageIfNeeded(r)  P == Publication
           Q == P \o Settle(r)
<1>1. /\ Linked(Q, op) /\ Q[1] = "recover" /\ Q[Len(Q)] = "run" /\ Len(Q) > 1
  <2>1. Joins(P, Settle(r))
    BY PublicationLinked, SettleLinked DEF Joins, Neighbours
  <2>2. Linked(Q, op) /\ Joined(Q, P, Settle(r))
    <3> HIDE DEF P
    <3> QED
      BY <2>1, PublicationLinked, SettleLinked, JoinLinked DEF P
  <2>3. Len(Settle(r)) \in Nat
    BY SettleLinked, LenProperties DEF Linked
  <2> QED
    BY <2>2, <2>3, PublicationLinked, SettleLinked DEF Joined
<1> HIDE DEF P, Q
<1>2. PICK X : /\ B \o Q = X
               /\ Linked(X, op) /\ X[Len(X)] = "run" /\ Len(X) > 1
               /\ X[1] \in {"stage", "recover"}
               /\ X[1] = "recover" => Of(r[1], staging) # {}
  <2>1. CASE Of(r[1], staging) # {}
    <3>1. B = <<>>
      BY <2>1 DEF StageIfNeeded
    <3>2. B \o Q = Q
      BY <1>1, <3>1, ConcatEmptySeq DEF Linked
    <3> QED
      BY <1>1, <2>1, <3>2
  <2>2. CASE Of(r[1], staging) = {}
    <3>1. Linked(B, op) /\ B[1] = "stage" /\ Len(B) \in {1, 2} /\ B[Len(B)] \in {"stage", "bind"}
      <4> DEFINE G == <<"stage">>  H == <<"bind">>
      <4>1. Linked(G, op) /\ Linked(H, op)
        BY DEF Linked, Chain, StepsOf
      <4>2. CASE jobs[r] = "none"
        <5>1. B = G \o <<>>
          BY <2>2, <4>2 DEF StageIfNeeded, IfJob
        <5>2. B = G
          BY <4>1, <5>1, ConcatEmptySeq DEF Linked
        <5> QED
          BY <4>1, <5>2
      <4>3. CASE jobs[r] # "none"
        <5>1. B = G \o H
          BY <2>2, <4>3 DEF StageIfNeeded, IfJob
        <5>2. Joins(G, H)
          BY DEF Joins, Neighbours
        <5>3. Linked(G \o H, op) /\ Joined(G \o H, G, H)
          <6> HIDE DEF G, H, op
          <6> QED
            BY <4>1, <5>2, JoinLinked
        <5> QED
          BY <5>1, <5>3 DEF Joined
      <4> QED
        BY <4>2, <4>3
    <3>2. Joins(B, Q)
      BY <1>1, <3>1 DEF Joins, Neighbours
    <3>3. Linked(B \o Q, op) /\ Joined(B \o Q, B, Q)
      <4> HIDE DEF B, op
      <4> QED
        BY <1>1, <3>1, <3>2, JoinLinked
    <3>4. Len(Q) \in Nat
      BY <1>1, LenProperties DEF Linked
    <3>5. Len(B \o Q) > 1 /\ (B \o Q)[1] = "stage" /\ (B \o Q)[Len(B \o Q)] = "run"
      BY <1>1, <3>1, <3>3, <3>4 DEF Joined
    <3> QED
      BY <3>3, <3>5
  <2> QED
    BY <2>1, <2>2
<1>3. u = A \o X
  <2>1. A \in Seq(StepsOf(op)) /\ B \in Seq(StepsOf(op)) /\ P \in Seq(StepsOf(op))
    <3>1. A \in Seq(StepsOf(op))
      <4>1. <<>> \in Seq(StepsOf(op)) /\ <<"reconcile">> \in Seq(StepsOf(op))
        BY DEF StepsOf
      <4> QED
        BY <4>1 DEF IfJob
    <3>2. B \in Seq(StepsOf(op))
      <4>1. /\ <<>> \in Seq(StepsOf(op)) /\ <<"stage">> \in Seq(StepsOf(op))
            /\ <<"bind">> \in Seq(StepsOf(op))
        BY DEF StepsOf
      <4>2. IfJob(r, "bind") \in Seq(StepsOf(op))
        BY <4>1 DEF IfJob
      <4>3. <<"stage">> \o IfJob(r, "bind") \in Seq(StepsOf(op))
        BY <4>1, <4>2, ConcatProperties
      <4> QED
        BY <4>1, <4>3 DEF StageIfNeeded
    <3>3. P \in Seq(StepsOf(op))
      BY PublicationLinked DEF Linked, P
    <3> QED
      BY <3>1, <3>2, <3>3
  <2>2. Settle(r) \in Seq(StepsOf(op))
    BY SettleLinked DEF Linked
  <2>3. u = ((A \o B) \o P) \o Settle(r)
    BY DEF P
  <2> HIDE DEF A, B, op
  <2>4. /\ A \o B \in Seq(StepsOf(op))
        /\ \A s1, s2, s3 \in Seq(StepsOf(op)) : (s1 \o s2) \o s3 = s1 \o (s2 \o s3)
    <3> DEFINE S == StepsOf(op)
    <3>1. A \in Seq(S) /\ B \in Seq(S)
      BY <2>1
    <3> HIDE DEF S
    <3>2. A \o B \in Seq(S)
      BY ONLY <3>1, ConcatProperties
    <3>3. \A s1, s2, s3 \in Seq(S) : (s1 \o s2) \o s3 = s1 \o (s2 \o s3)
      BY ONLY ConcatAssociative
    <3> QED
      BY <3>2, <3>3 DEF S
  <2>5. u = (A \o B) \o Q
    BY <2>1, <2>2, <2>3, <2>4 DEF Q
  <2>6. Q \in Seq(StepsOf(op))
    BY <1>1 DEF Linked
  <2> QED
    BY <1>2, <2>1, <2>4, <2>5, <2>6
<1>4. CASE jobs[r] = "none"
  <2>1. A = <<>>
    BY <1>4 DEF IfJob
  <2>2. u = X
    BY <1>2, <1>3, <2>1, ConcatEmptySeq DEF Linked
  <2> QED
    BY <1>2, <2>2 DEF Ordered, Linked, Lasts, Begins
<1>5. CASE jobs[r] # "none"
  <2> DEFINE C == <<"reconcile">>
  <2>1. A = C
    BY <1>5 DEF IfJob
  <2>2. Linked(C, op) /\ Joins(C, X)
    BY <1>2 DEF Linked, Chain, StepsOf, Joins, Neighbours
  <2>3. Linked(C \o X, op) /\ Joined(C \o X, C, X)
    <3> HIDE DEF C, op
    <3> QED
      BY <1>2, <2>2, JoinLinked
  <2>4. u = C \o X
    BY <1>3, <2>1
  <2>5. u[1] = "reconcile" /\ u[2] = X[1] /\ u[Len(u)] = "run"
    BY <1>2, <2>3, <2>4 DEF Joined
  <2>6. Linked(u, op)
    BY <2>3, <2>4
  <2> QED
    BY <1>2, <2>5, <2>6 DEF Ordered, Linked, Lasts, Begins
<1> QED
  BY <1>4, <1>5

-----------------------------------------------------------------------------
(* Lemmas on revisions.                                                    *)

(* A finite set of numbers has a greatest element.                         *)
LEMMA HasGreatest ==
    ASSUME NEW M \in Nat, NEW T \in SUBSET (1 .. M), T # {}
    PROVE  \E n \in T : \A m \in T : m <= n
<1> DEFINE U == {k \in Nat : M - k \in T}
<1>1. U \subseteq Nat /\ U # {}
  <2>1. PICK m \in T : TRUE
    OBVIOUS
  <2>2. M - m \in Nat /\ M - (M - m) = m
    OBVIOUS
  <2> QED
    BY <2>1, <2>2
<1>2. PICK k \in U : \A j \in U : ~(<<j, k>> \in OpToRel(<, Nat))
  BY <1>1, NatLessThanWellFounded, WFMin
<1>3. ASSUME NEW m \in T PROVE m <= M - k
  <2>1. M - m \in Nat /\ M - (M - m) = m
    OBVIOUS
  <2>2. M - m \in U
    BY <2>1
  <2>3. ~(<<M - m, k>> \in OpToRel(<, Nat))
    BY <1>2, <2>2
  <2>4. ~(M - m < k) /\ k \in Nat
    BY <2>1, <2>3, <1>2 DEF OpToRel
  <2>5. m \in Nat
    OBVIOUS
  <2> HIDE DEF U
  <2> QED
    BY <2>4, <2>5
<1> QED
  BY <1>2, <1>3

(* The next revision of a batch is a revision, and not a rejected one.     *)
LEMMA NextRevisionFits ==
    ASSUME CoreAssumption, rejected \subseteq Revisions, Homed, NEW b \in Batches
    PROVE  /\ <<b, NextRevision(b)>> \in Revisions
           /\ <<b, NextRevision(b)>> \notin rejected
<1> DEFINE T == {r[2] : r \in Of(b, rejected)}
<1>1. \A r \in Revisions : r[1] \in Batches /\ r[2] \in 1 .. MaxRejects + 1 /\ r = <<r[1], r[2]>>
  BY DEF Revisions
<1>2. CASE Of(b, rejected) = {}
  <2>1. NextRevision(b) = 1
    BY <1>2 DEF NextRevision
  <2> QED
    BY <1>2, <2>1 DEF Of, Revisions, CoreAssumption
<1>3. CASE Of(b, rejected) # {}
  <2>1. T \in SUBSET (1 .. MaxRejects) /\ T # {}
    BY <1>1, <1>3 DEF Of, Homed, CoreAssumption
  <2>2. \E n \in T : \A m \in T : m <= n
    BY <2>1, HasGreatest DEF CoreAssumption
  <2>3. \E n \in T : \A r \in Of(b, rejected) : r[2] <= n
    BY <2>2
  <2> DEFINE n == CHOOSE n \in T : \A r \in Of(b, rejected) : r[2] <= n
  <2>4. n \in T /\ \A r \in Of(b, rejected) : r[2] <= n
    BY <2>3
  <2>5. NextRevision(b) = 1 + n
    BY <1>3 DEF NextRevision
  <2> HIDE DEF n
  <2>6. n \in 1 .. MaxRejects
    BY <2>1, <2>4
  <2>7. <<b, 1 + n>> \in Revisions
    BY <2>6 DEF Revisions, CoreAssumption
  <2>8. <<b, 1 + n>> \notin rejected
    BY <2>4, <2>6 DEF Of, CoreAssumption
  <2> QED
    BY <2>5, <2>7, <2>8
<1> QED
  BY <1>2, <1>3

(* The revision that is being made is one of its batch, and the staged one if*)
(* there is one.                                                           *)
LEMMA CurrentFits ==
    ASSUME CoreAssumption, TypeOK, Homed, NEW b \in Batches
    PROVE  /\ Current(b) \in Revisions /\ Current(b)[1] = b
           /\ ~IsAccepted(b) /\ Of(b, staging) # {} => Current(b) \in staging
<1>1. Entered \subseteq Revisions
  <2>1. Entries \in Seq(Revisions)
    BY DEF Entries, TypeOK, File, SeqOfRevisions
  <2> QED
    BY <2>1 DEF Entered
<1>2. CASE IsAccepted(b)
  BY <1>1, <1>2 DEF Current, IsAccepted, Of
<1>3. CASE ~IsAccepted(b) /\ Of(b, staging) # {}
  BY <1>3 DEF Current, Of, TypeOK
<1>4. CASE ~IsAccepted(b) /\ Of(b, staging) = {}
  BY <1>4, NextRevisionFits DEF Current, TypeOK
<1> QED
  BY <1>2, <1>3, <1>4

-----------------------------------------------------------------------------
(* What a step does to the plan.                                           *)

(* What taking x off the plan comes to.                                    *)
Advanced(x) ==
    /\ Plans'
    /\ todo' \in Seq(Steps)
    /\ cmd' \in [op : Commands \union {"none"}, batch : 0 .. Size,
                id : SampleIds \union {NoFile}]
    /\ cmd' = cmd \/ cmd' = NoCommand
    /\ todo' # <<>> =>
         /\ cmd' = cmd
         /\ <<x, Head(todo')>> \in Neighbours
         /\ Head(todo') = todo[2]
         /\ Head(todo') = "reconcile" => todo'[2] = "sync"

(* A step that takes the first entry off the plan leaves a plan, of the same*)
(* command, and what comes next is one of its neighbours.                  *)
LEMMA Popped ==
    ASSUME CoreAssumption, TypeOK, Plans, NEW x, At(x), Go(Tail(todo))
    PROVE  Advanced(x) /\ x \in StepsOf(cmd.op)
<1>1. todo # <<>> /\ Head(todo) = x /\ todo' = Tail(todo)
  BY DEF At, Go
<1>2. Ordered(todo, cmd.op) /\ todo \in Seq(Steps)
  BY DEF Plans, TypeOK
<1>3. /\ Ordered(Tail(todo), cmd.op)
      /\ Tail(todo) # <<>> =>
           /\ <<Head(todo), Head(Tail(todo))>> \in Neighbours
           /\ Head(Tail(todo)) = todo[2]
           /\ Head(Tail(todo)) = "reconcile" => Tail(todo)[2] = "sync"
      /\ Head(todo) \in StepsOf(cmd.op)
  BY <1>1, <1>2, TailOrdered
<1>4. Tail(todo) \in Seq(Steps)
  BY <1>1, <1>2, HeadTailProperties
<1>5. CASE Tail(todo) = <<>>
  <2>1. cmd' = NoCommand
    BY <1>5 DEF Go
  <2>2. cmd' \in [op : Commands \union {"none"}, batch : 0 .. Size,
                  id : SampleIds \union {NoFile}]
    BY <2>1 DEF NoCommand, CoreAssumption
  <2> QED
    BY <1>1, <1>3, <1>4, <1>5, <2>1, <2>2 DEF Plans, Ordered, Advanced
<1>6. CASE Tail(todo) # <<>>
  <2>1. cmd' = cmd
    BY <1>6 DEF Go
  <2> QED
    BY <1>1, <1>3, <1>4, <1>6, <2>1 DEF Plans, TypeOK, Advanced
<1> QED
  BY <1>5, <1>6

(* Nothing is claimed of a command that has ended.                         *)
LEMMA Ended ==
    ASSUME todo' = <<>>, cmd' = NoCommand
    PROVE  ControlInv'
BY DEF ControlInv, Plans, Ordered, Arguments, Compared, NextInPlan, NewLedgerFits,
       FilesInPublication, NoVerdictYet, Naming, Judging, Preparing, Prepared, Publishing,
       At, NoCommand

(* What holds of the disk holds while the disk is as it was.               *)
LEMMA DiskSame ==
    ASSUME DiskInv, UNCHANGED disk
    PROVE  DiskInv'
BY DEF DiskInv, InOrder, AwayIsNoticed, Homed, ReadyMeansComplete, VerdictFollowsReview,
       Committed, Entered, Entries, disk, publication, audit

(* The ledger, as a reader of the file and as the publication sees it, is a*)
(* sequence of revisions.                                                  *)
LEMMA EntriesFits ==
    ASSUME TypeOK
    PROVE  /\ Entries \in Seq(Revisions) /\ Entered \subseteq Revisions
           /\ Committed \in Seq(Revisions)
           /\ NextBatch = Len(Entries) + 1
<1>1. Entries \in Seq(Revisions) /\ Committed \in Seq(Revisions)
  BY DEF Entries, Committed, TypeOK, File, SeqOfRevisions
<1> QED
  BY <1>1 DEF Entered, NextBatch

(* The ledger never outgrows the plan, since its batches are in plan order.*)
LEMMA CommittedWithinPlan ==
    ASSUME CoreAssumption, TypeOK, InOrder
    PROVE  Len(Committed) \in 0 .. Size
<1>1. Committed \in Seq(Revisions)
  BY EntriesFits
<1>2. Len(Committed) \in Nat
  BY <1>1
<1>3. CASE Len(Committed) = 0
  BY <1>3 DEF CoreAssumption
<1>4. CASE Len(Committed) > 0
  <2>1. Len(Committed) \in DOMAIN Committed
    BY <1>1, <1>2, <1>4
  <2>2. Committed[Len(Committed)] \in Revisions
    BY <1>1, <2>1
  <2>3. Committed[Len(Committed)][1] \in 1 .. Size
    BY <2>2 DEF Revisions, Batches
  <2> QED
    BY <1>2, <2>1, <2>3 DEF InOrder, CoreAssumption
<1> QED
  BY <1>2, <1>3, <1>4

(* While a batch is being published the run is not reported complete.      *)
LEMMA NotComplete ==
    ASSUME CoreAssumption, TypeOK, DiskInv, cmd.batch \in Batches,
           cmd.batch = Len(Committed) + 1
    PROVE  run.status \notin Complete
<1> SUFFICES ASSUME run.status \in Complete PROVE FALSE
  OBVIOUS
<1>1. ledger # NoFile /\ Len(ledger) = Size
  BY DEF DiskInv, ReadyMeansComplete
<1>2. Committed = ledger
  BY <1>1 DEF Committed
<1> QED
  BY <1>1, <1>2 DEF Batches, CoreAssumption

-----------------------------------------------------------------------------
(* The initial states, and each step.                                      *)

(* The invariant holds before the first command.                           *)
LEMMA InitIInv == CoreAssumption /\ Init => IInv
<1> SUFFICES ASSUME CoreAssumption, Init PROVE IInv
  OBVIOUS
<1>1. TypeOK
  BY DEF Init, TypeOK, File, SeqOfRevisions, NoCommand, CoreAssumption
<1>2. Committed = <<>>
  BY DEF Init, Committed
<1>3. DiskInv
  <2>1. <<>> \in Seq(Revisions)
    OBVIOUS
  <2>2. NoFile # <<>>
    BY <2>1 DEF CoreAssumption
  <2>3. InOrder
    BY <1>2, <2>2 DEF Init, InOrder
  <2>4. AwayIsNoticed /\ Homed /\ ReadyMeansComplete /\ VerdictFollowsReview
    BY DEF Init, AwayIsNoticed, Homed, ReadyMeansComplete, VerdictFollowsReview, Complete,
           Terminal
  <2> QED
    BY <2>3, <2>4 DEF DiskInv
<1>4. ControlInv
  BY DEF Init, ControlInv, Plans, Ordered, Arguments, Compared, NextInPlan, NewLedgerFits,
         FilesInPublication, NoVerdictYet, Naming, Judging, Preparing, Prepared, Publishing,
         At, NoCommand
<1> QED
  BY <1>1, <1>3, <1>4 DEF IInv

(* A command that fails, or that is killed, leaves no claim behind.        *)
LEMMA FailTyped ==
    ASSUME CoreAssumption, Fail
    PROVE  /\ ControlInv'
           /\ todo' \in Seq(Steps)
           /\ cmd' \in [op : Commands \union {"none"}, batch : 0 .. Size,
                       id : SampleIds \union {NoFile}]
           /\ newLedger' \in File
<1>1. ControlInv'
  BY Ended DEF Fail
<1> QED
  BY <1>1 DEF Fail, NoCommand, File, CoreAssumption

(* A process killed between two steps.                                     *)
LEMMA CrashKeeps == CoreAssumption /\ IInv /\ Crash => IInv'
<1> SUFFICES ASSUME CoreAssumption, IInv, Crash PROVE IInv'
  OBVIOUS
<1>1. Fail /\ UNCHANGED disk /\ stops' = stops + 1
  BY DEF Crash
<1>2. DiskInv'
  BY <1>1, DiskSame DEF IInv
<1>3. TypeOK'
  BY <1>1, FailTyped DEF IInv, TypeOK, disk, publication, audit
<1> QED
  BY <1>1, <1>2, <1>3, FailTyped DEF IInv

(* Steps of which no invariant speaks, and those that need the ledger      *)
(* compared.                                                               *)
QuietSteps == {"sync", "run", "branch", "issue", "sample", "review", "rebuild"}

(* Before a quiet step the control invariant is the plan, the arguments, the*)
(* verdict and the comparison.                                             *)
LEMMA AtQuiet ==
    ASSUME Plans', Arguments', NoVerdictYet', Compared',
           todo' # <<>> => \/ Head(todo') \in QuietSteps
                           \/ Head(todo') = "reconcile" /\ todo'[2] = "sync"
    PROVE  ControlInv'
BY DEF ControlInv, QuietSteps, NextInPlan, NewLedgerFits, FilesInPublication, Naming, Judging,
       Preparing, Prepared, Publishing, At

(* A command keeps its arguments until it ends.                            *)
LEMMA ArgumentsKept ==
    ASSUME Arguments, cmd' = cmd \/ cmd' = NoCommand
    PROVE  Arguments'
BY DEF Arguments, NoCommand

(* A step that gives no verdict leaves approvals without one.              *)
LEMMA NoVerdictKept ==
    ASSUME NoVerdictYet, cmd' = cmd \/ cmd' = NoCommand,
           run'.status \in Terminal => run.status \in Terminal
    PROVE  NoVerdictYet'
BY DEF NoVerdictYet, NoCommand

(* The plan that a command starts with is ordered.                         *)
LEMMA PlanOrdered ==
    ASSUME NEW op \in Commands
    PROVE  /\ Ordered(Plan(op), op) /\ Plan(op) # <<>>
           /\ Head(Plan(op)) \in {"sync", "review"}
           /\ Plan(op) \in Seq(Steps)
<1> DEFINE R == <<"sync", "run">>
<1>1. CASE op = "status"
  <2>1. Plan(op) = R
    BY <1>1 DEF Plan, Reconciled
  <2>2. Linked(R, op) /\ R[Len(R)] \in Lasts
    BY <1>1 DEF Linked, Chain, StepsOf, Neighbours, Lasts
  <2>3. R # <<>> /\ Head(R) = "sync"
    OBVIOUS
  <2>4. Ordered(Plan(op), op)
    BY <2>1, <2>2 DEF Ordered
  <2> QED
    BY <2>1, <2>3, <2>4, OrderedTyped
<1>2. CASE op \in {"pass", "reject"}
  <2> DEFINE V == <<"review">>
  <2>1. Plan(op) = V
    BY <1>2 DEF Plan
  <2>2. Linked(V, op) /\ V[Len(V)] \in Lasts
    BY <1>2 DEF Linked, Chain, StepsOf, Lasts
  <2>3. V # <<>> /\ Head(V) = "review"
    OBVIOUS
  <2>4. Ordered(Plan(op), op)
    BY <2>1, <2>2 DEF Ordered
  <2> QED
    BY <2>1, <2>3, <2>4, OrderedTyped
<1>3. ASSUME NEW x \in {"issue", "branch", "sample"}, {"sync", "run", x} \subseteq StepsOf(op),
             Plan(op) = R \o <<x>>
      PROVE  /\ Ordered(Plan(op), op) /\ Plan(op) # <<>>
             /\ Head(Plan(op)) \in {"sync", "review"}
             /\ Plan(op) \in Seq(Steps)
  <2> DEFINE C == <<x>>
  <2>1. Linked(R, op) /\ Linked(C, op)
    BY <1>3 DEF Linked, Chain, Neighbours
  <2>2. Joins(R, C)
    BY DEF Joins, Neighbours
  <2>3. Linked(R \o C, op) /\ Joined(R \o C, R, C)
    <3> HIDE DEF R, C
    <3> QED
      BY <2>1, <2>2, JoinLinked
  <2>4. Plan(op)[1] = "sync" /\ Plan(op)[Len(Plan(op))] \in Lasts
    BY <1>3, <2>3 DEF Joined, Lasts
  <2>5. Head(Plan(op)) = Plan(op)[1]
    BY <1>3, <2>3 DEF Linked
  <2>6. Ordered(Plan(op), op)
    BY <1>3, <2>3, <2>4 DEF Ordered
  <2> QED
    BY <1>3, <2>3, <2>4, <2>5, <2>6, OrderedTyped DEF Linked
<1>4. CASE op \in {"work-order", "approve", "sample"}
  BY <1>3, <1>4 DEF Plan, Reconciled, StepsOf
<1> QED
  BY <1>1, <1>2, <1>4 DEF Commands

(* The operator starts a command.                                          *)
LEMMA StartKeeps ==
    ASSUME CoreAssumption, IInv, NEW op \in Commands, NEW b \in 0 .. Size,
           NEW s \in SampleIds \union {NoFile}, Start(op, b, s),
           op = "approve" => b \in Batches,
           op \in {"sample", "pass", "reject"} => s \in SampleIds
    PROVE  IInv'
<1>1. /\ todo' = Plan(op) /\ cmd' = [op |-> op, batch |-> b, id |-> s]
      /\ UNCHANGED <<disk, newLedger, stops>>
      /\ op = "approve" => run.status \notin Terminal
  BY DEF Start
<1>2. TypeOK'
  BY <1>1, PlanOrdered DEF IInv, TypeOK, disk, publication, audit
<1>3. DiskInv'
  BY <1>1, DiskSame DEF IInv
<1>4. Plans' /\ Head(todo') \in {"sync", "review"} /\ todo' # <<>>
  BY <1>1, PlanOrdered DEF Plans
<1>5. Arguments' /\ NoVerdictYet'
  BY <1>1 DEF Arguments, NoVerdictYet, disk
<1>6. Compared'
  BY <1>4 DEF Compared, Preparing, At
<1>7. ControlInv'
  BY <1>4, <1>5, <1>6, AtQuiet DEF QuietSteps
<1> QED
  BY <1>2, <1>3, <1>7 DEF IInv

(* After the comparison with the automatic approvals the ledger is not away.*)
LEMMA SyncKeeps == CoreAssumption /\ IInv /\ Sync => IInv'
<1> SUFFICES ASSUME CoreAssumption, IInv, Sync PROVE IInv'
  OBVIOUS
<1>1. /\ UNCHANGED <<publication, rejected, content, view, jobs, run, audit, stops>>
      /\ At("sync")
  BY DEF Sync
<1>2. CASE Fail /\ UNCHANGED auto
  <2>1. UNCHANGED disk
    BY <1>1, <1>2 DEF disk
  <2>2. DiskInv' /\ ControlInv'
    BY <1>2, <2>1, DiskSame, FailTyped DEF IInv
  <2>3. TypeOK'
    BY <1>1, <1>2, FailTyped DEF IInv, TypeOK, publication, audit
  <2> QED
    BY <2>2, <2>3 DEF IInv
<1>3. CASE auto \subseteq Entered /\ auto' = Entered /\ Pop
  <2>1. Go(Tail(todo)) /\ UNCHANGED newLedger
    BY <1>3 DEF Pop
  <2>2. Advanced("sync")
    BY <1>1, <2>1, Popped DEF IInv, ControlInv
  <2>3. TypeOK'
    BY <1>1, <1>3, <2>1, <2>2, EntriesFits DEF IInv, TypeOK, Advanced, publication, audit
  <2>4. ledger = NoFile => backup = NoFile
    BY <1>3 DEF Entered, Entries, IInv, DiskInv, AwayIsNoticed
  <2>5. ledger # NoFile => auto' # {}
    <3> SUFFICES ASSUME ledger # NoFile PROVE Entered # {}
      BY <1>3
    <3>1. Entries = ledger /\ Entries # <<>> /\ Entries \in Seq(Revisions)
      BY EntriesFits DEF Entries, IInv, DiskInv, InOrder
    <3>2. 1 \in DOMAIN Entries
      BY <3>1, EmptySeq
    <3> QED
      BY <3>2 DEF Entered
  <2>6. DiskInv'
    <3>1. InOrder' /\ Homed' /\ ReadyMeansComplete' /\ VerdictFollowsReview'
      BY <1>1 DEF IInv, DiskInv, InOrder, Homed, ReadyMeansComplete, VerdictFollowsReview,
                  Committed, Entered, Entries, publication, audit
    <3>2. AwayIsNoticed'
      BY <1>1, <2>4 DEF AwayIsNoticed, publication
    <3> QED
      BY <3>1, <3>2 DEF DiskInv
  <2>7. Compared'
    BY <1>1, <2>4, <2>5 DEF Compared, publication
  <2>8. todo' # <<>> => Head(todo') \in QuietSteps
    BY <2>2 DEF Advanced, Neighbours, QuietSteps
  <2>9. Arguments' /\ NoVerdictYet'
    BY <1>1, <2>2, ArgumentsKept, NoVerdictKept DEF Advanced, IInv, ControlInv
  <2>10. ControlInv'
    BY <2>2, <2>7, <2>8, <2>9, AtQuiet DEF Advanced
  <2> QED
    BY <2>3, <2>6, <2>10 DEF IInv
<1> QED
  BY <1>2, <1>3 DEF Sync

(* A corpus is reported as complete only when it was verified.             *)
LEMMA WriteRunKeeps == CoreAssumption /\ IInv /\ WriteRun => IInv'
<1> SUFFICES ASSUME CoreAssumption, IInv, WriteRun PROVE IInv'
  OBVIOUS
<1>1. /\ UNCHANGED <<publication, rejected, content, view, auto, jobs, audit, stops>>
      /\ At("run")
  BY DEF WriteRun
<1>2. CASE Fail /\ UNCHANGED run
  <2>1. UNCHANGED disk
    BY <1>1, <1>2 DEF disk
  <2>2. DiskInv' /\ ControlInv'
    BY <1>2, <2>1, DiskSame, FailTyped DEF IInv
  <2>3. TypeOK'
    BY <1>1, <1>2, FailTyped DEF IInv, TypeOK, publication, audit
  <2> QED
    BY <2>2, <2>3 DEF IInv
<1>3. CASE ~(NextBatch > Size /\ ~VerifiedCorpus) /\ Pop
  <2> DEFINE st == IF run.status \in Terminal THEN run.status
                   ELSE IF Entries = <<>> THEN "ready"
                   ELSE IF NextBatch > Size THEN "pending" ELSE "running"
  <2>1. Go(Tail(todo)) /\ UNCHANGED newLedger
    BY <1>3 DEF Pop
  <2>2. Advanced("run")
    BY <1>1, <2>1, Popped DEF IInv, ControlInv
  <2>3. run' = [run EXCEPT !.status = st]
    BY <1>3, <2>2 DEF WriteRun, Fail
  <2>4. /\ run \in [status : {"ready", "running"} \union Complete,
                    sample : SampleIds \union {NoFile}]
    BY DEF IInv, TypeOK
  <2>5. run'.status = st /\ run'.sample = run.sample
    BY <2>3, <2>4
  <2>6. st \in {"ready", "running"} \union Complete
    BY <2>4 DEF Complete, Terminal
  <2>7. st \in Terminal => run.status \in Terminal /\ st = run.status
    BY DEF Terminal
  <2>8. TypeOK'
    BY <1>1, <2>1, <2>2, <2>3, <2>4, <2>6 DEF IInv, TypeOK, Advanced, publication, audit
  <2>9. DiskInv'
    <3>1. InOrder' /\ AwayIsNoticed' /\ Homed'
      BY <1>1 DEF IInv, DiskInv, InOrder, AwayIsNoticed, Homed, Committed, publication, audit
    <3>2. VerdictFollowsReview'
      BY <1>1, <2>5, <2>7 DEF IInv, DiskInv, VerdictFollowsReview, audit
    <3>3. ReadyMeansComplete'
      <4> SUFFICES ASSUME st \in Complete
                   PROVE  /\ ledger # NoFile /\ Len(ledger) = Size
                          /\ accepted = Entered
                          /\ view = ledger
        BY <1>1, <2>5 DEF ReadyMeansComplete, Entered, Entries, publication
      <4>1. CASE run.status \in Terminal
        BY <4>1 DEF Complete, IInv, DiskInv, ReadyMeansComplete
      <4>2. CASE run.status \notin Terminal
        <5>1. NextBatch > Size
          BY <4>2 DEF Complete, Terminal
        <5>2. ledger # NoFile /\ accepted = Entered /\ view = ledger
          BY <1>3, <5>1 DEF VerifiedCorpus, Entries
        <5>3. Committed = ledger /\ Entries = ledger
          BY <5>2 DEF Committed, Entries
        <5>4. Len(Committed) \in 0 .. Size /\ NextBatch = Len(Entries) + 1
          BY CommittedWithinPlan, EntriesFits DEF IInv, DiskInv
        <5>5. Len(ledger) = Size
          BY <5>1, <5>3, <5>4 DEF CoreAssumption
        <5> QED
          BY <5>2, <5>5
      <4> QED
        BY <4>1, <4>2
    <3> QED
      BY <3>1, <3>2, <3>3 DEF DiskInv
  <2>10. Arguments' /\ NoVerdictYet'
    BY <2>2, <2>5, <2>7, ArgumentsKept, NoVerdictKept DEF Advanced, IInv, ControlInv
  <2>11. Compared'
    BY <1>1 DEF IInv, ControlInv, Compared, publication
  <2>12. todo' # <<>> => Head(todo') \in QuietSteps
    BY <2>2 DEF Advanced, Neighbours, QuietSteps
  <2>13. ControlInv'
    BY <2>2, <2>10, <2>11, <2>12, AtQuiet DEF Advanced
  <2> QED
    BY <2>8, <2>9, <2>13 DEF IInv
<1> QED
  BY <1>2, <1>3 DEF WriteRun

(* A reconciled checkpoint is a checkpoint.                                *)
LEMMA ReconcileTyped ==
    ASSUME IInv, NEW r, NEW next, Reconcile(r, next)
    PROVE  jobs' \in [Revisions -> {"none", "issued", "staged", "accepted"}]
<1>1. jobs \in [Revisions -> {"none", "issued", "staged", "accepted"}]
  BY DEF IInv, TypeOK
<1>2. Evidence(r) \in {"issued", "staged", "accepted"}
  BY DEF Evidence
<1> QED
  BY <1>1, <1>2 DEF Reconcile

(* The disk invariant does not speak of the checkpoints.                   *)
LEMMA JobsApart ==
    ASSUME DiskInv,
           UNCHANGED <<publication, rejected, content, view, auto, run, audit>>
    PROVE  DiskInv'
BY DEF DiskInv, InOrder, AwayIsNoticed, Homed, ReadyMeansComplete, VerdictFollowsReview,
       Committed, Entered, Entries, publication, audit

(* A work order is issued or found again.                                  *)
LEMMA IssueKeeps == CoreAssumption /\ IInv /\ Issue => IInv'
<1> SUFFICES ASSUME CoreAssumption, IInv, Issue PROVE IInv'
  OBVIOUS
<1>1. /\ UNCHANGED <<publication, rejected, content, view, auto, run, audit, stops>>
      /\ At("issue")
  BY DEF Issue
<1>2. DiskInv'
  BY <1>1, JobsApart DEF IInv
<1>3. jobs' \in [Revisions -> {"none", "issued", "staged", "accepted"}]
  BY ReconcileTyped DEF Issue, IInv, TypeOK
<1>4. CASE Fail
  <2>1. TypeOK'
    BY <1>1, <1>3, <1>4, FailTyped DEF IInv, TypeOK, publication, audit
  <2> QED
    BY <1>2, <1>4, <2>1, FailTyped DEF IInv
<1>5. CASE Go(<<>>) /\ UNCHANGED newLedger
  <2>1. todo' = <<>> /\ cmd' = NoCommand
    BY <1>5 DEF Go
  <2>2. TypeOK'
    BY <1>1, <1>3, <1>5, <2>1 DEF IInv, TypeOK, NoCommand, CoreAssumption, publication, audit
  <2> QED
    BY <1>2, <2>1, <2>2, Ended DEF IInv
<1>6. CASE Pop
  <2>1. Go(Tail(todo)) /\ UNCHANGED newLedger
    BY <1>6 DEF Pop
  <2>2. Advanced("issue")
    BY <1>1, <2>1, Popped DEF IInv, ControlInv
  <2>3. todo' = <<>>
    BY <2>2 DEF Advanced, Neighbours
  <2>4. cmd' = NoCommand
    BY <2>1, <2>3 DEF Go
  <2>5. TypeOK'
    BY <1>1, <1>3, <2>1, <2>2 DEF IInv, TypeOK, Advanced, publication, audit
  <2> QED
    BY <1>2, <2>3, <2>4, <2>5, Ended DEF IInv
<1> QED
  BY <1>4, <1>5, <1>6 DEF Issue, Reconcile

(* The step ahead is a step of the running command.                        *)
LEMMA StepOfCommand ==
    ASSUME Plans, NEW x, At(x)
    PROVE  x \in StepsOf(cmd.op)
<1>1. Ordered(todo, cmd.op) /\ todo # <<>> /\ Head(todo) = x
  BY DEF Plans, At
<1> QED
  BY <1>1, TailOrdered

(* Only an approval has steps other than those that every command begins   *)
(* with, a sample and a review have their own.                             *)
LEMMA Approving ==
    ASSUME Plans,
           NEW x \in {"branch", "reconcile", "stage", "bind", "recover", "retire", "move",
                      "commit", "clean", "rebuild"},
           At(x)
    PROVE  cmd.op = "approve"
<1>1. x \in StepsOf(cmd.op)
  BY StepOfCommand
<1> QED
  BY <1>1 DEF StepsOf

(* An approval plans what the disk calls for.                              *)
LEMMA BranchKeeps == CoreAssumption /\ IInv /\ Branch => IInv'
<1> SUFFICES ASSUME CoreAssumption, IInv, Branch PROVE IInv'
  OBVIOUS
<1> DEFINE b == cmd.batch  r == Current(b)
<1>1. UNCHANGED <<disk, stops>> /\ At("branch")
  BY DEF Branch
<1>2. DiskInv'
  BY <1>1, DiskSame DEF IInv
<1>3. CASE Fail
  <2>1. TypeOK'
    BY <1>1, <1>3, FailTyped DEF IInv, TypeOK, disk, publication, audit
  <2> QED
    BY <1>2, <1>3, <2>1, FailTyped DEF IInv
<1>4. ASSUME NEW u, Go(u), u # <<>>, Ordered(u, "approve"), UNCHANGED newLedger
      PROVE  todo' = u /\ cmd' = cmd /\ TypeOK' /\ Plans' /\ Arguments' /\ NoVerdictYet'
  <2>1. todo' = u /\ cmd' = cmd
    BY <1>4 DEF Go
  <2>2. cmd.op = "approve"
    BY <1>1, Approving DEF IInv, ControlInv
  <2>3. TypeOK'
    BY <1>1, <1>4, <2>1, OrderedTyped DEF IInv, TypeOK, disk, publication, audit
  <2>4. Plans' /\ Arguments' /\ NoVerdictYet'
    BY <1>1, <1>4, <2>1, <2>2, ArgumentsKept, NoVerdictKept
       DEF Plans, IInv, ControlInv, disk
  <2> QED
    BY <2>1, <2>3, <2>4
<1>5. CASE IsAccepted(b) /\ Go(Settle(r)) /\ UNCHANGED newLedger
  <2> DEFINE u == Settle(r)
  <2>1. Linked(u, "approve") /\ u[1] = "rebuild" /\ u[Len(u)] = "run"
    BY SettleLinked
  <2> HIDE DEF u
  <2>2. u # <<>> /\ Ordered(u, "approve") /\ Head(u) = "rebuild"
    BY <2>1 DEF Linked, Ordered, Lasts
  <2>3. Go(u)
    BY <1>5 DEF u
  <2>4. todo' = u /\ TypeOK' /\ Plans' /\ Arguments' /\ NoVerdictYet'
    BY <1>4, <1>5, <2>2, <2>3
  <2>5. Compared'
    BY <2>2, <2>4 DEF Compared, Preparing, At
  <2>6. ControlInv'
    BY <2>2, <2>4, <2>5, AtQuiet DEF QuietSteps
  <2> QED
    BY <1>2, <2>4, <2>6 DEF IInv
<1>6. CASE /\ ~IsAccepted(b) /\ b = NextBatch
           /\ Go(IfJob(r, "reconcile") \o StageIfNeeded(r) \o Publication \o Settle(r))
           /\ UNCHANGED newLedger
  <2> DEFINE u == IfJob(r, "reconcile") \o StageIfNeeded(r) \o Publication \o Settle(r)
  <2>1. Ordered(u, "approve") /\ u # <<>> /\ Begins(u, r)
    BY PlanToPublish
  <2>2. Go(u)
    BY <1>6
  <2> HIDE DEF u
  <2>3. todo' = u /\ cmd' = cmd /\ TypeOK' /\ Plans' /\ Arguments' /\ NoVerdictYet'
    BY <1>4, <1>6, <2>1, <2>2
  <2>4. Head(u) = u[1]
    BY <2>1 DEF Ordered, Linked
  <2>5. cmd.op = "approve" /\ b \in Batches
    <3>1. cmd.op = "approve"
      BY <1>1, Approving DEF IInv, ControlInv
    <3> QED
      BY <3>1 DEF IInv, ControlInv, Arguments
  <2>6. r[1] = b
    BY <2>5, CurrentFits DEF IInv, DiskInv
  <2>7. (ledger = NoFile => backup = NoFile) /\ (ledger # NoFile => auto # {})
    BY <1>1 DEF IInv, ControlInv, Compared
  <2>8. Committed = Entries
    BY <2>7 DEF Committed, Entries
  <2>9. b = Len(Committed) + 1
    BY <1>6, <2>8 DEF NextBatch
  <2> HIDE DEF b, r
  <2>10. Compared'
    BY <1>1, <2>7 DEF Compared, disk, publication
  <2>11. /\ Head(todo') \in {"reconcile", "stage", "recover"}
         /\ Head(todo') = "reconcile" => todo'[2] \in {"stage", "recover"}
         /\ Prepared' => Of(b, staging) # {}
    BY <2>1, <2>3, <2>4, <2>6 DEF Begins, Prepared, At
  <2>12. NextInPlan'
    <3>1. cmd'.batch = b /\ Committed' = Committed /\ staging' = staging
      BY <1>1, <2>3 DEF b, Committed, disk, publication
    <3>2. ~Publishing'
      BY <2>11 DEF Publishing, At
    <3>3. Of(b, staging)' = Of(b, staging)
      BY <1>1, <2>3 DEF b, Of, disk, publication
    <3>4. (Prepared => Of(cmd.batch, staging) # {})'
      BY <2>11, <3>1, <3>3 DEF b
    <3> QED
      BY <2>9, <3>1, <3>2, <3>4 DEF NextInPlan
  <2>13. NewLedgerFits' /\ FilesInPublication' /\ Naming' /\ Judging'
    BY <2>11 DEF NewLedgerFits, FilesInPublication, Naming, Judging, Publishing, At
  <2> QED
    BY <1>2, <2>3, <2>10, <2>12, <2>13 DEF IInv, ControlInv
<1> QED
  BY <1>3, <1>5, <1>6 DEF Branch

(* The checkpoint of the work order follows the disk.                      *)
LEMMA ReconcileJobKeeps == CoreAssumption /\ IInv /\ ReconcileJob => IInv'
<1> SUFFICES ASSUME CoreAssumption, IInv, ReconcileJob PROVE IInv'
  OBVIOUS
<1>1. /\ UNCHANGED <<publication, rejected, content, view, auto, run, audit, stops>>
      /\ At("reconcile")
  BY DEF ReconcileJob
<1>2. DiskInv'
  BY <1>1, JobsApart DEF IInv
<1>3. jobs' \in [Revisions -> {"none", "issued", "staged", "accepted"}]
  BY ReconcileTyped DEF ReconcileJob
<1>4. CASE Fail
  <2>1. TypeOK'
    BY <1>1, <1>3, <1>4, FailTyped DEF IInv, TypeOK, publication, audit
  <2> QED
    BY <1>2, <1>4, <2>1, FailTyped DEF IInv
<1>5. CASE Go(Tail(todo)) /\ UNCHANGED newLedger
  <2>1. Advanced("reconcile")
    BY <1>1, <1>5, Popped DEF IInv, ControlInv
  <2>2. TypeOK'
    BY <1>1, <1>3, <1>5, <2>1 DEF IInv, TypeOK, Advanced, publication, audit
  <2>3. /\ todo' # <<>> => Head(todo') \in {"stage", "recover", "sync"}
        /\ todo' # <<>> => Head(todo') = todo[2] /\ cmd' = cmd
    BY <2>1 DEF Advanced, Neighbours
  <2>4. Arguments' /\ NoVerdictYet'
    BY <1>1, <2>1, ArgumentsKept, NoVerdictKept DEF Advanced, IInv, ControlInv
  <2>5. Preparing' => Preparing /\ cmd' = cmd
    BY <1>1, <2>3 DEF Preparing, At
  <2>6. Prepared' => Prepared /\ cmd' = cmd
    BY <1>1, <2>3 DEF Prepared, At
  <2>7. Compared'
    <3>1. ~At("run")' /\ ~At("branch")'
      BY <2>3 DEF At
    <3> QED
      BY <1>1, <2>5, <3>1 DEF IInv, ControlInv, Compared, publication
  <2>8. NextInPlan'
    <3>1. ~Publishing'
      BY <2>3 DEF Publishing, At
    <3>2. Preparing' => cmd'.batch = Len(Committed') + 1
      BY <1>1, <2>5 DEF IInv, ControlInv, NextInPlan, Committed, publication
    <3>3. Prepared' => Of(cmd'.batch, staging') # {}
      BY <1>1, <2>6 DEF IInv, ControlInv, NextInPlan, publication
    <3> QED
      BY <3>1, <3>2, <3>3 DEF NextInPlan, Of
  <2>9. NewLedgerFits' /\ FilesInPublication' /\ Naming' /\ Judging'
    BY <2>3 DEF NewLedgerFits, FilesInPublication, Naming, Judging, Publishing, At
  <2> QED
    BY <1>2, <2>1, <2>2, <2>4, <2>7, <2>8, <2>9 DEF IInv, ControlInv, Advanced
<1> QED
  BY <1>4, <1>5 DEF ReconcileJob, Reconcile

(* A draft is refused.                                                     *)
LEMMA StageRefusedKeeps == CoreAssumption /\ IInv /\ StageRefused => IInv'
<1> SUFFICES ASSUME CoreAssumption, IInv, StageRefused PROVE IInv'
  OBVIOUS
<1>1. Fail /\ UNCHANGED <<disk, stops>>
  BY DEF StageRefused
<1>2. DiskInv'
  BY <1>1, DiskSame DEF IInv
<1>3. TypeOK'
  BY <1>1, FailTyped DEF IInv, TypeOK, disk, publication, audit
<1> QED
  BY <1>1, <1>2, <1>3, FailTyped DEF IInv

(* Up to the commit, a batch that is being published is the next of the plan,*)
(* and the run is not reported complete.                                   *)
LEMMA InPlan ==
    ASSUME CoreAssumption, IInv, Preparing \/ Publishing
    PROVE  /\ cmd.op = "approve" /\ cmd.batch \in Batches
           /\ cmd.batch = Len(Committed) + 1
           /\ run.status \notin Complete
<1>1. cmd.op = "approve"
  BY Approving DEF Preparing, Publishing, IInv, ControlInv
<1>2. cmd.batch \in Batches /\ cmd.batch = Len(Committed) + 1
  BY <1>1 DEF IInv, ControlInv, Arguments, NextInPlan
<1> QED
  BY <1>1, <1>2, NotComplete DEF IInv

(* A draft is staged under a revision number that nothing uses.            *)
LEMMA StageKeeps == CoreAssumption /\ IInv /\ (\E t \in Texts : Stage(t)) => IInv'
<1> SUFFICES ASSUME CoreAssumption, IInv, NEW t \in Texts, Stage(t) PROVE IInv'
  OBVIOUS
<1> DEFINE b == cmd.batch  r == <<b, NextRevision(b)>>
<1>1. /\ UNCHANGED <<accepted, ledger, backup, rejected, view, auto, jobs, run, audit, stops>>
      /\ At("stage") /\ Go(Tail(todo)) /\ UNCHANGED newLedger
      /\ Of(b, staging \union accepted) = {}
      /\ staging' = staging \union {r} /\ content' = [content EXCEPT ![r] = t]
  BY DEF Stage, Pop
<1>2. /\ cmd.op = "approve" /\ b \in Batches
      /\ b = Len(Committed) + 1
      /\ run.status \notin Complete
      /\ Preparing
  BY <1>1, InPlan DEF Preparing
<1>3. r \in Revisions /\ r \notin rejected /\ r[1] = b
  BY <1>2, NextRevisionFits DEF IInv, DiskInv, TypeOK
<1> HIDE DEF r
<1>4. Advanced("stage")
  BY <1>1, Popped DEF IInv, ControlInv
<1>5. todo' # <<>> => Head(todo') \in {"bind", "recover"} /\ cmd' = cmd
  BY <1>4 DEF Advanced, Neighbours
<1>6. TypeOK'
  BY <1>1, <1>3, <1>4 DEF IInv, TypeOK, Advanced, audit
<1>7. /\ content \in [Revisions -> Texts \union {NoFile}]
      /\ staging \subseteq Revisions /\ accepted \subseteq Revisions
      /\ Committed \in Seq(Revisions)
  BY EntriesFits DEF IInv, TypeOK
<1>8. content'[r] = t /\ \A q \in Revisions : q # r => content'[q] = content[q]
  BY <1>1, <1>3, <1>7
<1>9. Committed' = Committed
  BY <1>1 DEF Committed
<1>10. DiskInv'
  <2>1. InOrder'
    <3>1. ASSUME NEW i \in DOMAIN Committed
          PROVE  Committed[i][1] = i /\ content'[Committed[i]] \in Texts
      <4>1. Committed[i][1] = i /\ content[Committed[i]] \in Texts
        BY DEF IInv, DiskInv, InOrder
      <4>2. Committed[i] \in Revisions /\ i \in 1 .. Len(Committed) /\ Len(Committed) \in Nat
        BY <1>7
      <4>3. Committed[i] # r
        BY <1>2, <1>3, <4>1, <4>2
      <4> QED
        BY <1>8, <4>1, <4>2, <4>3
    <3>2. \A q \in staging' : content'[q] \in Texts
      BY <1>1, <1>3, <1>7, <1>8 DEF IInv, DiskInv, InOrder
    <3> QED
      BY <1>1, <1>9, <3>1, <3>2 DEF IInv, DiskInv, InOrder
  <2>2. Homed'
    <3>1. \A q \in staging \union accepted : q[1] # b
      BY <1>1 DEF Of
    <3> QED
      BY <1>1, <1>3, <3>1 DEF IInv, DiskInv, Homed
  <2>3. AwayIsNoticed' /\ ReadyMeansComplete' /\ VerdictFollowsReview'
    BY <1>1 DEF IInv, DiskInv, AwayIsNoticed, ReadyMeansComplete, VerdictFollowsReview,
                Entered, Entries, audit
  <2> QED
    BY <2>1, <2>2, <2>3 DEF DiskInv
<1>11. ControlInv'
  <2>1. Arguments' /\ NoVerdictYet'
    BY <1>1, <1>4, ArgumentsKept, NoVerdictKept DEF Advanced, IInv, ControlInv
  <2>2. Compared'
    BY <1>1, <1>2 DEF IInv, ControlInv, Compared
  <2>3. NextInPlan'
    <3>1. ~Publishing'
      BY <1>5 DEF Publishing, At
    <3>2. Preparing' => cmd'.batch = Len(Committed') + 1
      BY <1>2, <1>5, <1>9 DEF Preparing, At
    <3>3. Prepared' => Of(cmd'.batch, staging') # {}
      BY <1>1, <1>3, <1>5 DEF Prepared, At, Of
    <3> QED
      BY <3>1, <3>2, <3>3 DEF NextInPlan, Of
  <2>4. NewLedgerFits' /\ FilesInPublication' /\ Naming' /\ Judging'
    BY <1>5 DEF NewLedgerFits, FilesInPublication, Naming, Judging, Publishing, At
  <2> QED
    BY <1>4, <2>1, <2>2, <2>3, <2>4 DEF ControlInv, Advanced
<1> QED
  BY <1>6, <1>10, <1>11 DEF IInv

(* The checkpoint is bound to the staged revision.                         *)
LEMMA BindKeeps == CoreAssumption /\ IInv /\ Bind => IInv'
<1> SUFFICES ASSUME CoreAssumption, IInv, Bind PROVE IInv'
  OBVIOUS
<1>1. /\ UNCHANGED <<publication, rejected, content, view, auto, run, audit, stops>>
      /\ At("bind") /\ Go(Tail(todo)) /\ UNCHANGED newLedger
      /\ jobs' = [jobs EXCEPT ![Current(cmd.batch)] = "staged"]
  BY DEF Bind, Pop
<1>2. DiskInv'
  BY <1>1, JobsApart DEF IInv
<1>3. Advanced("bind")
  BY <1>1, Popped DEF IInv, ControlInv
<1>4. todo' # <<>> => Head(todo') = "recover" /\ cmd' = cmd
  BY <1>3 DEF Advanced, Neighbours
<1>5. TypeOK'
  BY <1>1, <1>3 DEF IInv, TypeOK, Advanced, publication, audit
<1>6. Preparing /\ Prepared
  BY <1>1 DEF Preparing, Prepared
<1>7. Arguments' /\ NoVerdictYet'
  BY <1>1, <1>3, ArgumentsKept, NoVerdictKept DEF Advanced, IInv, ControlInv
<1>8. Compared'
  BY <1>1, <1>6 DEF IInv, ControlInv, Compared, publication
<1>9. NextInPlan'
  <2>1. ~Publishing'
    BY <1>4 DEF Publishing, At
  <2>2. Preparing' => cmd'.batch = Len(Committed') + 1
    BY <1>1, <1>4, <1>6 DEF Preparing, At, IInv, ControlInv, NextInPlan, Committed, publication
  <2>3. Prepared' => Of(cmd'.batch, staging') # {}
    BY <1>1, <1>4, <1>6 DEF Prepared, At, IInv, ControlInv, NextInPlan, publication
  <2> QED
    BY <2>1, <2>2, <2>3 DEF NextInPlan, Of
<1>10. NewLedgerFits' /\ FilesInPublication' /\ Naming' /\ Judging'
  BY <1>4 DEF NewLedgerFits, FilesInPublication, Naming, Judging, Publishing, At
<1> QED
  BY <1>2, <1>3, <1>5, <1>7, <1>8, <1>9, <1>10 DEF IInv, ControlInv, Advanced

(* The recovery of a publication finds nothing to put back, because no command*)
(* gets here while the ledger is away.                                     *)
LEMMA RecoverKeeps == CoreAssumption /\ IInv /\ Recover => IInv'
<1> SUFFICES ASSUME CoreAssumption, IInv, Recover PROVE IInv'
  OBVIOUS
<1> DEFINE x == Current(cmd.batch)
<1>1. /\ UNCHANGED <<staging, rejected, content, view, auto, jobs, run, audit, stops>>
      /\ At("recover") /\ Go(Tail(todo)) /\ newLedger' = Append(Entries, x)
  BY DEF Recover
<1>2. Advanced("recover")
  BY <1>1, Popped DEF IInv, ControlInv
<1>3. todo' # <<>> => Head(todo') = "retire" /\ cmd' = cmd
  BY <1>2 DEF Advanced, Neighbours
<1>4. /\ Preparing /\ Prepared
      /\ cmd.op = "approve" /\ cmd.batch \in Batches /\ cmd.batch = Len(Committed) + 1
      /\ Of(cmd.batch, staging) # {}
  BY <1>1, InPlan DEF Preparing, Prepared, IInv, ControlInv, NextInPlan
<1>5. (ledger = NoFile => backup = NoFile) /\ (ledger # NoFile => auto # {})
  BY <1>4 DEF IInv, ControlInv, Compared
<1>6. ledger' = ledger /\ accepted' = accepted /\ backup' = NoFile
  BY <1>5 DEF Recover, RecoveredLedger
<1>7. Committed = Entries /\ Committed' = Committed
  BY <1>5, <1>6 DEF Committed, Entries
<1>8. Entries \in Seq(Revisions) /\ Entered \subseteq Revisions
  BY EntriesFits DEF IInv
<1>9. x \in Revisions /\ x[1] = cmd.batch /\ x \in staging
  <2>1. ~IsAccepted(cmd.batch)
    <3>1. \A i \in DOMAIN Entries : Entries[i][1] = i /\ i <= Len(Entries)
      BY <1>7, <1>8 DEF IInv, DiskInv, InOrder
    <3>2. \A q \in Entered : q[1] <= Len(Entries)
      BY <3>1 DEF Entered
    <3>3. Len(Entries) \in Nat
      BY <1>8
    <3> QED
      BY <1>4, <1>7, <3>2, <3>3 DEF IsAccepted, Of
  <2> QED
    BY <1>4, <2>1, CurrentFits DEF IInv, DiskInv
<1> HIDE DEF x
<1>10. TypeOK'
  <2>1. newLedger' \in File
    BY <1>1, <1>8, <1>9 DEF File, SeqOfRevisions
  <2> QED
    BY <1>1, <1>2, <1>6, <2>1 DEF IInv, TypeOK, Advanced, File, audit
<1>11. DiskInv'
  <2>1. InOrder'
    <3>1. backup' # <<>>
      <4>1. <<>> \in Seq(Revisions)
        OBVIOUS
      <4> QED
        BY <1>6, <4>1 DEF CoreAssumption
    <3> QED
      BY <1>1, <1>6, <1>7, <3>1 DEF IInv, DiskInv, InOrder
  <2>2. AwayIsNoticed' /\ Homed' /\ ReadyMeansComplete' /\ VerdictFollowsReview'
    BY <1>1, <1>6 DEF IInv, DiskInv, AwayIsNoticed, Homed, ReadyMeansComplete,
                      VerdictFollowsReview, Entered, Entries, audit
  <2> QED
    BY <2>1, <2>2 DEF DiskInv
<1>12. ControlInv'
  <2>1. Arguments' /\ NoVerdictYet'
    BY <1>1, <1>2, ArgumentsKept, NoVerdictKept DEF Advanced, IInv, ControlInv
  <2>2. Compared' /\ ~Preparing' /\ ~Prepared'
    BY <1>3 DEF Compared, Preparing, Prepared, At
  <2>3. NextInPlan'
    BY <1>3, <1>4, <1>7, <2>2 DEF NextInPlan, Publishing, At
  <2>4. NewLedgerFits'
    <3>1. content[x] \in Texts
      BY <1>9 DEF IInv, DiskInv, InOrder
    <3>2. newLedger' = Append(Committed', x)
      BY <1>1, <1>7
    <3>3. Publishing' => cmd' = cmd
      BY <1>3 DEF Publishing, At
    <3> QED
      BY <1>1, <1>9, <3>1, <3>2, <3>3 DEF NewLedgerFits
  <2>5. FilesInPublication'
    BY <1>1, <1>3, <1>5, <1>6 DEF FilesInPublication, At
  <2>6. Naming' /\ Judging'
    BY <1>3 DEF Naming, Judging, At
  <2> QED
    BY <1>2, <2>1, <2>2, <2>3, <2>4, <2>5, <2>6 DEF ControlInv, Advanced
<1> QED
  BY <1>10, <1>11, <1>12 DEF IInv

(* The old ledger becomes the backup; it is still what is committed.       *)
LEMMA RetireKeeps == CoreAssumption /\ IInv /\ Retire => IInv'
<1> SUFFICES ASSUME CoreAssumption, IInv, Retire PROVE IInv'
  OBVIOUS
<1>1. /\ UNCHANGED <<staging, accepted, rejected, content, view, auto, jobs, run, audit, stops>>
      /\ At("retire") /\ Go(Tail(todo)) /\ UNCHANGED newLedger
      /\ backup' = ledger /\ ledger' = NoFile
  BY DEF Retire, Pop
<1>2. Advanced("retire")
  BY <1>1, Popped DEF IInv, ControlInv
<1>3. todo' # <<>> => Head(todo') = "move" /\ cmd' = cmd
  BY <1>2 DEF Advanced, Neighbours
<1>4. Publishing /\ ~At("commit")
  BY <1>1 DEF Publishing, At
<1>5. /\ cmd.op = "approve" /\ cmd.batch \in Batches /\ cmd.batch = Len(Committed) + 1
      /\ run.status \notin Complete
  BY <1>4, InPlan
<1>6. backup = NoFile /\ (ledger # NoFile => auto # {})
  BY <1>1 DEF IInv, ControlInv, FilesInPublication
<1>7. Committed' = Committed
  BY <1>1, <1>6 DEF Committed
<1>8. TypeOK'
  BY <1>1, <1>2 DEF IInv, TypeOK, Advanced, File, audit
<1>9. DiskInv'
  <2>1. InOrder'
    BY <1>1, <1>6, <1>7 DEF IInv, DiskInv, InOrder
  <2>2. AwayIsNoticed' /\ Homed' /\ VerdictFollowsReview'
    BY <1>1, <1>6 DEF IInv, DiskInv, AwayIsNoticed, Homed, VerdictFollowsReview, audit
  <2>3. ReadyMeansComplete'
    BY <1>1, <1>5 DEF ReadyMeansComplete
  <2> QED
    BY <2>1, <2>2, <2>3 DEF DiskInv
<1>10. ControlInv'
  <2>1. Arguments' /\ NoVerdictYet'
    BY <1>1, <1>2, ArgumentsKept, NoVerdictKept DEF Advanced, IInv, ControlInv
  <2>2. Compared' /\ ~Preparing' /\ ~Prepared'
    BY <1>3 DEF Compared, Preparing, Prepared, At
  <2>3. NextInPlan'
    BY <1>3, <1>5, <1>7, <2>2 DEF NextInPlan, Publishing, At
  <2>4. NewLedgerFits'
    <3>1. Publishing' => cmd' = cmd
      BY <1>3 DEF Publishing, At
    <3> QED
      BY <1>1, <1>4, <1>7, <3>1 DEF IInv, ControlInv, NewLedgerFits
  <2>5. FilesInPublication' /\ Naming' /\ Judging'
    BY <1>1, <1>3 DEF FilesInPublication, Naming, Judging, At
  <2> QED
    BY <1>2, <2>1, <2>2, <2>3, <2>4, <2>5 DEF ControlInv, Advanced
<1> QED
  BY <1>8, <1>9, <1>10 DEF IInv

(* What a publication will add to the ledger.                              *)
LEMMA PublishedFits ==
    ASSUME IInv, Publishing
    PROVE  /\ newLedger = Append(Committed, Published)
           /\ Published \in Revisions
           /\ Published[1] = cmd.batch /\ content[Published] \in Texts
           /\ ~At("commit") => Published \in staging
<1>1. PICK x \in Revisions :
          /\ newLedger = Append(Committed, x)
          /\ x[1] = cmd.batch /\ content[x] \in Texts
          /\ ~At("commit") => x \in staging
  BY DEF IInv, ControlInv, NewLedgerFits
<1>2. Committed \in Seq(Revisions)
  BY EntriesFits DEF IInv
<1>3. Published = x
  BY <1>1, <1>2 DEF Published
<1> QED
  BY <1>1, <1>3

(* The staged revision becomes the accepted one.                           *)
LEMMA MoveKeeps == CoreAssumption /\ IInv /\ Move => IInv'
<1> SUFFICES ASSUME CoreAssumption, IInv, Move PROVE IInv'
  OBVIOUS
<1>1. /\ UNCHANGED <<ledger, backup, rejected, content, view, auto, jobs, run, audit, stops>>
      /\ At("move") /\ Go(Tail(todo)) /\ UNCHANGED newLedger
      /\ staging' = staging \ {Published} /\ accepted' = accepted \union {Published}
  BY DEF Move, Pop
<1>2. Advanced("move")
  BY <1>1, Popped DEF IInv, ControlInv
<1>3. todo' # <<>> => Head(todo') = "commit" /\ cmd' = cmd
  BY <1>2 DEF Advanced, Neighbours
<1>4. Publishing /\ ~At("commit")
  BY <1>1 DEF Publishing, At
<1>5. /\ cmd.op = "approve" /\ cmd.batch \in Batches /\ cmd.batch = Len(Committed) + 1
      /\ run.status \notin Complete
  BY <1>4, InPlan
<1>6. /\ newLedger = Append(Committed, Published)
      /\ Published \in Revisions
      /\ Published[1] = cmd.batch /\ content[Published] \in Texts
      /\ Published \in staging
  BY <1>4, PublishedFits
<1>7. Committed' = Committed
  BY <1>1 DEF Committed
<1>8. TypeOK'
  BY <1>1, <1>2, <1>6 DEF IInv, TypeOK, Advanced, audit
<1>9. DiskInv'
  <2>1. InOrder' /\ AwayIsNoticed' /\ VerdictFollowsReview'
    BY <1>1, <1>7 DEF IInv, DiskInv, InOrder, AwayIsNoticed, VerdictFollowsReview, audit
  <2>2. Homed'
    BY <1>1, <1>6 DEF IInv, DiskInv, Homed
  <2>3. ReadyMeansComplete'
    BY <1>1, <1>5 DEF ReadyMeansComplete
  <2> QED
    BY <2>1, <2>2, <2>3 DEF DiskInv
<1>10. ControlInv'
  <2>1. Arguments' /\ NoVerdictYet'
    BY <1>1, <1>2, ArgumentsKept, NoVerdictKept DEF Advanced, IInv, ControlInv
  <2>2. Compared' /\ ~Preparing' /\ ~Prepared'
    BY <1>3 DEF Compared, Preparing, Prepared, At
  <2>3. NextInPlan'
    BY <1>3, <1>5, <1>7, <2>2 DEF NextInPlan, Publishing, At
  <2>4. NewLedgerFits'
    <3>1. Publishing' => cmd' = cmd /\ At("commit")'
      BY <1>3 DEF Publishing, At
    <3> QED
      BY <1>1, <1>6, <1>7, <3>1 DEF NewLedgerFits
  <2>5. FilesInPublication' /\ Naming' /\ Judging'
    BY <1>1, <1>3 DEF IInv, ControlInv, FilesInPublication, Naming, Judging, At
  <2> QED
    BY <1>2, <2>1, <2>2, <2>3, <2>4, <2>5 DEF ControlInv, Advanced
<1> QED
  BY <1>8, <1>9, <1>10 DEF IInv

(* The ledger grows by the revision that was published, and by no other.   *)
LEMMA CommitGrows ==
    ASSUME CoreAssumption, IInv, Commit
    PROVE  /\ Committed' = Append(Committed, Published)
           /\ ledger' = newLedger /\ ledger' # NoFile
<1>1. At("commit") /\ ledger' = newLedger
  BY DEF Commit
<1>2. newLedger = Append(Committed, Published) /\ Published \in Revisions
  BY <1>1, PublishedFits DEF Publishing
<1>3. Committed \in Seq(Revisions)
  BY EntriesFits DEF IInv
<1>4. newLedger \in Seq(Revisions)
  BY <1>2, <1>3
<1>5. newLedger # NoFile
  BY <1>4 DEF CoreAssumption
<1> QED
  BY <1>1, <1>2, <1>5 DEF Committed

(* The new ledger takes the place of the old one.                          *)
LEMMA CommitKeeps == CoreAssumption /\ IInv /\ Commit => IInv'
<1> SUFFICES ASSUME CoreAssumption, IInv, Commit PROVE IInv'
  OBVIOUS
<1>1. /\ UNCHANGED <<staging, accepted, backup, rejected, content, view, auto, jobs, run,
                     audit, stops>>
      /\ At("commit") /\ Go(Tail(todo)) /\ newLedger' = NoFile
  BY DEF Commit
<1>2. Advanced("commit")
  BY <1>1, Popped DEF IInv, ControlInv
<1>3. todo' # <<>> => Head(todo') = "clean" /\ cmd' = cmd
  BY <1>2 DEF Advanced, Neighbours
<1>4. Publishing
  BY <1>1 DEF Publishing
<1>5. /\ cmd.batch = Len(Committed) + 1
      /\ run.status \notin Complete
  BY <1>4, InPlan
<1>6. /\ Published \in Revisions
      /\ Published[1] = cmd.batch /\ content[Published] \in Texts
  BY <1>4, PublishedFits
<1>7. /\ Committed' = Append(Committed, Published)
      /\ ledger' = Committed' /\ ledger' # NoFile
  BY CommitGrows DEF Committed
<1>8. Committed \in Seq(Revisions) /\ Committed' \in Seq(Revisions)
  BY <1>6, <1>7, EntriesFits DEF IInv
<1>9. TypeOK'
  BY <1>1, <1>2, <1>7, <1>8 DEF IInv, TypeOK, Advanced, File, SeqOfRevisions, audit
<1>10. DiskInv'
  <2>1. InOrder'
    <3>1. ASSUME NEW i \in DOMAIN Committed'
          PROVE  Committed'[i][1] = i /\ content[Committed'[i]] \in Texts
      <4>1. CASE i \in DOMAIN Committed
        <5>1. Committed'[i] = Committed[i]
          BY <1>7, <1>8, <4>1
        <5> QED
          BY <4>1, <5>1 DEF IInv, DiskInv, InOrder
      <4>2. CASE i \notin DOMAIN Committed
        <5>1. i = Len(Committed) + 1 /\ Committed'[i] = Published
          BY <1>7, <1>8, <4>2
        <5> QED
          BY <1>5, <1>6, <5>1
      <4> QED
        BY <4>1, <4>2
    <3>2. ledger' # <<>>
      BY <1>6, <1>7, <1>8
    <3> QED
      BY <1>1, <3>1, <3>2 DEF IInv, DiskInv, InOrder
  <2>2. AwayIsNoticed' /\ Homed' /\ VerdictFollowsReview'
    BY <1>1, <1>7 DEF IInv, DiskInv, AwayIsNoticed, Homed, VerdictFollowsReview, audit
  <2>3. ReadyMeansComplete'
    BY <1>1, <1>5 DEF ReadyMeansComplete
  <2> QED
    BY <2>1, <2>2, <2>3 DEF DiskInv
<1>11. ControlInv'
  <2>1. Arguments' /\ NoVerdictYet'
    BY <1>1, <1>2, ArgumentsKept, NoVerdictKept DEF Advanced, IInv, ControlInv
  <2>2. Compared' /\ ~Preparing' /\ ~Prepared' /\ ~Publishing'
    BY <1>3 DEF Compared, Preparing, Prepared, Publishing, At
  <2>3. NextInPlan' /\ NewLedgerFits'
    BY <2>2 DEF NextInPlan, NewLedgerFits
  <2>4. FilesInPublication' /\ Naming' /\ Judging'
    BY <1>3, <1>7 DEF FilesInPublication, Naming, Judging, At
  <2> QED
    BY <1>2, <2>1, <2>2, <2>3, <2>4 DEF ControlInv, Advanced
<1> QED
  BY <1>9, <1>10, <1>11 DEF IInv

(* The backup is removed when the new ledger is there.                     *)
LEMMA CleanKeeps == CoreAssumption /\ IInv /\ Clean => IInv'
<1> SUFFICES ASSUME CoreAssumption, IInv, Clean PROVE IInv'
  OBVIOUS
<1>1. /\ UNCHANGED <<staging, accepted, ledger, rejected, content, view, auto, jobs, run, audit,
                     stops>>
      /\ At("clean") /\ Go(Tail(todo)) /\ UNCHANGED newLedger
      /\ backup' = NoFile
  BY DEF Clean, Pop
<1>2. Advanced("clean")
  BY <1>1, Popped DEF IInv, ControlInv
<1>3. todo' # <<>> => Head(todo') \in QuietSteps /\ Head(todo') = "rebuild"
  BY <1>2 DEF Advanced, Neighbours, QuietSteps
<1>4. ledger # NoFile
  BY <1>1 DEF IInv, ControlInv, FilesInPublication
<1>5. Committed' = Committed
  BY <1>1, <1>4 DEF Committed
<1>6. TypeOK'
  BY <1>1, <1>2 DEF IInv, TypeOK, Advanced, File, audit
<1>7. DiskInv'
  <2>1. backup' # <<>>
    <3>1. <<>> \in Seq(Revisions)
      OBVIOUS
    <3> QED
      BY <1>1, <3>1 DEF CoreAssumption
  <2>2. InOrder'
    BY <1>1, <1>5, <2>1 DEF IInv, DiskInv, InOrder
  <2>3. AwayIsNoticed' /\ Homed' /\ ReadyMeansComplete' /\ VerdictFollowsReview'
    BY <1>1 DEF IInv, DiskInv, AwayIsNoticed, Homed, ReadyMeansComplete, VerdictFollowsReview,
                Entered, Entries, audit
  <2> QED
    BY <2>2, <2>3 DEF DiskInv
<1>8. ControlInv'
  <2>1. Arguments' /\ NoVerdictYet'
    BY <1>1, <1>2, ArgumentsKept, NoVerdictKept DEF Advanced, IInv, ControlInv
  <2>2. Compared'
    BY <1>3 DEF Compared, Preparing, At
  <2> QED
    BY <1>2, <1>3, <2>1, <2>2, AtQuiet DEF Advanced
<1> QED
  BY <1>6, <1>7, <1>8 DEF IInv

(* queries.jsonl is rebuilt from the ledger, never under a verdict.        *)
LEMMA RebuildKeeps == CoreAssumption /\ IInv /\ Rebuild => IInv'
<1> SUFFICES ASSUME CoreAssumption, IInv, Rebuild PROVE IInv'
  OBVIOUS
<1>1. /\ UNCHANGED <<publication, rejected, content, auto, jobs, run, audit, stops>>
      /\ At("rebuild")
  BY DEF Rebuild
<1>2. CASE Fail /\ UNCHANGED view
  <2>1. UNCHANGED disk
    BY <1>1, <1>2 DEF disk
  <2>2. DiskInv' /\ ControlInv'
    BY <1>2, <2>1, DiskSame, FailTyped DEF IInv
  <2>3. TypeOK'
    BY <1>1, <1>2, FailTyped DEF IInv, TypeOK, publication, audit
  <2> QED
    BY <2>2, <2>3 DEF IInv
<1>3. CASE view' = Entries /\ Pop
  <2>1. Go(Tail(todo)) /\ UNCHANGED newLedger
    BY <1>3 DEF Pop
  <2>2. Advanced("rebuild") /\ cmd.op = "approve"
    BY <1>1, <2>1, Popped, Approving DEF IInv, ControlInv
  <2>3. run.status \notin Terminal
    BY <2>2 DEF IInv, ControlInv, NoVerdictYet
  <2>4. TypeOK'
    BY <1>1, <1>3, <2>1, <2>2, EntriesFits
       DEF IInv, TypeOK, Advanced, SeqOfRevisions, publication, audit
  <2>5. DiskInv'
    <3>1. InOrder' /\ AwayIsNoticed' /\ Homed'
      BY <1>1 DEF IInv, DiskInv, InOrder, AwayIsNoticed, Homed, Committed, publication
    <3>2. ReadyMeansComplete'
      BY <1>1, <1>3 DEF IInv, DiskInv, ReadyMeansComplete, Entered, Entries, publication
    <3>3. VerdictFollowsReview'
      BY <1>1, <2>3 DEF VerdictFollowsReview
    <3> QED
      BY <3>1, <3>2, <3>3 DEF DiskInv
  <2>6. todo' # <<>> => /\ Head(todo') \in {"reconcile", "sync"}
                        /\ Head(todo') = "reconcile" => todo'[2] = "sync"
    BY <2>2 DEF Advanced, Neighbours
  <2>7. Compared'
    BY <2>6 DEF Compared, Preparing, At
  <2>8. Arguments' /\ NoVerdictYet'
    BY <1>1, <2>2, ArgumentsKept, NoVerdictKept DEF Advanced, IInv, ControlInv
  <2>9. ControlInv'
    BY <2>2, <2>6, <2>7, <2>8, AtQuiet DEF Advanced, QuietSteps
  <2> QED
    BY <2>4, <2>5, <2>9 DEF IInv
<1> QED
  BY <1>2, <1>3 DEF Rebuild

(* The rollback of a failed rename restores the ledger there was.          *)
LEMMA RenameFailsKeeps == CoreAssumption /\ IInv /\ RenameFails => IInv'
<1> SUFFICES ASSUME CoreAssumption, IInv, RenameFails PROVE IInv'
  OBVIOUS
<1>1. /\ UNCHANGED <<staging, rejected, content, view, auto, jobs, run, audit>>
      /\ Fail /\ stops' = stops + 1
      /\ accepted' \subseteq accepted
      /\ ledger' = (IF backup = NoFile THEN ledger ELSE backup) /\ backup' = NoFile
  BY DEF RenameFails
<1>2. Publishing
  BY DEF RenameFails, Publishing
<1>3. run.status \notin Complete
  BY <1>2, InPlan
<1>4. Committed' = Committed
  <2>1. backup = NoFile \/ ledger = NoFile
    BY <1>2 DEF Publishing, IInv, ControlInv, FilesInPublication
  <2> QED
    BY <1>1, <2>1 DEF Committed
<1>5. TypeOK'
  BY <1>1, FailTyped DEF IInv, TypeOK, File, audit
<1>6. DiskInv'
  <2>1. backup' # <<>> /\ ledger' # <<>>
    <3>1. <<>> \in Seq(Revisions)
      OBVIOUS
    <3> QED
      BY <1>1, <3>1 DEF CoreAssumption, IInv, DiskInv, InOrder
  <2>2. InOrder'
    BY <1>1, <1>4, <2>1 DEF IInv, DiskInv, InOrder
  <2>3. AwayIsNoticed' /\ Homed' /\ VerdictFollowsReview'
    BY <1>1 DEF IInv, DiskInv, AwayIsNoticed, Homed, VerdictFollowsReview, audit
  <2>4. ReadyMeansComplete'
    BY <1>1, <1>3 DEF ReadyMeansComplete
  <2> QED
    BY <2>2, <2>3, <2>4 DEF DiskInv
<1> QED
  BY <1>1, <1>5, <1>6, FailTyped DEF IInv

(* A staged revision is rejected.                                          *)
LEMMA RejectBatchKeeps ==
    ASSUME CoreAssumption, IInv, NEW r \in Revisions, RejectBatch(r)
    PROVE  IInv'
<1>1. /\ UNCHANGED <<accepted, ledger, backup, content, view, auto, jobs, run, audit, todo, cmd,
                     newLedger, stops>>
      /\ todo = <<>> /\ r \in staging /\ r[2] <= MaxRejects
      /\ staging' = staging \ {r} /\ rejected' = rejected \union {r}
  BY DEF RejectBatch
<1>2. TypeOK'
  BY <1>1 DEF IInv, TypeOK, audit
<1>3. DiskInv'
  <2>1. Homed'
    BY <1>1 DEF IInv, DiskInv, Homed
  <2>2. InOrder' /\ AwayIsNoticed' /\ ReadyMeansComplete' /\ VerdictFollowsReview'
    BY <1>1 DEF IInv, DiskInv, InOrder, AwayIsNoticed, ReadyMeansComplete,
                VerdictFollowsReview, Committed, Entered, Entries, audit
  <2> QED
    BY <2>1, <2>2 DEF DiskInv
<1>4. ControlInv'
  <2>1. Plans' /\ Arguments' /\ NoVerdictYet'
    BY <1>1 DEF IInv, ControlInv, Plans, Arguments, NoVerdictYet
  <2>2. Compared'
    BY <1>1 DEF Compared, Preparing, At
  <2> QED
    BY <1>1, <2>1, <2>2, AtQuiet
<1> QED
  BY <1>2, <1>3, <1>4 DEF IInv

(* The steps of the audit belong to the commands that have a sample.       *)
LEMMA Auditing ==
    ASSUME IInv, NEW x \in {"sample", "name", "review", "verdict"}, At(x)
    PROVE  /\ cmd.id \in SampleIds
           /\ x \in {"review", "verdict"} => cmd.op \in {"pass", "reject"}
<1>1. x \in StepsOf(cmd.op)
  BY StepOfCommand DEF IInv, ControlInv
<1>2. /\ cmd.op \in {"sample", "pass", "reject"}
      /\ x \in {"review", "verdict"} => cmd.op \in {"pass", "reject"}
  BY <1>1 DEF StepsOf
<1> QED
  BY <1>2 DEF IInv, ControlInv, Arguments

(* A plan of one step.                                                     *)
LEMMA OneStep ==
    ASSUME NEW x \in Lasts, NEW op, x \in StepsOf(op)
    PROVE  Ordered(<<x>>, op) /\ <<x>> # <<>> /\ Head(<<x>>) = x
BY DEF Ordered, Linked, Chain

(* The audit sample is drawn from the corpus as it is.                     *)
LEMMA PublishSampleKeeps == CoreAssumption /\ IInv /\ PublishSample => IInv'
<1> SUFFICES ASSUME CoreAssumption, IInv, PublishSample PROVE IInv'
  OBVIOUS
<1> DEFINE s == cmd.id
<1>1. /\ UNCHANGED <<publication, rejected, content, view, auto, jobs, run, reviews, stops>>
      /\ At("sample")
  BY DEF PublishSample
<1>2. CASE Fail /\ UNCHANGED samples
  <2>1. UNCHANGED disk
    BY <1>1, <1>2 DEF disk, audit
  <2>2. DiskInv' /\ ControlInv'
    BY <1>2, <2>1, DiskSame, FailTyped DEF IInv
  <2>3. TypeOK'
    BY <1>1, <1>2, FailTyped DEF IInv, TypeOK, publication
  <2> QED
    BY <2>2, <2>3 DEF IInv
<1>3. CASE /\ run.sample \in {NoFile, s}
           /\ samples' = [samples EXCEPT ![s] = view]
           /\ Go(<<"name">>) /\ UNCHANGED newLedger
  <2> DEFINE u == <<"name">>
  <2>1. s \in SampleIds
    BY <1>1, Auditing
  <2>2. cmd.op = "sample"
    <3>1. "sample" \in StepsOf(cmd.op)
      BY <1>1, StepOfCommand DEF IInv, ControlInv
    <3> QED
      BY <3>1 DEF StepsOf
  <2>3. Ordered(u, "sample") /\ u # <<>> /\ Head(u) = "name"
    BY OneStep DEF StepsOf, Lasts
  <2>4. Go(u)
    BY <1>3
  <2> HIDE DEF u
  <2>5. todo' = u /\ cmd' = cmd /\ u \in Seq(Steps)
    BY <2>3, <2>4, OrderedTyped DEF Go
  <2>6. samples'[s] = view /\ \A q \in SampleIds : q # s => samples'[q] = samples[q]
    BY <1>3, <2>1 DEF IInv, TypeOK
  <2>7. TypeOK'
    BY <1>1, <1>3, <2>5 DEF IInv, TypeOK, File, publication
  <2>8. DiskInv'
    <3>1. InOrder' /\ AwayIsNoticed' /\ Homed' /\ ReadyMeansComplete'
      BY <1>1 DEF IInv, DiskInv, InOrder, AwayIsNoticed, Homed, ReadyMeansComplete, Committed,
                  Entered, Entries, publication
    <3>2. VerdictFollowsReview'
      BY <1>1, <1>3, <2>6 DEF IInv, DiskInv, VerdictFollowsReview
    <3> QED
      BY <3>1, <3>2 DEF DiskInv
  <2>9. ControlInv'
    <3>1. Plans' /\ Arguments' /\ NoVerdictYet'
      BY <1>1, <2>2, <2>3, <2>5, ArgumentsKept, NoVerdictKept DEF IInv, ControlInv, Plans
    <3>2. Compared' /\ ~Preparing' /\ ~Prepared' /\ ~Publishing'
      BY <2>3, <2>5 DEF Compared, Preparing, Prepared, Publishing, At
    <3>3. NextInPlan' /\ NewLedgerFits' /\ FilesInPublication' /\ Judging'
      BY <2>3, <2>5, <3>2 DEF NextInPlan, NewLedgerFits, FilesInPublication, Judging, At
    <3>4. Naming'
      BY <1>1, <1>3, <2>5, <2>6 DEF Naming
    <3> QED
      BY <3>1, <3>2, <3>3, <3>4 DEF ControlInv
  <2> QED
    BY <2>7, <2>8, <2>9 DEF IInv
<1> QED
  BY <1>2, <1>3 DEF PublishSample

(* The run takes the name of its sample.                                   *)
LEMMA NameSampleKeeps == CoreAssumption /\ IInv /\ NameSample => IInv'
<1> SUFFICES ASSUME CoreAssumption, IInv, NameSample PROVE IInv'
  OBVIOUS
<1>1. /\ UNCHANGED <<publication, rejected, content, view, auto, jobs, audit, stops>>
      /\ At("name") /\ Go(Tail(todo)) /\ UNCHANGED newLedger
      /\ run' = [run EXCEPT !.sample = cmd.id]
  BY DEF NameSample, Pop
<1>2. Advanced("name") /\ cmd.id \in SampleIds
  BY <1>1, Popped, Auditing DEF IInv, ControlInv
<1>3. todo' = <<>> /\ cmd' = NoCommand
  BY <1>1, <1>2 DEF Advanced, Neighbours, Go
<1>4. run'.status = run.status /\ run'.sample = cmd.id
  BY <1>1 DEF IInv, TypeOK
<1>5. samples[cmd.id] = view /\ run.sample \in {NoFile, cmd.id}
  BY <1>1 DEF IInv, ControlInv, Naming
<1>6. TypeOK'
  BY <1>1, <1>2 DEF IInv, TypeOK, Advanced, publication, audit
<1>7. DiskInv'
  <2>1. InOrder' /\ AwayIsNoticed' /\ Homed' /\ ReadyMeansComplete'
    BY <1>1, <1>4 DEF IInv, DiskInv, InOrder, AwayIsNoticed, Homed, ReadyMeansComplete,
                      Committed, Entered, Entries, publication
  <2>2. VerdictFollowsReview'
    BY <1>1, <1>4, <1>5 DEF IInv, DiskInv, VerdictFollowsReview, audit
  <2> QED
    BY <2>1, <2>2 DEF DiskInv
<1> QED
  BY <1>3, <1>6, <1>7, Ended DEF IInv

(* A review is recorded once, for the sample of the run.                   *)
LEMMA ReviewKeeps == CoreAssumption /\ IInv /\ Review => IInv'
<1> SUFFICES ASSUME CoreAssumption, IInv, Review PROVE IInv'
  OBVIOUS
<1> DEFINE s == cmd.id
<1>1. /\ UNCHANGED <<publication, rejected, content, view, auto, jobs, run, samples, stops>>
      /\ At("review")
  BY DEF Review
<1>2. CASE Fail /\ UNCHANGED reviews
  <2>1. UNCHANGED disk
    BY <1>1, <1>2 DEF disk, audit
  <2>2. DiskInv' /\ ControlInv'
    BY <1>2, <2>1, DiskSame, FailTyped DEF IInv
  <2>3. TypeOK'
    BY <1>1, <1>2, FailTyped DEF IInv, TypeOK, publication
  <2> QED
    BY <2>2, <2>3 DEF IInv
<1>3. CASE /\ run.sample = s /\ run.status \in Complete /\ samples[s] = view
           /\ ReviewFits(s, cmd.op)
           /\ reviews' = [reviews EXCEPT ![s] = cmd.op]
           /\ Go(<<"verdict">>) /\ UNCHANGED newLedger
  <2> DEFINE u == <<"verdict">>
  <2>1. s \in SampleIds /\ cmd.op \in {"pass", "reject"}
    BY <1>1, Auditing
  <2>2. Ordered(u, cmd.op) /\ u # <<>> /\ Head(u) = "verdict"
    <3>1. "verdict" \in StepsOf(cmd.op)
      BY <2>1 DEF StepsOf
    <3> QED
      BY <3>1, OneStep DEF Lasts
  <2>3. Go(u)
    BY <1>3
  <2> HIDE DEF u
  <2>4. todo' = u /\ cmd' = cmd /\ u \in Seq(Steps)
    BY <2>2, <2>3, OrderedTyped DEF Go
  <2>5. reviews'[s] = cmd.op /\ reviews[s] \in {"none", cmd.op}
    BY <1>3, <2>1 DEF IInv, TypeOK, ReviewFits
  <2>6. TypeOK'
    BY <1>1, <1>3, <2>1, <2>4 DEF IInv, TypeOK, publication
  <2>7. DiskInv'
    <3>1. InOrder' /\ AwayIsNoticed' /\ Homed' /\ ReadyMeansComplete'
      BY <1>1 DEF IInv, DiskInv, InOrder, AwayIsNoticed, Homed, ReadyMeansComplete, Committed,
                  Entered, Entries, publication
    <3>2. VerdictFollowsReview'
      BY <1>1, <1>3, <2>1, <2>5 DEF IInv, DiskInv, VerdictFollowsReview
    <3> QED
      BY <3>1, <3>2 DEF DiskInv
  <2>8. ControlInv'
    <3>1. Plans' /\ Arguments' /\ NoVerdictYet'
      BY <1>1, <2>2, <2>4, ArgumentsKept, NoVerdictKept DEF IInv, ControlInv, Plans
    <3>2. Compared' /\ ~Preparing' /\ ~Prepared' /\ ~Publishing'
      BY <2>2, <2>4 DEF Compared, Preparing, Prepared, Publishing, At
    <3>3. NextInPlan' /\ NewLedgerFits' /\ FilesInPublication' /\ Naming'
      BY <2>2, <2>4, <3>2 DEF NextInPlan, NewLedgerFits, FilesInPublication, Naming, At
    <3>4. Judging'
      BY <1>1, <1>3, <2>4, <2>5 DEF Judging
    <3> QED
      BY <3>1, <3>2, <3>3, <3>4 DEF ControlInv
  <2> QED
    BY <2>6, <2>7, <2>8 DEF IInv
<1> QED
  BY <1>2, <1>3 DEF Review

(* The verdict is the one the review calls for.                            *)
LEMMA VerdictKeeps == CoreAssumption /\ IInv /\ Verdict => IInv'
<1> SUFFICES ASSUME CoreAssumption, IInv, Verdict PROVE IInv'
  OBVIOUS
<1> DEFINE v == VerdictOf(cmd.op)
<1>1. /\ UNCHANGED <<publication, rejected, content, view, auto, jobs, audit, stops>>
      /\ At("verdict")
  BY DEF Verdict
<1>2. CASE Fail /\ UNCHANGED run
  <2>1. UNCHANGED disk
    BY <1>1, <1>2 DEF disk
  <2>2. DiskInv' /\ ControlInv'
    BY <1>2, <2>1, DiskSame, FailTyped DEF IInv
  <2>3. TypeOK'
    BY <1>1, <1>2, FailTyped DEF IInv, TypeOK, publication, audit
  <2> QED
    BY <2>2, <2>3 DEF IInv
<1>3. CASE run' = [run EXCEPT !.status = v] /\ Pop
  <2>1. Go(Tail(todo)) /\ UNCHANGED newLedger
    BY <1>3 DEF Pop
  <2>2. Advanced("verdict") /\ cmd.id \in SampleIds /\ cmd.op \in {"pass", "reject"}
    BY <1>1, <2>1, Popped, Auditing DEF IInv, ControlInv
  <2>3. todo' = <<>> /\ cmd' = NoCommand
    BY <2>1, <2>2 DEF Advanced, Neighbours, Go
  <2>4. v \in Complete
    BY DEF VerdictOf, Complete, Terminal
  <2>5. run'.status = v /\ run'.sample = run.sample
    BY <1>3 DEF IInv, TypeOK
  <2>6. /\ run.status \in Complete /\ run.sample = cmd.id
        /\ reviews[cmd.id] = cmd.op /\ samples[cmd.id] = view
    BY <1>1 DEF IInv, ControlInv, Judging
  <2>7. cmd.id # NoFile
    BY <2>2 DEF CoreAssumption
  <2>8. TypeOK'
    BY <1>1, <1>3, <2>1, <2>2, <2>4 DEF IInv, TypeOK, Advanced, publication, audit
  <2>9. DiskInv'
    <3>1. InOrder' /\ AwayIsNoticed' /\ Homed' /\ ReadyMeansComplete'
      BY <1>1, <2>6 DEF IInv, DiskInv, InOrder, AwayIsNoticed, Homed, ReadyMeansComplete,
                        Committed, Entered, Entries, publication
    <3>2. VerdictFollowsReview'
      BY <1>1, <2>2, <2>5, <2>6, <2>7 DEF VerdictFollowsReview, audit
    <3> QED
      BY <3>1, <3>2 DEF DiskInv
  <2> QED
    BY <2>3, <2>8, <2>9, Ended DEF IInv
<1> QED
  BY <1>2, <1>3 DEF Verdict

-----------------------------------------------------------------------------
(* The theorems.                                                           *)

(* Steps that change nothing.                                              *)
LEMMA StutterKeeps == IInv /\ UNCHANGED vars => IInv'
<1> SUFFICES ASSUME IInv, UNCHANGED vars PROVE IInv'
  OBVIOUS
<1>1. DiskInv'
  BY DiskSame DEF IInv, vars
<1>2. TypeOK'
  BY DEF IInv, TypeOK, vars, disk, publication, audit
<1>3. ControlInv'
  BY DEF IInv, ControlInv, Plans, Arguments, Compared, NextInPlan, NewLedgerFits,
         FilesInPublication, NoVerdictYet, Naming, Judging, Preparing, Prepared, Publishing,
         At, Committed, Of, vars, disk, publication, audit
<1> QED
  BY <1>1, <1>2, <1>3 DEF IInv

(* The invariant is inductive: every step of Next keeps it.                *)
LEMMA NextKeeps == CoreAssumption /\ IInv /\ [Next]_vars => IInv'
<1> SUFFICES ASSUME CoreAssumption, IInv, [Next]_vars PROVE IInv'
  OBVIOUS
<1>1. CASE Step
  BY <1>1, SyncKeeps, WriteRunKeeps, IssueKeeps, BranchKeeps, ReconcileJobKeeps, StageKeeps,
     StageRefusedKeeps, BindKeeps, RecoverKeeps, RetireKeeps, MoveKeeps, CommitKeeps,
     CleanKeeps, RebuildKeeps, PublishSampleKeeps, NameSampleKeeps, ReviewKeeps, VerdictKeeps
     DEF Step
<1>2. ASSUME NEW op \in {"status", "work-order"}, Start(op, 0, NoFile) PROVE IInv'
  <2>1. op \in Commands /\ 0 \in 0 .. Size
    BY DEF Commands, CoreAssumption
  <2> QED
    BY <1>2, <2>1, StartKeeps
<1>3. ASSUME NEW b \in Batches, Start("approve", b, NoFile) PROVE IInv'
  <2>1. "approve" \in Commands /\ b \in 0 .. Size
    BY DEF Commands, Batches, CoreAssumption
  <2> QED
    BY <1>3, <2>1, StartKeeps
<1>4. ASSUME NEW op \in {"sample", "pass", "reject"}, NEW s \in SampleIds, Start(op, 0, s)
      PROVE  IInv'
  <2>1. op \in Commands /\ 0 \in 0 .. Size
    BY DEF Commands, CoreAssumption
  <2> QED
    BY <1>4, <2>1, StartKeeps
<1>5. CASE Operator
  BY <1>2, <1>3, <1>4, <1>5, RejectBatchKeeps DEF Operator
<1> QED
  BY <1>1, <1>5, CrashKeeps, RenameFailsKeeps, StutterKeeps DEF Next

(* The inductive invariant holds in every reachable state.                 *)
LEMMA Inductive == Spec => []IInv
<1>1. Init => IInv
  BY CoreAssumption, InitIInv
<1>2. IInv /\ [Next]_vars => IInv'
  BY CoreAssumption, NextKeeps
<1> QED
  BY <1>1, <1>2, PTL DEF Spec

(* Every variable of the synthesis always has its type.                    *)
THEOREM TypeCorrect == Spec => []TypeOK
<1>1. IInv => TypeOK
  BY DEF IInv
<1> QED
  BY <1>1, Inductive, PTL

(* A run that is reported as complete, approved or rejected has every batch of*)
(* the plan in the ledger, in accepted/ and in queries.jsonl, wherever earlier*)
(* processes were stopped (_update_run_from_workflow, verify_accepted_corpus).*)
THEOREM ReadyIsComplete == Spec => []ReadyMeansComplete
<1>1. IInv => ReadyMeansComplete
  BY DEF IInv, DiskInv
<1> QED
  BY <1>1, Inductive, PTL

(* The verdict of a run is the recorded review of its own sample, and the  *)
(* sample is of the corpus that queries.jsonl holds (record_audit_review). *)
THEOREM VerdictIsReview == Spec => []VerdictFollowsReview
<1>1. IInv => VerdictFollowsReview
  BY DEF IInv, DiskInv
<1> QED
  BY <1>1, Inductive, PTL

(* A set whose elements are all equal has at most one.                     *)
LEMMA AtMostOne ==
    ASSUME NEW S, \A x, y \in S : x = y
    PROVE  Cardinality(S) <= 1
<1>1. CASE S = {}
  BY <1>1, FS_EmptySet
<1>2. CASE S # {}
  <2>1. PICK x \in S : TRUE
    BY <1>2
  <2>2. S = {x}
    BY <2>1
  <2> QED
    BY <2>2, FS_Singleton
<1> QED
  BY <1>1, <1>2

(* No revision number is given out twice and at most one revision of a batch*)
(* is staged or accepted (next_revision, stage_generated_batch).           *)
THEOREM DistinctRevisions == Spec => []RevisionsDistinct
<1>1. ASSUME IInv PROVE RevisionsDistinct
  <2>1. ASSUME NEW r \in Revisions PROVE Cardinality(Homes(r)) <= 1
    <3> DEFINE place == [staging |-> staging, accepted |-> accepted, rejected |-> rejected]
    <3>1. /\ place["staging"] = staging /\ place["accepted"] = accepted
          /\ place["rejected"] = rejected
      OBVIOUS
    <3>2. Homes(r) = {h \in {"staging", "accepted", "rejected"} : r \in place[h]}
      BY DEF Homes
    <3> HIDE DEF place
    <3>3. /\ ~(r \in staging /\ r \in accepted)
          /\ ~(r \in rejected /\ (r \in staging \/ r \in accepted))
      BY <1>1 DEF IInv, DiskInv, Homed
    <3>4. ASSUME NEW x \in Homes(r), NEW y \in Homes(r) PROVE x = y
      <4>1. x \in {"staging", "accepted", "rejected"} /\ r \in place[x]
        BY <3>2
      <4>2. y \in {"staging", "accepted", "rejected"} /\ r \in place[y]
        BY <3>2
      <4> QED
        BY <3>1, <3>3, <4>1, <4>2
    <3> QED
      BY <3>4, AtMostOne
  <2>2. ASSUME NEW b \in Batches PROVE Cardinality(Of(b, staging \union accepted)) <= 1
    <3>1. ASSUME NEW x \in Of(b, staging \union accepted),
                 NEW y \in Of(b, staging \union accepted)
          PROVE  x = y
      <4>1. /\ x \in staging \union accepted /\ y \in staging \union accepted
            /\ x[1] = y[1]
        BY DEF Of
      <4>2. \A r, q \in staging \union accepted : r[1] = q[1] => r = q
        BY <1>1 DEF IInv, DiskInv, Homed
      <4> QED
        BY <4>1, <4>2
    <3> QED
      BY <3>1, AtMostOne
  <2> QED
    BY <2>1, <2>2 DEF RevisionsDistinct
<1> QED
  BY <1>1, Inductive, PTL

-----------------------------------------------------------------------------
(* The refinement.                                                         *)

(* What the state stands for in Corpus.                                    *)
corpusBar == [i \in DOMAIN Committed |-> content[Committed[i]]]
verdictBar == IF run.status \in Terminal THEN run.status ELSE "open"

(* The corpus that the ledger stands for is a sequence of texts.           *)
LEMMA CorpusTyped ==
    ASSUME CoreAssumption, IInv
    PROVE  corpusBar \in Seq(Texts) /\ Len(corpusBar) = Len(Committed)
<1>1. Committed \in Seq(Revisions) /\ DOMAIN Committed = 1 .. Len(Committed)
      /\ Len(Committed) \in Nat
  BY EntriesFits, LenProperties DEF IInv
<1>2. corpusBar \in [1 .. Len(Committed) -> Texts]
  BY <1>1 DEF corpusBar, IInv, DiskInv, InOrder
<1>3. corpusBar \in Seq(Texts)
  BY <1>1, <1>2, SeqDef
<1> QED
  BY <1>1, <1>2, <1>3, LenProperties

(* Only a commit changes the ledger that the publication left or will put  *)
(* back.                                                                   *)
LEMMA CommittedKept ==
    ASSUME CoreAssumption, IInv, [Next]_vars, ~Commit
    PROVE  Committed' = Committed
<1>1. CASE UNCHANGED <<ledger, backup>>
  BY <1>1 DEF Committed
<1>2. CASE Recover
  <2>1. ledger = NoFile => backup = NoFile
    BY <1>2 DEF Recover, IInv, ControlInv, Compared, Preparing
  <2> QED
    BY <1>2, <2>1 DEF Recover, RecoveredLedger, Committed
<1>3. CASE Retire
  <2>1. backup = NoFile
    BY <1>3 DEF Retire, IInv, ControlInv, FilesInPublication
  <2> QED
    BY <1>3, <2>1 DEF Retire, Committed
<1>4. CASE Clean
  <2>1. ledger # NoFile
    BY <1>4 DEF Clean, IInv, ControlInv, FilesInPublication
  <2> QED
    BY <1>4, <2>1 DEF Clean, Committed
<1>5. CASE RenameFails
  <2>1. backup = NoFile \/ ledger = NoFile
    BY <1>5 DEF RenameFails, IInv, ControlInv, FilesInPublication
  <2> QED
    BY <1>5, <2>1 DEF RenameFails, Committed
<1>6. CASE Step
  BY <1>1, <1>2, <1>3, <1>4, <1>6
     DEF Step, Sync, WriteRun, Issue, Branch, ReconcileJob, Stage, StageRefused, Bind, Move,
         Rebuild, PublishSample, NameSample, Review, Verdict, publication, disk
<1>7. CASE Operator \/ Crash \/ UNCHANGED vars
  BY <1>1, <1>7 DEF Operator, Start, RejectBatch, Crash, vars, publication, disk
<1> QED
  BY <1>5, <1>6, <1>7 DEF Next

(* No step changes the text of an accepted batch.                          *)
LEMMA TextsKept ==
    ASSUME CoreAssumption, IInv, [Next]_vars, NEW i \in DOMAIN Committed
    PROVE  content'[Committed[i]] = content[Committed[i]]
<1>1. CASE UNCHANGED content
  BY <1>1
<1>2. ASSUME NEW t \in Texts, Stage(t)
      PROVE  content'[Committed[i]] = content[Committed[i]]
  <2>1. /\ At("stage")
        /\ content' = [content EXCEPT ![<<cmd.batch, NextRevision(cmd.batch)>>] = t]
    BY <1>2 DEF Stage
  <2>2. cmd.batch = Len(Committed) + 1
    BY <2>1, InPlan DEF Preparing
  <2>3. Committed \in Seq(Revisions) /\ Committed[i][1] = i
    BY EntriesFits DEF IInv, DiskInv, InOrder
  <2>4. i # Len(Committed) + 1
    BY <2>3
  <2>5. Committed[i] # <<cmd.batch, NextRevision(cmd.batch)>>
    BY <2>2, <2>3, <2>4
  <2>6. content \in [Revisions -> Texts \union {NoFile}] /\ Committed[i] \in Revisions
    BY <2>3 DEF IInv, TypeOK
  <2> QED
    BY <2>1, <2>5, <2>6
<1>3. CASE Step
  BY <1>1, <1>2, <1>3
     DEF Step, Sync, WriteRun, Issue, Branch, ReconcileJob, StageRefused, Bind, Recover, Retire,
         Move, Commit, Clean, Rebuild, PublishSample, NameSample, Review, Verdict, disk
<1>4. CASE Operator \/ Crash \/ RenameFails \/ UNCHANGED vars
  BY <1>1, <1>4 DEF Operator, Start, RejectBatch, Crash, RenameFails, vars, disk
<1> QED
  BY <1>3, <1>4 DEF Next

(* Only a review gives a verdict.                                          *)
LEMMA VerdictKept ==
    ASSUME IInv, [Next]_vars, ~Verdict
    PROVE  verdictBar' = verdictBar
<1>1. CASE UNCHANGED run
  BY <1>1 DEF verdictBar
<1>2. run \in [status : {"ready", "running"} \union Complete,
               sample : SampleIds \union {NoFile}]
  BY DEF IInv, TypeOK
<1>3. CASE WriteRun
  <2>1. \/ UNCHANGED run
        \/ run' = [run EXCEPT !.status =
                      IF @ \in Terminal THEN @
                      ELSE IF Entries = <<>> THEN "ready"
                      ELSE IF NextBatch > Size THEN "pending" ELSE "running"]
    BY <1>3 DEF WriteRun
  <2> QED
    BY <1>1, <1>2, <2>1 DEF verdictBar, Terminal
<1>4. CASE NameSample
  <2>1. run'.status = run.status
    BY <1>2, <1>4 DEF NameSample
  <2> QED
    BY <2>1 DEF verdictBar
<1>5. CASE Step
  BY <1>1, <1>3, <1>4, <1>5
     DEF Step, Sync, Issue, Branch, ReconcileJob, Stage, StageRefused, Bind, Recover, Retire,
         Move, Commit, Clean, Rebuild, PublishSample, Review, disk
<1>6. CASE Operator \/ Crash \/ RenameFails \/ UNCHANGED vars
  BY <1>1, <1>6 DEF Operator, Start, RejectBatch, Crash, RenameFails, vars, disk
<1> QED
  BY <1>5, <1>6 DEF Next

(* Only a commit changes the corpus.                                       *)
LEMMA CorpusKept ==
    ASSUME CoreAssumption, IInv, [Next]_vars, ~Commit
    PROVE  corpusBar' = corpusBar
<1>1. Committed' = Committed
  BY CommittedKept
<1>2. \A i \in DOMAIN Committed : content'[Committed[i]] = content[Committed[i]]
  BY TextsKept
<1> QED
  BY <1>1, <1>2 DEF corpusBar

(* A commit accepts one text, at the end of a corpus that is still open.   *)
LEMMA CommitAccepts ==
    ASSUME CoreAssumption, IInv, [Next]_vars, Commit
    PROVE  \E t \in Texts :
               /\ verdictBar = "open" /\ Len(corpusBar) < Size
               /\ corpusBar' = Append(corpusBar, t)
               /\ verdictBar' = verdictBar
<1> DEFINE t == content[Published]
<1>1. At("commit") /\ UNCHANGED <<content, run>>
  BY DEF Commit
<1>2. /\ cmd.batch \in Batches /\ cmd.batch = Len(Committed) + 1
      /\ run.status \notin Complete
  BY <1>1, InPlan DEF Publishing
<1>3. t \in Texts /\ Published \in Revisions
  BY <1>1, PublishedFits DEF Publishing
<1>4. Committed' = Append(Committed, Published)
  BY CommitGrows
<1>5. verdictBar = "open" /\ verdictBar' = verdictBar
  BY <1>1, <1>2 DEF verdictBar, Complete
<1>6. Committed \in Seq(Revisions) /\ Len(Committed) \in Nat
      /\ corpusBar \in Seq(Texts) /\ Len(corpusBar) = Len(Committed)
  BY EntriesFits, CorpusTyped DEF IInv
<1>7. Len(corpusBar) < Size
  BY <1>2, <1>6 DEF Batches, CoreAssumption
<1>8. corpusBar' = Append(corpusBar, t)
  <2> DEFINE n == Len(Committed)
  <2>1. /\ DOMAIN Committed' = 1 .. n + 1
        /\ Committed'[n + 1] = Published
        /\ \A i \in 1 .. n : Committed'[i] = Committed[i]
    BY <1>3, <1>4, <1>6, AppendProperties, LenProperties
  <2>2. /\ DOMAIN Append(corpusBar, t) = 1 .. n + 1
        /\ Append(corpusBar, t)[n + 1] = t
        /\ \A i \in 1 .. n : Append(corpusBar, t)[i] = corpusBar[i]
        /\ Append(corpusBar, t) = [i \in 1 .. n + 1 |-> Append(corpusBar, t)[i]]
    BY <1>3, <1>6, AppendProperties, LenProperties
  <2>3. DOMAIN Committed = 1 .. n
    BY <1>6, LenProperties
  <2>4. \A i \in 1 .. n + 1 : content[Committed'[i]] = Append(corpusBar, t)[i]
    <3> SUFFICES ASSUME NEW i \in 1 .. n + 1
                 PROVE  content[Committed'[i]] = Append(corpusBar, t)[i]
      OBVIOUS
    <3>1. CASE i = n + 1
      BY <2>1, <2>2, <3>1
    <3>2. CASE i \in 1 .. n
      BY <2>1, <2>2, <2>3, <3>2 DEF corpusBar
    <3> QED
      BY <1>6, <3>1, <3>2
  <2>5. corpusBar' = [i \in 1 .. n + 1 |-> content[Committed'[i]]]
    BY <1>1, <2>1 DEF corpusBar
  <2> QED
    BY <2>2, <2>4, <2>5
<1> QED
  BY <1>3, <1>5, <1>7, <1>8

(* A verdict is given on the complete corpus, or repeats the one there is. *)
LEMMA VerdictJudges ==
    ASSUME CoreAssumption, IInv, [Next]_vars, Verdict
    PROVE  /\ corpusBar' = corpusBar
           /\ \/ verdictBar' = verdictBar
              \/ /\ verdictBar = "open" /\ Len(corpusBar) = Size
                 /\ verdictBar' \in {"approved", "rejected"}
<1>1. At("verdict") /\ UNCHANGED <<publication, content>>
  BY DEF Verdict
<1>2. corpusBar' = corpusBar
  BY <1>1 DEF corpusBar, Committed, publication
<1>3. run.status \in Complete
  BY <1>1 DEF IInv, ControlInv, Judging
<1>4. Len(corpusBar) = Size
  <2>1. Committed = ledger /\ Len(ledger) = Size
    BY <1>3 DEF IInv, DiskInv, ReadyMeansComplete, Committed
  <2> QED
    BY <2>1, CorpusTyped
<1>5. run \in [status : {"ready", "running"} \union Complete,
               sample : SampleIds \union {NoFile}]
  BY DEF IInv, TypeOK
<1>6. CASE UNCHANGED run
  BY <1>2, <1>6 DEF verdictBar
<1>7. CASE /\ run.status \notin Terminal \ {VerdictOf(cmd.op)}
           /\ run' = [run EXCEPT !.status = VerdictOf(cmd.op)]
  <2>1. run'.status = VerdictOf(cmd.op) /\ VerdictOf(cmd.op) \in Terminal
    BY <1>5, <1>7 DEF VerdictOf, Terminal
  <2> QED
    BY <1>2, <1>4, <1>7, <2>1 DEF verdictBar, Terminal
<1> QED
  BY <1>6, <1>7 DEF Verdict

(* Every step of the synthesis is a step of the corpus, or a stutter.      *)
LEMMA StepImplements ==
    CoreAssumption /\ IInv /\ [Next]_vars
        => [Abstract!CorpusNext]_<<corpusBar, verdictBar>>
<1> SUFFICES ASSUME CoreAssumption, IInv, [Next]_vars
             PROVE  [Abstract!CorpusNext]_<<corpusBar, verdictBar>>
  OBVIOUS
<1>1. CASE Commit
  <2>1. PICK t \in Texts :
            /\ verdictBar = "open" /\ Len(corpusBar) < Size
            /\ corpusBar' = Append(corpusBar, t)
            /\ verdictBar' = verdictBar
    BY <1>1, CommitAccepts
  <2>2. Abstract!Accept(t)
    BY <2>1 DEF Abstract!Accept, corpusBar, verdictBar
  <2> QED
    BY <2>2 DEF Abstract!CorpusNext
<1>2. CASE Verdict
  <2>1. CASE verdictBar' = verdictBar
    BY <1>2, <2>1, VerdictJudges
  <2>2. CASE verdictBar' # verdictBar
    <3>1. /\ verdictBar = "open" /\ Len(corpusBar) = Size
          /\ verdictBar' \in {"approved", "rejected"}
          /\ corpusBar' = corpusBar
      BY <1>2, <2>2, VerdictJudges
    <3>2. Abstract!Judge(verdictBar')
      BY <3>1 DEF Abstract!Judge, corpusBar, verdictBar
    <3> QED
      BY <3>1, <3>2 DEF Abstract!CorpusNext
  <2> QED
    BY <2>1, <2>2
<1>3. CASE ~Commit /\ ~Verdict
  BY <1>3, CorpusKept, VerdictKept
<1> QED
  BY <1>1, <1>2, <1>3

(* The synthesis, interrupted, rolled back and repeated as it may be,      *)
(* implements the abstract corpus: it only grows, in plan order, no accepted*)
(* text is replaced, and one verdict is given on the complete corpus.      *)
THEOREM CorpusImplemented == Spec => ImplementsCorpus
<1>1. Init => Abstract!CorpusInit
  <2> SUFFICES ASSUME Init PROVE Abstract!CorpusInit
    OBVIOUS
  <2>1. Committed = <<>> /\ run.status = "ready"
    BY DEF Init, Committed
  <2> QED
    BY <2>1 DEF Abstract!CorpusInit, Terminal
<1>2. IInv /\ [Next]_vars => [Abstract!CorpusNext]_<<corpusBar, verdictBar>>
  BY CoreAssumption, StepImplements
<1> QED
  BY <1>1, <1>2, Inductive, PTL DEF Spec, ImplementsCorpus, Abstract!CorpusSpec, corpusBar,
     verdictBar
=============================================================================
