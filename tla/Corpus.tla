------------------------------- MODULE Corpus --------------------------------
(***************************************************************************)
(* What the core synthesis promises: one corpus that grows batch by batch, *)
(* in plan order, is never rewritten, and gets one verdict when it is      *)
(* complete.                                                               *)
(***************************************************************************)
EXTENDS Naturals, Sequences

CONSTANTS
    Size,   \* batches of the plan
    Texts   \* contents a batch can have

VARIABLES
    corpus,   \* contents of the accepted batches, in plan order
    verdict   \* "open", "approved" or "rejected"

CorpusInit == corpus = <<>> /\ verdict = "open"

Accept(t) ==
    /\ verdict = "open"
    /\ Len(corpus) < Size
    /\ corpus' = Append(corpus, t)
    /\ UNCHANGED verdict

Judge(v) ==
    /\ verdict = "open"
    /\ Len(corpus) = Size
    /\ verdict' = v
    /\ UNCHANGED corpus

CorpusNext ==
    \/ \E t \in Texts : Accept(t)
    \/ \E v \in {"approved", "rejected"} : Judge(v)

CorpusSpec == CorpusInit /\ [][CorpusNext]_<<corpus, verdict>>
=============================================================================
