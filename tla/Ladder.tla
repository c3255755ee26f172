------------------------------- MODULE Ladder -------------------------------
(***************************************************************************)
(* What the three-stage experiment promises, without calls, files, labels, *)
(* crashes or resumes: stages are decided once and in order, each selects  *)
(* its own candidate Bank or inherits the Bank of the stage before, and    *)
(* the logical matrix gives every configuration the rows of its own Bank.  *)
(***************************************************************************)
EXTENDS Integers, Sequences

CONSTANTS
    Order,       \* the stages, in order
    Base,        \* the Static Bank
    Candidates,  \* candidate Banks of each stage
    Undecided,   \* a stage without decision
    Nothing      \* no matrix published

VARIABLES
    chosen,      \* Bank selected by each stage
    published    \* Banks behind each configuration's rows

lvars == <<chosen, published>>

StageSet == {Order[i] : i \in DOMAIN Order}

Inherited(i) == IF i = 1 THEN Base ELSE chosen[Order[i - 1]]

LadderInit ==
    /\ chosen = [s \in StageSet |-> Undecided]
    /\ published = Nothing

Decide(i) ==
    /\ chosen[Order[i]] = Undecided
    /\ \A j \in 1 .. i - 1 : chosen[Order[j]] # Undecided
    /\ \E b \in Candidates[Order[i]] \union {Inherited(i)} :
           chosen' = [chosen EXCEPT ![Order[i]] = b]
    /\ UNCHANGED published

Publish ==
    /\ \A s \in StageSet : chosen[s] # Undecided
    /\ published' = [s \in StageSet |-> {chosen[s]}]
    /\ UNCHANGED chosen

LadderNext == (\E i \in DOMAIN Order : Decide(i)) \/ Publish

LadderSpec == LadderInit /\ [][LadderNext]_lvars
=============================================================================
