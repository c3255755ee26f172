-------------------------- MODULE BudgetLedgerProofs --------------------------
(***************************************************************************)
(* Proofs about BudgetLedger: type correctness, that the directory of      *)
(* events always replays, that no call identity is ever sent twice, that   *)
(* no receipt or checkpoint leaves a reservation open behind it, that the  *)
(* ledger accounts for what the providers charge, and that the race for    *)
(* its files implements the capped account of AtomicBudget.                *)
(***************************************************************************)
EXTENDS BudgetLedger, SumLemmas

(* What the control state of a process implies about its memory.           *)
ControlOK(p) ==
    /\ run[p] <= MaxRuns[p]
    /\ mode[p] \in Stopped \union {"select"} => call[p] = 1
    /\ mode[p] \in Running => session[p] \in Session
    /\ mode[p] \in Running \ {"select"} =>
           /\ member[p] <= Queries
           /\ saved[Member(p)] < Len(Phases[p])
           /\ receipts[Member(p)] < MaxAttempts
           /\ call[p] <= Len(Phase(p))
    /\ mode[p] \in {"create", "close", "chat"} =>
           want[p] \in LedgerEvent /\ want[p].id.shard = p
    /\ mode[p] = "close" => want[p].kind \in Terminals
    /\ mode[p] = "chat" => want[p].kind = "reservation"

TypeInv ==
    /\ TypeOK
    /\ \A m \in Members : saved[m] <= Len(Phases[m[1]])
    /\ \A p \in Shards : ControlOK(p)

-----------------------------------------------------------------------------
(* Identities.                                                             *)
LEMMA FullNat == ASSUME NEW id \in Id PROVE Full(id) \in Nat \ {0}
BY BudgetLedgerAssumption DEF Id, IdIn, Full, StageOf

LEMMA IdShard == ASSUME NEW id \in Id PROVE id.shard \in Shards
BY DEF Id, IdIn

LEMMA ConstantTypes ==
    /\ Queries \in Nat \ {0} /\ MaxAttempts \in Nat \ {0}
    /\ AppendAttempts \in Nat \ {0} /\ Costs \subseteq Nat
    /\ \A p \in Shards : /\ MaxRuns[p] \in Nat
                         /\ Phases[p] \in Seq(Seq(DOMAIN Reserve) \ {<<>>})
BY BudgetLedgerAssumption

(* What a process knows of itself and of the member it is at.              *)
LEMMA ProcessTypes ==
    ASSUME TypeInv, NEW p \in Shards
    PROVE  /\ ControlOK(p) /\ run[p] \in Nat
           /\ member[p] \in 1..(Queries + 1) /\ call[p] \in Nat \ {0}
BY DEF TypeInv, TypeOK

LEMMA MemberTypes ==
    ASSUME TypeInv, NEW p \in Shards, member[p] <= Queries
    PROVE  /\ member[p] \in 1..Queries
           /\ Member(p) \in Members /\ Member(p)[1] = p
           /\ saved[Member(p)] \in Nat
           /\ receipts[Member(p)] \in 0..MaxAttempts
<1>1. member[p] \in 1..Queries
  BY ConstantTypes, ProcessTypes
<1>2. Member(p) \in Members /\ Member(p)[1] = p
  BY <1>1 DEF Member, Members
<1>3. saved \in [Members -> Nat] /\ receipts \in [Members -> 0..MaxAttempts]
  BY DEF TypeInv, TypeOK
<1>4. QED
  BY <1>1, <1>2, <1>3

(* The identity a process asks for next is a valid one of its own shard.   *)
LEMMA IdentityType ==
    ASSUME TypeInv, NEW p \in Shards, mode[p] \in Running \ {"select"}
    PROVE  Identity(p) \in Id /\ Identity(p).shard = p
<1> DEFINE i == saved[Member(p)] + 1
<1>1. /\ member[p] <= Queries /\ saved[Member(p)] < Len(Phases[p])
      /\ receipts[Member(p)] < MaxAttempts /\ call[p] <= Len(Phase(p))
      /\ run[p] <= MaxRuns[p]
  BY ProcessTypes DEF ControlOK
<1>2. i \in DOMAIN Phases[p]
  BY <1>1, ConstantTypes, MemberTypes
<1>3. call[p] \in DOMAIN Phases[p][i]
  <2>1. Phases[p][i] \in Seq(DOMAIN Reserve)
    BY <1>2, ConstantTypes
  <2>2. QED
    BY <1>1, <2>1, ProcessTypes DEF Phase
<1>4. Wire(p) \in 0..MaxRuns[p]
  BY <1>1, ConstantTypes, ProcessTypes DEF Wire
<1>5. receipts[Member(p)] + 1 \in 1..MaxAttempts /\ member[p] \in 1..Queries
  BY <1>1, ConstantTypes, MemberTypes
<1>6. Identity(p) \in IdIn(p, i)
  BY <1>2, <1>3, <1>4, <1>5 DEF Identity, IdIn
<1>7. <<p, i>> \in UNION {{r} \X DOMAIN Phases[r] : r \in Shards}
  BY <1>2
<1>8. IdIn(p, i) \subseteq Id
  <2> DEFINE pi == <<p, i>>
  <2>1. pi[1] = p /\ pi[2] = i
    OBVIOUS
  <2>2. IdIn(pi[1], pi[2]) \subseteq Id
    <3> HIDE DEF pi
    <3>1. pi \in UNION {{r} \X DOMAIN Phases[r] : r \in Shards}
      BY <1>7 DEF pi
    <3>2. QED
      BY <3>1, Zenon DEF Id
  <2>3. QED
    BY <2>1, <2>2
<1>9. QED
  BY <1>6, <1>8 DEF Identity

(* A replay of a prefix of the directory is a well-typed state.            *)
LEMMA PrefixType ==
    ASSUME log \in Seq(LedgerEvent), NEW n \in 0..Len(log)
    PROVE  Prefix(n) \in Session
<1>1. ASSUME NEW i \in 1..n PROVE log[i].id \in Id
  <2>1. log[i] \in LedgerEvent
    OBVIOUS
  <2>2. QED
    BY <2>1 DEF LedgerEvent
<1>2. \A kinds : IdsOf(kinds, n) \subseteq Id
  BY <1>1 DEF IdsOf, Indexes
<1>3. QED
  BY <1>2 DEF Prefix, Session

LEMMA AcceptType ==
    ASSUME NEW s \in Session, NEW e \in LedgerEvent
    PROVE  Accept(s, e) \in Session
BY DEF Session, LedgerEvent, Accept

LEMMA CurrentType ==
    ASSUME TypeInv, NEW p \in Shards, mode[p] \in Running
    PROVE  Current(p) \in Session
<1>1. Ledger \in Session
  BY PrefixType DEF TypeInv, TypeOK, Ledger
<1>2. QED
  BY <1>1 DEF TypeInv, ControlOK, Current

-----------------------------------------------------------------------------
(* A process that a step does not touch keeps its control invariant.       *)
LEMMA OthersKeep ==
    ASSUME TypeInv, NEW q \in Shards,
           UNCHANGED <<mode[q], member[q], call[q], session[q], want[q], run[q]>>,
           \A k \in Members : k[1] = q => UNCHANGED <<saved[k], receipts[k]>>
    PROVE  ControlOK(q)'
<1>1. Member(q)' = Member(q)
  BY DEF Member
<1>2. ASSUME mode[q] \in Running \ {"select"}
      PROVE  UNCHANGED <<saved[Member(q)], receipts[Member(q)], Phase(q)>>
  <2>1. Member(q) \in Members /\ Member(q)[1] = q
    BY <1>2, BudgetLedgerAssumption DEF TypeInv, TypeOK, ControlOK, Member, Members
  <2>2. QED
    BY <2>1, <1>1 DEF Phase
<1>3. QED
  BY <1>1, <1>2 DEF TypeInv, ControlOK

(* Each operation preserves the type invariant.  An exit of any kind:      *)
LEMMA StopTyped ==
    ASSUME TypeInv, NEW p \in Shards, NEW m \in Stopped, Stop(p, m),
           UNCHANGED <<log, saved, sent>>,
           receipts' \in [Members -> 0..MaxAttempts],
           \A k \in Members : k[1] # p => receipts'[k] = receipts[k],
           run' \in [Shards -> Nat], \A q \in Shards : run'[q] <= MaxRuns[q],
           \A q \in Shards : q # p => run'[q] = run[q]
    PROVE  TypeInv'
<1> USE DEF Stop, Goto
<1>1. TypeOK'
  <2>1. mode' \in [Shards -> Stopped \union Running]
    BY DEF TypeInv, TypeOK
  <2>2. /\ member' \in [Shards -> 1..(Queries + 1)]
        /\ call' \in [Shards -> Nat \ {0}]
        /\ tries' \in [Shards -> 0..(AppendAttempts - 1)]
    BY ConstantTypes DEF TypeInv, TypeOK
  <2>3. /\ session' \in [Shards -> Session \union {NoSession}]
        /\ want' \in [Shards -> LedgerEvent \union {NoEvent}]
        /\ DOMAIN books' = Shards
    BY DEF TypeInv, TypeOK
  <2>4. QED
    BY <2>1, <2>2, <2>3 DEF TypeInv, TypeOK
<1>2. ASSUME NEW q \in Shards PROVE ControlOK(q)'
  <2>1. CASE q = p
    <3>1. mode'[p] = m /\ m \notin Running /\ call'[p] = 1
      BY DEF TypeInv, TypeOK, Stopped, Running
    <3>2. QED
      BY <2>1, <3>1 DEF ControlOK, Stopped, Running
  <2>2. CASE q # p
    BY <2>2, OthersKeep DEF TypeInv, TypeOK, Members
  <2>3. QED
    BY <2>1, <2>2
<1>3. QED
  BY <1>1, <1>2 DEF TypeInv

-----------------------------------------------------------------------------
(* The steps of a process that stays alive.  Each proof shows the types,   *)
(* the control invariant of the acting process, and that of every other.   *)
LEMMA PhaseType ==
    ASSUME TypeInv, NEW p \in Shards, member[p] <= Queries,
           saved[Member(p)] < Len(Phases[p])
    PROVE  Member(p) \in Members /\ Len(Phase(p)) \in Nat \ {0}
<1> DEFINE i == saved[Member(p)] + 1
<1>1. i \in DOMAIN Phases[p]
  BY ConstantTypes, MemberTypes
<1>2. Phase(p) \in Seq(DOMAIN Reserve) \ {<<>>}
  BY <1>1, ConstantTypes DEF Phase
<1>3. QED
  BY <1>2, MemberTypes

LEMMA PassOverTyped ==
    ASSUME TypeInv, NEW p \in Shards, PassOver(p)
    PROVE  TypeInv'
<1>0. member' \in [Shards -> 1..(Queries + 1)]
  <2>1. member[p] + 1 \in 1..(Queries + 1)
    BY MemberTypes, ConstantTypes DEF PassOver
  <2>2. QED
    BY <2>1 DEF PassOver, TypeInv, TypeOK
<1>1. TypeOK' /\ \A k \in Members : saved'[k] <= Len(Phases[k[1]])
  BY <1>0 DEF PassOver, files, memory, TypeInv, TypeOK
<1>2. ControlOK(p)'
  BY DEF PassOver, files, memory, Adopt, Goto, TypeInv, TypeOK, ControlOK,
     Stopped, Running, Member, Phase
<1>3. ASSUME NEW q \in Shards, q # p PROVE ControlOK(q)'
  BY <1>3, OthersKeep DEF TypeInv, TypeOK, PassOver, files, memory, Adopt, Goto
<1>4. QED
  BY <1>1, <1>2, <1>3 DEF TypeInv

LEMMA BeginTyped ==
    ASSUME TypeInv, NEW p \in Shards, Begin(p)
    PROVE  TypeInv'
<1>0. member[p] <= Queries /\ saved[Member(p)] < Len(Phases[p])
      /\ call[p] <= Len(Phase(p))
  <2>1. saved[Member(p)] < Len(Phases[p])
    BY DEF Begin, TypeInv, TypeOK, Member, Members, Finished
  <2>2. QED
    BY <2>1, PhaseType DEF Begin, TypeInv, ControlOK
<1>1. TypeOK' /\ \A k \in Members : saved'[k] <= Len(Phases[k[1]])
  BY DEF Begin, files, memory, Adopt, Goto, TypeInv, TypeOK, Running
<1>2. ControlOK(p)'
  BY <1>0 DEF Begin, files, memory, Adopt, Goto, TypeInv, TypeOK, ControlOK,
     Stopped, Running, Member, Phase
<1>3. ASSUME NEW q \in Shards, q # p PROVE ControlOK(q)'
  BY <1>3, OthersKeep DEF TypeInv, TypeOK, Begin, files, memory, Adopt, Goto
<1>4. QED
  BY <1>1, <1>2, <1>3 DEF TypeInv

LEMMA DuplicateCallTyped ==
    ASSUME TypeInv, NEW p \in Shards, DuplicateCall(p)
    PROVE  TypeInv'
<1>0. /\ mode[p] = "reserve" /\ mode' = [mode EXCEPT ![p] = "orphan"]
      /\ session' = [session EXCEPT ![p] = Current(p)]
      /\ books' = [books EXCEPT ![p] = CurrentBooks(p)]
      /\ tries' = [tries EXCEPT ![p] = 0]
      /\ UNCHANGED <<log, receipts, saved, member, call, want, run, sent>>
  BY DEF DuplicateCall, Adopt, Goto, files
<1>5. Current(p) \in Session
  BY <1>0, CurrentType DEF Running
<1>6. tries' \in [Shards -> 0..(AppendAttempts - 1)]
  BY <1>0, ConstantTypes DEF TypeInv, TypeOK
<1>1. TypeOK' /\ \A k \in Members : saved'[k] <= Len(Phases[k[1]])
  BY <1>0, <1>5, <1>6 DEF TypeInv, TypeOK, Running
<1>2. ControlOK(p)'
  BY <1>0, <1>5 DEF TypeInv, TypeOK, ControlOK, Stopped, Running, Member, Phase
<1>3. ASSUME NEW q \in Shards, q # p PROVE ControlOK(q)'
  BY <1>3, OthersKeep DEF TypeInv, TypeOK, DuplicateCall, files, memory, Adopt, Goto
<1>4. QED
  BY <1>1, <1>2, <1>3 DEF TypeInv

LEMMA BuildReservationTyped ==
    ASSUME TypeInv, NEW p \in Shards, BuildReservation(p)
    PROVE  TypeInv'
<1>0. PICK e \in LedgerEvent :
        /\ mode[p] = "reserve" /\ mode' = [mode EXCEPT ![p] = "create"]
        /\ session' = [session EXCEPT ![p] = Current(p)]
        /\ books' = [books EXCEPT ![p] = CurrentBooks(p)]
        /\ want' = [want EXCEPT ![p] = e]
        /\ e.id = Identity(p)
        /\ UNCHANGED <<log, receipts, saved, member, call, tries, run, sent>>
  <2>1. Event("reservation", Identity(p), Full(Identity(p))) \in LedgerEvent
    BY IdentityType, FullNat DEF BuildReservation, Running, Event, LedgerEvent
  <2>2. QED
    BY <2>1 DEF BuildReservation, Adopt, Goto, files, Event
<1>5. Current(p) \in Session
  BY <1>0, CurrentType DEF Running
<1>6. e.id.shard = p
  BY <1>0, IdentityType DEF Running
<1>1. TypeOK' /\ \A k \in Members : saved'[k] <= Len(Phases[k[1]])
  BY <1>0, <1>5, <1>6 DEF TypeInv, TypeOK, Running
<1>2. ControlOK(p)'
  BY <1>0, <1>5, <1>6 DEF TypeInv, TypeOK, ControlOK, Stopped, Running, Member,
     Phase
<1>3. ASSUME NEW q \in Shards, q # p PROVE ControlOK(q)'
  BY <1>3, OthersKeep DEF TypeInv, TypeOK, BuildReservation, files, memory, Adopt,
     Goto
<1>4. QED
  BY <1>1, <1>2, <1>3 DEF TypeInv

LEMMA NextCallTyped ==
    ASSUME TypeInv, NEW p \in Shards, NextCall(p)
    PROVE  TypeInv'
<1>0. Len(Phase(p)) \in Nat \ {0}
  BY PhaseType DEF NextCall, TypeInv, ControlOK, Running
<1>1. TypeOK' /\ \A k \in Members : saved'[k] <= Len(Phases[k[1]])
  BY DEF NextCall, files, memory, Adopt, Goto, TypeInv, TypeOK, Running
<1>2. ControlOK(p)'
  <2>1. /\ UNCHANGED <<member[p], run[p], session[p], saved[Member(p)],
                      receipts[Member(p)], Phase(p)>>
        /\ mode'[p] = "reserve"
    BY DEF NextCall, files, memory, Goto, TypeInv, TypeOK, Member, Phase
  <2>2. call'[p] <= Len(Phase(p))
    BY <1>0 DEF NextCall, TypeInv, TypeOK
  <2>3. Member(p)' = Member(p)
    BY <2>1 DEF Member
  <2>4. QED
    BY <2>1, <2>2, <2>3 DEF NextCall, TypeInv, ControlOK, Stopped, Running
<1>3. ASSUME NEW q \in Shards, q # p PROVE ControlOK(q)'
  BY <1>3, OthersKeep DEF TypeInv, TypeOK, NextCall, files, memory, Adopt, Goto
<1>4. QED
  BY <1>1, <1>2, <1>3 DEF TypeInv

LEMMA RouteRetryTyped ==
    ASSUME TypeInv, NEW p \in Shards, RouteRetry(p)
    PROVE  TypeInv'
<1>1. TypeOK' /\ \A k \in Members : saved'[k] <= Len(Phases[k[1]])
  BY DEF RouteRetry, files, memory, Adopt, Goto, TypeInv, TypeOK, Running
<1>2. ControlOK(p)'
  BY DEF RouteRetry, files, memory, Adopt, Goto, TypeInv, TypeOK, ControlOK,
     Stopped, Running, Member, Phase
<1>3. ASSUME NEW q \in Shards, q # p PROVE ControlOK(q)'
  BY <1>3, OthersKeep DEF TypeInv, TypeOK, RouteRetry, files, memory, Adopt, Goto
<1>4. QED
  BY <1>1, <1>2, <1>3 DEF TypeInv

LEMMA RetryableFailureTyped ==
    ASSUME TypeInv, NEW p \in Shards, RetryableFailure(p)
    PROVE  TypeInv'
<1>1. TypeOK' /\ \A k \in Members : saved'[k] <= Len(Phases[k[1]])
  BY DEF RetryableFailure, files, memory, Adopt, Goto, TypeInv, TypeOK, Running
<1>2. ControlOK(p)'
  BY DEF RetryableFailure, files, memory, Adopt, Goto, TypeInv, TypeOK, ControlOK,
     Stopped, Running, Member, Phase
<1>3. ASSUME NEW q \in Shards, q # p PROVE ControlOK(q)'
  BY <1>3, OthersKeep DEF TypeInv, TypeOK, RetryableFailure, files, memory, Adopt,
     Goto
<1>4. QED
  BY <1>1, <1>2, <1>3 DEF TypeInv

LEMMA StartTyped ==
    ASSUME TypeInv, NEW p \in Shards, Start(p), ~ Stop(p, "budget")
    PROVE  TypeInv'
<1> USE DEF files, memory, Adopt, Goto
<1>0. /\ Goto(p, "select") /\ Adopt(p, Ledger, LedgerBooks)
      /\ UNCHANGED <<member, call, want, tries, files, sent>>
      /\ run[p] < MaxRuns[p] /\ run' = [run EXCEPT ![p] = @ + 1]
      /\ mode[p] \in Stopped
  BY DEF Start
<1>5. Ledger \in Session
  BY PrefixType DEF TypeInv, TypeOK, Ledger
<1>6. call[p] = 1
  BY <1>0 DEF TypeInv, ControlOK, Stopped
<1>7. /\ mode' \in [Shards -> Stopped \union Running]
      /\ session' \in [Shards -> Session \union {NoSession}]
      /\ DOMAIN books' = Shards
  BY <1>0, <1>5 DEF TypeInv, TypeOK, Running
<1>8. run' \in [Shards -> Nat]
  BY <1>0 DEF TypeInv, TypeOK
<1>1. TypeOK' /\ \A k \in Members : saved'[k] <= Len(Phases[k[1]])
  BY <1>0, <1>7, <1>8 DEF TypeInv, TypeOK
<1>2. ControlOK(p)'
  <2>1. run'[p] <= MaxRuns[p]
    BY <1>0, ConstantTypes, ProcessTypes DEF TypeInv, TypeOK
  <2>2. QED
    BY <1>0, <1>5, <1>6, <2>1 DEF TypeInv, TypeOK, ControlOK, Stopped, Running
<1>3. ASSUME NEW q \in Shards, q # p PROVE ControlOK(q)'
  BY <1>3, <1>0, OthersKeep DEF Goto, TypeInv, TypeOK
<1>4. QED
  BY <1>1, <1>2, <1>3 DEF TypeInv

LEMMA BuildTerminalTyped ==
    ASSUME TypeInv, NEW p \in Shards, BuildTerminal(p), ~ Stop(p, "error")
    PROVE  TypeInv'
<1> USE DEF files, memory, Adopt, Goto
<1>0. /\ Goto(p, "create") /\ Adopt(p, Current(p), CurrentBooks(p))
      /\ UNCHANGED <<member, call, want, tries, files, run, sent>>
      /\ mode[p] = "close"
  BY DEF BuildTerminal
<1>5. Current(p) \in Session
  BY <1>0, CurrentType DEF Running
<1>1. TypeOK' /\ \A k \in Members : saved'[k] <= Len(Phases[k[1]])
  BY <1>0, <1>5 DEF Goto, TypeInv, TypeOK, Running
<1>2. ControlOK(p)'
  BY <1>0, <1>5 DEF Goto, TypeInv, TypeOK, ControlOK, Stopped, Running, Member,
     Phase
<1>3. ASSUME NEW q \in Shards, q # p PROVE ControlOK(q)'
  BY <1>3, <1>0, OthersKeep DEF Goto, TypeInv, TypeOK
<1>4. QED
  BY <1>1, <1>2, <1>3 DEF TypeInv

LEMMA CreateTyped ==
    ASSUME TypeInv, NEW p \in Shards, Create(p)
    PROVE  TypeInv'
<1> USE DEF files, memory, Adopt, Goto
<1>0. /\ want[p] \in LedgerEvent
      /\ Accept(session[p], want[p]) \in Session
      /\ AfterAppend(want[p]) \in {"chat", "captured", "failed", "receipt"}
      /\ AfterAppend(want[p]) = "chat" => want[p].kind = "reservation"
  <2>1. want[p] \in LedgerEvent /\ session[p] \in Session
    BY DEF Create, TypeInv, ControlOK, Running
  <2>2. want[p].kind \in {"reservation", "settlement", "forfeit", "orphan"}
    BY <2>1 DEF LedgerEvent, Terminals
  <2>3. QED
    BY <2>1, <2>2, AcceptType DEF AfterAppend, AfterRecovery
<1>5. tries' \in [Shards -> 0..(AppendAttempts - 1)]
  BY ConstantTypes DEF Create, TypeInv, TypeOK
<1>1. TypeOK' /\ \A k \in Members : saved'[k] <= Len(Phases[k[1]])
  BY <1>0, <1>5 DEF Create, TypeInv, TypeOK, Running
<1>2. ControlOK(p)'
  BY <1>0 DEF Create, TypeInv, TypeOK, ControlOK, Stopped, Running, Member, Phase
<1>3. ASSUME NEW q \in Shards, q # p PROVE ControlOK(q)'
  BY <1>3, OthersKeep DEF Create, TypeInv, TypeOK
<1>4. QED
  BY <1>1, <1>2, <1>3 DEF TypeInv

LEMMA CollideTyped ==
    ASSUME TypeInv, NEW p \in Shards, Collide(p), ~ Stop(p, "error")
    PROVE  TypeInv'
<1> USE DEF files, memory, Adopt, Goto
<1>0. /\ mode[p] = "create" /\ ~ GivesUp(p)
      /\ tries' = [tries EXCEPT ![p] = @ + 1] /\ Adopt(p, Ledger, LedgerBooks)
      /\ Goto(p, IF want[p].kind = "reservation" THEN "reserve" ELSE "close")
      /\ UNCHANGED <<member, call, want, files, run, sent>>
  BY DEF Collide
<1>5. /\ Ledger \in Session
      /\ want[p].kind # "reservation" => want[p].kind \in Terminals
  BY <1>0, PrefixType DEF TypeInv, TypeOK, Ledger, ControlOK, LedgerEvent
<1>6. tries' \in [Shards -> 0..(AppendAttempts - 1)]
  <2>1. tries \in [Shards -> 0..(AppendAttempts - 1)]
    BY DEF TypeInv, TypeOK
  <2>2. tries[p] + 1 \in 0..(AppendAttempts - 1)
    BY <1>0, <2>1, ConstantTypes DEF GivesUp
  <2>3. QED
    BY <1>0, <2>1, <2>2
<1>7. PICK m \in {"reserve", "close"} :
        mode' = [mode EXCEPT ![p] = m] /\ (m = "close" => want[p].kind \in Terminals)
  BY <1>0, <1>5
<1>1. TypeOK' /\ \A k \in Members : saved'[k] <= Len(Phases[k[1]])
  BY <1>0, <1>5, <1>6, <1>7 DEF LedgerBooks, TypeInv, TypeOK, Running
<1>2. ControlOK(p)'
  BY <1>0, <1>5, <1>7 DEF LedgerBooks, TypeInv, TypeOK, ControlOK, Stopped,
     Running, Member, Phase
<1>3. ASSUME NEW q \in Shards, q # p PROVE ControlOK(q)'
  BY <1>3, <1>0, <1>7, OthersKeep DEF LedgerBooks, TypeInv, TypeOK
<1>4. QED
  BY <1>1, <1>2, <1>3 DEF TypeInv

LEMMA ChatTyped ==
    ASSUME TypeInv, NEW p \in Shards, Chat(p)
    PROVE  TypeInv'
<1> USE DEF files, memory, Adopt, Goto
<1>0. PICK e \in {Event("settlement", want[p].id, c) : c \in Costs}
                  \union {Forfeit("forfeit", want[p].id)} :
        /\ want' = [want EXCEPT ![p] = e]
        /\ sent' = sent \union {[id |-> e.id, run |-> run[p],
                   cost |-> IF e.kind = "forfeit" THEN Full(e.id) ELSE e.cost]}
  BY DEF Chat
<1>5. want[p] \in LedgerEvent /\ want[p].id.shard = p /\ want[p].id \in Id
  BY DEF Chat, TypeInv, ControlOK, LedgerEvent
<1>6. e \in LedgerEvent /\ e.id = want[p].id /\ e.kind \in Terminals
  BY <1>0, <1>5, FullNat, ConstantTypes DEF Event, Forfeit, LedgerEvent, Terminals
<1>7. [id |-> e.id, run |-> run[p],
       cost |-> IF e.kind = "forfeit" THEN Full(e.id) ELSE e.cost]
      \in [id : Id, run : Nat, cost : Nat]
  BY <1>5, <1>6, FullNat DEF TypeInv, TypeOK, LedgerEvent
<1>8. /\ mode[p] = "chat" /\ mode' = [mode EXCEPT ![p] = "close"]
      /\ UNCHANGED <<files, member, call, session, books, tries, run>>
  BY DEF Chat
<1>9. sent' \subseteq [id : Id, run : Nat, cost : Nat]
  BY <1>0, <1>7 DEF TypeInv, TypeOK
<1>10. want' \in [Shards -> LedgerEvent \union {NoEvent}] /\ want'[p] = e
  BY <1>0, <1>6 DEF TypeInv, TypeOK
<1>1. TypeOK' /\ \A k \in Members : saved'[k] <= Len(Phases[k[1]])
  BY <1>8, <1>9, <1>10 DEF Goto, TypeInv, TypeOK, Running
<1>2. ControlOK(p)'
  BY <1>5, <1>6, <1>8, <1>10 DEF Goto, TypeInv, TypeOK, ControlOK, Stopped,
     Running, Member, Phase
<1>3. ASSUME NEW q \in Shards, q # p PROVE ControlOK(q)'
  BY <1>3, <1>0, <1>8, OthersKeep DEF Goto, TypeInv, TypeOK
<1>4. QED
  BY <1>1, <1>2, <1>3 DEF TypeInv

LEMMA SaveTyped ==
    ASSUME TypeInv, NEW p \in Shards, Save(p)
    PROVE  TypeInv'
<1> USE DEF files, memory, Adopt, Goto
<1>0. /\ Member(p) \in Members /\ saved[Member(p)] < Len(Phases[p])
      /\ Member(p)[1] = p /\ Len(Phases[p]) \in Nat /\ ControlOK(p)
      /\ saved[Member(p)] \in Nat
  BY ProcessTypes, MemberTypes, ConstantTypes DEF Save, ControlOK, Running
<1> DEFINE v == saved[Member(p)] + 1
<1>5. saved' = [saved EXCEPT ![Member(p)] = v]
  BY DEF Save
<1>6. v \in Nat /\ v <= Len(Phases[Member(p)[1]])
  BY <1>0
<1> HIDE DEF v
<1>7. /\ saved' \in [Members -> Nat]
      /\ \A m \in Members : saved'[m] <= Len(Phases[m[1]])
      /\ \A m \in Members : m[1] # p => saved'[m] = saved[m]
  BY <1>0, <1>5, <1>6 DEF TypeInv, TypeOK
<1>8. /\ call' = [call EXCEPT ![p] = 1]
      /\ mode' = [mode EXCEPT ![p] = "select"]
      /\ UNCHANGED <<log, receipts, member, session, books, want, tries, run, sent>>
      /\ mode[p] \in Running
  BY DEF Save, Running
<1>1. TypeOK' /\ \A k \in Members : saved'[k] <= Len(Phases[k[1]])
  BY <1>7, <1>8 DEF Goto, TypeInv, TypeOK, Running
<1>2. ControlOK(p)'
  BY <1>0, <1>8 DEF Goto, TypeInv, TypeOK, ControlOK, Stopped, Running, Member,
     Phase
<1>3. ASSUME NEW q \in Shards, q # p PROVE ControlOK(q)'
  BY <1>3, <1>7, <1>8, OthersKeep DEF Goto, TypeInv, TypeOK
<1>4. QED
  BY <1>1, <1>2, <1>3 DEF TypeInv

LEMMA SaveErrorTyped ==
    ASSUME TypeInv, NEW p \in Shards, SaveError(p)
    PROVE  TypeInv'
<1> USE DEF files, memory, Adopt, Goto
<1>0. /\ Member(p) \in Members /\ saved[Member(p)] < Len(Phases[p])
      /\ Member(p)[1] = p /\ Len(Phases[p]) \in Nat /\ ControlOK(p)
      /\ saved[Member(p)] \in Nat
  BY ProcessTypes, MemberTypes, ConstantTypes DEF SaveError, ControlOK, Running
<1> DEFINE v == Len(Phases[p])
<1>5. saved' = [saved EXCEPT ![Member(p)] = v]
  BY DEF SaveError
<1>6. v \in Nat /\ v <= Len(Phases[Member(p)[1]])
  BY <1>0
<1> HIDE DEF v
<1>7. /\ saved' \in [Members -> Nat]
      /\ \A m \in Members : saved'[m] <= Len(Phases[m[1]])
      /\ \A m \in Members : m[1] # p => saved'[m] = saved[m]
  BY <1>0, <1>5, <1>6 DEF TypeInv, TypeOK
<1>8. /\ call' = [call EXCEPT ![p] = 1]
      /\ mode' = [mode EXCEPT ![p] = "select"]
      /\ UNCHANGED <<log, receipts, member, session, books, want, tries, run, sent>>
      /\ mode[p] \in Running
  BY DEF SaveError, Running
<1>1. TypeOK' /\ \A k \in Members : saved'[k] <= Len(Phases[k[1]])
  BY <1>7, <1>8 DEF Goto, TypeInv, TypeOK, Running
<1>2. ControlOK(p)'
  BY <1>0, <1>8 DEF Goto, TypeInv, TypeOK, ControlOK, Stopped, Running, Member,
     Phase
<1>3. ASSUME NEW q \in Shards, q # p PROVE ControlOK(q)'
  BY <1>3, <1>7, <1>8, OthersKeep DEF Goto, TypeInv, TypeOK
<1>4. QED
  BY <1>1, <1>2, <1>3 DEF TypeInv

LEMMA RecoverOrphanTyped ==
    ASSUME TypeInv, NEW p \in Shards, RecoverOrphan(p), ~ Stop(p, "error")
    PROVE  TypeInv'
<1> USE DEF files, memory, Adopt, Goto
<1>0. /\ mode[p] = "orphan"
      /\ UNCHANGED <<files, member, call, session, books, tries, run, sent>>
      /\ \/ mode' = [mode EXCEPT ![p] = "receipt"] /\ UNCHANGED want
         \/ \E id \in Orphans(p, Ledger) :
               /\ want' = [want EXCEPT ![p] = Forfeit("orphan", id)]
               /\ mode' = [mode EXCEPT ![p] = "close"]
  BY DEF RecoverOrphan, AfterRecovery
<1>5. ASSUME NEW id \in Orphans(p, Ledger)
      PROVE  /\ Forfeit("orphan", id) \in LedgerEvent
             /\ Forfeit("orphan", id).id.shard = p
             /\ Forfeit("orphan", id).kind \in Terminals
  <2>1. Ledger \in Session
    BY PrefixType DEF TypeInv, TypeOK, Ledger
  <2>2. id \in Ledger.reserved /\ id.shard = p
    BY <1>5 DEF Orphans, Matching
  <2>3. id \in Id
    BY <2>1, <2>2 DEF Session
  <2>4. QED
    BY <2>2, <2>3, FullNat DEF Forfeit, Event, LedgerEvent, Terminals
<1>6. PICK e \in LedgerEvent, m \in {"receipt", "close"} :
        /\ want' = want \/ want' = [want EXCEPT ![p] = e]
        /\ mode' = [mode EXCEPT ![p] = m]
        /\ m = "close" => /\ want' = [want EXCEPT ![p] = e]
                          /\ e.id.shard = p /\ e.kind \in Terminals
  <2>1. CASE \E id \in Orphans(p, Ledger) :
               /\ want' = [want EXCEPT ![p] = Forfeit("orphan", id)]
               /\ mode' = [mode EXCEPT ![p] = "close"]
    BY <2>1, <1>5
  <2>2. CASE mode' = [mode EXCEPT ![p] = "receipt"] /\ UNCHANGED want
    <3>1. Event("orphan", Identity(p), 0) \in LedgerEvent
      BY <1>0, IdentityType DEF Running, Event, LedgerEvent, Terminals
    <3>2. QED
      BY <2>2, <3>1
  <2>3. QED
    BY <1>0, <2>1, <2>2
<1>7. want' \in [Shards -> LedgerEvent \union {NoEvent}]
  BY <1>6 DEF TypeInv, TypeOK
<1>1. TypeOK' /\ \A k \in Members : saved'[k] <= Len(Phases[k[1]])
  BY <1>0, <1>6, <1>7 DEF Goto, TypeInv, TypeOK, Running
<1>2. ControlOK(p)'
  BY <1>0, <1>6 DEF Goto, TypeInv, TypeOK, ControlOK, Stopped, Running, Member,
     Phase
<1>3. ASSUME NEW q \in Shards, q # p PROVE ControlOK(q)'
  BY <1>3, <1>0, <1>6, OthersKeep DEF Goto, TypeInv, TypeOK
<1>4. QED
  BY <1>1, <1>2, <1>3 DEF TypeInv

-----------------------------------------------------------------------------
(* The process exits are all alike.                                        *)
LEMMA ExitTyped ==
    ASSUME TypeInv, NEW p \in Shards,
           \/ Start(p) /\ Stop(p, "budget")
           \/ \E m \in Stopped : Stop(p, m) /\ UNCHANGED <<files, run, sent>>
           \/ WriteReceipt(p)
    PROVE  TypeInv'
<1>1. CASE Start(p) /\ Stop(p, "budget")
  <2>1. run[p] < MaxRuns[p] /\ run' = [run EXCEPT ![p] = @ + 1]
        /\ UNCHANGED <<files, sent>>
    BY <1>1 DEF Start
  <2>2. run[p] \in Nat /\ MaxRuns[p] \in Nat
    BY BudgetLedgerAssumption DEF TypeInv, TypeOK
  <2>3. /\ run' \in [Shards -> Nat] /\ \A q \in Shards : run'[q] <= MaxRuns[q]
        /\ \A q \in Shards : q # p => run'[q] = run[q]
    BY <2>1, <2>2 DEF TypeInv, TypeOK, ControlOK
  <2>4. QED
    BY <1>1, <2>1, <2>3, StopTyped DEF files, TypeInv, TypeOK, Stopped
<1>2. CASE \E m \in Stopped : Stop(p, m) /\ UNCHANGED <<files, run, sent>>
  BY <1>2, StopTyped DEF files, TypeInv, TypeOK, ControlOK
<1>3. CASE WriteReceipt(p)
  <2>1. Member(p) \in Members /\ Member(p)[1] = p /\ receipts[Member(p)] < MaxAttempts
    BY <1>3, PhaseType DEF WriteReceipt, TypeInv, ControlOK, Running, Member
  <2>2. /\ receipts' \in [Members -> 0..MaxAttempts]
        /\ \A k \in Members : k[1] # p => receipts'[k] = receipts[k]
    BY <1>3, <2>1, BudgetLedgerAssumption DEF WriteReceipt, TypeInv, TypeOK
  <2>3. QED
    BY <1>3, <2>2, StopTyped DEF WriteReceipt, TypeInv, TypeOK, ControlOK, Stopped
<1>4. QED
  BY <1>1, <1>2, <1>3

(* Every reachable state is well typed, and its processes are in control   *)
(* states that fit their memory.                                           *)
THEOREM TypeInvariant == Spec => []TypeInv
<1>1. Init => TypeInv
  BY BudgetLedgerAssumption
  DEF Init, TypeInv, TypeOK, ControlOK, Members, Stopped, Running
<1>2. TypeInv /\ [Next]_vars => TypeInv'
  <2> SUFFICES ASSUME TypeInv, [Next]_vars PROVE TypeInv'
    OBVIOUS
  <2>1. ASSUME NEW p \in Shards, Start(p) PROVE TypeInv'
    BY <2>1, ExitTyped, StartTyped
  <2>2. ASSUME NEW p \in Shards, Step(p) PROVE TypeInv'
    <3> DEFINE Exit(m) == Stop(p, m) /\ UNCHANGED <<files, run, sent>>
    <3>1. CASE \E m \in Stopped : Exit(m)
      BY <3>1, ExitTyped
    <3>2. CASE ~ \E m \in Stopped : Exit(m)
      <4>1. ~ (AllComplete(p) \/ AttemptLimit(p) \/ BudgetExceeded(p) \/ FatalFailure(p))
        BY <3>2 DEF AllComplete, AttemptLimit, BudgetExceeded, FatalFailure, Stopped
      <4>2. CASE BuildTerminal(p)
        <5>1. ~ Stop(p, "error")
          BY <3>2, <4>2 DEF BuildTerminal, Stopped
        <5>2. QED
          BY <4>2, <5>1, BuildTerminalTyped
      <4>3. CASE Collide(p)
        <5>1. ~ Stop(p, "error")
          BY <3>2, <4>3 DEF Collide, Stopped
        <5>2. QED
          BY <4>3, <5>1, CollideTyped
      <4>4. CASE RecoverOrphan(p)
        <5>1. ~ Stop(p, "error")
          BY <3>2, <4>4 DEF RecoverOrphan, Stopped
        <5>2. QED
          BY <4>4, <5>1, RecoverOrphanTyped
      <4>5. CASE WriteReceipt(p)
        BY <4>5, ExitTyped
      <4>6. QED
        BY <2>2, <4>1, <4>2, <4>3, <4>4, <4>5, PassOverTyped, BeginTyped,
           DuplicateCallTyped, BuildReservationTyped, CreateTyped, ChatTyped,
           NextCallTyped, SaveTyped, SaveErrorTyped, RouteRetryTyped,
           RetryableFailureTyped DEF Step
    <3>3. QED
      BY <3>1, <3>2
  <2>3. ASSUME NEW p \in Shards, Crash(p) PROVE TypeInv'
    BY <2>3, ExitTyped DEF Crash, Stopped
  <2>4. CASE UNCHANGED vars
    <3>1. TypeOK'
      BY <2>4 DEF vars, files, memory, TypeInv, TypeOK
    <3>2. \A q \in Shards : ControlOK(q)'
      BY <2>4, OthersKeep DEF vars, files, memory
    <3>3. QED
      BY <2>4, <3>1, <3>2 DEF vars, files, TypeInv
  <2>5. QED
    BY <2>1, <2>2, <2>3, <2>4 DEF Next
<1>3. QED
  BY <1>1, <1>2, PTL DEF Spec

(* Every reachable state is well typed.                                    *)
THEOREM TypeCorrect == Spec => []TypeOK
<1>1. TypeInv => TypeOK
  BY DEF TypeInv
<1>2. QED
  BY <1>1, TypeInvariant, PTL

-----------------------------------------------------------------------------
(* The ledger.  A replay depends on the events it replays alone, ...       *)
LEMMA IdsStable ==
    ASSUME log \in Seq(LedgerEvent), NEW e \in LedgerEvent, log' = Append(log, e),
           NEW kinds, NEW n \in 0..Len(log)
    PROVE  IdsOf(kinds, n)' = IdsOf(kinds, n)
<1>1. \A i \in 1..n : log'[i] = log[i]
  OBVIOUS
<1>2. Indexes(kinds, n)' = Indexes(kinds, n) /\ Indexes(kinds, n) \subseteq 1..n
  BY <1>1 DEF Indexes
<1>3. QED
  BY <1>1, <1>2 DEF IdsOf

(* ... and one more event adds its identity to those of its kind.          *)
LEMMA IdsNext ==
    ASSUME log \in Seq(LedgerEvent), NEW e \in LedgerEvent, log' = Append(log, e),
           NEW kinds
    PROVE  IdsOf(kinds, Len(log))' = IdsOf(kinds, Len(log))
                                      \union {id \in {e.id} : e.kind \in kinds}
<1> DEFINE n == Len(log)
<1>1. n \in Nat /\ Len(log') = n + 1 /\ log'[n + 1] = e
      /\ \A i \in 1..n : log'[i] = log[i]
  OBVIOUS
<1>2. 1..(n + 1) = (1..n) \union {n + 1}
  BY <1>1
<1>3. Indexes(kinds, Len(log))' = Indexes(kinds, n) \union {i \in {n + 1} : e.kind \in kinds}
  BY <1>1, <1>2 DEF Indexes
<1>4. Indexes(kinds, n) \subseteq 1..n
  BY DEF Indexes
<1>5. QED
  BY <1>1, <1>3, <1>4 DEF IdsOf

LEMMA PrefixStable ==
    ASSUME log \in Seq(LedgerEvent), NEW e \in LedgerEvent, log' = Append(log, e),
           NEW n \in 0..Len(log)
    PROVE  Prefix(n)' = Prefix(n)
BY IdsStable DEF Prefix

(* Accepting one's own event is replaying it.                              *)
LEMMA AcceptIsReplay ==
    ASSUME log \in Seq(LedgerEvent), NEW e \in LedgerEvent, log' = Append(log, e)
    PROVE  Accept(Ledger, e) = Ledger'
<1>1. Len(log) \in Nat /\ Len(log)' = Len(log) + 1
  OBVIOUS
<1>2. \A kinds : IdsOf(kinds, Len(log))' = IdsOf(kinds, Len(log))
                                      \union {id \in {e.id} : e.kind \in kinds}
  BY IdsNext
<1>3. /\ IdsOf({"reservation"}, Len(log))' = IdsOf({"reservation"}, Len(log))
                                      \union {id \in {e.id} : e.kind = "reservation"}
      /\ IdsOf({"settlement"}, Len(log))' = IdsOf({"settlement"}, Len(log))
                                      \union {id \in {e.id} : e.kind = "settlement"}
      /\ IdsOf(Forfeits, Len(log))' = IdsOf(Forfeits, Len(log))
                                      \union {id \in {e.id} : e.kind \in Forfeits}
  BY <1>2
<1>4. QED
  BY <1>1, <1>3 DEF Accept, Ledger, Prefix

(* The closed reservations of a replay are those with a terminal event.    *)
LEMMA ClosedIds ==
    ASSUME NEW n PROVE Closed(Prefix(n)) = IdsOf(Terminals, n)
BY DEF Closed, Prefix, IdsOf, Indexes, Terminals, Forfeits

-----------------------------------------------------------------------------
(* The inductive invariant.  A process holds a true replay of a prefix, ...*)
Held(p) ==
    mode[p] \in Running =>
        /\ session[p].index <= Len(log)
        /\ session[p] = Prefix(session[p].index)

(* ... the event it is about to create fits that prefix, and the call it   *)
(* is about to make is reserved and has not been made.                     *)
Wanted(p) ==
    /\ mode[p] = "create" =>
           /\ want[p].kind = "reservation" => want[p].id \notin session[p].reserved
           /\ want[p].kind \in Terminals => Closable(session[p], want[p])
    /\ mode[p] \in {"create", "close"} /\ want[p].kind \in Forfeits =>
           want[p].cost = Full(want[p].id)
    /\ mode[p] = "chat" =>
           /\ want[p].id \in IdsOf({"reservation"}, Len(log))
           /\ \A s \in sent : s.id # want[p].id

(* A call is made only after its reservation is in the directory.          *)
AskedReserved == \A s \in sent : s.id \in IdsOf({"reservation"}, Len(log))

SafeInv ==
    /\ EventsFollow
    /\ AskedReserved
    /\ IdentitySentOnce
    /\ \A p \in Shards : Held(p) /\ Wanted(p)

(* What a process holds stays true while it is not running itself.         *)
LEMMA OthersStay ==
    ASSUME TypeInv, SafeInv, NEW q \in Shards,
           UNCHANGED <<mode[q], session[q], want[q], log>>,
           mode[q] = "chat" => \A s \in sent' : s.id # want[q].id
    PROVE  Held(q)' /\ Wanted(q)'
<1>a. PICK s : s = session[q]
  OBVIOUS
<1>b. ASSUME NEW n PROVE Prefix(n)' = Prefix(n)
  BY DEF Prefix, IdsOf, Indexes
<1>1. Held(q)'
  <2>1. Prefix(s.index)' = Prefix(s.index) /\ session'[q] = s /\ Len(log)' = Len(log)
    BY <1>a, <1>b
  <2>2. QED
    BY <1>a, <2>1 DEF SafeInv, Held
<1>2. Wanted(q)'
  <2>1. IdsOf({"reservation"}, Len(log))' = IdsOf({"reservation"}, Len(log))
    BY DEF IdsOf, Indexes
  <2>2. /\ Closable(session[q], want[q])' = Closable(session[q], want[q])
        /\ Full(want[q].id)' = Full(want[q].id)
    BY DEF Closable, Open, Closed, Full, StageOf
  <2>3. QED
    BY <2>1, <2>2 DEF SafeInv, Wanted
<1>3. QED
  BY <1>1, <1>2

(* A step that neither appends an event nor makes a call.                  *)
LEMMA QuietStep ==
    ASSUME TypeInv, SafeInv, NEW p \in Shards, UNCHANGED <<log, sent>>,
           \A q \in Shards : q # p => UNCHANGED <<mode[q], session[q], want[q]>>,
           Held(p)' /\ Wanted(p)'
    PROVE  SafeInv'
<1>1. EventsFollow' /\ AskedReserved' /\ IdentitySentOnce'
  BY DEF SafeInv, EventsFollow, Follows, AskedReserved, IdentitySentOnce, IdsOf,
     Indexes
<1>2. ASSUME NEW q \in Shards, q # p PROVE Held(q)' /\ Wanted(q)'
  BY <1>2, OthersStay DEF SafeInv, Wanted
<1>3. QED
  BY <1>1, <1>2 DEF SafeInv

(* Whatever a process takes over, its own prefix or a reload, is a replay. *)
LEMMA CurrentHeld ==
    ASSUME TypeInv, SafeInv, NEW p \in Shards, mode[p] \in Running
    PROVE  /\ Current(p).index <= Len(log)
           /\ Current(p) = Prefix(Current(p).index)
<1>1. Ledger.index = Len(log) /\ Len(log) \in Nat /\ Ledger = Prefix(Ledger.index)
  BY DEF Ledger, Prefix, TypeInv, TypeOK
<1>2. QED
  BY <1>1 DEF Current, SafeInv, Held

-----------------------------------------------------------------------------
(* A process that exits holds nothing.                                     *)
LEMMA StopSafe ==
    ASSUME TypeInv, SafeInv, NEW p \in Shards, NEW m \in Stopped, Stop(p, m),
           UNCHANGED <<log, sent>>
    PROVE  SafeInv'
<1>1. mode'[p] = m /\ m \notin Running \union {"create", "close", "chat"}
  BY DEF Stop, Goto, TypeInv, TypeOK, Stopped, Running
<1>2. Held(p)' /\ Wanted(p)'
  BY <1>1 DEF Held, Wanted
<1>3. \A q \in Shards : q # p => UNCHANGED <<mode[q], session[q], want[q]>>
  BY DEF Stop, Goto, TypeInv, TypeOK
<1>4. QED
  BY <1>2, <1>3, QuietStep

(* A process takes over a current prefix and builds an event for it.       *)
LEMMA BuildSafe ==
    ASSUME TypeInv, SafeInv, NEW p \in Shards,
           \/ BuildReservation(p)
           \/ BuildTerminal(p) /\ ~ Stop(p, "error")
    PROVE  SafeInv'
<1>1. /\ mode[p] \in {"reserve", "close"}
      /\ mode' = [mode EXCEPT ![p] = "create"]
      /\ session' = [session EXCEPT ![p] = Current(p)]
      /\ \/ /\ want' = [want EXCEPT ![p] =
                          Event("reservation", Identity(p), Full(Identity(p)))]
            /\ Identity(p) \notin Current(p).reserved
         \/ /\ UNCHANGED want
            /\ mode[p] = "close"
            /\ Closable(Current(p), want[p])
      /\ UNCHANGED <<log, sent>>
  BY DEF BuildReservation, BuildTerminal, Adopt, Goto, Known, files
<1>2. /\ mode'[p] = "create" /\ session'[p] = Current(p)
      /\ \A q \in Shards : q # p => UNCHANGED <<mode[q], session[q], want[q]>>
  BY <1>1 DEF TypeInv, TypeOK
<1>3. Held(p)'
  <2> DEFINE c == Current(p)
  <2>1. c.index <= Len(log) /\ c = Prefix(c.index) /\ session'[p] = c
    BY <1>1, <1>2, CurrentHeld DEF Running
  <2> HIDE DEF c
  <2>2. QED
    BY <1>1, <2>1 DEF Held, Prefix, IdsOf, Indexes
<1>4. Wanted(p)'
  <2>1. CASE /\ want' = [want EXCEPT ![p] =
                           Event("reservation", Identity(p), Full(Identity(p)))]
             /\ Identity(p) \notin Current(p).reserved
    <3>1. want'[p].kind = "reservation" /\ want'[p].id = Identity(p)
      BY <2>1 DEF TypeInv, TypeOK, Event
    <3>2. QED
      BY <2>1, <1>2, <3>1 DEF Wanted, Terminals, Forfeits
  <2>2. CASE /\ UNCHANGED want /\ mode[p] = "close"
             /\ Closable(Current(p), want[p])
    <3>1. want[p].kind \in Terminals
      BY <2>2 DEF TypeInv, ControlOK
    <3>2. QED
      BY <2>2, <3>1, <1>2 DEF Wanted, SafeInv, Terminals, Closable, Open, Closed
  <2>3. QED
    BY <1>1, <2>1, <2>2
<1>5. QED
  BY <1>1, <1>2, <1>3, <1>4, QuietStep

(* The exclusive creation of the next file.                                *)
LEMMA CreateSafe ==
    ASSUME TypeInv, SafeInv, NEW p \in Shards, Create(p)
    PROVE  SafeInv'
<1>a. PICK e \in LedgerEvent : e = want[p]
  BY DEF Create, TypeInv, ControlOK
<1>b. PICK n \in Nat : n = Len(log)
  BY DEF TypeInv, TypeOK
<1>1. /\ log \in Seq(LedgerEvent) /\ e \in LedgerEvent /\ log' = Append(log, e)
      /\ n \in Nat /\ e.id.shard = p
  BY <1>a DEF Create, TypeInv, TypeOK, ControlOK
<1>2. session[p] = Prefix(n) /\ session[p].index = n
  BY <1>b DEF Create, NextFileFree, SafeInv, Held, Running
<1>3. ASSUME NEW k \in 0..n
      PROVE  /\ IdsOf({"reservation"}, k)' = IdsOf({"reservation"}, k)
             /\ IdsOf(Terminals, k)' = IdsOf(Terminals, k)
             /\ Prefix(k)' = Prefix(k)
  BY <1>1, <1>b, IdsStable, PrefixStable
<1>4. /\ IdsOf({"reservation"}, Len(log)) \subseteq IdsOf({"reservation"}, Len(log))'
      /\ e.kind = "reservation" => e.id \in IdsOf({"reservation"}, Len(log))'
  BY <1>1, <1>b, IdsNext
<1>5. EventsFollow'
  <2>1. \A k \in 1..n : log'[k] = log[k]
    BY <1>1, <1>b
  <2>2. ASSUME NEW k \in 1..n PROVE Follows(k)'
    <3>1. k - 1 \in 0..n /\ Follows(k)
      BY <1>1, <1>b DEF SafeInv, EventsFollow
    <3>2. /\ IdsOf({"reservation"}, k - 1)' = IdsOf({"reservation"}, k - 1)
          /\ IdsOf(Terminals, k - 1)' = IdsOf(Terminals, k - 1)
      BY <3>1, <1>3
    <3>3. QED
      BY <2>1, <3>1, <3>2 DEF Follows
  <2>3. Follows(n + 1)'
    <3>1. log'[n + 1] = e /\ (n + 1) - 1 = n /\ n \in 0..n
      BY <1>1, <1>b
    <3>2. /\ IdsOf({"reservation"}, n)' = IdsOf({"reservation"}, n)
          /\ IdsOf(Terminals, n)' = IdsOf(Terminals, n)
      BY <3>1, <1>3
    <3>3. e.kind = "reservation" => e.id \notin IdsOf({"reservation"}, n)
      BY <1>2, <1>a DEF Create, SafeInv, Wanted, Prefix
    <3>4. e.kind \in Terminals =>
            /\ e.id \in IdsOf({"reservation"}, n) \ IdsOf(Terminals, n)
            /\ e.cost <= Full(e.id)
      BY <1>2, <1>a, ClosedIds DEF Create, SafeInv, Wanted, Closable, Open, Prefix
    <3>5. e.kind \in Forfeits => e.cost = Full(e.id)
      BY <1>a DEF Create, SafeInv, Wanted
    <3>6. QED
      BY <3>1, <3>2, <3>3, <3>4, <3>5 DEF Follows, Terminals
  <2>4. Len(log)' = n + 1
    BY <1>1, <1>b
  <2>5. QED
    BY <2>2, <2>3, <2>4, <1>1 DEF EventsFollow
<1>6. AskedReserved' /\ IdentitySentOnce'
  <2>1. UNCHANGED sent
    BY DEF Create
  <2>2. QED
    BY <1>4, <1>b, <2>1 DEF SafeInv, AskedReserved, IdentitySentOnce
<1>7. ASSUME NEW q \in Shards PROVE Held(q)' /\ Wanted(q)'
  <2>1. CASE q = p
    <3>1. session'[p] = Accept(Ledger, e) /\ mode'[p] = AfterAppend(e) /\ want'[p] = e
      BY <1>2, <1>a, <1>b DEF Create, Adopt, Goto, TypeInv, TypeOK, Ledger
    <3>2. session'[p] = Ledger'
      BY <1>1, <1>b, <3>1, AcceptIsReplay
    <3>3. Held(q)'
      BY <2>1, <3>2, <1>1 DEF Held, Ledger, Prefix
    <3>4. Wanted(q)'
      <4>1. /\ e.kind \in {"reservation", "settlement", "forfeit", "orphan"}
            /\ mode'[p] \notin {"create", "close"}
            /\ mode'[p] = "chat" => e.kind = "reservation"
        BY <1>1, <3>1 DEF AfterAppend, AfterRecovery, LedgerEvent, Terminals
      <4>2. mode'[p] = "chat" => \A s \in sent : s.id # e.id
        BY <4>1, <1>2, <1>a, <1>b DEF Create, SafeInv, Wanted, AskedReserved, Prefix
      <4>3. UNCHANGED sent
        BY DEF Create
      <4>4. QED
        BY <2>1, <3>1, <4>1, <4>2, <4>3, <1>4, <1>b DEF Wanted
    <3>5. QED
      BY <3>3, <3>4
  <2>2. CASE q # p
    <3>1. UNCHANGED <<mode[q], session[q], want[q], sent>>
      BY <2>2 DEF Create, Adopt, Goto, TypeInv, TypeOK
    <3>2. mode[q] \in Running =>
            session[q].index \in 0..n /\ session[q] = Prefix(session[q].index)
      BY <1>1, <1>b DEF SafeInv, Held, TypeInv, ControlOK, Session
    <3>3. Len(log)' = n + 1
      BY <1>1, <1>b
    <3>4. Held(q)'
      <4>1. ASSUME mode[q] \in Running
            PROVE  Prefix(session[q].index)' = Prefix(session[q].index)'
        OBVIOUS
      <4>2. QED
        BY <3>1, <3>2, <3>3, <1>1, <1>3 DEF Held
    <3>5. Wanted(q)'
      <4>1. Wanted(q)
        BY DEF SafeInv
      <4>2. Closable(session[q], want[q])' = Closable(session[q], want[q])
            /\ Full(want[q].id)' = Full(want[q].id)
        BY <3>1 DEF Closable, Open, Closed, Full, StageOf
      <4>3. QED
        BY <3>1, <1>4, <4>1, <4>2, <1>b DEF Wanted
    <3>6. QED
      BY <3>4, <3>5
  <2>3. QED
    BY <2>1, <2>2
<1>8. QED
  BY <1>5, <1>6, <1>7 DEF SafeInv

(* The call itself.                                                        *)
LEMMA ChatSafe ==
    ASSUME TypeInv, SafeInv, NEW p \in Shards, Chat(p)
    PROVE  SafeInv'
<1> DEFINE E == {Event("settlement", want[p].id, c) : c \in Costs}
                  \union {Forfeit("forfeit", want[p].id)}
           c(e) == IF e.kind = "forfeit" THEN Full(e.id) ELSE e.cost
<1>a. PICK e \in E :
        /\ want' = [want EXCEPT ![p] = e]
        /\ sent' = sent \union {[id |-> e.id, run |-> run[p], cost |-> c(e)]}
  BY DEF Chat
<1>b. e.id = want[p].id /\ (e.kind \in Forfeits => e.cost = Full(e.id))
  BY DEF Event, Forfeit, Forfeits
<1> HIDE DEF E, c
<1>1. /\ want' = [want EXCEPT ![p] = e]
      /\ sent' = sent \union {[id |-> want[p].id, run |-> run[p], cost |-> c(e)]}
      /\ e.id = want[p].id
      /\ e.kind \in Forfeits => e.cost = Full(e.id)
  BY <1>a, <1>b
<1>2. /\ mode[p] = "chat" /\ mode'[p] = "close"
      /\ UNCHANGED <<log, session>>
      /\ want[p].id.shard = p
      /\ \A q \in Shards : q # p => UNCHANGED <<mode[q], want[q]>>
      /\ want'[p] = e
  BY <1>1 DEF Chat, files, Goto, TypeInv, TypeOK, ControlOK
<1>3. /\ want[p].id \in IdsOf({"reservation"}, Len(log))
      /\ \A s \in sent : s.id # want[p].id
  BY <1>2 DEF SafeInv, Wanted
<1>4. EventsFollow'
  BY <1>2 DEF SafeInv, EventsFollow, Follows, IdsOf, Indexes
<1>5. AskedReserved'
  BY <1>1, <1>2, <1>3 DEF SafeInv, AskedReserved, IdsOf, Indexes
<1>6. IdentitySentOnce'
  BY <1>1, <1>3 DEF SafeInv, IdentitySentOnce
<1>7. Held(p)' /\ Wanted(p)'
  BY <1>1, <1>2 DEF SafeInv, Held, Wanted, Running, Prefix, IdsOf, Indexes
<1>8. ASSUME NEW q \in Shards, q # p PROVE Held(q)' /\ Wanted(q)'
  <2>1. mode[q] = "chat" => want[q].id.shard = q /\ \A s \in sent : s.id # want[q].id
    BY DEF TypeInv, ControlOK, SafeInv, Wanted
  <2>2. mode[q] = "chat" => \A s \in sent' : s.id # want[q].id
    BY <1>1, <1>2, <1>8, <2>1
  <2>3. QED
    BY <1>2, <1>8, <2>2, OthersStay
<1>9. QED
  BY <1>4, <1>5, <1>6, <1>7, <1>8 DEF SafeInv

(* The remaining steps neither append nor call.                            *)
LEMMA OtherSafe ==
    ASSUME TypeInv, SafeInv, NEW p \in Shards,
           \/ Start(p) /\ ~ Stop(p, "budget")
           \/ PassOver(p) \/ Begin(p) \/ DuplicateCall(p)
           \/ Collide(p) /\ ~ Stop(p, "error")
           \/ NextCall(p) \/ Save(p) \/ SaveError(p)
           \/ RouteRetry(p) \/ RetryableFailure(p)
           \/ RecoverOrphan(p) /\ ~ Stop(p, "error")
    PROVE  SafeInv'
<1>a. PICK s : s = session'[p]
  OBVIOUS
<1>1. UNCHANGED <<log, sent>>
  BY DEF Start, PassOver, Begin, DuplicateCall, Collide, NextCall, Save, SaveError,
         RouteRetry, RetryableFailure, RecoverOrphan, files
<1>2. \A q \in Shards : q # p => UNCHANGED <<mode[q], session[q], want[q]>>
  BY DEF Start, PassOver, Begin, DuplicateCall, Collide, NextCall, Save, SaveError,
         RouteRetry, RetryableFailure, RecoverOrphan, Adopt, Goto, TypeInv, TypeOK
<1>3. s.index <= Len(log) /\ s = Prefix(s.index)
  <2>1. Ledger.index <= Len(log) /\ Ledger = Prefix(Ledger.index)
    BY DEF Ledger, Prefix, TypeInv, TypeOK
  <2>2. CASE \/ Start(p) /\ ~ Stop(p, "budget")
             \/ Collide(p) /\ ~ Stop(p, "error")
    <3>1. s = Ledger
      BY <2>2, <1>a DEF Start, Collide, Adopt, TypeInv, TypeOK
    <3>2. QED
      BY <2>1, <3>1
  <2>3. CASE DuplicateCall(p)
    <3>1. s = Current(p) /\ mode[p] \in Running
      BY <2>3, <1>a DEF DuplicateCall, Adopt, Running, TypeInv, TypeOK
    <3>2. QED
      BY <3>1, CurrentHeld
  <2>4. CASE \/ PassOver(p) \/ Begin(p) \/ NextCall(p) \/ Save(p) \/ SaveError(p)
             \/ RouteRetry(p) \/ RetryableFailure(p)
             \/ RecoverOrphan(p) /\ ~ Stop(p, "error")
    <3>1. s = session[p] /\ mode[p] \in Running
      BY <2>4, <1>a DEF PassOver, Begin, NextCall, Save, SaveError, RouteRetry,
                  RetryableFailure, RecoverOrphan, Running
    <3>2. QED
      BY <3>1 DEF SafeInv, Held
  <2>5. QED
    BY <2>2, <2>3, <2>4
<1>4. Held(p)'
  BY <1>1, <1>3, <1>a DEF Held, Prefix, IdsOf, Indexes
<1>5. Wanted(p)'
  <2>1. CASE RecoverOrphan(p) /\ ~ Stop(p, "error")
    <3>1. /\ mode[p] = "orphan"
          /\ \/ mode' = [mode EXCEPT ![p] = "receipt"]
             \/ \E id \in Orphans(p, Ledger) :
                  /\ want' = [want EXCEPT ![p] = Forfeit("orphan", id)]
                  /\ mode' = [mode EXCEPT ![p] = "close"]
      BY <2>1 DEF RecoverOrphan, AfterRecovery, Goto
    <3>2. QED
      BY <3>1 DEF Wanted, Forfeit, Event, TypeInv, TypeOK
  <2>2. CASE Collide(p) /\ ~ Stop(p, "error")
    <3>1. /\ mode[p] = "create" /\ UNCHANGED want
          /\ mode'[p] \in {"reserve", "close"}
      BY <2>2 DEF Collide, Goto, TypeInv, TypeOK
    <3>2. QED
      BY <3>1 DEF SafeInv, Wanted
  <2>3. CASE \/ Start(p) /\ ~ Stop(p, "budget")
             \/ PassOver(p) \/ Begin(p) \/ DuplicateCall(p) \/ NextCall(p)
             \/ Save(p) \/ SaveError(p) \/ RouteRetry(p) \/ RetryableFailure(p)
    <3>1. mode'[p] \in {"select", "reserve", "orphan", "receipt"}
      BY <2>3 DEF Start, PassOver, Begin, DuplicateCall, NextCall, Save, SaveError,
                  RouteRetry, RetryableFailure, Goto, TypeInv, TypeOK
    <3>2. QED
      BY <3>1 DEF Wanted
  <2>4. QED
    BY <2>1, <2>2, <2>3
<1>6. QED
  BY <1>1, <1>2, <1>4, <1>5, QuietStep

THEOREM SafeInvariant == Spec => []SafeInv
<1>1. Init => SafeInv
  BY DEF Init, SafeInv, EventsFollow, AskedReserved, IdentitySentOnce, Held,
     Wanted, Running
<1>2. TypeInv /\ SafeInv /\ [Next]_vars => SafeInv'
  <2> SUFFICES ASSUME TypeInv, SafeInv, [Next]_vars PROVE SafeInv'
    OBVIOUS
  <2>1. ASSUME NEW p \in Shards, Start(p) PROVE SafeInv'
    <3>1. CASE Stop(p, "budget")
      BY <2>1, <3>1, StopSafe DEF Start, files, Stopped
    <3>2. CASE ~ Stop(p, "budget")
      BY <2>1, <3>2, OtherSafe
    <3>3. QED
      BY <3>1, <3>2
  <2>2. ASSUME NEW p \in Shards, Step(p) PROVE SafeInv'
    <3>1. CASE AllComplete(p) \/ AttemptLimit(p) \/ BudgetExceeded(p)
               \/ FatalFailure(p) \/ WriteReceipt(p)
      BY <3>1, StopSafe DEF AllComplete, AttemptLimit, BudgetExceeded, FatalFailure,
                            WriteReceipt, files, Stopped
    <3>2. CASE (BuildTerminal(p) \/ Collide(p) \/ RecoverOrphan(p)) /\ Stop(p, "error")
      BY <3>2, StopSafe DEF BuildTerminal, Collide, RecoverOrphan, files, Stopped
    <3>3. CASE \/ BuildReservation(p)
               \/ BuildTerminal(p) /\ ~ Stop(p, "error")
      BY <3>3, BuildSafe
    <3>4. CASE Create(p)
      BY <3>4, CreateSafe
    <3>5. CASE Chat(p)
      BY <3>5, ChatSafe
    <3>6. CASE \/ PassOver(p) \/ Begin(p) \/ DuplicateCall(p)
               \/ Collide(p) /\ ~ Stop(p, "error")
               \/ NextCall(p) \/ Save(p) \/ SaveError(p)
               \/ RouteRetry(p) \/ RetryableFailure(p)
               \/ RecoverOrphan(p) /\ ~ Stop(p, "error")
      BY <3>6, OtherSafe
    <3>7. QED
      BY <2>2, <3>1, <3>2, <3>3, <3>4, <3>5, <3>6 DEF Step
  <2>3. ASSUME NEW p \in Shards, Crash(p) PROVE SafeInv'
    BY <2>3, StopSafe DEF Crash, files, Stopped
  <2>4. CASE UNCHANGED vars
    <3>1. UNCHANGED <<log, sent, mode, session, want>>
      BY <2>4 DEF vars, files, memory
    <3>2. EventsFollow' /\ AskedReserved' /\ IdentitySentOnce'
      BY <3>1 DEF SafeInv, EventsFollow, Follows, AskedReserved, IdentitySentOnce,
                  IdsOf, Indexes
    <3>3. \A q \in Shards : Held(q)' /\ Wanted(q)'
      BY <3>1, OthersStay DEF SafeInv, Wanted
    <3>4. QED
      BY <3>2, <3>3 DEF SafeInv
  <2>5. QED
    BY <2>1, <2>2, <2>3, <2>4 DEF Next
<1>3. QED
  BY <1>1, <1>2, TypeInvariant, PTL DEF Spec

(* However many shards race for the next file and whenever they are        *)
(* killed, the directory of events replays.                                *)
THEOREM LedgerReplays == Spec => []EventsFollow
<1>1. SafeInv => EventsFollow
  BY DEF SafeInv
<1>2. QED
  BY <1>1, SafeInvariant, PTL

(* No call identity is ever sent to a provider twice.                      *)
THEOREM SentOnce == Spec => []IdentitySentOnce
<1>1. SafeInv => IdentitySentOnce
  BY DEF SafeInv
<1>2. QED
  BY <1>1, SafeInvariant, PTL

-----------------------------------------------------------------------------
(* Why no reservation is left behind.  A phase that is Anchored opens with *)
(* the same identity each time an attempt is resumed; so its reservation   *)
(* tells a resumed shard that this attempt has called before.              *)
Reserved == IdsOf({"reservation"}, Len(log))
Unended == Reserved \ IdsOf(Terminals, Len(log))

First(id) == [shard |-> id.shard, query |-> id.query, attempt |-> id.attempt,
              phase |-> id.phase, call |-> 1, wire |-> 0]

(* The open reservations of the member a process is at.                    *)
Left(p) ==
    {id \in Unended : Anchored(id) /\ id.shard = p /\ id.query = member[p]}

Reserving(p) == mode[p] = "create" /\ want[p].kind = "reservation"
Closing(p) ==
    mode[p] \in {"chat", "close"} \/ (mode[p] = "create" /\ ~ Reserving(p))

(* Every call of the attempt so far has its outcome; the first one of the  *)
(* phase has been reserved.                                                *)
Ended(p) ==
    \/ mode[p] \in {"captured", "failed", "receipt"}
    \/ Reserving(p)
    \/ mode[p] = "reserve" /\ call[p] # 1
Begun(p) ==
    \/ Closing(p)
    \/ mode[p] = "captured"
    \/ mode[p] \in Running \ {"select"} /\ call[p] # 1

Progress(p) ==
    /\ Reserving(p) \/ mode[p] = "chat" => want[p].id = Identity(p)
    /\ Ended(p) => Left(p) = {}
    /\ Closing(p) => Left(p) \subseteq {want[p].id}
    /\ Begun(p) /\ Anchored(Identity(p)) => First(Identity(p)) \in Reserved

OpenInv ==
    /\ \A id \in Unended :
         Anchored(id) =>
            /\ id.attempt = receipts[<<id.shard, id.query>>] + 1
            /\ id.phase = saved[<<id.shard, id.query>>] + 1
    /\ \A id \in Reserved : Anchored(id) => First(id) \in Reserved
    /\ \A p \in Shards : Progress(p)

(* What the identities in the directory are.                               *)
IdRecord == [shard : Shards, query : 1..Queries, attempt : Nat, phase : Nat,
             call : Nat, wire : Nat]

LEMMA IdIsRecord == ASSUME NEW id \in Id PROVE id \in IdRecord
<1>a. PICK p \in Shards : \E i \in DOMAIN Phases[p] : id \in IdIn(p, i)
  BY DEF Id
<1>1. PICK i \in DOMAIN Phases[p] : id \in IdIn(p, i)
  BY <1>a
<1>2. DOMAIN Phases[p] \subseteq Nat /\ MaxRuns[p] \in Nat /\ MaxAttempts \in Nat
  BY ConstantTypes
<1>3. DOMAIN Phases[p][i] \subseteq Nat
  BY <1>1, ConstantTypes
<1>4. QED
  BY <1>1, <1>2, <1>3 DEF IdIn, IdRecord

LEMMA ReservedIds ==
    ASSUME TypeInv
    PROVE  Reserved \subseteq IdRecord /\ Unended \subseteq Reserved
<1>1. ASSUME NEW i \in 1..Len(log) PROVE log[i].id \in Id
  <2>1. log[i] \in LedgerEvent
    BY DEF TypeInv, TypeOK
  <2>2. QED
    BY <2>1 DEF LedgerEvent
<1>2. QED
  BY <1>1, IdIsRecord DEF Reserved, Unended, IdsOf, Indexes

LEMMA UnendedIsOpen == Open(Ledger) = Unended
BY ClosedIds DEF Open, Ledger, Prefix, Unended, Reserved

(* The first call of an anchored phase has the same identity in every run. *)
LEMMA AnchorRepeats ==
    ASSUME TypeInv, NEW p \in Shards, mode[p] \in Running \ {"select"},
           Anchored(Identity(p)), call[p] = 1
    PROVE  First(Identity(p)) = Identity(p)
<1>1. Wire(p) = 0
  BY DEF Anchored, Identity, Wire, Phase
<1>2. Identity(p) \in IdRecord
  BY IdentityType, IdIsRecord
<1>3. QED
  BY <1>1, <1>2 DEF First, Identity, IdRecord

(* What is open of a process's member is of its attempt and its phase.     *)
LEMMA LeftIsOurs ==
    ASSUME TypeInv, NEW p \in Shards, mode[p] \in Running \ {"select"},
           NEW id \in Reserved, id.shard = p, id.query = member[p],
           id.attempt = receipts[Member(p)] + 1, id.phase = saved[Member(p)] + 1
    PROVE  /\ First(id) = First(Identity(p))
           /\ Anchored(id) <=> Anchored(Identity(p))
<1>1. Identity(p) \in IdRecord /\ id \in IdRecord
  BY IdentityType, IdIsRecord, ReservedIds
<1>2. QED
  BY <1>1 DEF First, Identity, Anchored

LEMMA LeftMatches ==
    ASSUME TypeInv, OpenInv, NEW p \in Shards, NEW id \in Left(p)
    PROVE  /\ id \in Reserved /\ Anchored(id) /\ id.shard = p /\ id.query = member[p]
           /\ id.attempt = receipts[Member(p)] + 1
           /\ id.phase = saved[Member(p)] + 1
BY ReservedIds DEF OpenInv, Left, Member

LEMMA CurrentIsLedger ==
    ASSUME TypeInv, SafeInv, NEW p \in Shards, mode[p] \in Running
    PROVE  Current(p) = Ledger
<1>1. PICK s \in Session : s = session[p] /\ s.index <= Len(log) /\ s = Prefix(s.index)
  BY DEF SafeInv, Held, TypeInv, ControlOK
<1>2. s.index \in Nat /\ Len(log) \in Nat
  BY <1>1 DEF Session, TypeInv, TypeOK
<1>3. QED
  BY <1>1, <1>2 DEF Current, Ledger

(* A process that a step does not touch keeps its part.                    *)
LEMMA OthersProgress ==
    ASSUME TypeInv, NEW q \in Shards, Progress(q),
           UNCHANGED <<mode[q], member[q], call[q], want[q], run[q]>>,
           \A k \in Members : k[1] = q => UNCHANGED <<saved[k], receipts[k]>>,
           Reserved \subseteq Reserved', Left(q)' \subseteq Left(q)
    PROVE  Progress(q)'
<1>1. UNCHANGED <<Reserving(q), Closing(q), Ended(q), Begun(q)>>
  BY DEF Reserving, Closing, Ended, Begun
<1>2. ASSUME mode[q] \in Running \ {"select"} PROVE UNCHANGED Identity(q)
  <2>1. Member(q) \in Members /\ Member(q)[1] = q
    BY <1>2, MemberTypes, ProcessTypes DEF ControlOK
  <2>2. UNCHANGED <<Member(q), saved[Member(q)], receipts[Member(q)]>>
    BY <2>1 DEF Member
  <2>3. UNCHANGED <<Phase(q), Wire(q)>>
    BY <2>2 DEF Phase, Wire
  <2>4. QED
    BY <2>2, <2>3 DEF Identity
<1>3. (Reserving(q) \/ mode[q] = "chat" \/ Begun(q)) => mode[q] \in Running \ {"select"}
  BY DEF Reserving, Begun, Closing, Running
<1>4. Anchored(Identity(q))' = Anchored(Identity(q)')
      /\ First(Identity(q))' = First(Identity(q)')
  BY DEF Anchored, First
<1>5. QED
  BY <1>1, <1>2, <1>3, <1>4 DEF Progress

(* A step that appends nothing; it may count a receipt or a checkpoint of  *)
(* a member that has left nothing open.                                    *)
LEMMA QuietOpen ==
    ASSUME TypeInv, OpenInv, NEW p \in Shards, UNCHANGED log,
           \A q \in Shards : q # p =>
               UNCHANGED <<mode[q], member[q], call[q], want[q], run[q]>>,
           \A k \in Members : k # Member(p) => UNCHANGED <<saved[k], receipts[k]>>,
           UNCHANGED <<saved, receipts>> \/ Left(p) = {},
           Progress(p)'
    PROVE  OpenInv'
<1>1. UNCHANGED <<Reserved, Unended>>
  BY DEF Reserved, Unended, IdsOf, Indexes
<1>2. ASSUME NEW id \in Unended, Anchored(id)
      PROVE  UNCHANGED <<receipts[<<id.shard, id.query>>], saved[<<id.shard, id.query>>]>>
  <2>1. <<id.shard, id.query>> \in Members
    BY ReservedIds DEF IdRecord, Members
  <2>2. CASE <<id.shard, id.query>> = Member(p)
    <3>1. id \in Left(p)
      BY <1>2, <2>2 DEF Left, Member
    <3>2. QED
      BY <3>1
  <2>3. QED
    BY <2>1, <2>2
<1>3. ASSUME NEW q \in Shards, q # p PROVE Progress(q)'
  <2>1. UNCHANGED Left(q)
    BY <1>1, <1>3 DEF Left
  <2>2. \A k \in Members : k[1] = q => k # Member(p)
    BY <1>3 DEF Member
  <2>3. QED
    BY <1>1, <1>3, <2>1, <2>2, OthersProgress DEF OpenInv
<1>4. QED
  BY <1>1, <1>2, <1>3 DEF OpenInv, Anchored, First

-----------------------------------------------------------------------------
LEMMA StopOpen ==
    ASSUME TypeInv, OpenInv, NEW p \in Shards, NEW m \in Stopped, Stop(p, m),
           UNCHANGED <<log, saved>>,
           \A q \in Shards : q # p => UNCHANGED run[q],
           \/ UNCHANGED receipts
           \/ receipts' = [receipts EXCEPT ![Member(p)] = @ + 1] /\ Left(p) = {}
    PROVE  OpenInv'
<1>1. mode'[p] = m /\ m \notin Running
  BY DEF Stop, Goto, TypeInv, TypeOK, Stopped, Running
<1>2. Progress(p)'
  BY <1>1 DEF Progress, Reserving, Closing, Ended, Begun, Running
<1>3. \A q \in Shards : q # p =>
        UNCHANGED <<mode[q], member[q], call[q], want[q], run[q]>>
  BY DEF Stop, Goto, TypeInv, TypeOK
<1>4. \A k \in Members : k # Member(p) => UNCHANGED <<saved[k], receipts[k]>>
  BY DEF TypeInv, TypeOK
<1>5. QED
  BY <1>2, <1>3, <1>4, QuietOpen

(* The loop over the members: nothing is claimed of it.                    *)
LEMMA LoopOpen ==
    ASSUME TypeInv, OpenInv, NEW p \in Shards,
           \/ Start(p) /\ ~ Stop(p, "budget")
           \/ PassOver(p) \/ Begin(p)
    PROVE  OpenInv'
<1>1. /\ UNCHANGED <<log, saved, receipts>>
      /\ \A q \in Shards : q # p =>
           UNCHANGED <<mode[q], member[q], call[q], want[q], run[q]>>
      /\ mode'[p] = "select" \/ (mode'[p] = "reserve" /\ call'[p] = 1)
  BY ProcessTypes DEF Start, PassOver, Begin, Adopt, Goto, files, TypeInv, TypeOK,
     ControlOK
<1>2. Progress(p)'
  BY <1>1 DEF Progress, Reserving, Closing, Ended, Begun, Running
<1>3. QED
  BY <1>1, <1>2, QuietOpen

(* A step within a call: the process stays at its member, its phase and    *)
(* its call.                                                               *)
LEMMA WithinCall ==
    ASSUME TypeInv, OpenInv, NEW p \in Shards, mode[p] \in Running \ {"select"},
           UNCHANGED <<log, saved, receipts, member, call, run>>,
           \A q \in Shards : q # p => UNCHANGED <<mode[q], want[q]>>,
           (Reserving(p) \/ mode[p] = "chat")' => want'[p].id = Identity(p),
           Ended(p)' => Left(p) = {},
           Closing(p)' => Left(p) \subseteq {want'[p].id},
           Begun(p)' /\ Anchored(Identity(p)) =>
               Begun(p) \/ First(Identity(p)) \in Reserved
    PROVE  OpenInv'
<1>1. UNCHANGED <<Identity(p), Reserved, Left(p)>>
  BY DEF Identity, Member, Wire, Phase, Reserved, Left, Unended, IdsOf, Indexes
<1>2. /\ Anchored(Identity(p))' = Anchored(Identity(p))
      /\ First(Identity(p))' = First(Identity(p))
  BY <1>1 DEF Anchored, First
<1>3. Begun(p) /\ Anchored(Identity(p)) => First(Identity(p)) \in Reserved
  BY DEF OpenInv, Progress
<1>4. Progress(p)'
  BY <1>1, <1>2, <1>3 DEF Progress
<1>5. QED
  BY <1>4, QuietOpen

LEMMA DuplicateOpen ==
    ASSUME TypeInv, OpenInv, NEW p \in Shards, DuplicateCall(p)
    PROVE  OpenInv'
<1>1. /\ mode[p] = "reserve" /\ mode'[p] = "orphan"
      /\ UNCHANGED <<log, saved, receipts, member, call, run>>
      /\ \A q \in Shards : q # p => UNCHANGED <<mode[q], want[q]>>
  BY DEF DuplicateCall, Adopt, Goto, files, TypeInv, TypeOK
<1>2. Begun(p)' => Begun(p)
  BY <1>1 DEF Begun, Closing, Reserving, Running
<1>3. ~ (Reserving(p) \/ mode[p] = "chat" \/ Ended(p) \/ Closing(p))'
  BY <1>1 DEF Reserving, Ended, Closing
<1>4. QED
  BY <1>1, <1>2, <1>3, WithinCall DEF Running

(* What is not reserved yet is the first call of the attempt, or follows   *)
(* calls that have their outcomes.                                         *)
LEMMA ReservationOpen ==
    ASSUME TypeInv, SafeInv, OpenInv, NEW p \in Shards, BuildReservation(p)
    PROVE  OpenInv'
<1>1. /\ mode[p] = "reserve" /\ mode'[p] = "create"
      /\ want'[p].kind = "reservation" /\ want'[p].id = Identity(p)
      /\ Identity(p) \notin Current(p).reserved
      /\ UNCHANGED <<log, saved, receipts, member, call, run>>
      /\ \A q \in Shards : q # p => UNCHANGED <<mode[q], want[q]>>
  BY DEF BuildReservation, Adopt, Goto, files, Known, Event, TypeInv, TypeOK
<1>2. Identity(p) \notin Reserved
  BY <1>1, CurrentIsLedger DEF Running, Ledger, Prefix, Reserved
<1>3. Left(p) = {}
  <2>1. CASE call[p] # 1
    BY <1>1, <2>1 DEF OpenInv, Progress, Ended
  <2>2. CASE call[p] = 1
    <3>1. SUFFICES ASSUME NEW id \in Left(p) PROVE FALSE
      OBVIOUS
    <3>2. First(id) = First(Identity(p)) /\ Anchored(Identity(p))
      BY <1>1, LeftMatches, LeftIsOurs DEF Running
    <3>3. First(id) \in Reserved
      BY LeftMatches DEF OpenInv
    <3>4. First(Identity(p)) = Identity(p)
      BY <1>1, <2>2, <3>2, AnchorRepeats DEF Running
    <3>5. QED
      BY <1>2, <3>2, <3>3, <3>4
  <2>3. QED
    BY <2>1, <2>2
<1>4. ~ Closing(p)' /\ (Begun(p)' => Begun(p))
  BY <1>1 DEF Begun, Closing, Reserving, Running
<1>5. QED
  BY <1>1, <1>3, <1>4, WithinCall DEF Running

LEMMA TerminalOpen ==
    ASSUME TypeInv, OpenInv, NEW p \in Shards, BuildTerminal(p), ~ Stop(p, "error")
    PROVE  OpenInv'
<1>1. /\ mode[p] = "close" /\ mode'[p] = "create" /\ want'[p] = want[p]
      /\ want[p].kind \in Terminals
      /\ UNCHANGED <<log, saved, receipts, member, call, run>>
      /\ \A q \in Shards : q # p => UNCHANGED <<mode[q], want[q]>>
  BY ProcessTypes DEF BuildTerminal, Adopt, Goto, files, TypeInv, TypeOK, ControlOK
<1>2. Closing(p) /\ Begun(p) /\ ~ (Reserving(p) \/ mode[p] = "chat" \/ Ended(p))'
  BY <1>1 DEF Closing, Begun, Reserving, Ended, Terminals
<1>3. Left(p) \subseteq {want[p].id}
  BY <1>2 DEF OpenInv, Progress
<1>4. QED
  BY <1>1, <1>2, <1>3, WithinCall DEF Running

LEMMA CollideOpen ==
    ASSUME TypeInv, OpenInv, NEW p \in Shards, Collide(p), ~ Stop(p, "error")
    PROVE  OpenInv'
<1>1. /\ mode[p] = "create" /\ want'[p] = want[p]
      /\ mode'[p] = IF want[p].kind = "reservation" THEN "reserve" ELSE "close"
      /\ UNCHANGED <<log, saved, receipts, member, call, run>>
      /\ \A q \in Shards : q # p => UNCHANGED <<mode[q], want[q]>>
  BY DEF Collide, Adopt, Goto, files, TypeInv, TypeOK
<1>2. /\ ~ (Reserving(p) \/ mode[p] = "chat")'
      /\ Ended(p)' => Ended(p)
      /\ Closing(p)' => Closing(p)
      /\ Begun(p)' => Begun(p)
  BY <1>1 DEF Closing, Begun, Reserving, Ended, Running
<1>3. /\ Ended(p) => Left(p) = {}
      /\ Closing(p) => Left(p) \subseteq {want[p].id}
  BY DEF OpenInv, Progress
<1>4. QED
  BY <1>1, <1>2, <1>3, WithinCall DEF Running

LEMMA ChatOpen ==
    ASSUME TypeInv, OpenInv, NEW p \in Shards, Chat(p)
    PROVE  OpenInv'
<1>1. /\ mode[p] = "chat" /\ mode'[p] = "close" /\ want'[p].id = want[p].id
      /\ UNCHANGED <<log, saved, receipts, member, call, run>>
      /\ \A q \in Shards : q # p => UNCHANGED <<mode[q], want[q]>>
  BY DEF Chat, Event, Forfeit, Goto, files, TypeInv, TypeOK
<1>2. Closing(p) /\ Begun(p) /\ ~ (Reserving(p) \/ mode[p] = "chat" \/ Ended(p))'
  BY <1>1 DEF Closing, Begun, Reserving, Ended
<1>3. Left(p) \subseteq {want[p].id}
  BY <1>2 DEF OpenInv, Progress
<1>4. QED
  BY <1>1, <1>2, <1>3, WithinCall DEF Running

LEMMA FailureOpen ==
    ASSUME TypeInv, OpenInv, NEW p \in Shards, RouteRetry(p) \/ RetryableFailure(p)
    PROVE  OpenInv'
<1>1. /\ mode[p] \in {"captured", "failed"} /\ mode'[p] = "receipt"
      /\ UNCHANGED <<log, saved, receipts, member, call, run>>
      /\ \A q \in Shards : q # p => UNCHANGED <<mode[q], want[q]>>
  BY DEF RouteRetry, RetryableFailure, Goto, files, TypeInv, TypeOK
<1>2. /\ Ended(p) /\ ~ (Reserving(p) \/ mode[p] = "chat" \/ Closing(p))'
      /\ Begun(p)' => Begun(p)
  BY <1>1 DEF Closing, Begun, Reserving, Ended, Running
<1>3. Left(p) = {}
  BY <1>2 DEF OpenInv, Progress
<1>4. QED
  BY <1>1, <1>2, <1>3, WithinCall DEF Running

(* The next call of the phase belongs to the same attempt.                 *)
LEMMA NextCallOpen ==
    ASSUME TypeInv, OpenInv, NEW p \in Shards, NextCall(p)
    PROVE  OpenInv'
<1>1. /\ mode[p] = "captured" /\ mode'[p] = "reserve"
      /\ UNCHANGED <<log, saved, receipts, member, run>>
      /\ \A q \in Shards : q # p => UNCHANGED <<mode[q], call[q], want[q]>>
  BY DEF NextCall, Goto, files, TypeInv, TypeOK
<1>2. Ended(p) /\ Begun(p) /\ ~ (Reserving(p) \/ mode[p] = "chat" \/ Closing(p))'
  BY <1>1 DEF Closing, Begun, Reserving, Ended
<1>3. Left(p) = {} /\ (Anchored(Identity(p)) => First(Identity(p)) \in Reserved)
  BY <1>2 DEF OpenInv, Progress
<1>4. UNCHANGED <<Reserved, Left(p)>>
  BY <1>1 DEF Reserved, Left, Unended, IdsOf, Indexes
<1>5. /\ Anchored(Identity(p))' = Anchored(Identity(p))
      /\ First(Identity(p))' = First(Identity(p))
  BY <1>1 DEF Anchored, First, Identity, Member
<1>6. Progress(p)'
  BY <1>2, <1>3, <1>4, <1>5 DEF Progress
<1>7. QED
  BY <1>1, <1>6, QuietOpen

(* A checkpoint is written when every call has its outcome.                *)
LEMMA SaveOpen ==
    ASSUME TypeInv, OpenInv, NEW p \in Shards, Save(p) \/ SaveError(p)
    PROVE  OpenInv'
<1>1. /\ mode[p] \in {"captured", "failed"} /\ mode'[p] = "select"
      /\ UNCHANGED <<log, receipts>>
      /\ \A q \in Shards : q # p =>
           UNCHANGED <<mode[q], member[q], call[q], want[q], run[q]>>
      /\ \A k \in Members : k # Member(p) => UNCHANGED saved[k]
  BY DEF Save, SaveError, Goto, TypeInv, TypeOK
<1>2. Left(p) = {}
  BY <1>1 DEF OpenInv, Progress, Ended
<1>3. Progress(p)'
  BY <1>1 DEF Progress, Reserving, Closing, Ended, Begun
<1>4. QED
  BY <1>1, <1>2, <1>3, QuietOpen

(* The directory is finite, so that counting its orphans means something.  *)
LEMMA ReservedFinite == ASSUME TypeInv PROVE IsFiniteSet(Reserved)
<1> DEFINE I == Indexes({"reservation"}, Len(log))
           f == [i \in I |-> log[i].id]
<1>1. Len(log) \in Nat
  BY DEF TypeInv, TypeOK
<1>2. IsFiniteSet(1..Len(log)) /\ I \subseteq 1..Len(log)
  BY <1>1, FS_Interval DEF Indexes
<1>3. IsFiniteSet(I)
  BY <1>2, FS_Subset
<1>4. f \in Surjection(I, Reserved)
  BY DEF Surjection, Reserved, IdsOf
<1>5. QED
  BY <1>3, <1>4, FS_Surjection

LEMMA FewAreOne ==
    ASSUME NEW S, NEW O, IsFiniteSet(S), O \subseteq S, ~ Cardinality(O) > 1
    PROVE  \A x, y \in O : x = y
<1> SUFFICES ASSUME NEW x \in O, NEW y \in O, x # y PROVE FALSE
  OBVIOUS
<1>1. IsFiniteSet(O)
  BY FS_Subset
<1>2. Cardinality({x}) = 1 /\ IsFiniteSet({x})
  BY FS_Singleton
<1>3. Cardinality({x} \union {y}) = 2
  <2>1. y \notin {x}
    OBVIOUS
  <2>2. Cardinality({x} \union {y}) = Cardinality({x}) + 1
    BY <1>2, <2>1, FS_AddElement, Zenon
  <2>3. QED
    BY <1>2, <2>2
<1>4. {x} \union {y} \subseteq O
  OBVIOUS
<1>5. Cardinality({x} \union {y}) <= Cardinality(O)
  BY <1>1, <1>4, FS_Subset
<1>6. Cardinality(O) \in Nat
  BY <1>1, FS_CardinalityType
<1>7. QED
  BY <1>3, <1>5, <1>6

(* One orphan at most is left of the attempt that is resumed.              *)
LEMMA RecoverOpen ==
    ASSUME TypeInv, OpenInv, NEW p \in Shards, RecoverOrphan(p), ~ Stop(p, "error")
    PROVE  OpenInv'
<1> DEFINE O == Orphans(p, Ledger)
<1>1. /\ mode[p] = "orphan" /\ ~ Cardinality(O) > 1
      /\ UNCHANGED <<log, saved, receipts, member, call, run>>
      /\ \A q \in Shards : q # p => UNCHANGED <<mode[q], want[q]>>
      /\ \/ O = {} /\ mode'[p] = "receipt"
         \/ \E id \in O : mode'[p] = "close" /\ want'[p].id = id
  BY DEF RecoverOrphan, AfterRecovery, Forfeit, Event, Goto, files, TypeInv, TypeOK
<1>2. \A id \in O :
        /\ id \in Reserved /\ id.shard = p /\ id.query = member[p]
        /\ id.attempt = receipts[Member(p)] + 1 /\ id.phase = saved[Member(p)] + 1
  BY DEF Orphans, Matching, Ledger, Prefix, Reserved
<1>3. Left(p) \subseteq O
  BY LeftMatches, UnendedIsOpen DEF Orphans, Matching, Open, Ledger, Prefix, Reserved,
     Left
<1>4. \A id, d \in O : id = d
  BY <1>1, ReservedFinite, <1>2, FewAreOne
<1>5. ~ (Reserving(p) \/ mode[p] = "chat" \/ (Ended(p) /\ mode[p] # "receipt"))'
  BY <1>1 DEF Reserving, Ended
<1> HIDE DEF O
<1>6. CASE O = {} /\ mode'[p] = "receipt"
  <2>1. Left(p) = {} /\ ~ Closing(p)'
    BY <1>3, <1>6 DEF Closing
  <2>2. Begun(p)' => Begun(p)
    BY <1>1, <1>6 DEF Begun, Closing, Reserving, Running
  <2>3. QED
    BY <1>1, <1>5, <2>1, <2>2, WithinCall DEF Running
<1>7. ASSUME NEW id \in O, mode'[p] = "close", want'[p].id = id PROVE OpenInv'
  <2>1. ~ Ended(p)' /\ Left(p) \subseteq {want'[p].id}
    BY <1>3, <1>4, <1>7 DEF Ended, Reserving
  <2>2. First(id) = First(Identity(p)) /\ (Anchored(id) <=> Anchored(Identity(p)))
    BY <1>1, <1>2, LeftIsOurs DEF Running
  <2>3. Anchored(Identity(p)) => First(Identity(p)) \in Reserved
    BY <1>2, <2>2 DEF OpenInv
  <2>4. QED
    BY <1>1, <1>5, <2>1, <2>3, WithinCall DEF Running
<1>8. QED
  BY <1>1, <1>6, <1>7

(* The event that is created opens or ends the call in progress.           *)
LEMMA CreateOpen ==
    ASSUME TypeInv, OpenInv, NEW p \in Shards, Create(p)
    PROVE  OpenInv'
<1>a. PICK e \in LedgerEvent : e = want[p]
  BY ProcessTypes DEF Create, ControlOK
<1>1. /\ mode[p] = "create" /\ log' = Append(log, e) /\ e.id.shard = p
      /\ mode'[p] = AfterAppend(e) /\ want'[p] = e
      /\ UNCHANGED <<saved, receipts, member, call, want, run>>
      /\ \A q \in Shards : q # p => UNCHANGED mode[q]
  BY <1>a, ProcessTypes DEF Create, Goto, TypeInv, TypeOK, ControlOK
<1>2. /\ Reserved' = Reserved \union {id \in {e.id} : e.kind = "reservation"}
      /\ IdsOf(Terminals, Len(log))' = IdsOf(Terminals, Len(log))
                                        \union {id \in {e.id} : e.kind \in Terminals}
  <2>1. log \in Seq(LedgerEvent)
    BY DEF TypeInv, TypeOK
  <2>2. QED
    BY <1>1, <2>1, IdsNext DEF Reserved
<1>3. Identity(p)' = Identity(p) /\ Identity(p) \in IdRecord
  BY <1>1, IdentityType, IdIsRecord DEF Identity, Member, Wire, Phase, Running
<1>4. /\ Anchored(Identity(p))' = Anchored(Identity(p))
      /\ First(Identity(p))' = First(Identity(p))
  BY <1>3 DEF Anchored, First
<1>5. ASSUME NEW q \in Shards, q # p PROVE Progress(q)'
  <2>1. Left(q)' \subseteq Left(q)
    BY <1>1, <1>2, <1>5 DEF Left, Unended, Anchored
  <2>2. QED
    BY <1>1, <1>2, <1>5, <2>1, OthersProgress DEF OpenInv
<1>6. CASE e.kind = "reservation"
  <2>1. Reserving(p) /\ ~ Closing(p)
    BY <1>a, <1>1, <1>6 DEF Reserving, Closing
  <2>2. e.id = Identity(p) /\ Left(p) = {}
    BY <1>a, <2>1 DEF OpenInv, Progress, Ended
  <2>3. mode'[p] = "chat"
    BY <1>1, <1>6 DEF AfterAppend
  <2>4. /\ Reserved' = Reserved \union {e.id}
        /\ Unended' \subseteq Unended \union {e.id}
    BY <1>2, <1>6 DEF Unended, Terminals
  <2>5. Anchored(e.id) => First(e.id) \in Reserved'
    <3>1. CASE call[p] = 1
      BY <1>1, <2>2, <2>4, <3>1, AnchorRepeats DEF Running
    <3>2. CASE call[p] # 1
      BY <1>1, <2>2, <2>4, <3>2 DEF OpenInv, Progress, Begun, Running
    <3>3. QED
      BY <3>1, <3>2
  <2>6. Left(p)' \subseteq {e.id}
    BY <1>1, <2>2, <2>4 DEF Left, Anchored
  <2>7. Progress(p)'
    <3>1. Closing(p)' /\ ~ Ended(p)' /\ ~ Reserving(p)'
      BY <2>3 DEF Closing, Ended, Reserving
    <3>2. want'[p].id = Identity(p)'
      BY <1>1, <1>3, <2>2
    <3>3. Anchored(Identity(p))' => First(Identity(p))' \in Reserved'
      BY <1>4, <2>2, <2>5
    <3>4. Left(p)' \subseteq {want'[p].id}
      BY <1>1, <2>6
    <3>5. QED
      BY <3>1, <3>2, <3>3, <3>4 DEF Progress
  <2>8. /\ e.id.attempt = receipts[<<e.id.shard, e.id.query>>] + 1
        /\ e.id.phase = saved[<<e.id.shard, e.id.query>>] + 1
    BY <2>2 DEF Identity, Member
  <2>9. QED
    BY <1>1, <1>5, <2>4, <2>5, <2>7, <2>8 DEF OpenInv, Anchored, First
<1>7. CASE e.kind \in Terminals
  <2>1. Closing(p) /\ Begun(p)
    BY <1>a, <1>1, <1>7 DEF Reserving, Closing, Begun, Terminals
  <2>2. Left(p) \subseteq {e.id} /\ (Anchored(Identity(p)) => First(Identity(p)) \in Reserved)
    BY <1>a, <2>1 DEF OpenInv, Progress
  <2>3. mode'[p] \in {"captured", "failed", "receipt"}
    BY <1>1, <1>7 DEF AfterAppend, AfterRecovery, Terminals
  <2>4. Reserved' = Reserved /\ Unended' = Unended \ {e.id}
    BY <1>2, <1>7 DEF Unended, Terminals
  <2>5. Left(p)' = {}
    BY <1>1, <2>2, <2>4 DEF Left, Anchored
  <2>6. Progress(p)'
    <3>1. ~ Closing(p)' /\ ~ Reserving(p)' /\ mode'[p] # "chat"
      BY <2>3 DEF Closing, Reserving
    <3>2. QED
      BY <1>4, <2>2, <2>4, <2>5, <3>1 DEF Progress
  <2>7. QED
    BY <1>1, <1>5, <2>4, <2>6 DEF OpenInv, Anchored, First
<1>8. QED
  BY <1>6, <1>7 DEF LedgerEvent

LEMMA OpenStep == TypeInv /\ SafeInv /\ OpenInv /\ [Next]_vars => OpenInv'
<1> SUFFICES ASSUME TypeInv, SafeInv, OpenInv, [Next]_vars PROVE OpenInv'
  OBVIOUS
<1>1. ASSUME NEW p \in Shards, Start(p) PROVE OpenInv'
  <2>1. CASE Stop(p, "budget")
    <3>1. UNCHANGED <<log, saved, receipts>> /\ \A q \in Shards : q # p => UNCHANGED run[q]
      BY <1>1 DEF Start, files, TypeInv, TypeOK
    <3>2. QED
      BY <2>1, <3>1, StopOpen DEF Stopped
  <2>2. CASE ~ Stop(p, "budget")
    BY <1>1, <2>2, LoopOpen
  <2>3. QED
    BY <2>1, <2>2
<1>2. ASSUME NEW p \in Shards, Step(p) PROVE OpenInv'
  <2>1. CASE AllComplete(p) \/ AttemptLimit(p) \/ BudgetExceeded(p) \/ FatalFailure(p)
    BY <2>1, StopOpen DEF AllComplete, AttemptLimit, BudgetExceeded, FatalFailure,
                          files, Stopped
  <2>2. CASE WriteReceipt(p)
    <3>1. Left(p) = {}
      BY <2>2 DEF WriteReceipt, OpenInv, Progress, Ended
    <3>2. QED
      BY <2>2, <3>1, StopOpen DEF WriteReceipt, Stopped
  <2>3. CASE (BuildTerminal(p) \/ Collide(p) \/ RecoverOrphan(p)) /\ Stop(p, "error")
    BY <2>3, StopOpen DEF BuildTerminal, Collide, RecoverOrphan, files, Stopped
  <2>4. CASE (BuildTerminal(p) \/ Collide(p) \/ RecoverOrphan(p)) /\ ~ Stop(p, "error")
    BY <2>4, TerminalOpen, CollideOpen, RecoverOpen
  <2>5. CASE PassOver(p) \/ Begin(p)
    BY <2>5, LoopOpen
  <2>6. CASE DuplicateCall(p) \/ BuildReservation(p) \/ Create(p) \/ Chat(p)
    BY <2>6, DuplicateOpen, ReservationOpen, CreateOpen, ChatOpen
  <2>7. CASE \/ NextCall(p) \/ Save(p) \/ SaveError(p)
             \/ RouteRetry(p) \/ RetryableFailure(p)
    BY <2>7, NextCallOpen, SaveOpen, FailureOpen
  <2>8. QED
    BY <1>2, <2>1, <2>2, <2>3, <2>4, <2>5, <2>6, <2>7 DEF Step
<1>3. ASSUME NEW p \in Shards, Crash(p) PROVE OpenInv'
  BY <1>3, StopOpen DEF Crash, files, Stopped
<1>4. CASE UNCHANGED vars
  <2>1. UNCHANGED <<Reserved, Unended>>
    BY <1>4 DEF vars, files, Reserved, Unended, IdsOf, Indexes
  <2>2. ASSUME NEW q \in Shards PROVE Progress(q)'
    <3>1. UNCHANGED Left(q)
      BY <1>4, <2>1 DEF vars, memory, Left
    <3>2. QED
      BY <1>4, <2>1, <3>1, OthersProgress DEF vars, files, memory, OpenInv
  <2>3. QED
    BY <1>4, <2>1, <2>2 DEF vars, files, OpenInv, Anchored, First
<1>5. QED
  BY <1>1, <1>2, <1>3, <1>4 DEF Next

(* In a phase whose first request repeats exactly, an open reservation     *)
(* belongs to the attempt in progress, over any crashes and however the    *)
(* shards race: no receipt and no checkpoint leaves one behind.            *)
THEOREM NothingLeftOpen == Spec => []OpenMeansInProgress
<1>1. Init => OpenInv
  <2> SUFFICES ASSUME Init PROVE OpenInv
    OBVIOUS
  <2>1. Reserved = {} /\ Unended = {}
    BY DEF Init, Reserved, Unended, IdsOf, Indexes
  <2>2. \A p \in Shards : mode[p] = "down"
    BY DEF Init
  <2>3. QED
    BY <2>1, <2>2 DEF OpenInv, Progress, Reserving, Closing, Ended, Begun, Running
<1>2. OpenInv => OpenMeansInProgress
  BY UnendedIsOpen DEF OpenInv, OpenMeansInProgress
<1>3. QED
  BY <1>1, <1>2, OpenStep, TypeInvariant, SafeInvariant, PTL DEF Spec

-----------------------------------------------------------------------------
(* Costs.                                                                  *)

(* What the events of a directory cost.                                    *)
Spent(l, ix) == Sum([i \in ix |-> l[i].cost], ix)

LEMMA ChargeIsSpent == \A ix : Charge(ix) = Spent(log, ix)
BY DEF Charge, Spent, Sum

LEMMA ChargeNext == \A ix : Charge(ix)' = Spent(log', ix)
<1>1. (\A ix : Charge(ix) = Spent(log, ix))'
  BY ChargeIsSpent, PTL
<1> QED
  BY <1>1

LEMMA EventTypes ==
    ASSUME NEW l \in Seq(LedgerEvent), NEW i \in 1..Len(l)
    PROVE  /\ l[i] \in LedgerEvent /\ l[i].cost \in Nat /\ l[i].id \in Id
           /\ l[i].kind \in {"reservation", "settlement", "forfeit", "orphan"}
<1>1. l[i] \in LedgerEvent
  OBVIOUS
<1> QED
  BY <1>1 DEF LedgerEvent, Terminals

LEMMA SpentNat ==
    ASSUME NEW l \in Seq(LedgerEvent), NEW ix \in SUBSET (1..Len(l))
    PROVE  IsFiniteSet(ix) /\ Spent(l, ix) \in Nat
<1>1. IsFiniteSet(ix)
  <2>1. IsFiniteSet(1..Len(l))
    BY FS_Interval
  <2> QED
    BY <2>1, FS_Subset
<1> DEFINE f == [i \in ix |-> l[i].cost]
<1>2. \A i \in ix : f[i] \in Nat
  BY EventTypes
<1> HIDE DEF f
<1>3. Sum(f, ix) \in Nat
  BY <1>1, <1>2, SumNat
<1> QED
  BY <1>1, <1>3 DEF Spent, f

LEMMA SpentAdd ==
    ASSUME NEW l \in Seq(LedgerEvent), NEW ix \in SUBSET (1..Len(l)),
           NEW i \in 1..Len(l), i \notin ix
    PROVE  Spent(l, ix \union {i}) = Spent(l, ix) + l[i].cost
<1> DEFINE f == [j \in ix \union {i} |-> l[j].cost]
           g == [j \in ix |-> l[j].cost]
<1>1. IsFiniteSet(ix)
  BY SpentNat
<1>2. /\ \A j \in ix \union {i} : f[j] \in Int
      /\ \A j \in ix : f[j] = g[j]
      /\ f[i] = l[i].cost
  BY EventTypes
<1> HIDE DEF f, g
<1>3. Sum(f, ix \union {i}) = Sum(f, ix) + f[i]
  BY <1>1, <1>2, SumAdd
<1>4. Sum(f, ix) = Sum(g, ix)
  BY <1>1, <1>2, SumCongruent
<1> QED
  BY <1>2, <1>3, <1>4 DEF Spent, f, g

(* A new event leaves the cost of the earlier ones alone.                  *)
LEMMA SpentStable ==
    ASSUME NEW l \in Seq(LedgerEvent), NEW e, NEW ix \in SUBSET (1..Len(l))
    PROVE  Spent(Append(l, e), ix) = Spent(l, ix)
<1>1. \A i \in ix : Append(l, e)[i] = l[i]
  OBVIOUS
<1>2. [i \in ix |-> Append(l, e)[i].cost] = [i \in ix |-> l[i].cost]
  BY <1>1
<1> QED
  BY <1>2 DEF Spent

(* The events of some kinds, before and after one more is created.         *)
LEMMA IndexesStable ==
    ASSUME log \in Seq(LedgerEvent), NEW e, log' = Append(log, e), NEW kinds,
           NEW n \in 0..Len(log)
    PROVE  /\ Indexes(kinds, n)' = Indexes(kinds, n)
           /\ Indexes(kinds, n) \subseteq 1..n /\ 1..n \subseteq 1..Len(log)
           /\ OpenIndexes(n)' = OpenIndexes(n) /\ OpenIndexes(n) \subseteq 1..n
<1>1. \A i \in 1..n : log'[i] = log[i]
  OBVIOUS
<1>2. \A k : Indexes(k, n)' = Indexes(k, n) /\ Indexes(k, n) \subseteq 1..n
  BY <1>1 DEF Indexes
<1>3. \A k : IdsOf(k, n)' = IdsOf(k, n)
  BY <1>1, <1>2 DEF IdsOf
<1> QED
  BY <1>1, <1>2, <1>3 DEF OpenIndexes

LEMMA IndexesNext ==
    ASSUME log \in Seq(LedgerEvent), NEW e, log' = Append(log, e), NEW kinds
    PROVE  Indexes(kinds, Len(log))' = Indexes(kinds, Len(log))
                                \union {i \in {Len(log) + 1} : e.kind \in kinds}
<1> DEFINE n == Len(log)
<1>1. n \in Nat /\ Len(log') = n + 1 /\ log'[n + 1] = e
      /\ \A i \in 1..n : log'[i] = log[i]
  OBVIOUS
<1>2. 1..(n + 1) = (1..n) \union {n + 1}
  BY <1>1
<1> QED
  BY <1>1, <1>2 DEF Indexes

LEMMA BooksStable ==
    ASSUME log \in Seq(LedgerEvent), NEW e, log' = Append(log, e),
           NEW n \in 0..Len(log)
    PROVE  Books(n)' = Books(n)
<1>1. \A ix \in SUBSET (1..n) : Spent(log', ix) = Spent(log, ix)
  <2>1. 1..n \subseteq 1..Len(log)
    OBVIOUS
  <2> QED
    BY <2>1, SpentStable
<1>2. /\ Books(n) = [actual |-> Spent(log, Indexes({"settlement"}, n)),
                     forfeit |-> Spent(log, Indexes(Forfeits, n)),
                     open |-> Spent(log, OpenIndexes(n))]
      /\ Books(n)' = [actual |-> Spent(log', Indexes({"settlement"}, n)'),
                     forfeit |-> Spent(log', Indexes(Forfeits, n)'),
                     open |-> Spent(log', OpenIndexes(n)')]
  BY ChargeIsSpent, ChargeNext DEF Books
<1>3. /\ Indexes({"settlement"}, n)' = Indexes({"settlement"}, n)
      /\ Indexes(Forfeits, n)' = Indexes(Forfeits, n)
      /\ OpenIndexes(n)' = OpenIndexes(n)
      /\ Indexes({"settlement"}, n) \in SUBSET (1..n)
      /\ Indexes(Forfeits, n) \in SUBSET (1..n)
      /\ OpenIndexes(n) \in SUBSET (1..n)
  BY IndexesStable
<1> QED
  BY <1>1, <1>2, <1>3

-----------------------------------------------------------------------------
(* A directory that replays: no outcome without a reservation, and one     *)
(* reservation of each call.                                               *)
LEMMA OutcomeReserved ==
    ASSUME log \in Seq(LedgerEvent), EventsFollow
    PROVE  IdsOf(Terminals, Len(log)) \subseteq IdsOf({"reservation"}, Len(log))
<1> SUFFICES ASSUME NEW i \in Indexes(Terminals, Len(log))
             PROVE  log[i].id \in IdsOf({"reservation"}, Len(log))
  BY DEF IdsOf
<1>1. i \in 1..Len(log) /\ log[i].kind \in Terminals
  BY DEF Indexes
<1>2. log[i].id \in IdsOf({"reservation"}, i - 1)
  BY <1>1 DEF EventsFollow, Follows
<1>3. 1..(i - 1) \subseteq 1..Len(log)
  BY <1>1
<1> QED
  BY <1>2, <1>3 DEF IdsOf, Indexes

LEMMA OneReservation ==
    ASSUME log \in Seq(LedgerEvent), EventsFollow,
           NEW i \in Indexes({"reservation"}, Len(log)),
           NEW j \in Indexes({"reservation"}, Len(log)), log[i].id = log[j].id
    PROVE  i = j
<1>1. /\ i \in 1..Len(log) /\ j \in 1..Len(log)
      /\ log[i].kind = "reservation" /\ log[j].kind = "reservation"
  BY DEF Indexes
<1>2. log[i].id \notin IdsOf({"reservation"}, i - 1)
      /\ log[j].id \notin IdsOf({"reservation"}, j - 1)
  BY <1>1 DEF EventsFollow, Follows
<1>3. ~ i < j
  <2>1. i < j => i \in 1..(j - 1)
    BY <1>1
  <2> QED
    BY <1>1, <1>2, <2>1 DEF IdsOf, Indexes
<1>4. ~ j < i
  <2>1. j < i => j \in 1..(i - 1)
    BY <1>1
  <2> QED
    BY <1>1, <1>2, <2>1 DEF IdsOf, Indexes
<1> QED
  BY <1>1, <1>3, <1>4

(* The event that a writer may create next.                                *)
Admissible(e) ==
    /\ e.kind = "reservation" => e.id \notin IdsOf({"reservation"}, Len(log))
    /\ e.kind \in Terminals => e.id \in IdsOf({"reservation"}, Len(log))
                                        \ IdsOf(Terminals, Len(log))

LEMMA OpenNext ==
    ASSUME log \in Seq(LedgerEvent), EventsFollow, NEW e \in LedgerEvent,
           log' = Append(log, e), Admissible(e)
    PROVE  /\ e.kind = "reservation" =>
                OpenIndexes(Len(log))' = OpenIndexes(Len(log)) \union {Len(log) + 1}
           /\ e.kind \in Terminals =>
                \E j \in OpenIndexes(Len(log)) :
                    /\ log[j].id = e.id
                    /\ OpenIndexes(Len(log))' = OpenIndexes(Len(log)) \ {j}
<1> DEFINE n == Len(log)
           R == Indexes({"reservation"}, n)
           T == IdsOf(Terminals, n)
<1>1. /\ n \in Nat /\ log'[n + 1] = e /\ \A i \in 1..n : log'[i] = log[i]
      /\ R \subseteq 1..n
  BY DEF Indexes
<1>2. /\ Indexes({"reservation"}, Len(log))' = R \union {i \in {n + 1} : e.kind = "reservation"}
      /\ IdsOf(Terminals, Len(log))' = T \union {id \in {e.id} : e.kind \in Terminals}
  <2>1. Indexes({"reservation"}, Len(log))' = R \union {i \in {n + 1} : e.kind \in {"reservation"}}
    BY IndexesNext
  <2> QED
    BY <2>1, IdsNext
<1>3. OpenIndexes(Len(log)) = {i \in R : log[i].id \notin T}
  BY DEF OpenIndexes
<1>4. OpenIndexes(Len(log))' = {i \in Indexes({"reservation"}, Len(log))' :
                                  log'[i].id \notin IdsOf(Terminals, Len(log))'}
  BY DEF OpenIndexes
<1> HIDE DEF R, T, n
<1>5. ASSUME e.kind = "reservation"
      PROVE  OpenIndexes(Len(log))' = OpenIndexes(Len(log)) \union {Len(log) + 1}
  <2>1. e.id \notin T /\ e.kind \notin Terminals
    BY <1>5, OutcomeReserved DEF Admissible, T, n, Terminals
  <2>2. /\ Indexes({"reservation"}, Len(log))' = R \union {n + 1}
        /\ IdsOf(Terminals, Len(log))' = T
    BY <1>2, <1>5, <2>1
  <2>3. \A i \in R : log'[i] = log[i]
    BY <1>1
  <2>4. {i \in R \union {n + 1} : log'[i].id \notin T}
          = {i \in R : log[i].id \notin T} \union {n + 1}
    BY <1>1, <2>1, <2>3
  <2> QED
    BY <1>3, <1>4, <2>2, <2>4 DEF n
<1>6. ASSUME e.kind \in Terminals
      PROVE  \E j \in OpenIndexes(Len(log)) :
                    /\ log[j].id = e.id
                    /\ OpenIndexes(Len(log))' = OpenIndexes(Len(log)) \ {j}
  <2>1. PICK j \in R : log[j].id = e.id
    BY <1>6 DEF Admissible, IdsOf, R, n
  <2>2. e.id \notin T /\ e.kind # "reservation"
    BY <1>6 DEF Admissible, T, n, Terminals
  <2>3. \A i \in R : log[i].id = e.id => i = j
    BY <2>1, OneReservation DEF R, n
  <2>4. /\ Indexes({"reservation"}, Len(log))' = R
        /\ IdsOf(Terminals, Len(log))' = T \union {e.id}
    BY <1>2, <1>6, <2>2
  <2>5. {i \in R : log'[i].id \notin T \union {e.id}}
          = {i \in R : log[i].id \notin T} \ {j}
    BY <1>1, <2>1, <2>3
  <2> QED
    BY <1>3, <1>4, <2>1, <2>2, <2>4, <2>5
<1> QED
  BY <1>5, <1>6

(* A reservation charges the whole reserve of its call.                    *)
ReservedInFull ==
    \A i \in Indexes({"reservation"}, Len(log)) : log[i].cost = Full(log[i].id)

(* Entering one's own event in the books is replaying it.                  *)
LEMMA EnterIsReplay ==
    ASSUME log \in Seq(LedgerEvent), EventsFollow, ReservedInFull,
           NEW e \in LedgerEvent, log' = Append(log, e), Admissible(e)
    PROVE  Enter(LedgerBooks, e) = LedgerBooks'
<1> DEFINE n == Len(log)
           S == Indexes({"settlement"}, n)
           F == Indexes(Forfeits, n)
           O == OpenIndexes(n)
<1>1. /\ n \in Nat /\ log' \in Seq(LedgerEvent) /\ Len(log') = n + 1
      /\ log'[n + 1] = e /\ n + 1 \in 1..Len(log') /\ n + 1 \notin 1..n
      /\ 1..n \subseteq 1..Len(log')
      /\ e.kind \in {"reservation", "settlement", "forfeit", "orphan"}
      /\ e.cost \in Nat
  BY DEF LedgerEvent, Terminals
<1>2. S \in SUBSET (1..n) /\ F \in SUBSET (1..n) /\ O \in SUBSET (1..n)
  BY DEF OpenIndexes, Indexes
<1>3. /\ LedgerBooks = [actual |-> Spent(log, S), forfeit |-> Spent(log, F),
                        open |-> Spent(log, O)]
      /\ LedgerBooks' = [actual |-> Spent(log', Indexes({"settlement"}, Len(log))'),
                         forfeit |-> Spent(log', Indexes(Forfeits, Len(log))'),
                         open |-> Spent(log', OpenIndexes(Len(log))')]
  BY ChargeIsSpent, ChargeNext DEF LedgerBooks, Books
<1>4. \A ix \in SUBSET (1..n) :
        /\ Spent(log', ix) = Spent(log, ix)
        /\ Spent(log', ix \union {n + 1}) = Spent(log, ix) + e.cost
  <2>1. ASSUME NEW ix \in SUBSET (1..n)
        PROVE  /\ Spent(log', ix) = Spent(log, ix)
               /\ Spent(log', ix \union {n + 1}) = Spent(log', ix) + log'[n + 1].cost
    <3>1. ix \in SUBSET (1..Len(log')) /\ n + 1 \notin ix
      BY <1>1
    <3> QED
      BY <1>1, <3>1, SpentStable, SpentAdd
  <2> QED
    BY <1>1, <2>1
<1>5. /\ Indexes({"settlement"}, Len(log))' =
            IF e.kind = "settlement" THEN S \union {n + 1} ELSE S
      /\ Indexes(Forfeits, Len(log))' =
            IF e.kind \in Forfeits THEN F \union {n + 1} ELSE F
  <2>1. Indexes({"settlement"}, Len(log))'
          = S \union {i \in {n + 1} : e.kind \in {"settlement"}}
    BY IndexesNext
  <2>2. Indexes(Forfeits, Len(log))' = F \union {i \in {n + 1} : e.kind \in Forfeits}
    BY IndexesNext
  <2> QED
    BY <2>1, <2>2
<1>6. Spent(log', OpenIndexes(Len(log))') =
        IF e.kind = "reservation" THEN Spent(log, O) + e.cost
                                  ELSE Spent(log, O) - Full(e.id)
  <2>1. CASE e.kind = "reservation"
    <3>1. OpenIndexes(Len(log))' = O \union {n + 1}
      BY <2>1, OpenNext
    <3> QED
      BY <1>2, <1>4, <2>1, <3>1
  <2>2. CASE e.kind \in Terminals
    <3>1. PICK j \in O : log[j].id = e.id /\ OpenIndexes(Len(log))' = O \ {j}
      BY <2>2, OpenNext
    <3>2. log[j].cost = Full(e.id)
      BY <3>1 DEF ReservedInFull, OpenIndexes
    <3>3. Spent(log, (O \ {j}) \union {j}) = Spent(log, O \ {j}) + log[j].cost
      <4>1. O \ {j} \in SUBSET (1..Len(log)) /\ j \in 1..Len(log) /\ j \notin O \ {j}
        BY <1>2, <3>1
      <4> QED
        BY <4>1, SpentAdd
    <3>4. (O \ {j}) \union {j} = O
      BY <3>1
    <3>5. Spent(log', O \ {j}) = Spent(log, O \ {j})
      BY <1>2, <1>4
    <3>6. Spent(log, O \ {j}) \in Nat /\ Full(e.id) \in Nat
      <4>1. O \ {j} \in SUBSET (1..Len(log))
        BY <1>2
      <4> QED
        BY <4>1, SpentNat, FullNat DEF LedgerEvent
    <3>7. Spent(log, O) = Spent(log, O \ {j}) + Full(e.id)
      BY <3>2, <3>3, <3>4
    <3>8. e.kind # "reservation"
      BY <2>2 DEF Terminals
    <3> HIDE DEF O
    <3> QED
      BY <3>1, <3>5, <3>6, <3>7, <3>8
  <2> QED
    BY <1>1, <2>1, <2>2 DEF Terminals
<1>7. /\ Spent(log', Indexes({"settlement"}, Len(log))') =
            IF e.kind = "settlement" THEN Spent(log, S) + e.cost ELSE Spent(log, S)
      /\ Spent(log', Indexes(Forfeits, Len(log))') =
            IF e.kind \in Forfeits THEN Spent(log, F) + e.cost ELSE Spent(log, F)
  BY <1>2, <1>4, <1>5
<1> HIDE DEF S, F, O
<1> QED
  BY <1>3, <1>6, <1>7 DEF Enter

-----------------------------------------------------------------------------
(* The invariant about costs.  A process holds the true totals of its      *)
(* prefix, ...                                                             *)
BooksHeld(p) == mode[p] \in Running => books[p] = Books(session[p].index)

(* ... a reservation it is about to create fits below the cap, and an      *)
(* outcome it is about to create costs what the provider charged.          *)
Charged(id, cost) == \E s \in sent : s.id = id /\ s.cost = cost

CostsWanted(p) ==
    /\ mode[p] = "create" /\ want[p].kind = "reservation" =>
           want[p].cost = Full(want[p].id) /\ Fits(books[p], want[p].id)
    /\ mode[p] \in {"create", "close"} /\ want[p].kind = "settlement" =>
           Charged(want[p].id, want[p].cost)

SettledAsCharged ==
    \A i \in Indexes({"settlement"}, Len(log)) : Charged(log[i].id, log[i].cost)

CostInv ==
    /\ ReservedInFull
    /\ SettledAsCharged
    /\ IsFiniteSet(sent)
    /\ \A p \in Shards : BooksHeld(p) /\ CostsWanted(p)

LEMMA BooksSame == ASSUME UNCHANGED log, NEW n PROVE Books(n)' = Books(n)
<1>1. /\ \A k : Indexes(k, n)' = Indexes(k, n) /\ IdsOf(k, n)' = IdsOf(k, n)
      /\ OpenIndexes(n)' = OpenIndexes(n)
  BY DEF Indexes, IdsOf, OpenIndexes
<1> QED
  BY <1>1, ChargeIsSpent, ChargeNext DEF Books

LEMMA CurrentIsBooked ==
    ASSUME CostInv, NEW p \in Shards, mode[p] \in Running
    PROVE  CurrentBooks(p) = Books(Current(p).index)
<1>1. LedgerBooks = Books(Ledger.index)
  BY DEF LedgerBooks, Ledger, Prefix
<1> QED
  BY <1>1 DEF CurrentBooks, Current, CostInv, BooksHeld

(* What a process holds stays true while it is not running itself.         *)
LEMMA OthersCosts ==
    ASSUME CostInv, NEW q \in Shards,
           UNCHANGED <<mode[q], session[q], books[q], want[q], log>>,
           sent \subseteq sent'
    PROVE  BooksHeld(q)' /\ CostsWanted(q)'
<1>a. PICK n : n = session[q].index
  OBVIOUS
<1>1. Books(session[q].index)' = Books(session[q].index)
  <2>1. Books(n)' = Books(n)
    BY BooksSame
  <2>2. session'[q].index = n
    BY <1>a
  <2> QED
    BY <1>a, <2>1, <2>2
<1>2. BooksHeld(q)'
  BY <1>1 DEF CostInv, BooksHeld
<1>3. CostsWanted(q)'
  BY DEF CostInv, CostsWanted, Charged, Full, StageOf, Fits, Accountable
<1> QED
  BY <1>2, <1>3

(* A step that appends no event.                                           *)
LEMMA QuietCosts ==
    ASSUME CostInv, NEW p \in Shards, UNCHANGED log,
           sent \subseteq sent', IsFiniteSet(sent'),
           \A q \in Shards : q # p =>
               UNCHANGED <<mode[q], session[q], books[q], want[q]>>,
           BooksHeld(p)' /\ CostsWanted(p)'
    PROVE  CostInv'
<1>1. ReservedInFull' /\ SettledAsCharged'
  BY DEF CostInv, ReservedInFull, SettledAsCharged, Charged, Indexes, Full, StageOf
<1>2. ASSUME NEW q \in Shards, q # p PROVE BooksHeld(q)' /\ CostsWanted(q)'
  BY <1>2, OthersCosts
<1> QED
  BY <1>1, <1>2 DEF CostInv

LEMMA StopCosts ==
    ASSUME TypeInv, CostInv, NEW p \in Shards, NEW m \in Stopped, Stop(p, m),
           UNCHANGED <<log, sent>>
    PROVE  CostInv'
<1>1. /\ mode'[p] = m /\ m \notin Running
      /\ \A q \in Shards : q # p => UNCHANGED <<mode[q], session[q], books[q], want[q]>>
  BY DEF Stop, Goto, TypeInv, TypeOK, Stopped, Running
<1>2. BooksHeld(p)' /\ CostsWanted(p)'
  BY <1>1 DEF BooksHeld, CostsWanted, Running
<1> QED
  BY <1>1, <1>2, QuietCosts DEF CostInv

(* A process reloads the directory.                                        *)
LEMMA ReloadCosts ==
    ASSUME TypeInv, CostInv, NEW p \in Shards,
           \/ Start(p) /\ ~ Stop(p, "budget")
           \/ Collide(p) /\ ~ Stop(p, "error")
    PROVE  CostInv'
<1>1. /\ session'[p] = Ledger /\ books'[p] = LedgerBooks /\ want'[p] = want[p]
      /\ \/ mode'[p] = "select"
         \/ /\ mode[p] = "create"
            /\ mode'[p] = IF want[p].kind = "reservation" THEN "reserve" ELSE "close"
      /\ UNCHANGED <<log, sent>>
      /\ \A q \in Shards : q # p => UNCHANGED <<mode[q], session[q], books[q], want[q]>>
  BY DEF Start, Collide, Adopt, Goto, files, TypeInv, TypeOK
<1>2. BooksHeld(p)'
  <2>1. PICK n : n = Len(log)
    OBVIOUS
  <2>2. session'[p].index = n /\ books'[p] = Books(n)
    BY <1>1, <2>1 DEF Ledger, Prefix, LedgerBooks
  <2>3. Books(n)' = Books(n)
    BY <1>1, BooksSame
  <2> QED
    BY <2>2, <2>3 DEF BooksHeld
<1>3. CostsWanted(p)'
  BY <1>1 DEF CostInv, CostsWanted, Charged
<1> QED
  BY <1>1, <1>2, <1>3, QuietCosts DEF CostInv

(* A process takes over a current prefix with its totals, ...              *)
LEMMA BuildCosts ==
    ASSUME TypeInv, CostInv, NEW p \in Shards,
           \/ DuplicateCall(p) \/ BuildReservation(p)
           \/ BuildTerminal(p) /\ ~ Stop(p, "error")
    PROVE  CostInv'
<1>1. /\ mode[p] \in Running
      /\ session'[p] = Current(p) /\ books'[p] = CurrentBooks(p)
      /\ UNCHANGED <<log, sent>>
      /\ \A q \in Shards : q # p => UNCHANGED <<mode[q], session[q], books[q], want[q]>>
  BY DEF DuplicateCall, BuildReservation, BuildTerminal, Adopt, Goto, files, Running,
         TypeInv, TypeOK
<1>2. BooksHeld(p)'
  <2>1. PICK n : n = Current(p).index
    OBVIOUS
  <2>2. session'[p].index = n /\ books'[p] = Books(n)
    BY <1>1, <2>1, CurrentIsBooked
  <2>3. Books(n)' = Books(n)
    BY <1>1, BooksSame
  <2> QED
    BY <2>2, <2>3 DEF BooksHeld
<1>3. CostsWanted(p)'
  <2>1. CASE DuplicateCall(p)
    <3>1. mode'[p] = "orphan"
      BY <2>1 DEF DuplicateCall, Goto, TypeInv, TypeOK
    <3> QED
      BY <3>1 DEF CostsWanted
  <2>2. CASE BuildReservation(p)
    <3>1. /\ Fits(books'[p], Identity(p))
          /\ want'[p] = Event("reservation", Identity(p), Full(Identity(p)))
      BY <1>1, <2>2 DEF BuildReservation, TypeInv, TypeOK
    <3>2. PICK id : id = Identity(p)
      OBVIOUS
    <3>3. want'[p].kind = "reservation" /\ want'[p].id = id /\ want'[p].cost = Full(id)
          /\ Fits(books'[p], id)
      BY <3>1, <3>2 DEF Event
    <3> QED
      BY <3>3 DEF CostsWanted, Full, StageOf, Fits, Accountable
  <2>3. CASE BuildTerminal(p) /\ ~ Stop(p, "error")
    <3>1. /\ mode[p] = "close" /\ want' = want /\ want[p].kind \in Terminals
      BY <2>3, ProcessTypes DEF BuildTerminal, ControlOK
    <3> QED
      BY <1>1, <3>1 DEF CostInv, CostsWanted, Charged, Terminals
  <2> QED
    BY <2>1, <2>2, <2>3
<1> QED
  BY <1>1, <1>2, <1>3, QuietCosts DEF CostInv

(* ... or goes on with what it holds.                                      *)
LEMMA KeepCosts ==
    ASSUME TypeInv, CostInv, NEW p \in Shards,
           \/ PassOver(p) \/ Begin(p) \/ NextCall(p) \/ Save(p) \/ SaveError(p)
           \/ RouteRetry(p) \/ RetryableFailure(p)
           \/ RecoverOrphan(p) /\ ~ Stop(p, "error")
    PROVE  CostInv'
<1>1. /\ mode[p] \in Running /\ UNCHANGED <<log, sent, session, books>>
      /\ \/ mode'[p] \in {"select", "reserve", "receipt"}
         \/ mode'[p] = "close" /\ want'[p].kind = "orphan"
      /\ \A q \in Shards : q # p => UNCHANGED <<mode[q], session[q], books[q], want[q]>>
  <2>1. CASE \/ PassOver(p) \/ Begin(p) \/ NextCall(p) \/ Save(p) \/ SaveError(p)
             \/ RouteRetry(p) \/ RetryableFailure(p)
    <3>1. /\ mode[p] \in Running /\ UNCHANGED <<log, sent, session, books, want>>
          /\ \/ mode' = mode /\ mode[p] = "select"
             \/ \E m \in {"select", "reserve", "receipt"} :
                    mode' = [mode EXCEPT ![p] = m]
      BY <2>1 DEF PassOver, Begin, NextCall, Save, SaveError, RouteRetry,
                  RetryableFailure, Goto, files, Running
    <3> QED
      BY <3>1 DEF TypeInv, TypeOK
  <2>2. CASE RecoverOrphan(p) /\ ~ Stop(p, "error")
    <3>1. /\ mode[p] \in Running /\ UNCHANGED <<log, sent, session, books>>
          /\ \/ mode' = [mode EXCEPT ![p] = "receipt"] /\ want' = want
             \/ \E id : /\ mode' = [mode EXCEPT ![p] = "close"]
                        /\ want' = [want EXCEPT ![p] = Event("orphan", id, Full(id))]
      BY <2>2 DEF RecoverOrphan, AfterRecovery, Forfeit, Goto, files, Running
    <3> QED
      BY <3>1 DEF TypeInv, TypeOK, Event
  <2> QED
    BY <2>1, <2>2
<1>2. BooksHeld(p)'
  <2>1. PICK n : n = session[p].index
    OBVIOUS
  <2>2. session'[p].index = n /\ books'[p] = Books(n)
    BY <1>1, <2>1 DEF CostInv, BooksHeld
  <2>3. Books(n)' = Books(n)
    BY <1>1, BooksSame
  <2> QED
    BY <2>2, <2>3 DEF BooksHeld
<1>3. CostsWanted(p)'
  BY <1>1 DEF CostsWanted
<1> QED
  BY <1>1, <1>2, <1>3, QuietCosts DEF CostInv

(* The call: what it is charged is what its settlement will cost.          *)
LEMMA ChatCosts ==
    ASSUME TypeInv, CostInv, NEW p \in Shards, Chat(p)
    PROVE  CostInv'
<1>1. PICK e, c :
        /\ want'[p] = e
        /\ sent' = sent \union {[id |-> e.id, run |-> run[p], cost |-> c]}
        /\ e.kind = "settlement" => c = e.cost
  <2>1. PICK e \in {Event("settlement", want[p].id, k) : k \in Costs}
                     \union {Forfeit("forfeit", want[p].id)} :
          /\ want' = [want EXCEPT ![p] = e]
          /\ sent' = sent \union {[id |-> e.id, run |-> run[p],
                        cost |-> IF e.kind = "forfeit" THEN Full(e.id) ELSE e.cost]}
    BY DEF Chat
  <2>2. e.kind \in {"settlement", "forfeit"}
    BY DEF Event, Forfeit
  <2>3. want'[p] = e
    BY <2>1 DEF TypeInv, TypeOK
  <2>4. WITNESS e, IF e.kind = "forfeit" THEN Full(e.id) ELSE e.cost
  <2> QED
    BY <2>1, <2>2, <2>3
<1>2. /\ mode[p] = "chat" /\ mode'[p] = "close"
      /\ UNCHANGED <<log, session, books>>
      /\ \A q \in Shards : q # p => UNCHANGED <<mode[q], session[q], books[q], want[q]>>
  BY DEF Chat, files, Goto, TypeInv, TypeOK
<1>3. sent \subseteq sent' /\ IsFiniteSet(sent')
  BY <1>1, FS_AddElement DEF CostInv
<1>4. BooksHeld(p)'
  <2>1. PICK n : n = session[p].index
    OBVIOUS
  <2>2. session'[p].index = n /\ books'[p] = Books(n)
    BY <1>2, <2>1 DEF CostInv, BooksHeld, Running
  <2>3. Books(n)' = Books(n)
    BY <1>2, BooksSame
  <2> QED
    BY <2>2, <2>3 DEF BooksHeld
<1>5. CostsWanted(p)'
  <2> DEFINE s == [id |-> e.id, run |-> run[p], cost |-> c]
  <2>1. s \in sent' /\ s.id = e.id /\ s.cost = c
    BY <1>1
  <2> HIDE DEF s
  <2>2. e.kind = "settlement" => Charged(e.id, e.cost)'
    BY <1>1, <2>1 DEF Charged
  <2> QED
    BY <1>1, <1>2, <2>2 DEF CostsWanted, Charged
<1> QED
  BY <1>2, <1>3, <1>4, <1>5, QuietCosts

(* What is known of the event that is created.                             *)
LEMMA CreateFacts ==
    ASSUME TypeInv, SafeInv, CostInv, NEW p \in Shards, Create(p)
    PROVE  /\ log \in Seq(LedgerEvent) /\ want[p] \in LedgerEvent
           /\ log' = Append(log, want[p]) /\ Admissible(want[p])
           /\ session[p] = Ledger /\ books[p] = LedgerBooks
           /\ want[p].kind = "reservation" =>
                want[p].cost = Full(want[p].id) /\ Fits(LedgerBooks, want[p].id)
           /\ want[p].kind = "settlement" =>
                want[p].cost <= Full(want[p].id) /\ Charged(want[p].id, want[p].cost)
           /\ want[p].kind \in Forfeits => want[p].cost = Full(want[p].id)
<1>1. /\ log \in Seq(LedgerEvent) /\ want[p] \in LedgerEvent
      /\ log' = Append(log, want[p]) /\ mode[p] = "create" /\ mode[p] \in Running
  BY ProcessTypes DEF Create, ControlOK, TypeInv, TypeOK, Running
<1>2. session[p] = Ledger /\ session[p] = Prefix(Len(log)) /\ books[p] = LedgerBooks
  BY <1>1 DEF Create, NextFileFree, SafeInv, Held, CostInv, BooksHeld, Ledger,
              LedgerBooks
<1>3. Admissible(want[p])
  BY <1>1, <1>2, ClosedIds DEF SafeInv, Wanted, Closable, Open, Prefix, Admissible
<1>4. want[p].kind \in Terminals => want[p].cost <= Full(want[p].id)
  BY <1>1 DEF SafeInv, Wanted, Closable
<1>5. want[p].kind \in Forfeits => want[p].cost = Full(want[p].id)
  BY <1>1 DEF SafeInv, Wanted
<1>6. /\ want[p].kind = "reservation" =>
                want[p].cost = Full(want[p].id) /\ Fits(LedgerBooks, want[p].id)
      /\ want[p].kind = "settlement" => Charged(want[p].id, want[p].cost)
  BY <1>1, <1>2 DEF CostInv, CostsWanted
<1> QED
  BY <1>1, <1>2, <1>3, <1>4, <1>5, <1>6 DEF Terminals

LEMMA CreateCosts ==
    ASSUME TypeInv, SafeInv, CostInv, NEW p \in Shards, Create(p)
    PROVE  CostInv'
<1>a. PICK e \in LedgerEvent : e = want[p]
  BY CreateFacts
<1>1. /\ log \in Seq(LedgerEvent) /\ log' = Append(log, e) /\ Admissible(e)
      /\ session[p] = Ledger /\ books[p] = LedgerBooks
      /\ e.kind = "reservation" => e.cost = Full(e.id)
      /\ e.kind = "settlement" => Charged(e.id, e.cost)
  BY <1>a, CreateFacts
<1>2. /\ UNCHANGED sent
      /\ session'[p] = Accept(Ledger, e) /\ books'[p] = Enter(LedgerBooks, e)
      /\ mode'[p] = AfterAppend(e)
      /\ \A q \in Shards : q # p => UNCHANGED <<mode[q], session[q], books[q], want[q]>>
  BY <1>a, <1>1 DEF Create, Adopt, Goto, TypeInv, TypeOK
<1> DEFINE n == Len(log)
<1>3. /\ n \in Nat /\ log'[n + 1] = e /\ \A i \in 1..n : log'[i] = log[i]
      /\ \A k : Indexes(k, Len(log)) \subseteq 1..n
  BY <1>1 DEF Indexes
<1>4. ReservedInFull'
  <2>1. Indexes({"reservation"}, Len(log))' = Indexes({"reservation"}, n)
                                \union {i \in {n + 1} : e.kind \in {"reservation"}}
    BY <1>1, IndexesNext
  <2>2. \A i \in Indexes({"reservation"}, Len(log))' : log'[i].cost = Full(log'[i].id)
    BY <1>1, <1>3, <2>1 DEF CostInv, ReservedInFull
  <2> QED
    BY <2>2 DEF ReservedInFull, Full, StageOf
<1>5. SettledAsCharged'
  <2>1. Indexes({"settlement"}, Len(log))' = Indexes({"settlement"}, n)
                                \union {i \in {n + 1} : e.kind \in {"settlement"}}
    BY <1>1, IndexesNext
  <2>2. \A i \in Indexes({"settlement"}, Len(log))' :
          \E s \in sent : s.id = log'[i].id /\ s.cost = log'[i].cost
    BY <1>1, <1>3, <2>1 DEF CostInv, SettledAsCharged, Charged
  <2> QED
    BY <1>2, <2>2 DEF SettledAsCharged, Charged
<1>6. BooksHeld(p)' /\ CostsWanted(p)'
  <2>1. session'[p] = Ledger' /\ books'[p] = LedgerBooks'
    BY <1>1, <1>2, AcceptIsReplay, EnterIsReplay DEF SafeInv, CostInv
  <2>2. BooksHeld(p)'
    BY <2>1 DEF BooksHeld, Ledger, LedgerBooks, Prefix
  <2>3. mode'[p] \notin {"create", "close"}
    BY <1>2 DEF AfterAppend, AfterRecovery, LedgerEvent, Terminals
  <2> QED
    BY <2>2, <2>3 DEF CostsWanted
<1>7. ASSUME NEW q \in Shards, q # p PROVE BooksHeld(q)' /\ CostsWanted(q)'
  <2>1. UNCHANGED <<mode[q], session[q], books[q], want[q]>>
    BY <1>2, <1>7
  <2>2. BooksHeld(q)'
    <3>1. PICK k : k = session[q].index
      OBVIOUS
    <3>2. mode[q] \in Running => k \in 0..n /\ books[q] = Books(k)
      BY <1>3, <3>1, ProcessTypes DEF SafeInv, Held, CostInv, BooksHeld, ControlOK,
                                      Session
    <3>3. mode[q] \in Running => Books(k)' = Books(k)
      BY <1>1, <3>2, BooksStable
    <3>4. session'[q].index = k
      BY <2>1, <3>1
    <3> QED
      BY <2>1, <3>2, <3>3, <3>4 DEF BooksHeld
  <2>3. CostsWanted(q)'
    BY <1>2, <2>1 DEF CostInv, CostsWanted, Charged, Full, StageOf, Fits, Accountable
  <2> QED
    BY <2>2, <2>3
<1> QED
  BY <1>2, <1>4, <1>5, <1>6, <1>7 DEF CostInv

LEMMA CostStep == TypeInv /\ SafeInv /\ CostInv /\ [Next]_vars => CostInv'
<1> SUFFICES ASSUME TypeInv, SafeInv, CostInv, [Next]_vars PROVE CostInv'
  OBVIOUS
<1>1. ASSUME NEW p \in Shards, Start(p) PROVE CostInv'
  <2>1. CASE Stop(p, "budget")
    BY <1>1, <2>1, StopCosts DEF Start, files, Stopped
  <2>2. CASE ~ Stop(p, "budget")
    BY <1>1, <2>2, ReloadCosts
  <2> QED
    BY <2>1, <2>2
<1>2. ASSUME NEW p \in Shards, Step(p) PROVE CostInv'
  <2>1. CASE AllComplete(p) \/ AttemptLimit(p) \/ BudgetExceeded(p) \/ FatalFailure(p)
    BY <2>1, StopCosts DEF AllComplete, AttemptLimit, BudgetExceeded, FatalFailure,
                           files, Stopped
  <2>2. CASE WriteReceipt(p)
    BY <2>2, StopCosts DEF WriteReceipt, Stopped
  <2>3. CASE (BuildTerminal(p) \/ Collide(p) \/ RecoverOrphan(p)) /\ Stop(p, "error")
    BY <2>3, StopCosts DEF BuildTerminal, Collide, RecoverOrphan, files, Stopped
  <2>4. CASE Collide(p) /\ ~ Stop(p, "error")
    BY <2>4, ReloadCosts
  <2>5. CASE \/ DuplicateCall(p) \/ BuildReservation(p)
             \/ BuildTerminal(p) /\ ~ Stop(p, "error")
    BY <2>5, BuildCosts
  <2>6. CASE \/ PassOver(p) \/ Begin(p) \/ NextCall(p) \/ Save(p) \/ SaveError(p)
             \/ RouteRetry(p) \/ RetryableFailure(p)
             \/ RecoverOrphan(p) /\ ~ Stop(p, "error")
    BY <2>6, KeepCosts
  <2>7. CASE Create(p) \/ Chat(p)
    BY <2>7, CreateCosts, ChatCosts
  <2> QED
    BY <1>2, <2>1, <2>2, <2>3, <2>4, <2>5, <2>6, <2>7 DEF Step
<1>3. ASSUME NEW p \in Shards, Crash(p) PROVE CostInv'
  BY <1>3, StopCosts DEF Crash, files, Stopped
<1>4. CASE UNCHANGED vars
  <2>1. UNCHANGED <<log, sent, mode, session, books, want>>
    BY <1>4 DEF vars, files, memory
  <2>2. ReservedInFull' /\ SettledAsCharged' /\ IsFiniteSet(sent')
    BY <2>1 DEF CostInv, ReservedInFull, SettledAsCharged, Charged, Indexes, Full,
                StageOf
  <2>3. \A q \in Shards : BooksHeld(q)' /\ CostsWanted(q)'
    BY <2>1, OthersCosts
  <2> QED
    BY <2>2, <2>3 DEF CostInv
<1> QED
  BY <1>1, <1>2, <1>3, <1>4 DEF Next

THEOREM CostInvariant == Spec => []CostInv
<1>1. Init => CostInv
  <2> SUFFICES ASSUME Init PROVE CostInv
    OBVIOUS
  <2>1. /\ \A k : Indexes(k, Len(log)) = {}
        /\ \A p \in Shards : mode[p] = "down"
        /\ sent = {}
    BY DEF Init, Indexes
  <2>2. IsFiniteSet(sent)
    BY <2>1, FS_EmptySet
  <2> QED
    BY <2>1, <2>2 DEF CostInv, ReservedInFull, SettledAsCharged, BooksHeld,
                      CostsWanted, Running
<1> QED
  BY <1>1, CostStep, TypeInvariant, SafeInvariant, PTL DEF Spec

-----------------------------------------------------------------------------
LEMMA SpentUnion ==
    ASSUME NEW l \in Seq(LedgerEvent), NEW ix \in SUBSET (1..Len(l)),
           NEW jx \in SUBSET (1..Len(l)), ix \intersect jx = {}
    PROVE  Spent(l, ix \union jx) = Spent(l, ix) + Spent(l, jx)
<1> DEFINE f == [j \in 1..Len(l) |-> l[j].cost]
<1>1. IsFiniteSet(ix) /\ IsFiniteSet(jx)
  BY SpentNat
<1>2. \A j \in 1..Len(l) : f[j] \in Int /\ f[j] = l[j].cost
  BY EventTypes
<1> HIDE DEF f
<1>3. ASSUME NEW kx \in SUBSET (1..Len(l)) PROVE Spent(l, kx) = Sum(f, kx)
  <2> DEFINE g == [j \in kx |-> l[j].cost]
  <2>1. IsFiniteSet(kx) /\ \A j \in kx : f[j] \in Int /\ f[j] = g[j]
    BY <1>2, SpentNat
  <2> HIDE DEF g
  <2>2. Sum(f, kx) = Sum(g, kx)
    BY <2>1, SumCongruent
  <2> QED
    BY <2>2 DEF Spent, g
<1>4. Sum(f, ix \union jx) = Sum(f, ix) + Sum(f, jx)
  <2>1. \A j \in ix \union jx : f[j] \in Int
    BY <1>2
  <2> QED
    BY <1>1, <2>1, SumUnion
<1>5. ix \union jx \in SUBSET (1..Len(l))
  OBVIOUS
<1> QED
  BY <1>3, <1>4, <1>5

LEMMA BooksNat ==
    ASSUME log \in Seq(LedgerEvent)
    PROVE  /\ LedgerBooks.actual \in Nat /\ LedgerBooks.forfeit \in Nat
           /\ LedgerBooks.open \in Nat
<1>1. /\ Indexes({"settlement"}, Len(log)) \in SUBSET (1..Len(log))
      /\ Indexes(Forfeits, Len(log)) \in SUBSET (1..Len(log))
      /\ OpenIndexes(Len(log)) \in SUBSET (1..Len(log))
  BY DEF OpenIndexes, Indexes
<1>2. \A ix \in SUBSET (1..Len(log)) : Charge(ix) \in Nat
  BY ChargeIsSpent, SpentNat
<1> QED
  BY <1>1, <1>2 DEF LedgerBooks, Books

(* The event that bears the charge of a call: its outcome if it has one,   *)
(* else its reservation.                                                   *)
Live == Indexes({"settlement"}, Len(log)) \union Indexes(Forfeits, Len(log))
            \union OpenIndexes(Len(log))

Bears(i, s) == log[i].id = s.id /\ Least(s.cost, Full(s.id)) <= log[i].cost

LEMMA EveryCallBorne ==
    ASSUME TypeInv, SafeInv, CostInv, NEW s \in sent
    PROVE  \E i \in Live : Bears(i, s)
<1>1. s \in [id : Id, run : Nat, cost : Nat] /\ log \in Seq(LedgerEvent)
  BY DEF TypeInv, TypeOK
<1>2. s.cost \in Nat /\ Full(s.id) \in Nat
  BY <1>1, FullNat
<1>3. Least(s.cost, Full(s.id)) <= s.cost /\ Least(s.cost, Full(s.id)) <= Full(s.id)
  BY <1>2 DEF Least
<1>4. s.id \in IdsOf({"reservation"}, Len(log))
  BY DEF SafeInv, AskedReserved
<1>5. CASE s.id \in IdsOf({"settlement"}, Len(log))
  <2>1. PICK i \in Indexes({"settlement"}, Len(log)) : log[i].id = s.id
    BY <1>5 DEF IdsOf
  <2>2. PICK t \in sent : t.id = log[i].id /\ t.cost = log[i].cost
    BY DEF CostInv, SettledAsCharged, Charged
  <2>3. t = s
    BY <2>1, <2>2 DEF SafeInv, IdentitySentOnce
  <2> QED
    BY <1>3, <2>1, <2>2, <2>3 DEF Live, Bears
<1>6. CASE s.id \in IdsOf(Forfeits, Len(log))
  <2>1. PICK i \in Indexes(Forfeits, Len(log)) : log[i].id = s.id
    BY <1>6 DEF IdsOf
  <2>2. log[i].cost = Full(s.id)
    BY <2>1 DEF Indexes, SafeInv, EventsFollow, Follows
  <2> QED
    BY <1>3, <2>1, <2>2 DEF Live, Bears
<1>7. CASE s.id \notin IdsOf(Terminals, Len(log))
  <2>1. PICK i \in Indexes({"reservation"}, Len(log)) : log[i].id = s.id
    BY <1>4 DEF IdsOf
  <2>2. i \in OpenIndexes(Len(log)) /\ log[i].cost = Full(s.id)
    BY <1>7, <2>1 DEF OpenIndexes, CostInv, ReservedInFull
  <2> QED
    BY <1>3, <2>1, <2>2 DEF Live, Bears
<1> QED
  BY <1>5, <1>6, <1>7 DEF IdsOf, Indexes, Terminals, Forfeits

LEMMA AccountableIsSpent ==
    ASSUME TypeInv
    PROVE  /\ Live \in SUBSET (1..Len(log))
           /\ Accountable(LedgerBooks) = Prior + Spent(log, Live)
           /\ Spent(log, Live) \in Nat /\ IsFiniteSet(Live)
<1> DEFINE S == Indexes({"settlement"}, Len(log))
           F == Indexes(Forfeits, Len(log))
           O == OpenIndexes(Len(log))
<1>1. log \in Seq(LedgerEvent)
  BY DEF TypeInv, TypeOK
<1>2. /\ S \in SUBSET (1..Len(log)) /\ F \in SUBSET (1..Len(log))
      /\ O \in SUBSET (1..Len(log))
      /\ S \intersect F = {} /\ (S \union F) \intersect O = {}
  BY DEF OpenIndexes, Indexes, Forfeits
<1>3. /\ Accountable(LedgerBooks)
            = Prior + Spent(log, S) + Spent(log, F) + Spent(log, O)
      /\ Live = (S \union F) \union O
  BY ChargeIsSpent DEF Accountable, LedgerBooks, Books, Live
<1> HIDE DEF S, F, O
<1>4. /\ Spent(log, S \union F) = Spent(log, S) + Spent(log, F)
      /\ Spent(log, (S \union F) \union O) = Spent(log, S \union F) + Spent(log, O)
  BY <1>1, <1>2, SpentUnion
<1>5. Spent(log, S) \in Nat /\ Spent(log, F) \in Nat /\ Spent(log, O) \in Nat
  BY <1>1, <1>2, SpentNat
<1>6. (S \union F) \union O \in SUBSET (1..Len(log))
  BY <1>2
<1>7. Spent(log, (S \union F) \union O) \in Nat /\ IsFiniteSet((S \union F) \union O)
  BY <1>1, <1>6, SpentNat
<1> QED
  BY <1>3, <1>4, <1>5, <1>6, <1>7, BudgetLedgerAssumption

LEMMA SpendAccounted ==
    ASSUME TypeInv, SafeInv, CostInv PROVE SpendIsAccounted
<1> DEFINE f == [s \in sent |-> Least(s.cost, Full(s.id))]
           g == [i \in Live |-> log[i].cost]
           h == [s \in sent |-> CHOOSE i \in Live : Bears(i, s)]
<1>1. /\ log \in Seq(LedgerEvent) /\ Live \in SUBSET (1..Len(log))
      /\ IsFiniteSet(Live) /\ IsFiniteSet(sent)
  BY AccountableIsSpent DEF TypeInv, TypeOK, CostInv
<1>2. ASSUME NEW s \in sent
      PROVE  /\ f[s] \in Int /\ h[s] \in Live /\ f[s] <= g[h[s]]
             /\ log[h[s]].id = s.id
  <2>1. h[s] \in Live /\ Bears(h[s], s)
    BY EveryCallBorne
  <2>2. s.cost \in Nat /\ Full(s.id) \in Nat
    BY FullNat DEF TypeInv, TypeOK
  <2> HIDE DEF h
  <2> QED
    BY <2>1, <2>2 DEF Bears, Least
<1>3. \A i \in Live : g[i] \in Nat
  BY <1>1, EventTypes
<1> HIDE DEF h, f, g
<1>4. \A s, t \in sent : h[s] = h[t] => s = t
  BY <1>2 DEF SafeInv, IdentitySentOnce
<1>5. Sum(f, sent) <= Sum(g, Live)
  BY <1>1, <1>2, <1>3, <1>4, SumCovered
<1>6. Sum(g, Live) = Spent(log, Live)
  BY DEF Spent, g
<1>7. Sum(f, sent) \in Int
  BY <1>1, <1>2, SumType
<1>8. Prior + Sum(f, sent) <= Accountable(LedgerBooks)
  BY <1>5, <1>6, <1>7, AccountableIsSpent, BudgetLedgerAssumption
<1> QED
  BY <1>8 DEF SpendIsAccounted, Sum, f

(* Whatever the providers have charged, up to the reserve of each call, is *)
(* in the accountable cost, for every number of shards, members, attempts  *)
(* and restarts: so the cap on the ledger caps the spending.               *)
THEOREM SpendingAccounted == Spec => []SpendIsAccounted
BY SpendAccounted, TypeInvariant, SafeInvariant, CostInvariant, PTL

-----------------------------------------------------------------------------
(* The refinement.  All that the account sees is in the files, ...         *)
AccountOpen == {log[i].id : i \in OpenIndexes(Len(log))}

(* Only the creation of an event is a step of it.                          *)
LEMMA AccountSame ==
    ASSUME UNCHANGED log
    PROVE  UNCHANGED <<AccountOpen, IdsOf(Terminals, Len(log)), Accountable(LedgerBooks)>>
<1>1. LedgerBooks' = LedgerBooks
  <2>1. PICK n : n = Len(log)
    OBVIOUS
  <2>2. Books(n)' = Books(n)
    BY BooksSame
  <2> QED
    BY <2>1, <2>2 DEF LedgerBooks
<1>2. UNCHANGED <<AccountOpen, IdsOf(Terminals, Len(log))>>
  BY DEF AccountOpen, OpenIndexes, IdsOf, Indexes
<1> QED
  BY <1>1, <1>2 DEF Accountable

LEMMA OpenIsUnended ==
    AccountOpen = IdsOf({"reservation"}, Len(log)) \ IdsOf(Terminals, Len(log))
BY DEF AccountOpen, OpenIndexes, IdsOf

(* What entering an event does to the accountable cost.                    *)
LEMMA EnterMoves ==
    ASSUME NEW b, b.actual \in Nat, b.forfeit \in Nat, b.open \in Nat,
           NEW e \in LedgerEvent
    PROVE  Accountable(Enter(b, e)) = IF e.kind = "reservation"
                                      THEN Accountable(b) + e.cost
                                      ELSE Accountable(b) - Full(e.id) + e.cost
<1>1. PICK x \in Nat, y \in Nat, z \in Nat : x = b.actual /\ y = b.forfeit /\ z = b.open
  OBVIOUS
<1>2. PICK c \in Nat, f \in Nat : c = e.cost /\ f = Full(e.id)
  BY FullNat DEF LedgerEvent
<1>3. Accountable(b) = Prior + x + y + z /\ Prior \in Nat
  BY <1>1, BudgetLedgerAssumption DEF Accountable
<1>4. Accountable(Enter(b, e)) = Prior + (IF e.kind = "settlement" THEN x + c ELSE x)
                                  + (IF e.kind \in Forfeits THEN y + c ELSE y)
                                  + (IF e.kind = "reservation" THEN z + c ELSE z - f)
  BY <1>1, <1>2 DEF Accountable, Enter
<1>5. CASE e.kind = "reservation"
  <2>1. Accountable(Enter(b, e)) = Prior + x + y + (z + c)
    BY <1>4, <1>5 DEF Forfeits
  <2> QED
    BY <1>2, <1>3, <1>5, <2>1
<1>6. CASE e.kind = "settlement"
  <2>1. Accountable(Enter(b, e)) = Prior + (x + c) + y + (z - f)
    BY <1>4, <1>6 DEF Forfeits
  <2> QED
    BY <1>2, <1>3, <1>6, <2>1
<1>7. CASE e.kind \in Forfeits
  <2>1. Accountable(Enter(b, e)) = Prior + x + (y + c) + (z - f)
    BY <1>4, <1>7 DEF Forfeits
  <2> QED
    BY <1>2, <1>3, <1>7, <2>1 DEF Forfeits
<1> QED
  BY <1>5, <1>6, <1>7 DEF LedgerEvent, Terminals, Forfeits

LEMMA CreateImplements ==
    ASSUME TypeInv, SafeInv, CostInv, NEW p \in Shards, Create(p)
    PROVE  Account!Next
<1> DEFINE R == IdsOf({"reservation"}, Len(log))
           T == IdsOf(Terminals, Len(log))
           C == Accountable(LedgerBooks)
<1>a. PICK e \in LedgerEvent : e = want[p]
  BY CreateFacts
<1>b. PICK c \in Id : c = e.id
  BY DEF LedgerEvent
<1>1. /\ log \in Seq(LedgerEvent) /\ log' = Append(log, e) /\ Admissible(e)
      /\ e.kind = "reservation" => e.cost = Full(c) /\ C + Full(c) <= Cap
      /\ e.kind = "settlement" => e.cost <= Full(c)
      /\ e.kind \in Forfeits => e.cost = Full(c)
      /\ e.kind \in {"reservation", "settlement", "forfeit", "orphan"}
      /\ e.cost \in Nat /\ Full(c) \in Nat
  BY <1>a, <1>b, CreateFacts, FullNat DEF LedgerEvent, Terminals, Fits
<1>2. /\ R' = R \union {id \in {c} : e.kind = "reservation"}
      /\ T' = T \union {id \in {c} : e.kind \in Terminals}
  <2>1. R' = R \union {id \in {c} : e.kind \in {"reservation"}}
    BY <1>1, <1>b, IdsNext
  <2> QED
    BY <1>1, <1>b, <2>1, IdsNext
<1>3. AccountOpen = R \ T /\ AccountOpen' = R' \ T' /\ T \subseteq R
  <2>1. (AccountOpen = IdsOf({"reservation"}, Len(log)) \ IdsOf(Terminals, Len(log)))'
    BY OpenIsUnended, PTL
  <2> QED
    BY <1>1, <2>1, OpenIsUnended, OutcomeReserved DEF SafeInv
<1>4. C' = IF e.kind = "reservation" THEN C + Full(c) ELSE C - Full(c) + e.cost
  <2>1. PICK b : b = LedgerBooks
    OBVIOUS
  <2>2. LedgerBooks' = Enter(b, e)
    BY <1>1, <2>1, EnterIsReplay DEF SafeInv, CostInv
  <2>3. b.actual \in Nat /\ b.forfeit \in Nat /\ b.open \in Nat
    BY <2>1, BooksNat DEF TypeInv, TypeOK
  <2>4. Accountable(b) = C /\ Accountable(Enter(b, e)) = C'
    BY <2>1, <2>2 DEF Accountable
  <2> QED
    BY <1>b, <1>1, <2>3, <2>4, EnterMoves
<1>5. C \in Nat
  BY AccountableIsSpent, BudgetLedgerAssumption
<1>6. c \in AccountOpen \union AccountOpen'
  BY <1>1, <1>2, <1>3, <1>b DEF Admissible, Terminals
<1>7. \/ /\ c \notin AccountOpen \union T /\ C + Full(c) <= Cap
         /\ AccountOpen' = AccountOpen \union {c} /\ C' = C + Full(c) /\ T' = T
      \/ /\ c \in AccountOpen /\ \E cost \in 0..Full(c) : C' = C - Full(c) + cost
         /\ AccountOpen' = AccountOpen \ {c} /\ T' = T \union {c}
      \/ /\ c \in AccountOpen /\ C' = C
         /\ AccountOpen' = AccountOpen \ {c} /\ T' = T \union {c}
  <2>1. CASE e.kind = "reservation"
    <3>1. c \notin R /\ R' = R \union {c} /\ T' = T
      BY <1>1, <1>2, <1>b, <2>1 DEF Admissible, Terminals
    <3> QED
      BY <1>1, <1>3, <1>4, <2>1, <3>1
  <2>2. CASE e.kind \in Terminals
    <3>1. c \in R \ T /\ R' = R /\ T' = T \union {c} /\ e.kind # "reservation"
      BY <1>1, <1>2, <1>b, <2>2 DEF Admissible, Terminals
    <3>2. AccountOpen' = AccountOpen \ {c} /\ c \in AccountOpen
      BY <1>3, <3>1
    <3>3. e.cost \in 0..Full(c) /\ C' = C - Full(c) + e.cost
      BY <1>1, <1>4, <2>2, <3>1 DEF Terminals, Forfeits
    <3> QED
      BY <3>1, <3>2, <3>3
  <2> QED
    BY <1>1, <2>1, <2>2 DEF Terminals
<1> QED
  BY <1>6, <1>7 DEF AccountOpen, Account!Next, Account!Authorise, Account!Settle,
                    Account!Forfeit

(* Every other step is invisible to the account.                           *)
LEMMA StepImplements ==
    ASSUME TypeInv, SafeInv, CostInv, [Next]_vars
    PROVE  Account!Next \/ UNCHANGED <<AccountOpen, IdsOf(Terminals, Len(log)),
                                      Accountable(LedgerBooks)>>
<1>1. CASE \E p \in Shards : Create(p)
  BY <1>1, CreateImplements
<1>2. CASE ~ \E p \in Shards : Create(p)
  <2>1. UNCHANGED log
    <3>1. ASSUME NEW p \in Shards, Start(p) \/ Step(p) \/ Crash(p), ~ Create(p)
          PROVE  UNCHANGED log
      BY <3>1 DEF Start, Step, Crash, AllComplete, PassOver, AttemptLimit, Begin,
         DuplicateCall, BudgetExceeded, BuildReservation, BuildTerminal, Collide,
         Chat, NextCall, Save, SaveError, RouteRetry, RetryableFailure,
         FatalFailure, RecoverOrphan, WriteReceipt, files
    <3> QED
      BY <1>2, <3>1 DEF Next, vars, files
  <2> QED
    BY <2>1, AccountSame
<1> QED
  BY <1>1, <1>2

LEMMA InitialAccount == ASSUME Init PROVE Account!Init
<1>1. \A k : Indexes(k, Len(log)) = {}
  BY DEF Init, Indexes
<1>2. IdsOf(Terminals, Len(log)) = {} /\ OpenIndexes(Len(log)) = {}
  BY <1>1 DEF IdsOf, OpenIndexes
<1>3. Charge({}) = 0
  <2>1. IsFiniteSet({}) /\ Spent(log, {}) = 0
    BY FS_EmptySet, SumEmpty DEF Spent
  <2> QED
    BY <2>1, ChargeIsSpent
<1>4. LedgerBooks.actual = 0 /\ LedgerBooks.forfeit = 0 /\ LedgerBooks.open = 0
  BY <1>1, <1>2, <1>3 DEF LedgerBooks, Books
<1>5. Accountable(LedgerBooks) = Prior
  BY <1>4, BudgetLedgerAssumption DEF Accountable
<1> QED
  BY <1>2, <1>5 DEF Account!Init

(* The create-only files, the optimistic writers and the crashes together  *)
(* amount to one atomic capped account: every step of a shard is one       *)
(* authorisation, settlement or forfeit of it, or invisible.               *)
THEOREM LedgerIsAccount == Spec => ImplementsAccount
<1>1. Init => Account!Init
  BY InitialAccount
<1>2. TypeInv /\ SafeInv /\ CostInv /\ [Next]_vars
        => [Account!Next]_<<AccountOpen, IdsOf(Terminals, Len(log)), Accountable(LedgerBooks)>>
  BY StepImplements
<1> QED
  BY <1>1, <1>2, TypeInvariant, SafeInvariant, CostInvariant, PTL
     DEF Spec, ImplementsAccount, Account!Spec, AccountOpen

-----------------------------------------------------------------------------
(* The hard cap itself.                                                    *)
WithinCap == Accountable(LedgerBooks) <= Cap

SpendCapped ==
    Prior + Sum([s \in sent |-> Least(s.cost, Full(s.id))], sent) <= Cap

LEMMA CapStep ==
    ASSUME TypeInv, SafeInv, CostInv, WithinCap, [Next]_vars
    PROVE  WithinCap'
<1> DEFINE C == Accountable(LedgerBooks)
<1>1. C \in Nat /\ Cap \in Nat /\ C <= Cap
  BY AccountableIsSpent, BudgetLedgerAssumption DEF WithinCap
<1>2. AccountOpen \subseteq Id
  BY EventTypes DEF AccountOpen, OpenIndexes, Indexes, TypeInv, TypeOK
<1>3. CASE UNCHANGED C
  BY <1>1, <1>3 DEF WithinCap
<1>4. CASE Account!Next
  <2>1. PICK c : Account!Authorise(c) \/ Account!Settle(c) \/ Account!Forfeit(c)
    BY <1>4 DEF Account!Next
  <2>2. CASE Account!Authorise(c)
    BY <2>2 DEF WithinCap, Account!Authorise
  <2>3. CASE Account!Settle(c)
    <3>1. c \in AccountOpen /\ \E cost \in 0..Full(c) : C' = C - Full(c) + cost
      BY <2>3 DEF Account!Settle, AccountOpen
    <3>2. Full(c) \in Nat
      BY <1>2, <3>1, FullNat
    <3> HIDE DEF C
    <3>3. C' <= Cap
      BY <1>1, <3>1, <3>2
    <3> QED
      BY <3>3 DEF WithinCap, C
  <2>4. CASE Account!Forfeit(c)
    BY <1>1, <2>4 DEF WithinCap, Account!Forfeit
  <2> QED
    BY <2>1, <2>2, <2>3, <2>4
<1> QED
  BY <1>3, <1>4, StepImplements

(* What the providers charge, up to the reserve of each call, never        *)
(* exceeds the hard cap, however many shards race for the ledger and       *)
(* however often they are killed and started again.                        *)
THEOREM SpendingCapped == Spec => []SpendCapped
<1>1. Init => WithinCap
  <2> SUFFICES ASSUME Init PROVE WithinCap
    OBVIOUS
  <2>1. Accountable(LedgerBooks) = Prior
    BY InitialAccount DEF Account!Init
  <2> QED
    BY <2>1, BudgetLedgerAssumption DEF WithinCap
<1>2. Spec => []WithinCap
  BY <1>1, CapStep, TypeInvariant, SafeInvariant, CostInvariant, PTL DEF Spec
<1>3. TypeInv /\ SafeInv /\ CostInv /\ WithinCap => SpendCapped
  <2> SUFFICES ASSUME TypeInv, SafeInv, CostInv, WithinCap PROVE SpendCapped
    OBVIOUS
  <2> DEFINE f == [s \in sent |-> Least(s.cost, Full(s.id))]
  <2>1. Prior + Sum(f, sent) <= Accountable(LedgerBooks)
    BY SpendAccounted DEF SpendIsAccounted, Sum
  <2>2. Sum(f, sent) \in Int
    <3>1. \A s \in sent : f[s] \in Int
      BY FullNat DEF TypeInv, TypeOK, Least
    <3> HIDE DEF f
    <3> QED
      BY <3>1, SumType DEF CostInv
  <2> HIDE DEF f
  <2>3. Prior + Sum(f, sent) <= Cap
    BY <2>1, <2>2, AccountableIsSpent, BudgetLedgerAssumption DEF WithinCap
  <2> QED
    BY <2>3 DEF SpendCapped, f
<1> QED
  BY <1>2, <1>3, TypeInvariant, SafeInvariant, CostInvariant, PTL
=============================================================================
