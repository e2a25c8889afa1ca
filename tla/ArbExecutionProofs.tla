------------------------- MODULE ArbExecutionProofs -------------------------
(***************************************************************************)
(* Proofs about ArbExecution, for every number of calls and threads, every *)
(* set of markets and both Kalshi venues.                                  *)
(*                                                                         *)
(*   Inv == TypeOK /\ Phases /\ Exclusive is inductive (Invariance):       *)
(*     Phases     ties the program counter of a call to what it has left   *)
(*                behind so far: its legs, its alarm, its answer;          *)
(*     Exclusive  says that two calls never occupy the same thread.        *)
(*   From Inv alone a step of ArbExecution is a step of ArbPair            *)
(*   (ImplementsPair).  The two account limits need, on top of Inv, a      *)
(*   statement about the previews that have not been spent yet; the state  *)
(*   machine needs its state at each program counter (MachineInStep).      *)
(***************************************************************************)
EXTENDS ArbExecution, FiniteSetTheorems, TLAPS

(***************************************************************************)
(* What a call has done by the time it is at pc[c].                        *)
(***************************************************************************)
EventPCs == {"idle", "p_debit", "p_store", "fills", "done"}

LegsAt(c) ==
  /\ pc[c] \in {"idle", "leg1", "k_debit", "k_store"} => ~kOrder[c] /\ ~pOrder[c]
  /\ pc[c] \in {"leg2", "p_debit", "p_store"} => kOrder[c] /\ ~pOrder[c]
  /\ pc[c] \in {"fills", "unwind", "credit"} => kOrder[c] /\ pOrder[c]

Alarmed(c) == \E e \in {"POLY_LEG_FAILED", "LEG_IMBALANCE"} : <<e, c>> \in audit

AlarmAt(c) ==
  /\ pc[c] \in {"unwind", "credit"} => Alarmed(c)
  /\ pc[c] \notin {"unwind", "credit", "done"} => ~Alarmed(c)

Phases ==
  /\ \A c \in Call : pc[c] = "idle" <=> job[c] = None
  /\ \A c \in Call : pc[c] = "done" <=> result[c] # "pending"
  /\ \A c \in EventCall : pc[c] \in EventPCs
  /\ \A c \in EventCall : pc[c] # "idle" => job[c].thread \notin EventLoops
  /\ \A c \in ArbCall : pc[c] # "idle" => job[c].ticker \in KalshiKeys
  /\ \A c \in ArbCall : LegsAt(c) /\ AlarmAt(c)

Exclusive ==
  \A c, d \in Call :
    c # d /\ Occupies(c) /\ Occupies(d) => job[c].thread # job[d].thread

Inv == TypeOK /\ Phases /\ Exclusive

-----------------------------------------------------------------------------
LEMMA InitInv == Init => Inv
<1> SUFFICES ASSUME Init PROVE Inv
  OBVIOUS
<1>1. TypeOK
  BY BrokerAssumption, ArbAssumption
  DEF Init, BrokerInit, TypeOK, PCs, SMStates, AuditEvents
<1>2. Phases
  BY DEF Init, Phases, LegsAt, AlarmAt, Alarmed, EventPCs, Call
<1>3. Exclusive
  BY DEF Init, Exclusive, Occupies
<1> QED
  BY <1>1, <1>2, <1>3 DEF Inv

(***************************************************************************)
(* Types.  A call that is past "idle" has a job, so the stakes and the     *)
(* values it writes are numbers.                                           *)
(***************************************************************************)
LEMMA BeginType ==
  ASSUME Inv, NEW c \in Call, Begin(c)
  PROVE  TypeOK'
<1> USE ArbAssumption DEF Inv, TypeOK
<1>1. ASSUME c \in ArbCall, NEW t \in Thread, NEW arb \in Arbs, NEW stake \in Stakes,
             ArbRefused(c, t, arb, stake) \/ ArbAccepted(c, t, arb, stake)
      PROVE  TypeOK'
  <2>1. [thread |-> t, ticker |-> arb.ticker, key |-> arb.key, stake |-> stake] \in Jobs
    BY DEF Jobs
  <2>2. CASE ArbRefused(c, t, arb, stake)
    BY <2>1, <2>2 DEF ArbRefused, BeginArb, Log, Return, Goto, brokerVars, PCs, AuditEvents
  <2>3. CASE ArbAccepted(c, t, arb, stake)
    <3>1. sm' \in [Call -> SMStates]
      BY <2>3 DEF ArbAccepted, Fire
    <3> QED
      BY <2>1, <2>3, <3>1 DEF ArbAccepted, BeginArb, Log, Goto, brokerVars, PCs, AuditEvents
  <2> QED
    BY <1>1, <2>2, <2>3
<1>2. ASSUME c \in EventCall, NEW t \in Thread, NEW key \in EventKeys, NEW stake \in Stakes,
             EventPassed(c, t, key, stake) \/ EventRejected(c, t, key, stake)
      PROVE  TypeOK'
  <2>1. EventJob(t, key, stake) \in Jobs
    BY DEF Jobs, EventJob
  <2>2. CASE EventPassed(c, t, key, stake)
    BY <2>1, <2>2 DEF EventPassed, Goto, brokerVars, PCs
  <2>3. CASE EventRejected(c, t, key, stake)
    BY <2>1, <2>3 DEF EventRejected, Log, Return, Goto, brokerVars, PCs, AuditEvents
  <2> QED
    BY <1>2, <2>2, <2>3
<1> QED
  BY <1>1, <1>2 DEF Begin

LEMMA AdvanceType ==
  ASSUME Inv, NEW c \in Call, Advance(c) \/ CycleTimeout(c) \/ ExchangeMoves(c)
  PROVE  TypeOK'
<1> USE ArbAssumption, BrokerAssumption DEF Inv, TypeOK
<1>1. ASSUME pc[c] # "idle"
      PROVE  /\ job[c] \in Jobs
             /\ job[c].key \in PolyKeys
             /\ job[c].stake \in Nat
  BY <1>1 DEF Phases, Jobs
<1>2. \A state \in SMStates : \A trigger : Fire(state, trigger) \in SMStates
  BY DEF Fire
<1>3. \A state \in SMStates : Leg1Done(state) \in SMStates
  BY <1>2 DEF Leg1Done
<1>4. CASE KalshiReadPower(c)
  BY <1>4 DEF KalshiReadPower, Goto, brokerVars, PCs
<1>5. CASE KalshiWritePower(c)
  <2>1. job[c].ticker \in KalshiKeys
    BY <1>5 DEF KalshiWritePower, Phases, EventPCs, Call
  <2> QED
    BY <1>1, <1>5, <2>1 DEF KalshiWritePower, KalshiDebit, Goto, PCs
<1>6. CASE KalshiWritePosition(c)
  <2>1. kPos' \in [KalshiKeys -> Nat]
    <3>1. job[c].ticker \in KalshiKeys
      BY <1>6 DEF KalshiWritePosition, Phases, EventPCs, Call
    <3> QED
      BY <1>1, <1>6, <3>1 DEF KalshiWritePosition, KalshiStore
  <2>2. sm' \in [Call -> SMStates]
    BY <1>3, <1>6 DEF KalshiWritePosition
  <2> QED
    BY <1>6, <2>1, <2>2 DEF KalshiWritePosition, Goto, PCs
<1>7. CASE DemoLegAccepted(c)
  BY <1>3, <1>7 DEF DemoLegAccepted, Goto, brokerVars, PCs
<1>8. CASE DemoLegRaised(c)
  BY <1>2, <1>8 DEF DemoLegRaised, Return, Goto, brokerVars, PCs
<1>9. CASE PolyPreviewed(c)
  BY <1>9 DEF PolyPreviewed, Goto, brokerVars, PCs
<1>10. CASE PolyRefused(c)
  BY <1>10 DEF PolyRefused, Return, Goto, Log, brokerVars, PCs, AuditEvents
<1>11. CASE PolyTakePower(c)
  BY <1>1, <1>11 DEF PolyTakePower, PolyDebit, Goto, PCs
<1>12. CASE PolyWritePosition(c)
  BY <1>1, <1>12 DEF PolyWritePosition, PolyStore, Log, Goto, PCs, AuditEvents
<1>13. CASE ArbFilled(c)
  BY <1>2, <1>13 DEF ArbFilled, Return, Goto, Log, brokerVars, PCs, AuditEvents
<1>14. CASE LegImbalance(c)
  BY <1>14 DEF LegImbalance, Goto, Log, brokerVars, PCs, AuditEvents
<1>15. CASE UnwindPop(c)
  BY <1>1, <1>15 DEF UnwindPop, PolyPop, Goto, PCs
<1>16. CASE UnwindCredit(c)
  BY <1>16 DEF UnwindCredit, PolyCredit, Return, Goto, PCs
<1>17. CASE EventFilled(c)
  BY <1>17 DEF EventFilled, Return, Goto, Log, brokerVars, PCs, AuditEvents
<1>18. CASE CycleTimeout(c)
  BY <1>18 DEF CycleTimeout, Return, Goto, brokerVars, PCs
<1>19. CASE ExchangeMoves(c)
  BY <1>19 DEF ExchangeMoves, brokerVars
<1> QED
  BY <1>4, <1>5, <1>6, <1>7, <1>8, <1>9, <1>10, <1>11, <1>12, <1>13, <1>14,
     <1>15, <1>16, <1>17, <1>18, <1>19 DEF Advance

(***************************************************************************)
(* Phases.  An action of call c leaves the phase of every other call       *)
(* alone; what it does to c is read off its text.                          *)
(***************************************************************************)
LEMMA LogFact ==
  ASSUME NEW c, NEW events, Log(c, events)
  PROVE  \A e, d : <<e, d>> \in audit' <=> <<e, d>> \in audit \/ (e \in events /\ d = c)
BY DEF Log

LEMMA BeginPhases ==
  ASSUME Inv, NEW c \in Call, Begin(c)
  PROVE  Phases'
<1>0. /\ ArbCall \cap EventCall = {}
      /\ Arbs \subseteq [ticker : KalshiKeys, key : PolyKeys]
      /\ EventKeys \subseteq PolyKeys
  BY ArbAssumption
<1> USE DEF Inv, TypeOK, Phases, LegsAt, AlarmAt, Alarmed, EventPCs, Call
<1>1. ASSUME c \in ArbCall, NEW t \in Thread, NEW arb \in Arbs, NEW stake \in Stakes,
             ArbRefused(c, t, arb, stake) \/ ArbAccepted(c, t, arb, stake)
      PROVE  Phases'
  <2>1. job'[c] \in Jobs /\ job'[c].ticker \in KalshiKeys /\ c \notin EventCall
    BY <1>0, <1>1 DEF ArbRefused, ArbAccepted, BeginArb, Jobs
  <2>2. CASE ArbRefused(c, t, arb, stake)
    <3>1. \A e, d : <<e, d>> \in audit' <=>
                      <<e, d>> \in audit \/ (e \in {"ARB_RISK_FAILED"} /\ d = c)
      BY <2>2, LogFact DEF ArbRefused
    <3> QED
      BY <1>1, <2>1, <2>2, <3>1, NoneIsNoJob DEF ArbRefused, BeginArb, Return, Goto
  <2>3. CASE ArbAccepted(c, t, arb, stake)
    <3>1. \A e, d : <<e, d>> \in audit' <=>
                      <<e, d>> \in audit \/ (e \in {"ARB_RISK_PASSED"} /\ d = c)
      BY <2>3, LogFact DEF ArbAccepted
    <3> QED
      BY <1>1, <2>1, <2>3, <3>1, NoneIsNoJob DEF ArbAccepted, BeginArb, Goto
  <2> QED
    BY <1>1, <2>2, <2>3
<1>2. ASSUME c \in EventCall, NEW t \in Thread, NEW key \in EventKeys, NEW stake \in Stakes,
             EventPassed(c, t, key, stake) \/ EventRejected(c, t, key, stake)
      PROVE  Phases'
  <2>1. EventJob(t, key, stake) \in Jobs /\ c \notin ArbCall
    BY <1>0, <1>2 DEF Jobs, EventJob
  <2>2. CASE EventPassed(c, t, key, stake)
    BY <1>2, <2>1, <2>2, NoneIsNoJob DEF EventPassed, EventJob, Goto
  <2>3. CASE EventRejected(c, t, key, stake)
    <3>1. \A e, d : <<e, d>> \in audit' <=>
                      <<e, d>> \in audit \/ (e \in {"RISK_REJECTED"} /\ d = c)
      BY <2>3, LogFact DEF EventRejected
    <3> QED
      BY <1>2, <2>1, <2>3, <3>1, NoneIsNoJob DEF EventRejected, EventJob, Return, Goto
  <2> QED
    BY <1>2, <2>2, <2>3
<1> QED
  BY <1>1, <1>2 DEF Begin

LEMMA AdvancePhases ==
  ASSUME Inv, NEW c \in Call, Advance(c) \/ CycleTimeout(c) \/ ExchangeMoves(c)
  PROVE  Phases'
<1>1. ArbCall \cap EventCall = {}
  BY ArbAssumption
<1> USE <1>1 DEF Inv, TypeOK, Phases, LegsAt, AlarmAt, Alarmed, EventPCs, Call
<1>4. CASE KalshiReadPower(c)
  BY <1>4 DEF KalshiReadPower, Goto
<1>5. CASE KalshiWritePower(c)
  BY <1>5 DEF KalshiWritePower, Goto
<1>6. CASE KalshiWritePosition(c)
  BY <1>6 DEF KalshiWritePosition, Goto
<1>7. CASE DemoLegAccepted(c)
  BY <1>7 DEF DemoLegAccepted, Goto
<1>8. CASE DemoLegRaised(c)
  BY <1>8 DEF DemoLegRaised, Return, Goto
<1>9. CASE PolyPreviewed(c)
  BY <1>9 DEF PolyPreviewed, Goto
<1>10. CASE PolyRefused(c)
  <2>1. \A e, d : <<e, d>> \in audit' <=>
                    <<e, d>> \in audit \/ (e \in {"POLY_LEG_FAILED"} /\ d = c)
    BY <1>10, LogFact DEF PolyRefused
  <2> QED
    BY <1>10, <2>1 DEF PolyRefused, Return, Goto
<1>11. CASE PolyTakePower(c)
  BY <1>11 DEF PolyTakePower, Goto
<1>12. CASE PolyWritePosition(c)
  <2>1. \A e \in {"POLY_LEG_FAILED", "LEG_IMBALANCE"}: \A d : <<e, d>> \in audit' <=> <<e, d>> \in audit
    BY <1>12 DEF PolyWritePosition, Log
  <2> QED
    BY <1>12, <2>1 DEF PolyWritePosition, Goto
<1>13. CASE ArbFilled(c)
  BY <1>13 DEF ArbFilled, Log, Return, Goto
<1>14. CASE LegImbalance(c)
  <2>1. \A e, d : <<e, d>> \in audit' <=>
                    <<e, d>> \in audit \/ (e \in {"LEG_IMBALANCE"} /\ d = c)
    BY <1>14, LogFact DEF LegImbalance
  <2> QED
    BY <1>14, <2>1 DEF LegImbalance, Goto
<1>15. CASE UnwindPop(c)
  BY <1>15 DEF UnwindPop, Goto
<1>16. CASE UnwindCredit(c)
  BY <1>16 DEF UnwindCredit, Return, Goto
<1>17. CASE EventFilled(c)
  BY <1>17 DEF EventFilled, Log, Return, Goto
<1>18. CASE CycleTimeout(c)
  BY <1>18 DEF CycleTimeout, Awaiting, Return, Goto
<1>19. CASE ExchangeMoves(c)
  BY <1>19 DEF ExchangeMoves
<1> QED
  BY <1>4, <1>5, <1>6, <1>7, <1>8, <1>9, <1>10, <1>11, <1>12, <1>13, <1>14,
     <1>15, <1>16, <1>17, <1>18, <1>19 DEF Advance

(***************************************************************************)
(* Exclusive.  A call comes to occupy a thread in two ways only: it starts *)
(* on a free thread, or it resumes from its await on a free loop.          *)
(***************************************************************************)
Others(c) == \A d \in Call \ {c} : pc'[d] = pc[d] /\ job'[d] = job[d]

LEMMA ExclusiveStep ==
  ASSUME Exclusive, NEW c \in Call, Others(c),
         Occupies(c)' => \/ Occupies(c) /\ job'[c] = job[c]
                         \/ ThreadFree(job'[c].thread)
  PROVE  Exclusive'
BY DEF Exclusive, Others, Occupies, Awaiting, ThreadFree

LEMMA BeginExclusive ==
  ASSUME Inv, NEW c \in Call, Begin(c)
  PROVE  Exclusive'
<1>1. Others(c)
  BY DEF Inv, TypeOK, Others, Begin, ArbRefused, ArbAccepted, BeginArb, EventPassed,
         EventRejected, Return, Goto
<1>2. Occupies(c)' => ThreadFree(job'[c].thread)
  BY DEF Inv, TypeOK, Begin, ArbRefused, ArbAccepted, BeginArb, EventPassed,
         EventRejected, EventJob, Return, Goto
<1> QED
  BY <1>1, <1>2, ExclusiveStep DEF Inv

LEMMA AdvanceExclusive ==
  ASSUME Inv, NEW c \in Call, Advance(c) \/ CycleTimeout(c) \/ ExchangeMoves(c)
  PROVE  Exclusive'
<1> USE DEF Inv, TypeOK
<1>1. job' = job
  BY DEF Advance, KalshiReadPower, KalshiWritePower, KalshiWritePosition, DemoLegAccepted,
         DemoLegRaised, PolyPreviewed, PolyRefused, PolyTakePower, PolyWritePosition,
         ArbFilled, LegImbalance, UnwindPop, UnwindCredit, EventFilled, CycleTimeout,
         ExchangeMoves
<1>2. \A d \in Call \ {c} : pc'[d] = pc[d]
  BY DEF Advance, KalshiReadPower, KalshiWritePower, KalshiWritePosition, DemoLegAccepted,
         DemoLegRaised, PolyPreviewed, PolyRefused, PolyTakePower, PolyWritePosition,
         ArbFilled, LegImbalance, UnwindPop, UnwindCredit, EventFilled, CycleTimeout,
         ExchangeMoves, Goto, Return
<1>3. pc'[c] # pc[c] => pc[c] # "idle" /\ MayResume(c)
  BY DEF Advance, KalshiReadPower, KalshiWritePower, KalshiWritePosition, DemoLegAccepted,
         DemoLegRaised, PolyPreviewed, PolyRefused, PolyTakePower, PolyWritePosition,
         ArbFilled, LegImbalance, UnwindPop, UnwindCredit, EventFilled, CycleTimeout,
         ExchangeMoves, Goto, Return, MayResume, Awaiting, Phases
<1>4. Occupies(c)' => Occupies(c) \/ ThreadFree(job[c].thread)
  <2>1. CASE pc'[c] = pc[c]
    BY <1>1, <2>1 DEF Occupies, Awaiting
  <2>2. CASE pc'[c] # pc[c]
    <3>1. pc[c] # "done"
      BY <2>2 DEF Advance, KalshiReadPower, KalshiWritePower, KalshiWritePosition,
         DemoLegAccepted, DemoLegRaised, PolyPreviewed, PolyRefused, PolyTakePower,
         PolyWritePosition, ArbFilled, LegImbalance, UnwindPop, UnwindCredit, EventFilled,
         CycleTimeout, ExchangeMoves, Awaiting
    <3> QED
      BY <1>3, <2>2, <3>1 DEF MayResume, Occupies
  <2> QED
    BY <2>1, <2>2
<1>5. Others(c)
  BY <1>1, <1>2 DEF Others
<1> QED
  BY <1>1, <1>4, <1>5, ExclusiveStep

-----------------------------------------------------------------------------
LEMMA NextInv == Inv /\ [Next]_vars => Inv'
<1> SUFFICES ASSUME Inv, [Next]_vars PROVE Inv'
  OBVIOUS
<1>1. ASSUME NEW c \in Call, Begin(c)
      PROVE  Inv'
  BY <1>1, BeginType, BeginPhases, BeginExclusive DEF Inv
<1>2. ASSUME NEW c \in Call, Advance(c) \/ CycleTimeout(c) \/ ExchangeMoves(c)
      PROVE  Inv'
  BY <1>2, AdvanceType, AdvancePhases, AdvanceExclusive DEF Inv
<1>3. CASE UNCHANGED vars
  <2> USE <1>3 DEF vars, brokerVars, callVars, Inv
  <2>1. TypeOK'
    BY DEF TypeOK
  <2>2. Phases'
    BY DEF Phases, LegsAt, AlarmAt, Alarmed
  <2>3. Exclusive'
    BY DEF Exclusive, Occupies, Awaiting
  <2> QED
    BY <2>1, <2>2, <2>3
<1> QED
  BY <1>1, <1>2, <1>3 DEF Next

LEMMA Invariance == Spec => []Inv
BY InitInv, NextInv, PTL DEF Spec

(***************************************************************************)
(* The state of ArbExecution keeps its types.                              *)
(***************************************************************************)
THEOREM TypeCorrect == Spec => []TypeOK
BY Invariance, PTL DEF Inv

(***************************************************************************)
(* Every step of the calls is a step, or a stutter, of ArbPair: legs go    *)
(* out in order, ids come back for two legs only, and no leg is left       *)
(* behind in silence, whatever the threads and the venues do.              *)
(***************************************************************************)
LEMMA PairStart == Init => Pair!PairInit
BY DEF Init, Pair!PairInit, PairLegs, PairAlarm, PairAnswer, AnswerWord, Call

(***************************************************************************)
(* How the three abstract variables follow the concrete ones.              *)
(***************************************************************************)
Alarms == {"POLY_LEG_FAILED", "LEG_IMBALANCE"}

LEMMA LegsSame == UNCHANGED <<kOrder, pOrder>> => PairLegs' = PairLegs
BY DEF PairLegs

LEMMA AnswerSame == UNCHANGED result => PairAnswer' = PairAnswer
BY DEF PairAnswer

LEMMA AnswerSet ==
  ASSUME TypeOK, NEW c \in Call, NEW r, result' = [result EXCEPT ![c] = r]
  PROVE  PairAnswer' = IF c \in ArbCall
                       THEN [PairAnswer EXCEPT ![c] = AnswerWord(r)] ELSE PairAnswer
<1>1. \A d \in ArbCall : result'[d] = IF d = c THEN r ELSE result[d]
  BY DEF TypeOK, Call
<1>2. CASE c \in ArbCall
  <2>1. \A d \in ArbCall : AnswerWord(result'[d]) =
          IF d = c THEN AnswerWord(r) ELSE AnswerWord(result[d])
    BY <1>1
  <2> QED
    BY <1>2, <2>1 DEF PairAnswer
<1>3. CASE c \notin ArbCall
  <2>1. \A d \in ArbCall : AnswerWord(result'[d]) = AnswerWord(result[d])
    BY <1>1, <1>3
  <2> QED
    BY <1>3, <2>1 DEF PairAnswer
<1> QED
  BY <1>2, <1>3

LEMMA AlarmSame == UNCHANGED audit => PairAlarm' = PairAlarm
BY DEF PairAlarm

LEMMA AlarmQuiet ==
  ASSUME NEW c, NEW events, Log(c, events), events \cap Alarms = {}
  PROVE  PairAlarm' = PairAlarm
BY LogFact DEF PairAlarm, Alarms

LEMMA AlarmRaised ==
  ASSUME NEW c \in ArbCall, NEW events, Log(c, events), events \cap Alarms # {}
  PROVE  PairAlarm' = PairAlarm \cup {c}
BY LogFact DEF PairAlarm, Alarms

LEMMA PairBegin ==
  ASSUME Inv, NEW c \in Call, Begin(c)
  PROVE  [Pair!PairNext]_(Pair!pairVars)
<1>1. ASSUME c \in ArbCall, NEW t \in Thread, NEW arb \in Arbs, NEW stake \in Stakes,
             ArbRefused(c, t, arb, stake)
      PROVE  Pair!AnswerNone(c)
  <2>1. PairLegs' = PairLegs /\ PairAlarm' = PairAlarm
    BY <1>1, LegsSame, AlarmQuiet DEF ArbRefused, Alarms
  <2>2. PairAnswer' = [PairAnswer EXCEPT ![c] = "none"]
    BY <1>1, AnswerSet DEF ArbRefused, Return, Inv, AnswerWord
  <2>3. pc[c] = "idle"
    BY <1>1 DEF ArbRefused, BeginArb
  <2>4. PairLegs[c] = {} /\ PairAnswer[c] = "pending"
    BY <1>1, <2>3 DEF Inv, Phases, LegsAt, PairLegs, PairAnswer, AnswerWord, Call
  <2> QED
    BY <2>1, <2>2, <2>4 DEF Pair!AnswerNone, Pair!Answer
<1>2. ASSUME c \in ArbCall, NEW t \in Thread, NEW arb \in Arbs, NEW stake \in Stakes,
             ArbAccepted(c, t, arb, stake)
      PROVE  UNCHANGED Pair!pairVars
  BY <1>2, LegsSame, AlarmQuiet, AnswerSame DEF ArbAccepted, Alarms, Pair!pairVars
<1>3. ASSUME c \in EventCall, NEW t \in Thread, NEW key \in EventKeys, NEW stake \in Stakes,
             EventPassed(c, t, key, stake)
      PROVE  UNCHANGED Pair!pairVars
  BY <1>3, LegsSame, AlarmSame, AnswerSame DEF EventPassed, Pair!pairVars
<1>4. ASSUME c \in EventCall, NEW t \in Thread, NEW key \in EventKeys, NEW stake \in Stakes,
             EventRejected(c, t, key, stake)
      PROVE  UNCHANGED Pair!pairVars
  <2>1. c \notin ArbCall
    BY <1>4, ArbAssumption
  <2> QED
    BY <1>4, <2>1, LegsSame, AlarmQuiet, AnswerSet
    DEF EventRejected, Return, Inv, Alarms, Pair!pairVars
<1> QED
  BY <1>1, <1>2, <1>3, <1>4 DEF Begin, Pair!PairNext, Call

LEMMA PairAdvance ==
  ASSUME Inv, NEW c \in Call, Advance(c) \/ CycleTimeout(c) \/ ExchangeMoves(c)
  PROVE  [Pair!PairNext]_(Pair!pairVars)
<1> USE DEF Inv
<1>1. ASSUME c \in ArbCall, pc[c] \notin {"idle", "done"}
      PROVE  /\ PairAnswer[c] = "pending"
             /\ PairLegs[c] = IF pc[c] \in {"leg1", "k_debit", "k_store"} THEN {}
                              ELSE IF pc[c] \in {"leg2", "p_debit", "p_store"} THEN {"kalshi"}
                              ELSE {"kalshi", "poly"}
             /\ c \in PairAlarm <=> pc[c] \in {"unwind", "credit"}
  <2>1. PairAnswer[c] = "pending"
    BY <1>1 DEF Phases, PairAnswer, AnswerWord, Call
  <2>2. pc[c] \in PCs \ {"idle", "done"} /\ LegsAt(c) /\ AlarmAt(c)
    BY <1>1 DEF TypeOK, Phases, Call
  <2> QED
    BY <1>1, <2>1, <2>2 DEF LegsAt, AlarmAt, Alarmed, PairLegs, PairAlarm, PCs
<1>2. ASSUME c \notin ArbCall
      PROVE  c \in EventCall /\ pc[c] \in EventPCs
  BY <1>2 DEF Phases, Call

\* Actions that change nothing ArbPair sees.
<1>3. CASE KalshiReadPower(c) \/ KalshiWritePower(c) \/ PolyPreviewed(c) \/ PolyTakePower(c)
           \/ UnwindPop(c) \/ ExchangeMoves(c)
  <2>1. UNCHANGED <<kOrder, pOrder, audit, result>>
    BY <1>3 DEF KalshiReadPower, KalshiWritePower, PolyPreviewed, PolyTakePower, UnwindPop,
                ExchangeMoves
  <2> QED
    BY <2>1, LegsSame, AlarmSame, AnswerSame DEF Pair!pairVars

\* The Kalshi leg is acknowledged.
<1>4. CASE KalshiWritePosition(c) \/ DemoLegAccepted(c)
  <2>1. c \in ArbCall /\ pc[c] \in {"k_store", "leg1"}
    BY <1>2, <1>4 DEF KalshiWritePosition, DemoLegAccepted, EventPCs
  <2>2. kOrder' = [kOrder EXCEPT ![c] = TRUE] /\ UNCHANGED <<pOrder, audit, result>>
    BY <1>4 DEF KalshiWritePosition, DemoLegAccepted
  <2>3. PairLegs' = [PairLegs EXCEPT ![c] = {"kalshi"}]
    BY <1>1, <2>1, <2>2 DEF PairLegs, TypeOK, Call
  <2>4. Pair!Place(c, {}, "kalshi")
    BY <1>1, <2>1, <2>2, <2>3, AlarmSame, AnswerSame DEF Pair!Place
  <2> QED
    BY <2>1, <2>4 DEF Pair!PairNext

\* The Polymarket leg is booked, of an arb or of the Polymarket agent.
<1>5. CASE PolyWritePosition(c)
  <2>1. pOrder' = [pOrder EXCEPT ![c] = TRUE] /\ UNCHANGED <<kOrder, result>>
    BY <1>5 DEF PolyWritePosition
  <2>2. PairAlarm' = PairAlarm
    BY <1>5, AlarmQuiet, AlarmSame DEF PolyWritePosition, Alarms
  <2>3. CASE c \in ArbCall
    <3>1. pc[c] = "p_store"
      BY <1>5 DEF PolyWritePosition
    <3>2. PairLegs' = [PairLegs EXCEPT ![c] = {"kalshi", "poly"}]
      BY <1>1, <2>1, <2>3, <3>1 DEF PairLegs, TypeOK, Call
    <3>3. Pair!Place(c, {"kalshi"}, "poly")
      BY <1>1, <2>1, <2>2, <2>3, <3>1, <3>2, AnswerSame DEF Pair!Place
    <3> QED
      BY <2>3, <3>3 DEF Pair!PairNext
  <2>4. CASE c \notin ArbCall
    <3>1. PairLegs' = PairLegs
      BY <2>1, <2>4 DEF PairLegs, TypeOK, Call
    <3> QED
      BY <2>1, <2>2, <3>1, AnswerSame DEF Pair!pairVars
  <2> QED
    BY <2>3, <2>4

\* The fills do not arrive: the alarm comes before the unwinding.
<1>6. CASE LegImbalance(c)
  <2>1. c \in ArbCall /\ pc[c] = "fills"
    BY <1>6 DEF LegImbalance
  <2>2. PairAlarm' = PairAlarm \cup {c}
    BY <1>6, <2>1, AlarmRaised DEF LegImbalance, Alarms
  <2>3. UNCHANGED <<kOrder, pOrder, result>>
    BY <1>6 DEF LegImbalance
  <2>4. Pair!RaiseAlarm(c)
    BY <1>1, <2>1, <2>2, <2>3, LegsSame, AnswerSame DEF Pair!RaiseAlarm
  <2> QED
    BY <2>1, <2>4 DEF Pair!PairNext

\* The call answers.
<1>7. CASE DemoLegRaised(c)
  <2>1. c \in ArbCall /\ pc[c] = "leg1"
    BY <1>2, <1>7 DEF DemoLegRaised, EventPCs
  <2>2. PairAnswer' = [PairAnswer EXCEPT ![c] = "none"]
    BY <1>7, <2>1, AnswerSet DEF DemoLegRaised, Return, AnswerWord
  <2>3. UNCHANGED <<kOrder, pOrder, audit>>
    BY <1>7 DEF DemoLegRaised
  <2>4. Pair!AnswerNone(c)
    BY <1>1, <2>1, <2>2, <2>3, LegsSame, AlarmSame DEF Pair!AnswerNone, Pair!Answer
  <2> QED
    BY <2>1, <2>4 DEF Pair!PairNext
<1>8. CASE PolyRefused(c)
  <2>1. c \in ArbCall /\ pc[c] = "leg2"
    BY <1>2, <1>8 DEF PolyRefused, EventPCs
  <2>2. PairAnswer' = [PairAnswer EXCEPT ![c] = "none"]
    BY <1>8, <2>1, AnswerSet DEF PolyRefused, Return, AnswerWord
  <2>3. PairAlarm' = PairAlarm \cup {c}
    BY <1>8, <2>1, AlarmRaised DEF PolyRefused, Alarms
  <2>4. UNCHANGED <<kOrder, pOrder>>
    BY <1>8 DEF PolyRefused
  <2>5. Pair!AnswerNoneAlarmed(c)
    BY <1>1, <2>1, <2>2, <2>3, <2>4, LegsSame DEF Pair!AnswerNoneAlarmed, Pair!Answer
  <2> QED
    BY <2>1, <2>5 DEF Pair!PairNext
<1>9. CASE ArbFilled(c)
  <2>1. c \in ArbCall /\ pc[c] = "fills"
    BY <1>9 DEF ArbFilled
  <2>2. PairAnswer' = [PairAnswer EXCEPT ![c] = "ids"]
    BY <1>9, <2>1, AnswerSet DEF ArbFilled, Return, AnswerWord
  <2>3. PairAlarm' = PairAlarm
    BY <1>9, AlarmQuiet DEF ArbFilled, Alarms
  <2>4. UNCHANGED <<kOrder, pOrder>>
    BY <1>9 DEF ArbFilled
  <2>5. Pair!AnswerIds(c)
    BY <1>1, <2>1, <2>2, <2>3, <2>4, LegsSame DEF Pair!AnswerIds, Pair!Answer
  <2> QED
    BY <2>1, <2>5 DEF Pair!PairNext
<1>10. CASE UnwindCredit(c)
  <2>1. c \in ArbCall /\ pc[c] = "credit"
    BY <1>2, <1>10 DEF UnwindCredit, EventPCs
  <2>2. PairAnswer' = [PairAnswer EXCEPT ![c] = "none"]
    BY <1>10, <2>1, AnswerSet DEF UnwindCredit, Return, AnswerWord
  <2>3. UNCHANGED <<kOrder, pOrder, audit>>
    BY <1>10 DEF UnwindCredit
  <2>4. PairAlarm' = PairAlarm \cup {c}
    BY <1>1, <2>1, <2>3, AlarmSame
  <2>5. Pair!AnswerNoneAlarmed(c)
    BY <1>1, <2>1, <2>2, <2>3, <2>4, LegsSame DEF Pair!AnswerNoneAlarmed, Pair!Answer
  <2> QED
    BY <2>1, <2>5 DEF Pair!PairNext
<1>11. CASE CycleTimeout(c)
  <2>1. c \in ArbCall /\ pc[c] = "fills"
    BY <1>11 DEF CycleTimeout, Awaiting
  <2>2. PairAnswer' = [PairAnswer EXCEPT ![c] = "cancelled"]
    BY <1>11, <2>1, AnswerSet DEF CycleTimeout, Return, AnswerWord
  <2>3. UNCHANGED <<kOrder, pOrder, audit>>
    BY <1>11 DEF CycleTimeout
  <2>4. Pair!AnswerCancelled(c)
    BY <1>1, <2>1, <2>2, <2>3, LegsSame, AlarmSame DEF Pair!AnswerCancelled, Pair!Answer
  <2> QED
    BY <2>1, <2>4 DEF Pair!PairNext

\* The Polymarket agent's call ends: no arb call changes.
<1>12. CASE EventFilled(c)
  <2>1. c \notin ArbCall
    BY <1>12, ArbAssumption DEF EventFilled
  <2>2. PairAnswer' = PairAnswer
    BY <1>12, <2>1, AnswerSet DEF EventFilled, Return
  <2> QED
    BY <1>12, <2>2, LegsSame, AlarmQuiet DEF EventFilled, Alarms, Pair!pairVars
<1> QED
  BY <1>3, <1>4, <1>5, <1>6, <1>7, <1>8, <1>9, <1>10, <1>11, <1>12 DEF Advance

THEOREM ImplementsPair == Spec => PairContract
<1>1. Inv /\ [Next]_vars => [Pair!PairNext]_(Pair!pairVars)
  <2> SUFFICES ASSUME Inv, [Next]_vars PROVE [Pair!PairNext]_(Pair!pairVars)
    OBVIOUS
  <2>1. CASE UNCHANGED vars
    BY <2>1, LegsSame, AlarmSame, AnswerSame DEF vars, callVars, Pair!pairVars
  <2> QED
    BY <2>1, PairBegin, PairAdvance DEF Next
<1> QED
  BY <1>1, PairStart, Invariance, PTL DEF Spec, PairContract, Pair!PairSpec

-----------------------------------------------------------------------------
(***************************************************************************)
(* The overdraft of the Polymarket account.                                *)
(*                                                                         *)
(* Unspent holds the calls whose preview has passed and whose debit is     *)
(* still to come.  Of these the last to preview saw the power it needs;    *)
(* every other call that has gone between may have taken one order since.  *)
(* Covered says so: some unspent call c is covered except for one order    *)
(* for each thread that holds no unspent call.                             *)
(***************************************************************************)
Unspent == {c \in Call : pc[c] = "p_debit"}
Missing == (Cardinality(Thread) - Cardinality(Unspent)) * MaxOrder

Covered ==
  /\ \A c \in Unspent : job[c].stake <= MaxOrder
  /\ Unspent = {} => OverdraftBounded
  /\ Unspent # {} => \E c \in Unspent : pBP >= job[c].stake - Missing

LEMMA ThreadsFinite ==
  /\ IsFiniteSet(Thread) /\ Cardinality(Thread) \in Nat
  /\ Cardinality(Thread) >= 1
<1>1. IsFiniteSet(Thread) /\ Cardinality(Thread) \in Nat
  BY ArbAssumption, FS_CardinalityType
<1> QED
  BY <1>1, ArbAssumption, FS_EmptySet

\* Calls that hold a thread each: there are no more of them than threads.
LEMMA OnePerThread ==
  ASSUME Inv, NEW S \in SUBSET Call, \A c \in S : Occupies(c)
  PROVE  IsFiniteSet(S) /\ Cardinality(S) \in Nat /\ Cardinality(S) <= Cardinality(Thread)
<1> DEFINE f == [c \in S |-> job[c].thread]
<1>1. \A c \in S : job[c] \in Jobs
  BY DEF Inv, TypeOK, Phases, Occupies
<1>2. f \in Injection(S, Thread)
  BY <1>1 DEF Inv, Exclusive, Jobs, Injection, IsInjective
<1>3. IsFiniteSet(S) /\ Cardinality(S) <= Cardinality(Thread)
  BY <1>2, ThreadsFinite, FS_Injection
<1> QED
  BY <1>3, FS_CardinalityType

UnspentFits ==
  /\ IsFiniteSet(Unspent) /\ Cardinality(Unspent) \in Nat
  /\ Cardinality(Unspent) <= Cardinality(Thread)

LEMMA UnspentBound == Inv => UnspentFits
<1> SUFFICES ASSUME Inv PROVE UnspentFits
  OBVIOUS
<1>1. \A c \in Unspent : Occupies(c)
  BY DEF Unspent, Occupies, Awaiting
<1> QED
  BY <1>1, OnePerThread DEF Unspent, UnspentFits

LEMMA UnspentStakes == Inv => \A c \in Unspent : job[c] \in Jobs /\ job[c].stake \in Nat
BY ArbAssumption DEF Unspent, Inv, TypeOK, Phases, Jobs

\* Threads without an unspent call, times the largest order.
LEMMA Shrinks ==
  ASSUME NEW n \in Nat, NEW k \in Nat, NEW j \in Nat, NEW m \in Nat, j <= k, k <= n
  PROVE  /\ (n - k) * m \in Nat
         /\ (n - k) * m <= (n - j) * m
<1>1. (n - k) \in Nat /\ (k - j) \in Nat
  OBVIOUS
<1>2. (n - k) * m >= 0 /\ (k - j) * m >= 0
  BY <1>1
<1>3. (n - j) * m = (n - k) * m + (k - j) * m
  OBVIOUS
<1> QED
  BY <1>1, <1>2, <1>3

\* Every state of the invariant is within the bound.
LEMMA CoveredBounds == Inv /\ Covered => OverdraftBounded
<1> SUFFICES ASSUME Inv, Covered, Unspent # {} PROVE OverdraftBounded
  BY DEF Covered
<1>1. PICK c \in Unspent : pBP >= job[c].stake - Missing
  BY DEF Covered
<1>2. Cardinality(Unspent) >= 1
  BY UnspentBound, FS_EmptySet DEF UnspentFits
<1>3. Missing \in Nat /\ Missing <= (Cardinality(Thread) - 1) * MaxOrder
  BY <1>2, Shrinks, UnspentBound, ThreadsFinite, BrokerAssumption DEF Missing, UnspentFits
<1> QED
  BY <1>1, <1>3, UnspentStakes, ThreadsFinite, BrokerAssumption
  DEF OverdraftBounded, Inv, TypeOK

LEMMA CoveredInit == Init => Covered
<1> SUFFICES ASSUME Init PROVE Covered
  OBVIOUS
<1>1. Unspent = {}
  BY DEF Init, Unspent
<1>2. (Cardinality(Thread) - 1) * MaxOrder >= 0
  BY ThreadsFinite, BrokerAssumption
<1>3. OverdraftBounded
  BY <1>2, ThreadsFinite, BrokerAssumption DEF Init, BrokerInit, OverdraftBounded
<1> QED
  BY <1>1, <1>3 DEF Covered

\* A preview passes: the newcomer is covered in full.
LEMMA CoveredPreview ==
  ASSUME Inv, Inv', UnspentFits', Covered, NEW c \in Call,
         pc' = [pc EXCEPT ![c] = "p_debit"], pBP' = pBP,
         \A d \in Call \ {c} : job'[d] = job[d],
         job'[c].stake \in Nat, job'[c].stake <= MaxOrder, job'[c].stake <= pBP
  PROVE  Covered'
<1>1. Unspent' = Unspent \cup {c}
  BY DEF Unspent, Inv, TypeOK
<1>2. \A d \in Unspent' : job'[d].stake <= MaxOrder
  BY <1>1 DEF Covered, Unspent
<1>3. Missing' \in Nat
  BY Shrinks, ThreadsFinite, BrokerAssumption DEF Missing, UnspentFits
<1>4. pBP' >= job'[c].stake - Missing'
  BY <1>3 DEF Inv, TypeOK
<1> QED
  BY <1>1, <1>2, <1>4 DEF Covered

\* A debit: one order goes, and its thread is free for one more.
LEMMA CoveredDebit ==
  ASSUME Inv, UnspentFits', Covered, NEW c \in Call, PolyTakePower(c)
  PROVE  Covered'
<1> DEFINE n == Cardinality(Thread)
           k == Cardinality(Unspent)
           m == MaxOrder
<1>1. c \in Unspent /\ Unspent' = Unspent \ {c} /\ job' = job
  BY DEF PolyTakePower, Goto, Unspent, Inv, TypeOK
<1>2. /\ k \in Nat /\ k >= 1 /\ k <= n /\ n \in Nat /\ m \in Nat /\ m >= 1
      /\ Cardinality(Unspent') = k - 1
  BY <1>1, UnspentBound, ThreadsFinite, BrokerAssumption, FS_RemoveElement, FS_EmptySet
  DEF UnspentFits
<1>3. /\ (n - k) * m \in Int /\ (n - 1) * m \in Int /\ (n - (k - 1)) * m \in Int
      /\ (n - (k - 1)) * m = (n - k) * m + m
  BY <1>2
<1>4. Missing = (n - k) * m /\ Missing' = (n - k) * m + m
  BY <1>2, <1>3 DEF Missing
<1>5. \A d \in Unspent : job[d].stake \in Nat /\ job[d].stake <= m
  BY UnspentStakes DEF Covered
<1>6. pBP \in Int /\ pBP' = pBP - job[c].stake
  BY DEF PolyTakePower, PolyDebit, Inv, TypeOK
<1>7. PICK d \in Unspent : pBP >= job[d].stake - Missing
  BY <1>1 DEF Covered
<1>8. CASE Unspent' = {}
  <2>1. d = c
    BY <1>1, <1>7, <1>8
  <2>4. k = 1
    BY <1>2, <1>8, FS_EmptySet
  <2>2. pBP' >= 0 - (n - 1) * m
    BY <1>3, <1>4, <1>5, <1>6, <1>7, <2>1, <2>4
  <2>3. OverdraftBounded'
    BY <2>2 DEF OverdraftBounded
  <2> QED
    BY <1>8, <2>3 DEF Covered
<1>9. CASE Unspent' # {} /\ d # c
  <2>1. d \in Unspent'
    BY <1>1, <1>9
  <2>2. pBP' >= job'[d].stake - Missing'
    BY <1>1, <1>2, <1>3, <1>4, <1>5, <1>6, <1>7
  <2> QED
    BY <1>1, <1>5, <1>9, <2>1, <2>2 DEF Covered
<1>10. CASE Unspent' # {} /\ d = c
  <2>1. PICK e : e \in Unspent'
    BY <1>10
  <2>2. pBP' >= job'[e].stake - Missing'
    BY <1>1, <1>2, <1>3, <1>4, <1>5, <1>6, <1>7, <1>10, <2>1
  <2> QED
    BY <1>1, <1>5, <1>10, <2>1, <2>2 DEF Covered
<1> QED
  BY <1>8, <1>9, <1>10

\* Every other step leaves the unspent calls alone, and takes no power.
LEMMA CoveredOther ==
  ASSUME Inv, Covered, Unspent' = Unspent, pBP' \in Int, pBP' >= pBP,
         \A d \in Unspent : job'[d] = job[d]
  PROVE  Covered'
<1>1. Missing' = Missing /\ Missing \in Nat
  BY Shrinks, UnspentBound, ThreadsFinite, BrokerAssumption DEF Missing, UnspentFits
<1>2. (Cardinality(Thread) - 1) * MaxOrder \in Int
  BY ThreadsFinite, BrokerAssumption
<1> QED
  BY <1>1, <1>2, UnspentStakes DEF Covered, OverdraftBounded, Inv, TypeOK

LEMMA CoveredNext == Inv /\ Inv' /\ Covered /\ [Next]_vars => Covered'
<1> SUFFICES ASSUME Inv, Inv', Covered, [Next]_vars PROVE Covered'
  OBVIOUS
<1>1. UnspentFits'
  BY UnspentBound, PTL
<1>2. ASSUME NEW c \in Call, Begin(c)
      PROVE  Covered'
  <2>1. ASSUME c \in ArbCall, NEW t \in Thread, NEW arb \in Arbs, NEW stake \in Stakes,
               ArbRefused(c, t, arb, stake) \/ ArbAccepted(c, t, arb, stake)
        PROVE  Covered'
    <3>1. pBP' = pBP /\ Unspent' = Unspent /\ \A d \in Unspent : job'[d] = job[d]
      BY <2>1 DEF ArbRefused, ArbAccepted, BeginArb, Return, Goto, brokerVars, Unspent,
                  Inv, TypeOK
    <3> QED
      BY <3>1, CoveredOther DEF Inv, TypeOK
  <2>2. ASSUME c \in EventCall, NEW t \in Thread, NEW key \in EventKeys, NEW stake \in Stakes,
               EventPassed(c, t, key, stake)
        PROVE  Covered'
    <3>1. stake \in Nat /\ stake <= MaxOrder /\ stake <= pBP
      BY <2>2, ArbAssumption DEF EventPassed, PolyPreview
    <3>2. job' = [job EXCEPT ![c] = EventJob(t, key, stake)] /\ job'[c].stake = stake
      BY <2>2 DEF EventPassed, EventJob, Inv, TypeOK
    <3>3. pc' = [pc EXCEPT ![c] = "p_debit"] /\ pBP' = pBP
      BY <2>2 DEF EventPassed, Goto, brokerVars
    <3>4. \A d \in Call \ {c} : job'[d] = job[d]
      BY <3>2 DEF Inv, TypeOK
    <3> QED
      BY <1>1, <3>1, <3>2, <3>3, <3>4, CoveredPreview
  <2>3. ASSUME c \in EventCall, NEW t \in Thread, NEW key \in EventKeys, NEW stake \in Stakes,
               EventRejected(c, t, key, stake)
        PROVE  Covered'
    <3>1. pBP' = pBP /\ Unspent' = Unspent /\ \A d \in Unspent : job'[d] = job[d]
      BY <2>3 DEF EventRejected, Return, Goto, brokerVars, Unspent, Inv, TypeOK
    <3> QED
      BY <3>1, CoveredOther DEF Inv, TypeOK
  <2> QED
    BY <1>2, <2>1, <2>2, <2>3 DEF Begin
<1>3. ASSUME NEW c \in Call, PolyPreviewed(c)
      PROVE  Covered'
  <2>1. pc' = [pc EXCEPT ![c] = "p_debit"] /\ pBP' = pBP /\ job' = job
    BY <1>3 DEF PolyPreviewed, Goto, brokerVars
  <2>2. job[c].stake \in Nat
    <3>1. job[c] \in Jobs
      BY <1>3 DEF PolyPreviewed, Inv, TypeOK, Phases
    <3> QED
      BY <3>1, ArbAssumption DEF Jobs
  <2>3. job[c].stake <= MaxOrder /\ job[c].stake <= pBP
    BY <1>3 DEF PolyPreviewed, PolyPreview
  <2> QED
    BY <1>1, <2>1, <2>2, <2>3, CoveredPreview
<1>4. ASSUME NEW c \in Call, PolyTakePower(c)
      PROVE  Covered'
  BY <1>1, <1>4, CoveredDebit
<1>5. ASSUME NEW c \in Call, UnwindCredit(c)
      PROVE  Covered'
  <2>1. job' = job /\ Unspent' = Unspent
    BY <1>5 DEF UnwindCredit, Return, Goto, Unspent, Inv, TypeOK
  <2>2. pBP' \in Int /\ pBP' >= pBP
    BY <1>5 DEF UnwindCredit, PolyCredit, Inv, TypeOK
  <2> QED
    BY <2>1, <2>2, CoveredOther
<1>6. ASSUME NEW c \in Call,
             \/ KalshiReadPower(c) \/ KalshiWritePower(c) \/ KalshiWritePosition(c)
             \/ DemoLegAccepted(c) \/ DemoLegRaised(c) \/ PolyRefused(c)
             \/ PolyWritePosition(c) \/ ArbFilled(c) \/ LegImbalance(c) \/ UnwindPop(c)
             \/ EventFilled(c) \/ CycleTimeout(c) \/ ExchangeMoves(c)
      PROVE  Covered'
  <2>1. job' = job /\ pBP' = pBP
    BY <1>6 DEF KalshiReadPower, KalshiWritePower, KalshiWritePosition, DemoLegAccepted,
         DemoLegRaised, PolyRefused, PolyWritePosition, ArbFilled, LegImbalance, UnwindPop,
         EventFilled, CycleTimeout, ExchangeMoves, brokerVars
  <2>2. Unspent' = Unspent
    BY <1>6 DEF KalshiReadPower, KalshiWritePower, KalshiWritePosition, DemoLegAccepted,
         DemoLegRaised, PolyRefused, PolyWritePosition, ArbFilled, LegImbalance, UnwindPop,
         EventFilled, CycleTimeout, ExchangeMoves, Awaiting, Return, Goto, Unspent, Inv, TypeOK
  <2> QED
    BY <2>1, <2>2, CoveredOther DEF Inv, TypeOK
<1>7. CASE UNCHANGED vars
  BY <1>7, CoveredOther DEF vars, brokerVars, callVars, Unspent, Inv, TypeOK
<1> QED
  BY <1>2, <1>3, <1>4, <1>5, <1>6, <1>7 DEF Next, Advance

(***************************************************************************)
(* However many calls race on the account, n threads overdraw it by at     *)
(* most n - 1 of the largest orders; a single loop never does.             *)
(***************************************************************************)
THEOREM OverdraftIsBounded == Spec => []OverdraftBounded
<1>1. Spec => [](Inv /\ Covered)
  BY Invariance, CoveredInit, CoveredNext, PTL DEF Spec
<1> QED
  BY <1>1, CoveredBounds, PTL

-----------------------------------------------------------------------------
(***************************************************************************)
(* The cap on open Polymarket positions.                                   *)
(*                                                                         *)
(* A call between its preview and the write of its position will open its  *)
(* key, or find it open.  The keys that are open together with the keys of *)
(* these calls stay within the bound: a store only moves a key from one    *)
(* side to the other, and a preview that brings a new key has just counted *)
(* the open ones, to which the threads can add one key each.               *)
(***************************************************************************)
Booking == {c \in Call : pc[c] \in {"p_debit", "p_store"}}
BookingKeys == {job[c].key : c \in Booking}
Booked == OpenPolyKeys \cup BookingKeys

CapHeld == Cardinality(Booked) <= MaxOpenPositions + Cardinality(Thread) - 1

BookedFits ==
  /\ IsFiniteSet(OpenPolyKeys) /\ Cardinality(OpenPolyKeys) \in Nat
  /\ IsFiniteSet(BookingKeys) /\ Cardinality(BookingKeys) \in Nat
  /\ IsFiniteSet(Booked) /\ Cardinality(Booked) \in Nat
  /\ Cardinality(Booked) <= Cardinality(OpenPolyKeys) + Cardinality(BookingKeys)
  /\ Cardinality(BookingKeys) <= Cardinality(Thread)

LEMMA BookedBound == Inv => BookedFits
<1> SUFFICES ASSUME Inv PROVE BookedFits
  OBVIOUS
<1>1. \A c \in Booking : Occupies(c) /\ job[c] \in Jobs
  BY DEF Booking, Occupies, Awaiting, Inv, TypeOK, Phases
<1>2. BookingKeys \subseteq PolyKeys /\ OpenPolyKeys \subseteq PolyKeys
  BY <1>1 DEF BookingKeys, OpenPolyKeys, Jobs
<1>3. /\ IsFiniteSet(OpenPolyKeys) /\ Cardinality(OpenPolyKeys) \in Nat
      /\ IsFiniteSet(BookingKeys) /\ Cardinality(BookingKeys) \in Nat
  BY <1>2, BrokerAssumption, FS_Subset, FS_CardinalityType
<1>4. /\ IsFiniteSet(Booked) /\ Cardinality(Booked) \in Nat
      /\ Cardinality(Booked) <= Cardinality(OpenPolyKeys) + Cardinality(BookingKeys)
  <2>1. /\ IsFiniteSet(Booked)
        /\ Cardinality(Booked) = Cardinality(OpenPolyKeys) + Cardinality(BookingKeys)
                                   - Cardinality(OpenPolyKeys \cap BookingKeys)
    BY <1>3, FS_Union DEF Booked
  <2>2. Cardinality(Booked) \in Nat /\ Cardinality(OpenPolyKeys \cap BookingKeys) \in Nat
    BY <1>3, <2>1, FS_Intersection, FS_CardinalityType
  <2> QED
    BY <1>3, <2>1, <2>2
<1>5. Cardinality(BookingKeys) <= Cardinality(Thread)
  <2> DEFINE holder(k) == CHOOSE c \in Booking : job[c].key = k
             f == [k \in BookingKeys |-> job[holder(k)].thread]
  <2>1. \A k \in BookingKeys : holder(k) \in Booking /\ job[holder(k)].key = k
    BY DEF BookingKeys
  <2> HIDE DEF holder
  <2>2. f \in [BookingKeys -> Thread]
    BY <1>1, <2>1 DEF Jobs
  <2>3. ASSUME NEW k \in BookingKeys, NEW l \in BookingKeys, f[k] = f[l]
        PROVE  k = l
    <3>1. holder(k) = holder(l)
      BY <1>1, <2>1, <2>3 DEF Inv, Exclusive, Booking
    <3> QED
      BY <2>1, <3>1
  <2>4. f \in Injection(BookingKeys, Thread)
    BY <2>2, <2>3 DEF Injection, IsInjective
  <2> QED
    BY <2>4, ThreadsFinite, FS_Injection
<1> QED
  BY <1>3, <1>4, <1>5 DEF BookedFits

LEMMA CapBounds == Inv /\ CapHeld => PositionCapBounded
<1> SUFFICES ASSUME Inv, CapHeld PROVE PositionCapBounded
  OBVIOUS
<1>1. Cardinality(OpenPolyKeys) <= Cardinality(Booked)
  BY BookedBound, FS_Subset DEF Booked, BookedFits
<1> QED
  BY <1>1, BookedBound, ThreadsFinite, BrokerAssumption
  DEF CapHeld, PositionCapBounded, BookedFits

LEMMA CapInit == Init => CapHeld
<1> SUFFICES ASSUME Init PROVE CapHeld
  OBVIOUS
<1>1. Booked = {}
  BY DEF Init, BrokerInit, Booked, OpenPolyKeys, BookingKeys, Booking
<1> QED
  BY <1>1, FS_EmptySet, ThreadsFinite, BrokerAssumption DEF CapHeld

\* A step that brings no new key.
LEMMA CapShrink ==
  ASSUME Inv, CapHeld, Booked' \subseteq Booked
  PROVE  CapHeld'
<1>1. Cardinality(Booked') \in Nat /\ Cardinality(Booked') <= Cardinality(Booked)
  BY BookedBound, FS_Subset, FS_CardinalityType DEF BookedFits
<1> QED
  BY <1>1, BookedBound, ThreadsFinite, BrokerAssumption DEF CapHeld, BookedFits

\* A preview that passes.
LEMMA CapPreview ==
  ASSUME Inv, BookedFits', CapHeld, NEW c \in Call,
         pc' = [pc EXCEPT ![c] = "p_debit"], pPos' = pPos,
         \A d \in Call \ {c} : job'[d] = job[d],
         \/ Cardinality(OpenPolyKeys) < MaxOpenPositions
         \/ job'[c].key \in OpenPolyKeys
  PROVE  CapHeld'
<1>1. OpenPolyKeys' = OpenPolyKeys
  BY DEF OpenPolyKeys
<1>2. CASE job'[c].key \in OpenPolyKeys
  <2>1. Booked' \subseteq Booked
    BY <1>1, <1>2 DEF Booked, BookingKeys, Booking, Inv, TypeOK
  <2> QED
    BY <2>1, CapShrink
<1>3. CASE Cardinality(OpenPolyKeys) < MaxOpenPositions
  BY <1>1, <1>3, ThreadsFinite, BrokerAssumption DEF CapHeld, BookedFits
<1> QED
  BY <1>2, <1>3

LEMMA CapNext == Inv /\ Inv' /\ CapHeld /\ [Next]_vars => CapHeld'
<1> SUFFICES ASSUME Inv, Inv', CapHeld, [Next]_vars PROVE CapHeld'
  OBVIOUS
<1>1. BookedFits'
  BY BookedBound, PTL
<1>2. ASSUME NEW c \in Call, Begin(c)
      PROVE  CapHeld'
  <2>1. ASSUME c \in ArbCall, NEW t \in Thread, NEW arb \in Arbs, NEW stake \in Stakes,
               ArbRefused(c, t, arb, stake) \/ ArbAccepted(c, t, arb, stake)
        PROVE  CapHeld'
    <3>1. pPos' = pPos /\ Booking' = Booking /\ \A d \in Booking : job'[d] = job[d]
      BY <2>1 DEF ArbRefused, ArbAccepted, BeginArb, Return, Goto, brokerVars, Booking,
                  Inv, TypeOK
    <3>2. Booked' \subseteq Booked
      BY <3>1 DEF Booked, BookingKeys, OpenPolyKeys
    <3> QED
      BY <3>2, CapShrink
  <2>2. ASSUME c \in EventCall, NEW t \in Thread, NEW key \in EventKeys, NEW stake \in Stakes,
               EventPassed(c, t, key, stake)
        PROVE  CapHeld'
    <3>1. \/ Cardinality(OpenPolyKeys) < MaxOpenPositions
          \/ key \in OpenPolyKeys
      BY <2>2 DEF EventPassed, PolyPreview
    <3>2. job' = [job EXCEPT ![c] = EventJob(t, key, stake)] /\ job'[c].key = key
      BY <2>2 DEF EventPassed, EventJob, Inv, TypeOK
    <3>3. pc' = [pc EXCEPT ![c] = "p_debit"] /\ pPos' = pPos
      BY <2>2 DEF EventPassed, Goto, brokerVars
    <3>4. \A d \in Call \ {c} : job'[d] = job[d]
      BY <3>2 DEF Inv, TypeOK
    <3> QED
      BY <1>1, <3>1, <3>2, <3>3, <3>4, CapPreview
  <2>3. ASSUME c \in EventCall, NEW t \in Thread, NEW key \in EventKeys, NEW stake \in Stakes,
               EventRejected(c, t, key, stake)
        PROVE  CapHeld'
    <3>1. pPos' = pPos /\ Booking' = Booking /\ \A d \in Booking : job'[d] = job[d]
      BY <2>3 DEF EventRejected, Return, Goto, brokerVars, Booking, Inv, TypeOK
    <3>2. Booked' \subseteq Booked
      BY <3>1 DEF Booked, BookingKeys, OpenPolyKeys
    <3> QED
      BY <3>2, CapShrink
  <2> QED
    BY <1>2, <2>1, <2>2, <2>3 DEF Begin
<1>3. ASSUME NEW c \in Call, PolyPreviewed(c)
      PROVE  CapHeld'
  <2>1. pc' = [pc EXCEPT ![c] = "p_debit"] /\ pPos' = pPos /\ job' = job
    BY <1>3 DEF PolyPreviewed, Goto, brokerVars
  <2>2. \/ Cardinality(OpenPolyKeys) < MaxOpenPositions
        \/ job[c].key \in OpenPolyKeys
    BY <1>3 DEF PolyPreviewed, PolyPreview
  <2> QED
    BY <1>1, <2>1, <2>2, CapPreview
<1>4. ASSUME NEW c \in Call, PolyTakePower(c)
      PROVE  CapHeld'
  <2>1. job' = job /\ pPos' = pPos /\ Booking' = Booking
    BY <1>4 DEF PolyTakePower, Goto, Booking, Inv, TypeOK
  <2>2. Booked' \subseteq Booked
    BY <2>1 DEF Booked, BookingKeys, OpenPolyKeys
  <2> QED
    BY <2>2, CapShrink
<1>5. ASSUME NEW c \in Call, PolyWritePosition(c)
      PROVE  CapHeld'
  <2>1. job' = job /\ c \in Booking /\ Booking' \subseteq Booking
    BY <1>5 DEF PolyWritePosition, Goto, Booking, Inv, TypeOK
  <2>2. OpenPolyKeys' \subseteq OpenPolyKeys \cup {job[c].key}
    BY <1>5 DEF PolyWritePosition, PolyStore, OpenPolyKeys, Inv, TypeOK
  <2>3. Booked' \subseteq Booked
    BY <2>1, <2>2 DEF Booked, BookingKeys
  <2> QED
    BY <2>3, CapShrink
<1>6. ASSUME NEW c \in Call, UnwindPop(c)
      PROVE  CapHeld'
  <2>1. job' = job /\ Booking' = Booking
    BY <1>6 DEF UnwindPop, Goto, Booking, Inv, TypeOK
  <2>2. OpenPolyKeys' \subseteq OpenPolyKeys
    BY <1>6 DEF UnwindPop, PolyPop, OpenPolyKeys, Inv, TypeOK
  <2>3. Booked' \subseteq Booked
    BY <2>1, <2>2 DEF Booked, BookingKeys
  <2> QED
    BY <2>3, CapShrink
<1>7. ASSUME NEW c \in Call,
             \/ KalshiReadPower(c) \/ KalshiWritePower(c) \/ KalshiWritePosition(c)
             \/ DemoLegAccepted(c) \/ DemoLegRaised(c) \/ PolyRefused(c) \/ ArbFilled(c)
             \/ LegImbalance(c) \/ UnwindCredit(c) \/ EventFilled(c) \/ CycleTimeout(c)
             \/ ExchangeMoves(c)
      PROVE  CapHeld'
  <2>1. job' = job /\ pPos' = pPos
    BY <1>7 DEF KalshiReadPower, KalshiWritePower, KalshiWritePosition, DemoLegAccepted,
         DemoLegRaised, PolyRefused, ArbFilled, LegImbalance, UnwindCredit, EventFilled,
         CycleTimeout, ExchangeMoves, brokerVars
  <2>2. Booking' = Booking
    BY <1>7 DEF KalshiReadPower, KalshiWritePower, KalshiWritePosition, DemoLegAccepted,
         DemoLegRaised, PolyRefused, ArbFilled, LegImbalance, UnwindCredit, EventFilled,
         CycleTimeout, ExchangeMoves, Awaiting, Return, Goto, Booking, Inv, TypeOK
  <2>3. Booked' \subseteq Booked
    BY <2>1, <2>2 DEF Booked, BookingKeys, OpenPolyKeys
  <2> QED
    BY <2>3, CapShrink
<1>8. CASE UNCHANGED vars
  <2>1. Booked' \subseteq Booked
    BY <1>8 DEF vars, brokerVars, callVars, Booked, BookingKeys, Booking, OpenPolyKeys
  <2> QED
    BY <2>1, CapShrink
<1> QED
  BY <1>2, <1>3, <1>4, <1>5, <1>6, <1>7, <1>8 DEF Next, Advance

(***************************************************************************)
(* The cap on open positions is passed by at most n - 1 positions on n     *)
(* threads, and never on a single loop.                                    *)
(***************************************************************************)
THEOREM PositionCapIsBounded == Spec => []PositionCapBounded
<1>1. Spec => [](Inv /\ CapHeld)
  BY Invariance, CapInit, CapNext, PTL DEF Spec
<1> QED
  BY <1>1, CapBounds, PTL

-----------------------------------------------------------------------------
(***************************************************************************)
(* The state machine: its state at each point of a call.                   *)
(***************************************************************************)
MachineAt(c) ==
  /\ pc[c] = "idle" => sm[c] = "predictive_entry"
  /\ pc[c] \in {"leg1", "k_debit", "k_store"} => sm[c] = "leg_1_pending"
  /\ pc[c] \in {"leg2", "p_debit", "p_store", "fills", "unwind", "credit"} =>
       sm[c] = "leg_2_pending"
  /\ pc[c] = "done" =>
       \/ result[c] = "success" /\ sm[c] = "fully_hedged" /\ kOrder[c]
       \/ result[c] # "success" /\ sm[c] = "leg_2_pending" /\ kOrder[c]
       \/ result[c] # "success" /\ sm[c] = "predictive_entry" /\ ~kOrder[c]
       \/ result[c] = "failed" /\ sm[c] = "timeout_abort" /\ ~kOrder[c]

MachineInStep == \A c \in ArbCall : MachineAt(c)

\* The transitions a call fires are all valid where it fires them.
LEMMA Fires ==
  ASSUME NEW trigger, NEW state, NEW next \in SMStates,
         <<trigger, state, next>> \in SMTable,
         \A s \in SMStates : <<trigger, state, s>> \in SMTable => s = next
  PROVE  Fire(state, trigger) = next
BY DEF Fire

LEMMA MachineSteps ==
  /\ Fire("predictive_entry", "submit_leg1") = "leg_1_pending"
  /\ Fire("leg_1_pending", "timeout") = "timeout_abort"
  /\ Leg1Done("leg_1_pending") = "leg_2_pending"
  /\ Fire("leg_2_pending", "fill_leg2") = "fully_hedged"
<1>1. Fire("predictive_entry", "submit_leg1") = "leg_1_pending"
  BY Fires DEF SMTable, SMStates
<1>2. Fire("leg_1_pending", "timeout") = "timeout_abort"
  BY Fires DEF SMTable, SMStates
<1>3. Fire("leg_1_pending", "fill_leg1") = "leg_1_filled"
  BY Fires DEF SMTable, SMStates
<1>4. Fire("leg_1_filled", "route_dex") = "route_to_dex"
  BY Fires DEF SMTable, SMStates
<1>5. Fire("route_to_dex", "submit_leg2") = "leg_2_pending"
  BY Fires DEF SMTable, SMStates
<1>6. Fire("leg_2_pending", "fill_leg2") = "fully_hedged"
  BY Fires DEF SMTable, SMStates
<1> QED
  BY <1>1, <1>2, <1>3, <1>4, <1>5, <1>6 DEF Leg1Done

\* A step of c leaves the machine, the answer and the first leg of others.
LEMMA MachineStep ==
  ASSUME MachineInStep, NEW c \in Call,
         \A d \in Call \ {c} : /\ pc'[d] = pc[d] /\ sm'[d] = sm[d]
                               /\ result'[d] = result[d] /\ kOrder'[d] = kOrder[d],
         c \in ArbCall => MachineAt(c)'
  PROVE  MachineInStep'
BY DEF MachineInStep, MachineAt, Call

LEMMA BeginMachine ==
  ASSUME Inv, MachineInStep, NEW c \in Call, Begin(c)
  PROVE  MachineInStep'
<1> USE DEF Inv, TypeOK
<1>1. \A d \in Call \ {c} : /\ pc'[d] = pc[d] /\ sm'[d] = sm[d]
                            /\ result'[d] = result[d] /\ kOrder'[d] = kOrder[d]
  BY DEF Begin, ArbRefused, ArbAccepted, EventPassed, EventRejected, Return, Goto
<1>2. ASSUME c \in ArbCall PROVE MachineAt(c)'
  <2>1. c \notin EventCall /\ pc[c] = "idle"
    BY <1>2, ArbAssumption DEF Begin, ArbRefused, ArbAccepted, BeginArb
  <2>2. sm[c] = "predictive_entry" /\ ~kOrder[c]
    BY <1>2, <2>1 DEF MachineInStep, MachineAt, Phases, LegsAt
  <2>3. PICK t \in Thread, arb \in Arbs, stake \in Stakes :
          ArbRefused(c, t, arb, stake) \/ ArbAccepted(c, t, arb, stake)
    BY <2>1 DEF Begin
  <2>4. CASE ArbRefused(c, t, arb, stake)
    BY <2>2, <2>4 DEF ArbRefused, Return, Goto, MachineAt
  <2>5. CASE ArbAccepted(c, t, arb, stake)
    BY <2>2, <2>5, MachineSteps DEF ArbAccepted, Goto, MachineAt
  <2> QED
    BY <2>3, <2>4, <2>5
<1> QED
  BY <1>1, <1>2, MachineStep

LEMMA AdvanceMachine ==
  ASSUME Inv, MachineInStep, NEW c \in Call, Advance(c) \/ CycleTimeout(c) \/ ExchangeMoves(c)
  PROVE  MachineInStep'
<1> USE DEF Inv, TypeOK
<1>1. \A d \in Call \ {c} : /\ pc'[d] = pc[d] /\ sm'[d] = sm[d]
                            /\ result'[d] = result[d] /\ kOrder'[d] = kOrder[d]
  BY DEF Advance, KalshiReadPower, KalshiWritePower, KalshiWritePosition, DemoLegAccepted,
         DemoLegRaised, PolyPreviewed, PolyRefused, PolyTakePower, PolyWritePosition,
         ArbFilled, LegImbalance, UnwindPop, UnwindCredit, EventFilled, CycleTimeout,
         ExchangeMoves, Goto, Return
<1>2. ASSUME c \in ArbCall PROVE MachineAt(c)'
  <2>1. MachineAt(c) /\ LegsAt(c) /\ c \notin EventCall
    BY <1>2, ArbAssumption DEF MachineInStep, Phases
  <2>2. CASE KalshiReadPower(c) \/ KalshiWritePower(c)
    BY <2>1, <2>2 DEF KalshiReadPower, KalshiWritePower, Goto, MachineAt
  <2>3. CASE KalshiWritePosition(c) \/ DemoLegAccepted(c)
    <3>1. pc[c] \in {"leg1", "k_store"} /\ pc'[c] = "leg2" /\ sm'[c] = Leg1Done(sm[c])
      BY <2>3 DEF KalshiWritePosition, DemoLegAccepted, Goto
    <3> QED
      BY <2>1, <3>1, MachineSteps DEF MachineAt
  <2>4. CASE DemoLegRaised(c)
    BY <2>1, <2>4, MachineSteps DEF DemoLegRaised, Return, Goto, MachineAt, LegsAt
  <2>5. CASE PolyPreviewed(c) \/ PolyTakePower(c) \/ PolyWritePosition(c)
    BY <2>1, <2>5 DEF PolyPreviewed, PolyTakePower, PolyWritePosition, Goto, MachineAt
  <2>6. CASE PolyRefused(c)
    BY <2>1, <2>6 DEF PolyRefused, Return, Goto, MachineAt, LegsAt
  <2>7. CASE ArbFilled(c)
    BY <2>1, <2>7, MachineSteps DEF ArbFilled, Return, Goto, MachineAt, LegsAt
  <2>8. CASE LegImbalance(c) \/ UnwindPop(c)
    BY <2>1, <2>8 DEF LegImbalance, UnwindPop, Goto, MachineAt
  <2>9. CASE UnwindCredit(c)
    BY <2>1, <2>9 DEF UnwindCredit, Return, Goto, MachineAt, LegsAt
  <2>10. CASE EventFilled(c)
    BY <2>1, <2>10 DEF EventFilled
  <2>11. CASE CycleTimeout(c)
    BY <2>1, <2>11 DEF CycleTimeout, Awaiting, Return, Goto, MachineAt, LegsAt
  <2>12. CASE ExchangeMoves(c)
    BY <2>1, <2>12 DEF ExchangeMoves, MachineAt
  <2> QED
    BY <2>2, <2>3, <2>4, <2>5, <2>6, <2>7, <2>8, <2>9, <2>10, <2>11, <2>12 DEF Advance
<1> QED
  BY <1>1, <1>2, MachineStep

LEMMA NextMachine == Inv /\ MachineInStep /\ [Next]_vars => MachineInStep'
<1>1. UNCHANGED vars /\ MachineInStep => MachineInStep'
  BY DEF vars, callVars, MachineInStep, MachineAt
<1> QED
  BY <1>1, BeginMachine, AdvanceMachine DEF Next

(***************************************************************************)
(* The machine follows the call, although _fire swallows what is invalid:  *)
(* fully hedged means that both ids were returned, and conversely.         *)
(***************************************************************************)
THEOREM MachineTellsTheTruth == Spec => []MachineFollows
<1>1. Init => MachineInStep
  BY DEF Init, MachineInStep, MachineAt, Call
<1>2. Inv /\ MachineInStep => MachineFollows
  <2> SUFFICES ASSUME Inv, MachineInStep, NEW c \in ArbCall
               PROVE  /\ sm[c] = "fully_hedged" <=> result[c] = "success"
                      /\ sm[c] = "leg_2_pending" <=> kOrder[c] /\ result[c] # "success"
                      /\ sm[c] = "timeout_abort" => result[c] = "failed" /\ ~kOrder[c]
    BY DEF MachineFollows
  <2>1. MachineAt(c) /\ LegsAt(c) /\ pc[c] \in PCs /\ kOrder[c] \in BOOLEAN
    BY DEF Inv, MachineInStep, Phases, TypeOK, Call
  <2>2. pc[c] # "done" => result[c] = "pending"
    BY DEF Inv, Phases, Call
  <2> QED
    BY <2>1, <2>2 DEF MachineAt, LegsAt, PCs
<1>3. Init => Inv /\ MachineInStep
  BY <1>1, InitInv
<1>4. (Inv /\ MachineInStep) /\ [Next]_vars => (Inv /\ MachineInStep)'
  BY NextInv, NextMachine
<1> QED
  BY <1>2, <1>3, <1>4, PTL DEF Spec
=============================================================================
