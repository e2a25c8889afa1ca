-------------------------- MODULE ArbRiskGateProofs --------------------------
(***************************************************************************)
(* Proofs about ArbRiskGate, for any number of callers and contracts and   *)
(* any stakes, costs, caps, limit and window.                              *)
(***************************************************************************)
EXTENDS ArbRiskGate, FiniteSetTheorems, TLAPS

-----------------------------------------------------------------------------
(***************************************************************************)
(* Type correctness.                                                       *)
(***************************************************************************)
LEMMA PushType == ASSUME TypeOK, NEW kind \in Rows PROVE Push(kind) \in [1..Window -> Rows]
BY GateAssumption DEF TypeOK, Push

LEMMA InitType == Init => TypeOK
BY GateAssumption DEF Init, TypeOK, Rows, PCs, NoneBlind, Checks

LEMMA AppendType ==
  ASSUME TypeOK, NEW kind \in Rows, NEW trades \in Nat, Append(kind, trades)
  PROVE  /\ log' \in [1..Window -> Rows]
         /\ late' \in Nat
         /\ blind' \in [Checks -> 0..MaxBlind]
BY GateAssumption, PushType DEF TypeOK, Append, NoneBlind

LEMMA CftcType ==
  ASSUME TypeOK, NEW t \in Ticker, NEW stake \in Stakes, PassesCftc(t, stake)
  PROVE  table' \in [Ticker -> 0..CftcLimit]
<1>1. exposure[t] \in 0..CftcLimit /\ stake \in Nat /\ CftcLimit \in Nat
  BY GateAssumption DEF TypeOK
<1>2. table \in [Ticker -> 0..CftcLimit]
  BY DEF TypeOK
<1>3. CASE exposure[t] + stake <= CftcLimit /\ Flush(t, exposure[t] + stake)
  <2>1. exposure[t] + stake \in 0..CftcLimit
    BY <1>1, <1>3
  <2> QED
    BY <1>2, <1>3, <2>1 DEF Flush
<1> QED
  BY <1>2, <1>3 DEF PassesCftc

LEMMA NextType == TypeOK /\ [Next]_vars => TypeOK'
<1> SUFFICES ASSUME TypeOK, [Next]_vars PROVE TypeOK'
  OBVIOUS
<1> USE GateAssumption
<1>1. ASSUME NEW c \in Caller, NEW t \in Ticker, Consider(c, t) PROVE TypeOK'
  BY <1>1 DEF Consider, Goto, TypeOK, PCs
<1>2. ASSUME NEW c \in Caller, PassesLoss(c) \/ PrecheckRefuses(c) PROVE TypeOK'
  BY <1>2 DEF PassesLoss, PrecheckRefuses, Goto, TypeOK, PCs
<1>13. ASSUME NEW c \in Caller, SubmissionRaises(c) PROVE TypeOK'
  <2>1. ticker[c] \in Ticker
    BY DEF TypeOK
  <2>2. table' \in [Ticker -> 0..CftcLimit]
    <3>1. CASE UNCHANGED table
      BY <3>1 DEF TypeOK
    <3>2. ASSUME NEW stake \in Stakes, PassesCftc(ticker[c], stake)
          PROVE  table' \in [Ticker -> 0..CftcLimit]
      BY <2>1, <3>2, CftcType
    <3> QED
      BY <1>13, <3>1, <3>2 DEF SubmissionRaises
  <2> QED
    BY <1>13, <2>2 DEF SubmissionRaises, Goto, TypeOK, PCs
<1>12. ASSUME NEW c \in Caller, PassesLossUnread(c) PROVE TypeOK'
  <2>1. pc[c] \in Checks
    BY <1>12 DEF PassesLossUnread, Checks
  <2>2. blind' \in [Checks -> 0..MaxBlind]
    BY <1>12, <2>1 DEF PassesLossUnread, TypeOK
  <2> QED
    BY <1>12, <2>2 DEF PassesLossUnread, Goto, TypeOK, PCs
<1>3. ASSUME NEW c \in Caller, Rejected(c) PROVE TypeOK'
  <2>1. /\ log' \in [1..Window -> Rows] /\ late' \in Nat
        /\ blind' \in [Checks -> 0..MaxBlind]
    BY <1>3, AppendType DEF Rejected, Rows
  <2>2. rejected' \in 0..LossCap
    BY <1>3 DEF Rejected, AtMost, TypeOK
  <2> QED
    BY <1>3, <2>1, <2>2 DEF Rejected, Goto, TypeOK, PCs
<1>4. ASSUME NEW c \in Caller, NEW stake \in Stakes, PrecheckPasses(c, stake) PROVE TypeOK'
  <2>1. ticker[c] \in Ticker
    BY DEF TypeOK
  <2>2. table' \in [Ticker -> 0..CftcLimit]
    BY <1>4, <2>1, CftcType DEF PrecheckPasses
  <2> QED
    BY <1>4, <2>2 DEF PrecheckPasses, Goto, TypeOK, PCs
<1>5. ASSUME NEW c \in Caller, NEW stake \in Stakes, Submitted(c, stake) PROVE TypeOK'
  <2>1. ticker[c] \in Ticker
    BY DEF TypeOK
  <2>2. table' \in [Ticker -> 0..CftcLimit]
    BY <1>5, <2>1, CftcType DEF Submitted
  <2>3. /\ log' \in [1..Window -> Rows] /\ late' \in Nat
        /\ blind' \in [Checks -> 0..MaxBlind]
    BY <1>5, AppendType DEF Submitted, Rows
  <2>5. AtMost(traded[ticker[c]] + stake, CftcLimit + 1) \in 0..CftcLimit + 1
    BY <2>1 DEF AtMost, TypeOK
  <2>6. traded' \in [Ticker -> 0..CftcLimit + 1]
    BY <1>5, <2>5 DEF Submitted, TypeOK
  <2> QED
    BY <1>5, <2>2, <2>3, <2>6 DEF Submitted, Goto, TypeOK, PCs
<1>6. CASE OtherEvent
  <2>1. /\ log' \in [1..Window -> Rows] /\ late' \in Nat
        /\ blind' \in [Checks -> 0..MaxBlind]
    BY <1>6, AppendType DEF OtherEvent, Rows
  <2> QED
    BY <1>6, <2>1 DEF OtherEvent, TypeOK
<1>7. CASE UtcMidnight
  BY <1>7 DEF UtcMidnight, TypeOK, Rows, NoneBlind
<1>8. CASE LocalMidnight
  BY <1>8 DEF LocalMidnight, TypeOK
<1>9. CASE RiskMetrics
  BY <1>9 DEF RiskMetrics, TypeOK
<1>10. CASE Restart
  BY <1>10 DEF Restart, TypeOK, PCs
<1>11. CASE UNCHANGED vars
  BY <1>11 DEF vars, TypeOK
<1> QED
  BY <1>1, <1>2, <1>3, <1>4, <1>5, <1>6, <1>7, <1>8, <1>9, <1>10, <1>11, <1>12, <1>13 DEF Next

(***************************************************************************)
(* The model is well typed: no upsert writes more than the limit into the  *)
(* exposure table, whatever the checks of several threads interleave with. *)
(***************************************************************************)
THEOREM TypeCorrect == Spec => []TypeOK
BY InitType, NextType, PTL DEF Spec

-----------------------------------------------------------------------------
(***************************************************************************)
(* The window: a row pushed in moves the others on and may push one out.   *)
(***************************************************************************)
Rejections(l) == {i \in 1..Window : l[i] = "rejected"}
Count(l) == Cardinality(Rejections(l))

LEMMA CountType == ASSUME NEW l PROVE IsFiniteSet(Rejections(l)) /\ Count(l) \in Nat
<1>1. Rejections(l) \subseteq 1..Window
  BY DEF Rejections
<1>2. IsFiniteSet(1..Window)
  BY GateAssumption, FS_Interval
<1> QED
  BY <1>1, <1>2, FS_Subset, FS_CardinalityType DEF Count

LEMMA ShiftBound ==
  ASSUME TypeOK, NEW kind
  PROVE  /\ IsFiniteSet(Rejections(Push(kind)) \ {1})
         /\ Cardinality(Rejections(Push(kind)) \ {1}) <= Count(log)
<1> DEFINE S == Rejections(Push(kind)) \ {1}
           f == [i \in S |-> i - 1]
<1>1. ASSUME NEW i \in S PROVE i - 1 \in Rejections(log)
  <2>1. i \in 1..Window /\ i # 1 /\ Push(kind)[i] = "rejected"
    BY DEF Rejections
  <2>2. Push(kind)[i] = log[i - 1]
    BY <2>1 DEF Push
  <2>3. i - 1 \in 1..Window
    BY <2>1, GateAssumption
  <2> QED
    BY <2>1, <2>2, <2>3 DEF Rejections
<1>2. ASSUME NEW i \in S, NEW j \in S, f[i] = f[j] PROVE i = j
  <2>1. i \in Int /\ j \in Int
    BY DEF Rejections
  <2> QED
    BY <1>2, <2>1
<1>3. f \in Injection(S, Rejections(log))
  BY <1>1, <1>2 DEF Injection, IsInjective
<1> QED
  BY <1>3, CountType, FS_Injection DEF Count

LEMMA PushCounts ==
  ASSUME TypeOK
  PROVE  Count(Push("other")) <= Count(log) /\ Count(Push("rejected")) <= Count(log) + 1
<1>1. Rejections(Push("other")) \ {1} = Rejections(Push("other"))
  <2>1. 1 \in 1..Window
    BY GateAssumption
  <2>2. Push("other")[1] = "other"
    BY <2>1 DEF Push
  <2>3. 1 \notin Rejections(Push("other"))
    BY <2>2 DEF Rejections
  <2> QED
    BY <2>3
<1>2. Count(Push("other")) <= Count(log)
  BY <1>1, ShiftBound DEF Count
<1>3. Count(Push("rejected")) <= Cardinality(Rejections(Push("rejected")) \ {1}) + 1
  <2> DEFINE S == Rejections(Push("rejected"))
  <2>1. IsFiniteSet(S) /\ Cardinality(S) \in Nat
    BY CountType DEF Count
  <2>2. Cardinality(S \ {1}) = IF 1 \in S THEN Cardinality(S) - 1 ELSE Cardinality(S)
    BY <2>1, FS_RemoveElement
  <2>3. Cardinality(S) <= Cardinality(S \ {1}) + 1
    BY <2>1, <2>2
  <2> QED
    BY <2>3 DEF Count
<1>4. Cardinality(Rejections(Push("rejected")) \ {1}) \in Nat
  BY ShiftBound, FS_CardinalityType
<1> QED
  BY <1>2, <1>3, <1>4, ShiftBound, CountType

LEMMA MidnightCounts == UtcMidnight => Count(log') = 0
<1> SUFFICES ASSUME UtcMidnight PROVE Count(log') = 0
  OBVIOUS
<1>1. Rejections(log') = {}
  BY DEF UtcMidnight, Rejections
<1> QED
  BY <1>1, FS_EmptySet DEF Count

\* The meter grows with the count.
LEMMA LossGrows ==
  ASSUME NEW m \in Nat, NEW n \in Nat, m <= n
  PROVE  FailCost * m <= FailCost * n /\ FailCost * m \in Nat
<1>1. FailCost \in Nat
  BY GateAssumption
<1> QED
  BY <1>1

LEMMA LossIs == ASSUME NEW l PROVE LossOf(l) = FailCost * Count(l)
BY DEF LossOf, Count, Rejections

LEMMA MeterFalls ==
  ASSUME NEW k, NEW l, Count(k) <= Count(l), AtCap(k)
  PROVE  AtCap(l)
<1>1. FailCost * Count(k) <= FailCost * Count(l) /\ FailCost * Count(k) \in Nat
  BY CountType, LossGrows
<1>2. FailCost * Count(l) \in Nat
  BY CountType, LossGrows
<1> QED
  BY <1>1, <1>2, LossIs, GateAssumption DEF AtCap

LEMMA MidnightUnlocks == UtcMidnight => ~AtCap(log')
BY MidnightCounts, LossIs, GateAssumption DEF AtCap

-----------------------------------------------------------------------------
(***************************************************************************)
(* LockoutHasCause: the log holds no more of today's rejections than were  *)
(* counted, unless the counter has reached its bound, which is enough to   *)
(* explain any lockout.                                                    *)
(***************************************************************************)
Caused == rejected = LossCap \/ Count(log) <= rejected

LEMMA NextCaused == TypeOK /\ Caused /\ [Next]_vars => Caused'
<1> SUFFICES ASSUME TypeOK, Caused, [Next]_vars PROVE Caused'
  OBVIOUS
<1>1. Count(log) \in Nat /\ rejected \in 0..LossCap /\ LossCap \in Nat
  BY CountType, GateAssumption DEF TypeOK
<1>2. CASE log' = Push("other") /\ rejected' = rejected
  BY <1>1, <1>2, PushCounts, CountType DEF Caused
<1>3. ASSUME NEW c \in Caller, Rejected(c) PROVE Caused'
  <2>1. log' = Push("rejected") /\ rejected' = AtMost(rejected + 1, LossCap)
    BY <1>3 DEF Rejected, Append
  <2> QED
    BY <1>1, <2>1, PushCounts, CountType DEF Caused, AtMost
<1>4. CASE UtcMidnight
  BY <1>4, MidnightCounts DEF UtcMidnight, Caused
<1>5. CASE UNCHANGED <<log, rejected>>
  BY <1>5 DEF Caused
<1> QED
  BY <1>2, <1>3, <1>4, <1>5
  DEF Next, vars, Consider, PassesLoss, PassesLossUnread, PrecheckRefuses, PrecheckPasses,
      SubmissionRaises, Submitted, OtherEvent, Append, LocalMidnight, RiskMetrics, Restart

LEMMA InitCount == Init => Count(log) = 0
<1> SUFFICES ASSUME Init PROVE Count(log) = 0
  OBVIOUS
<1>1. Rejections(log) = {}
  BY DEF Init, Rejections
<1> QED
  BY <1>1, FS_EmptySet DEF Count

(***************************************************************************)
(* Whoever M06 turns away today is turned away for rejections of today.    *)
(***************************************************************************)
THEOREM LockoutsAreCaused == Spec => []LockoutHasCause
<1>1. Init => Caused
  BY InitCount DEF Init, Caused
<1>2. TypeOK /\ Caused => LockoutHasCause
  <2> SUFFICES ASSUME TypeOK, Caused, AtCap(log) PROVE FailCost * rejected >= LossCap
    BY DEF LockoutHasCause
  <2>1. Count(log) \in Nat /\ rejected \in Nat /\ LossCap \in Nat /\ FailCost \in Nat \ {0}
    BY CountType, GateAssumption DEF TypeOK
  <2>2. CASE rejected = LossCap
    <3>1. FailCost * rejected >= rejected
      BY <2>1
    <3> QED
      BY <2>1, <2>2, <3>1
  <2>3. CASE Count(log) <= rejected
    <3>1. FailCost * Count(log) <= FailCost * rejected /\ FailCost * Count(log) \in Nat
      BY <2>1, <2>3, LossGrows
    <3>2. FailCost * Count(log) >= LossCap /\ FailCost * rejected \in Nat
      BY <2>1, LossIs, LossGrows DEF AtCap
    <3> QED
      BY <2>1, <3>1, <3>2
  <2> QED
    BY <2>2, <2>3 DEF Caused
<1> QED
  BY <1>1, <1>2, InitType, NextType, NextCaused, PTL DEF Spec

-----------------------------------------------------------------------------
(***************************************************************************)
(* Callers at some of the program points, and what a move does to them.    *)
(***************************************************************************)
At(P) == {c \in Caller : pc[c] \in P}

LEMMA AtFinite ==
  ASSUME NEW P
  PROVE  /\ IsFiniteSet(At(P)) /\ Cardinality(At(P)) \in Nat
         /\ Cardinality(Caller) \in Nat /\ Cardinality(At(P)) <= Cardinality(Caller)
<1>1. At(P) \subseteq Caller
  BY DEF At
<1> QED
  BY <1>1, GateAssumption, FS_Subset, FS_CardinalityType

\* A caller leaves: one fewer.
LEMMA Leaves ==
  ASSUME TypeOK, NEW P, NEW c \in Caller, NEW to, Goto(c, to), pc[c] \in P, to \notin P
  PROVE  Cardinality(At(P)') = Cardinality(At(P)) - 1
<1>1. At(P)' = At(P) \ {c}
  BY DEF At, Goto, TypeOK
<1>2. c \in At(P)
  BY DEF At
<1> QED
  BY <1>1, <1>2, AtFinite, FS_RemoveElement

\* Nobody comes in: no more than before.
LEMMA NoneEnters ==
  ASSUME TypeOK, NEW P, At(P)' \subseteq At(P)
  PROVE  Cardinality(At(P)') <= Cardinality(At(P)) /\ Cardinality(At(P)') \in Nat
BY AtFinite, FS_Subset, FS_CardinalityType

-----------------------------------------------------------------------------
(***************************************************************************)
(* MeterBounded: only a caller past the precheck's M06 can still add a     *)
(* rejection, and nobody passes it when the meter is at the cap, unless a  *)
(* failed read pays for that.                                              *)
(***************************************************************************)
Committed == At({"pre_cftc", "sub_loss", "sub_cftc"})
Allowed == FailCost * (Cardinality(Caller) + blind["pre_loss"])
MeterCharged == FailCost * (Count(log) + Cardinality(Committed)) < LossCap + Allowed

LEMMA BlindType == ASSUME TypeOK PROVE blind["pre_loss"] \in Nat /\ blind["sub_loss"] \in Nat
BY GateAssumption DEF TypeOK, Checks

LEMMA CommittedType ==
  /\ Cardinality(Committed) \in Nat /\ Cardinality(Committed') \in Nat
  /\ Cardinality(Caller) \in Nat /\ Cardinality(Committed') <= Cardinality(Caller)
<1>1. Committed' \subseteq Caller
  BY DEF Committed, At
<1> QED
  BY <1>1, AtFinite, GateAssumption, FS_Subset, FS_CardinalityType DEF Committed

\* The count and the committed grow by no more than the failed reads.
LEMMA LightStep ==
  ASSUME TypeOK, TypeOK', MeterCharged, NEW k \in {0, 1},
         blind'["pre_loss"] = blind["pre_loss"] + k,
         Count(log') + Cardinality(Committed') <= Count(log) + Cardinality(Committed) + k
  PROVE  MeterCharged'
<1> DEFINE m == Count(log') + Cardinality(Committed')
           n == Count(log) + Cardinality(Committed)
           b == blind["pre_loss"]
           c == Cardinality(Caller)
<1>1. m \in Nat /\ n \in Nat /\ m <= n + k /\ b \in Nat /\ c \in Nat
  BY CommittedType, CountType, BlindType
<1>2. FailCost \in Nat /\ LossCap \in Nat
  BY GateAssumption
<1>3. FailCost * n < LossCap + FailCost * (c + b)
  BY DEF MeterCharged, Allowed
<1> HIDE DEF m, n, b, c
<1>4. FailCost * m <= FailCost * (n + k) /\ FailCost * m \in Nat
  BY <1>1, LossGrows
<1>5. FailCost * (n + k) = FailCost * n + FailCost * k
  BY <1>1, <1>2
<1>6. FailCost * (c + (b + k)) = FailCost * (c + b) + FailCost * k
  BY <1>1, <1>2
<1>7. /\ FailCost * n \in Nat /\ FailCost * k \in Nat /\ FailCost * (c + b) \in Nat
  BY <1>1, <1>2
<1>8. FailCost * m < LossCap + FailCost * (c + (b + k))
  BY <1>2, <1>3, <1>4, <1>5, <1>6, <1>7
<1> QED
  BY <1>8 DEF MeterCharged, Allowed, m, b, c

\* Below the cap, whoever the committed are.
LEMMA BelowCap ==
  ASSUME TypeOK', ~AtCap(log')
  PROVE  MeterCharged'
<1> DEFINE p == Cardinality(Committed')
           n == Cardinality(Caller) + blind'["pre_loss"]
           m == Count(log')
<1>1. p \in Nat /\ n \in Nat /\ p <= n
  <2>1. blind'["pre_loss"] \in Nat
    BY GateAssumption DEF TypeOK, Checks
  <2> QED
    BY <2>1, CommittedType
<1>2. m \in Nat /\ LossCap \in Nat /\ FailCost \in Nat
  BY CountType, GateAssumption
<1>3. FailCost * m < LossCap
  <2>1. FailCost * m \in Nat
    BY <1>2, LossGrows
  <2> QED
    BY <1>2, <2>1, LossIs DEF AtCap
<1>4. FailCost * p <= FailCost * n /\ FailCost * p \in Nat /\ FailCost * n \in Nat
  BY <1>1, LossGrows
<1>5. FailCost * m \in Nat
  BY <1>2, LossGrows
<1>6. FailCost * (m + p) = FailCost * m + FailCost * p
  <2> HIDE DEF m, p
  <2> QED
    BY <1>1, <1>2
<1>7. FailCost * (m + p) < LossCap + FailCost * n
  <2> HIDE DEF m, p, n
  <2> QED
    BY <1>2, <1>3, <1>4, <1>5, <1>6
<1> QED
  BY <1>7 DEF MeterCharged, Allowed

LEMMA NextCharged == TypeOK /\ MeterCharged /\ [Next]_vars => MeterCharged'
<1> SUFFICES ASSUME TypeOK, MeterCharged, [Next]_vars PROVE MeterCharged'
  OBVIOUS
<1> DEFINE P == {"pre_cftc", "sub_loss", "sub_cftc"}
<1>0. TypeOK'
  BY NextType
<1>1. /\ Count(log) \in Nat /\ Count(log') \in Nat /\ blind["pre_loss"] \in Nat
      /\ Cardinality(Committed) \in Nat /\ Cardinality(Committed') \in Nat
  BY CountType, CommittedType, BlindType
<1>2. ASSUME Committed' \subseteq Committed, Count(log') <= Count(log),
             blind'["pre_loss"] = blind["pre_loss"] \/ ~AtCap(log')
      PROVE  MeterCharged'
  <2>1. Cardinality(Committed') <= Cardinality(Committed)
    BY <1>2, NoneEnters DEF Committed
  <2>2. CASE blind'["pre_loss"] = blind["pre_loss"]
    <3>1. blind'["pre_loss"] = blind["pre_loss"] + 0
      BY <1>1, <2>2
    <3> QED
      BY <1>0, <1>1, <1>2, <2>1, <3>1, LightStep
  <2> QED
    BY <1>0, <1>2, <2>2, BelowCap
<1>3. ASSUME NEW c \in Caller, NEW t \in Ticker, Consider(c, t) PROVE MeterCharged'
  <2>1. Committed' \subseteq Committed /\ log' = log /\ blind' = blind
    BY <1>3 DEF Consider, Goto, Committed, At, TypeOK
  <2> QED
    BY <1>1, <1>2, <2>1
<1>4. ASSUME NEW c \in Caller, PassesLoss(c) PROVE MeterCharged'
  <2>1. ~AtCap(log')
    BY <1>4 DEF PassesLoss
  <2> QED
    BY <1>0, <2>1, BelowCap
<1>12. ASSUME NEW c \in Caller, PassesLossUnread(c) PROVE MeterCharged'
  <2>1. CASE pc[c] = "pre_loss"
    <3>1. log' = log /\ blind'["pre_loss"] = blind["pre_loss"] + 1 /\ Goto(c, "pre_cftc")
      BY <1>12, <2>1 DEF PassesLossUnread, TypeOK, Checks
    <3>2. Committed' = Committed \cup {c} /\ c \notin Committed
      BY <2>1, <3>1 DEF Goto, Committed, At, TypeOK
    <3>3. Cardinality(Committed') = Cardinality(Committed) + 1
      BY <3>2, AtFinite, FS_AddElement DEF Committed
    <3> QED
      BY <1>0, <1>1, <3>1, <3>3, LightStep
  <2>2. CASE pc[c] # "pre_loss"
    <3>1. /\ log' = log /\ blind'["pre_loss"] = blind["pre_loss"]
          /\ pc[c] = "sub_loss" /\ Goto(c, "sub_cftc")
      BY <1>12, <2>2 DEF PassesLossUnread, TypeOK, Checks
    <3>2. Committed' \subseteq Committed
      BY <3>1 DEF Goto, Committed, At, TypeOK
    <3> QED
      BY <1>1, <1>2, <3>1, <3>2
  <2> QED
    BY <2>1, <2>2
<1>13. ASSUME NEW c \in Caller, SubmissionRaises(c) PROVE MeterCharged'
  <2>1. Committed' \subseteq Committed /\ log' = log /\ blind' = blind
    BY <1>13 DEF SubmissionRaises, Goto, Committed, At, TypeOK
  <2> QED
    BY <1>1, <1>2, <2>1
<1>5. ASSUME NEW c \in Caller, PrecheckRefuses(c) PROVE MeterCharged'
  <2>1. Committed' \subseteq Committed /\ log' = log /\ blind' = blind
    BY <1>5 DEF PrecheckRefuses, Goto, Committed, At, TypeOK
  <2> QED
    BY <1>1, <1>2, <2>1
<1>6. ASSUME NEW c \in Caller, Rejected(c) PROVE MeterCharged'
  <2>1. /\ Goto(c, "idle") /\ pc[c] \in P /\ log' = Push("rejected")
        /\ blind' = blind \/ ~AtCap(log')
    BY <1>6 DEF Rejected, Append
  <2>2. Cardinality(Committed') = Cardinality(Committed) - 1
    BY <2>1, Leaves DEF Committed
  <2>3. Count(log') <= Count(log) + 1
    BY <2>1, PushCounts
  <2>4. CASE blind' = blind
    <3>1. blind'["pre_loss"] = blind["pre_loss"] + 0
      BY <1>1, <2>4
    <3> QED
      BY <1>0, <1>1, <2>2, <2>3, <3>1, LightStep
  <2> QED
    BY <1>0, <2>1, <2>4, BelowCap
<1>7. ASSUME NEW c \in Caller, NEW stake \in Stakes, PrecheckPasses(c, stake) PROVE MeterCharged'
  <2>1. Committed' \subseteq Committed /\ log' = log /\ blind' = blind
    BY <1>7 DEF PrecheckPasses, Goto, Committed, At, TypeOK
  <2> QED
    BY <1>1, <1>2, <2>1
<1>8. ASSUME NEW c \in Caller, NEW stake \in Stakes, Submitted(c, stake) PROVE MeterCharged'
  <2>1. /\ Committed' \subseteq Committed /\ log' = Push("other")
        /\ blind' = blind \/ ~AtCap(log')
    BY <1>8 DEF Submitted, Append, Goto, Committed, At, TypeOK
  <2> QED
    BY <1>2, <2>1, PushCounts
<1>9. CASE OtherEvent
  <2>1. /\ Committed' = Committed /\ log' = Push("other")
        /\ blind' = blind \/ ~AtCap(log')
    BY <1>9 DEF OtherEvent, Append, Committed, At
  <2> QED
    BY <1>2, <2>1, PushCounts
<1>10. CASE UtcMidnight
  BY <1>0, <1>10, MidnightUnlocks, BelowCap
<1>11. ASSUME LocalMidnight \/ RiskMetrics \/ Restart \/ UNCHANGED vars PROVE MeterCharged'
  <2>1. Committed' \subseteq Committed /\ log' = log /\ blind' = blind
    BY <1>11 DEF LocalMidnight, RiskMetrics, Restart, vars, Committed, At
  <2> QED
    BY <1>1, <1>2, <2>1
<1> QED
  BY <1>3, <1>4, <1>5, <1>6, <1>7, <1>8, <1>9, <1>10, <1>11, <1>12, <1>13 DEF Next

(***************************************************************************)
(* The meter passes the cap by less than one rejection per thread and      *)
(* failed read: the lockout does not feed on its own rejections.           *)
(***************************************************************************)
THEOREM MeterIsBounded == Spec => []MeterBounded
<1>1. Init => MeterCharged
  <2> SUFFICES ASSUME Init PROVE MeterCharged
    OBVIOUS
  <2>1. Committed = {} /\ blind["pre_loss"] = 0
    BY DEF Init, Committed, At, NoneBlind, Checks
  <2>2. Count(log) = 0 /\ Cardinality(Committed) = 0
    BY <2>1, InitCount, FS_EmptySet
  <2>3. Cardinality(Caller) \in Nat /\ Cardinality(Caller) + 0 = Cardinality(Caller)
    BY GateAssumption, FS_CardinalityType
  <2>4. FailCost * Cardinality(Caller) \in Nat /\ LossCap \in Nat \ {0} /\ FailCost * 0 = 0
    BY <2>3, GateAssumption, LossGrows
  <2> QED
    BY <2>1, <2>2, <2>3, <2>4 DEF MeterCharged, Allowed
<1>2. TypeOK /\ MeterCharged => MeterBounded
  <2> SUFFICES ASSUME TypeOK, MeterCharged PROVE LossOf(log) < LossCap + Allowed
    BY DEF MeterBounded, Allowed
  <2> DEFINE m == Count(log)
             n == Count(log) + Cardinality(Committed)
             cap == LossCap + Allowed
  <2>1. m \in Nat /\ n \in Nat /\ m <= n
    BY CountType, AtFinite DEF Committed
  <2>2. FailCost * m <= FailCost * n /\ FailCost * m \in Nat /\ FailCost * n \in Nat
    BY <2>1, LossGrows
  <2>3. cap \in Nat
    <3>1. Cardinality(Caller) + blind["pre_loss"] \in Nat
      BY BlindType, CommittedType
    <3>2. Allowed \in Nat
      BY <3>1, LossGrows DEF Allowed
    <3> QED
      BY <3>2, GateAssumption
  <2>4. FailCost * n < cap /\ LossOf(log) = FailCost * m
    BY LossIs DEF MeterCharged
  <2> HIDE DEF m, n, cap
  <2>5. LossOf(log) < cap
    BY <2>2, <2>3, <2>4
  <2> QED
    BY <2>5 DEF cap
<1> QED
  BY <1>1, <1>2, InitType, NextType, NextCharged, PTL DEF Spec

-----------------------------------------------------------------------------
(***************************************************************************)
(* LateTradesBounded: while the meter is at the cap nobody joins those who *)
(* passed the submission's M06 but by a failed read, so each of them has   *)
(* one trade left.  The step that reaches the cap takes one caller out of  *)
(* them.                                                                   *)
(***************************************************************************)
Cleared == At({"sub_cftc"})
LateCounted ==
  IF AtCap(log) THEN late + Cardinality(Cleared) < Cardinality(Caller) + blind["sub_loss"]
                ELSE late = 0 /\ blind = NoneBlind

\* The meter is not raised, no trade goes out, nobody is cleared.
LEMMA QuietStep ==
  ASSUME TypeOK, LateCounted, Count(log') <= Count(log), Cleared' \subseteq Cleared,
         late' = IF AtCap(log') THEN late ELSE 0,
         blind' = IF AtCap(log') THEN blind ELSE NoneBlind
  PROVE  LateCounted'
<1>1. CASE AtCap(log')
  <2>1. AtCap(log)
    BY <1>1, MeterFalls
  <2>2. Cardinality(Cleared') <= Cardinality(Cleared) /\ Cardinality(Cleared') \in Nat
    BY NoneEnters DEF Cleared
  <2>3. /\ late \in Nat /\ Cardinality(Cleared) \in Nat /\ Cardinality(Caller) \in Nat
        /\ blind["sub_loss"] \in Nat
    BY AtFinite, BlindType DEF TypeOK, Cleared
  <2>4. late + Cardinality(Cleared') < Cardinality(Caller) + blind["sub_loss"]
    BY <2>1, <2>2, <2>3 DEF LateCounted
  <2> QED
    BY <1>1, <2>4 DEF LateCounted
<1> QED
  BY <1>1 DEF LateCounted

LEMMA NextLate == TypeOK /\ LateCounted /\ [Next]_vars => LateCounted'
<1> SUFFICES ASSUME TypeOK, LateCounted, [Next]_vars PROVE LateCounted'
  OBVIOUS
<1>1. /\ Count(log) \in Nat /\ late \in Nat /\ blind["sub_loss"] \in Nat
      /\ Cardinality(Cleared) \in Nat /\ Cardinality(Caller) \in Nat
  BY CountType, AtFinite, BlindType DEF Cleared, TypeOK
<1>2. ASSUME UNCHANGED <<log, late, blind>>, Cleared' \subseteq Cleared PROVE LateCounted'
  <2>1. /\ late' = IF AtCap(log') THEN late ELSE 0
        /\ blind' = IF AtCap(log') THEN blind ELSE NoneBlind
    BY <1>2 DEF LateCounted
  <2> QED
    BY <1>1, <1>2, <2>1, QuietStep
<1>3. ASSUME NEW c \in Caller, NEW t \in Ticker, Consider(c, t) PROVE LateCounted'
  <2>1. Cleared' \subseteq Cleared
    BY <1>3 DEF Consider, Goto, Cleared, At, TypeOK
  <2> QED
    BY <1>2, <1>3, <2>1 DEF Consider
<1>4. ASSUME NEW c \in Caller, PassesLoss(c) PROVE LateCounted'
  <2>1. ~AtCap(log') /\ late' = late /\ late = 0 /\ blind' = blind /\ blind = NoneBlind
    BY <1>4 DEF PassesLoss, LateCounted
  <2> QED
    BY <2>1 DEF LateCounted
<1>12. ASSUME NEW c \in Caller, PassesLossUnread(c) PROVE LateCounted'
  <2>1. CASE pc[c] = "sub_loss"
    <3>1. /\ AtCap(log) /\ log' = log /\ late' = late /\ Goto(c, "sub_cftc")
          /\ blind'["sub_loss"] = blind["sub_loss"] + 1
      BY <1>12, <2>1 DEF PassesLossUnread, TypeOK, Checks
    <3>2. Cleared' = Cleared \cup {c} /\ c \notin Cleared
      BY <2>1, <3>1 DEF Goto, Cleared, At, TypeOK
    <3>3. Cardinality(Cleared') = Cardinality(Cleared) + 1
      BY <3>2, AtFinite, FS_AddElement DEF Cleared
    <3>4. late' + Cardinality(Cleared') < Cardinality(Caller) + blind'["sub_loss"]
      BY <1>1, <3>1, <3>3 DEF LateCounted
    <3> QED
      BY <3>1, <3>4 DEF LateCounted
  <2>2. CASE pc[c] # "sub_loss"
    <3>1. /\ AtCap(log) /\ log' = log /\ late' = late /\ Goto(c, "pre_cftc")
          /\ blind'["sub_loss"] = blind["sub_loss"]
      BY <1>12, <2>2 DEF PassesLossUnread, TypeOK, Checks
    <3>2. Cleared' \subseteq Cleared
      BY <3>1 DEF Goto, Cleared, At, TypeOK
    <3>3. Cardinality(Cleared') <= Cardinality(Cleared) /\ Cardinality(Cleared') \in Nat
      BY <3>2, NoneEnters DEF Cleared
    <3>4. late' + Cardinality(Cleared') < Cardinality(Caller) + blind'["sub_loss"]
      BY <1>1, <3>1, <3>3 DEF LateCounted
    <3> QED
      BY <3>1, <3>4 DEF LateCounted
  <2> QED
    BY <2>1, <2>2
<1>13. ASSUME NEW c \in Caller, SubmissionRaises(c) PROVE LateCounted'
  <2>1. Cleared' \subseteq Cleared
    BY <1>13 DEF SubmissionRaises, Goto, Cleared, At, TypeOK
  <2> QED
    BY <1>2, <1>13, <2>1 DEF SubmissionRaises
<1>5. ASSUME NEW c \in Caller, PrecheckRefuses(c) PROVE LateCounted'
  <2>1. Cleared' \subseteq Cleared
    BY <1>5 DEF PrecheckRefuses, Goto, Cleared, At, TypeOK
  <2> QED
    BY <1>2, <1>5, <2>1 DEF PrecheckRefuses
<1>6. ASSUME NEW c \in Caller, NEW stake \in Stakes, PrecheckPasses(c, stake) PROVE LateCounted'
  <2>1. Cleared' \subseteq Cleared
    BY <1>6 DEF PrecheckPasses, Goto, Cleared, At, TypeOK
  <2> QED
    BY <1>2, <1>6, <2>1 DEF PrecheckPasses
<1>7. ASSUME NEW c \in Caller, NEW stake \in Stakes, Submitted(c, stake) PROVE LateCounted'
  <2>1. /\ log' = Push("other") /\ late' = IF AtCap(log') THEN late + 1 ELSE 0
        /\ blind' = IF AtCap(log') THEN blind ELSE NoneBlind
        /\ Goto(c, "idle") /\ pc[c] \in {"sub_cftc"}
    BY <1>7 DEF Submitted, Append
  <2>2. CASE AtCap(log')
    <3>1. AtCap(log)
      BY <2>1, <2>2, PushCounts, MeterFalls
    <3>2. Cardinality(Cleared') = Cardinality(Cleared) - 1
      BY <2>1, Leaves DEF Cleared
    <3>3. late' + Cardinality(Cleared') < Cardinality(Caller) + blind["sub_loss"]
      BY <1>1, <2>1, <2>2, <3>1, <3>2 DEF LateCounted
    <3> QED
      BY <2>1, <2>2, <3>3 DEF LateCounted
  <2> QED
    BY <2>1, <2>2 DEF LateCounted
<1>8. ASSUME NEW c \in Caller, Rejected(c) PROVE LateCounted'
  <2>1. /\ log' = Push("rejected") /\ late' = IF AtCap(log') THEN late ELSE 0
        /\ blind' = IF AtCap(log') THEN blind ELSE NoneBlind
        /\ Goto(c, "idle")
    BY <1>1, <1>8 DEF Rejected, Append
  <2>2. Cleared' \subseteq Cleared /\ Cleared' \subseteq Caller \ {c}
    BY <2>1 DEF Goto, Cleared, At, TypeOK
  <2>3. /\ Cardinality(Cleared') \in Nat /\ Cardinality(Cleared') <= Cardinality(Cleared)
        /\ Cardinality(Cleared') < Cardinality(Caller)
    <3>1. Cardinality(Cleared') <= Cardinality(Cleared) /\ Cardinality(Cleared') \in Nat
      BY <2>2, NoneEnters DEF Cleared
    <3>2. IsFiniteSet(Caller \ {c}) /\ Cardinality(Caller \ {c}) = Cardinality(Caller) - 1
      BY GateAssumption, FS_RemoveElement
    <3>3. Cardinality(Cleared') <= Cardinality(Caller \ {c})
      BY <2>2, <3>2, FS_Subset
    <3> QED
      BY <1>1, <3>1, <3>2, <3>3
  <2>4. AtCap(log') => late + Cardinality(Cleared') < Cardinality(Caller) + blind'["sub_loss"]
    BY <1>1, <2>1, <2>3 DEF LateCounted
  <2> QED
    BY <2>1, <2>4 DEF LateCounted
<1>9. CASE OtherEvent
  <2>1. /\ log' = Push("other") /\ late' = IF AtCap(log') THEN late ELSE 0
        /\ blind' = IF AtCap(log') THEN blind ELSE NoneBlind
        /\ Cleared' = Cleared
    BY <1>1, <1>9 DEF OtherEvent, Append, Cleared, At
  <2> QED
    BY <2>1, PushCounts, QuietStep
<1>10. CASE UtcMidnight
  <2>1. ~AtCap(log') /\ late' = 0 /\ blind' = NoneBlind
    BY <1>10, MidnightUnlocks DEF UtcMidnight
  <2> QED
    BY <2>1 DEF LateCounted
<1>11. ASSUME LocalMidnight \/ RiskMetrics \/ Restart \/ UNCHANGED vars PROVE LateCounted'
  <2>1. Cleared' \subseteq Cleared /\ UNCHANGED <<log, late, blind>>
    BY <1>11 DEF LocalMidnight, RiskMetrics, Restart, vars, Cleared, At
  <2> QED
    BY <1>2, <2>1
<1> QED
  BY <1>3, <1>4, <1>5, <1>6, <1>7, <1>8, <1>9, <1>10, <1>11, <1>12, <1>13 DEF Next

(***************************************************************************)
(* While the meter stays at the cap, fewer trades go out than there are    *)
(* threads and failed reads at the second M06, for any number of threads   *)
(* and any window.                                                         *)
(***************************************************************************)
THEOREM LateTradesAreBounded == Spec => []LateTradesBounded
<1>1. Init => LateCounted
  <2> SUFFICES ASSUME Init PROVE LateCounted
    OBVIOUS
  <2>1. ~AtCap(log)
    BY InitCount, LossIs, GateAssumption DEF AtCap
  <2> QED
    BY <2>1 DEF Init, LateCounted
<1>2. TypeOK /\ LateCounted => LateTradesBounded
  <2> SUFFICES ASSUME TypeOK, LateCounted, AtCap(log) PROVE late < Cardinality(Caller) + blind["sub_loss"]
    BY DEF LateTradesBounded
  <2>1. /\ late \in Nat /\ Cardinality(Cleared) \in Nat /\ Cardinality(Caller) \in Nat
        /\ blind["sub_loss"] \in Nat
    BY AtFinite, BlindType DEF TypeOK, Cleared
  <2> QED
    BY <2>1 DEF LateCounted
<1> QED
  BY <1>1, <1>2, InitType, NextType, NextLate, PTL DEF Spec
=============================================================================
