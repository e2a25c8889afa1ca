--------------------------- MODULE JobRunsProofs ---------------------------
(***************************************************************************)
(* Proofs about JobRuns, for every set of jobs, every timetable and every  *)
(* number of stops.                                                        *)
(*                                                                         *)
(* All for any number of processes on one table: types, NoFalseSuccess and *)
(* RunningHasRunner from what a writer knows of the row (Shared);          *)
(* OncePerDay and SuccessIsFinal from what each run let in has to account  *)
(* for (Charged): a run that may still complete, or whose failure may      *)
(* still overwrite a success, shares the allowance of the completions; who *)
(* runs the chain without a row has paid for it with a failed access; and  *)
(* a day without overlaps has one run at a time and none after a success.  *)
(* One process cannot overlap with itself, which leaves it the stronger    *)
(* statements OneProcessOncePerDay and OneProcessSuccessStays.             *)
(***************************************************************************)
EXTENDS JobRuns, FiniteSetTheorems, TLAPS

LEMMA InitType == Init => TypeOK
BY JobAssumption DEF Init, TypeOK, BootStates, RunStates

LEMMA SetRunFact ==
  ASSUME TypeOK, NEW p \in Proc, NEW j \in Job, NEW state \in RunStates, SetRun(p, j, state)
  PROVE  /\ run' \in [Proc -> [Job -> RunStates]]
         /\ \A q \in Proc, i \in Job :
              run'[q][i] = IF q = p /\ i = j THEN state ELSE run[q][i]
<1>1. run' = [run EXCEPT ![p] = [run[p] EXCEPT ![j] = state]]
  BY DEF SetRun
<1>2. [run[p] EXCEPT ![j] = state] \in [Job -> RunStates]
  BY DEF TypeOK
<1> QED
  BY <1>1, <1>2 DEF TypeOK

LEMMA OverlapFact ==
  ASSUME TypeOK, NEW j \in Job \cup {CatchUp}, NEW others, CountOverlap(j, others)
  PROVE  /\ overlaps' \in [Job \cup {CatchUp} -> Nat]
         /\ \A i \in (Job \cup {CatchUp}) \ {j} : overlaps'[i] = overlaps[i]
BY DEF TypeOK, CountOverlap

LEMMA FailFact ==
  ASSUME TypeOK, NEW j \in Job \cup {CatchUp}, CountFail(j)
  PROVE  /\ fails' \in [Job \cup {CatchUp} -> 0..MaxFails]
         /\ \A i \in (Job \cup {CatchUp}) \ {j} : fails'[i] = fails[i]
         /\ fails'[j] = fails[j] + 1
<1>1. fails[j] + 1 \in 0..MaxFails
  BY JobAssumption DEF TypeOK, CountFail
<1> QED
  BY <1>1 DEF TypeOK, CountFail

LEMMA NextType == TypeOK /\ [Next]_vars => TypeOK'
<1> SUFFICES ASSUME TypeOK, [Next]_vars PROVE TypeOK'
  OBVIOUS
<1> USE JobAssumption DEF TypeOK, BootStates, RunStates, SetRow, UpdateRow, SetRun, SetBoot
<1>1. CASE Tick
  <2>1. clock' \in 0..LastSlot
    BY <1>1 DEF Tick
  <2>2. due' \in [Proc -> SUBSET Job]
    BY <1>1 DEF Tick
  <2> QED
    BY <1>1, <2>1, <2>2 DEF Tick
<1>2. ASSUME NEW p \in Proc, NEW j \in Job, Fire(p, j)
      PROVE  TypeOK'
  <2>1. run' \in [Proc -> [Job -> RunStates]]
    <3>1. CASE run[p][j] = "idle"
      <4>1. SetRun(p, j, "fired")
        BY <1>2, <3>1 DEF Fire
      <4> QED
        BY <4>1, SetRunFact
    <3>2. CASE run[p][j] # "idle"
      BY <1>2, <3>2 DEF Fire
    <3> QED
      BY <3>1, <3>2
  <2>2. due' \in [Proc -> SUBSET Job]
    BY <1>2 DEF Fire
  <2> QED
    BY <1>2, <2>1, <2>2 DEF Fire
<1>3. ASSUME NEW p \in Proc, NEW j \in Job, SelectTurnsAway(p, j)
      PROVE  TypeOK'
  BY <1>3 DEF SelectTurnsAway
<1>4. ASSUME NEW p \in Proc, NEW j \in Job, SelectLetsIn(p, j)
      PROVE  TypeOK'
  <2>1. overlaps' \in [Job \cup {CatchUp} -> Nat]
    BY <1>4, OverlapFact DEF SelectLetsIn
  <2> QED
    BY <1>4, <2>1 DEF SelectLetsIn
<1>5. ASSUME NEW p \in Proc, NEW j \in Job, ReplaceRow(p, j)
      PROVE  TypeOK'
  BY <1>5 DEF ReplaceRow
<1>6. ASSUME NEW p \in Proc, NEW j \in Job, BodyCompletes(p, j)
      PROVE  TypeOK'
  BY <1>6 DEF BodyCompletes
<1>7. ASSUME NEW p \in Proc, NEW j \in Job, BodyRetries(p, j)
      PROVE  TypeOK'
  BY <1>7 DEF BodyRetries
<1>8. ASSUME NEW p \in Proc, NEW j \in Job, BodyFails(p, j)
      PROVE  TypeOK'
  BY <1>8 DEF BodyFails
<1>9. ASSUME NEW p \in Proc, NEW j \in Job, FinishJob(p, j)
      PROVE  TypeOK'
  BY <1>9 DEF FinishJob
<1>14. ASSUME NEW p \in Proc, NEW j \in Job, StartJobRaises(p, j)
       PROVE  TypeOK'
  BY <1>14 DEF StartJobRaises
<1>15. ASSUME NEW p \in Proc, NEW j \in Job, FinishJobRaises(p, j)
       PROVE  TypeOK'
  <2>1. fails' \in [Job \cup {CatchUp} -> 0..MaxFails]
    BY <1>15, FailFact DEF FinishJobRaises
  <2> QED
    BY <1>15, <2>1 DEF FinishJobRaises
<1>10. ASSUME NEW p \in Proc, Start(p)
       PROVE  TypeOK'
  BY <1>10 DEF Start
<1>11. ASSUME NEW p \in Proc, BootStep(p)
       PROVE  TypeOK'
  <2>1. CASE CatchUpSelect(p)
    <3>1. overlaps' \in [Job \cup {CatchUp} -> Nat]
      BY <2>1, OverlapFact DEF CatchUpSelect
    <3>2. \E state \in BootStates : SetBoot(p, state)
      BY <2>1 DEF CatchUpSelect
    <3> QED
      BY <2>1, <3>1, <3>2 DEF CatchUpSelect
  <2>2. CASE CatchUpReplace(p) \/ CatchUpFinish(p)
    BY <2>2 DEF CatchUpReplace, CatchUpFinish
  <2>3. CASE CatchUpAbandoned(p)
    BY <2>3 DEF CatchUpAbandoned
  <2>5. CASE CatchUpBody(p)
    <3>1. caught' \in Nat
      BY <2>5 DEF CatchUpBody
    <3> QED
      BY <2>5, <3>1 DEF CatchUpBody
  <2>4. CASE CatchUpUnguarded(p) \/ CatchUpUnrecorded(p)
    <3>1. fails' \in [Job \cup {CatchUp} -> 0..MaxFails]
      BY <2>4, FailFact DEF CatchUpUnguarded, CatchUpUnrecorded
    <3> QED
      BY <2>4, <3>1 DEF CatchUpUnguarded, CatchUpUnrecorded
  <2> QED
    BY <1>11, <2>1, <2>2, <2>3, <2>4, <2>5 DEF BootStep
<1>12. ASSUME NEW p \in Proc, Stop(p)
       PROVE  TypeOK'
  BY <1>12 DEF Stop
<1>13. CASE UNCHANGED vars
  BY <1>13 DEF vars
<1> QED
  BY <1>1, <1>2, <1>3, <1>4, <1>5, <1>6, <1>7, <1>8, <1>9, <1>10, <1>11, <1>12, <1>13,
     <1>14, <1>15
  DEF Next, JobStep

(***************************************************************************)
(* The state of the schedule keeps its types, the bound on attempts        *)
(* included.                                                               *)
(***************************************************************************)
THEOREM TypeCorrect == Spec => []TypeOK
BY InitType, NextType, PTL DEF Spec

-----------------------------------------------------------------------------
(***************************************************************************)
(* What holds of a table that several processes write.  A thread that is   *)
(* about to report success has just completed the body; and the last to    *)
(* write "running" is still there, or was killed.                          *)
(***************************************************************************)
ReportsTruly ==
  /\ \A p \in Proc, j \in Job : run[p][j] = "ok" => done[j] > 0
  /\ NoFalseSuccess

Shared == TypeOK /\ ReportsTruly /\ RunningHasRunner

LEMMA InitShared == Init => Shared
<1> SUFFICES ASSUME Init PROVE Shared
  OBVIOUS
<1>1. TypeOK
  BY InitType
<1> QED
  BY <1>1 DEF Init, Shared, ReportsTruly, NoFalseSuccess, RunningHasRunner

LEMMA NextReports == TypeOK /\ ReportsTruly /\ [Next]_vars => ReportsTruly'
<1> SUFFICES ASSUME TypeOK, ReportsTruly, [Next]_vars PROVE ReportsTruly'
  OBVIOUS
<1> USE JobAssumption DEF TypeOK, ReportsTruly, NoFalseSuccess, SetRow, UpdateRow, SetRun, SetBoot
<1>1. ASSUME NEW p \in Proc, NEW j \in Job, JobStep(p, j)
      PROVE  ReportsTruly'
  <2>1. CASE Fire(p, j) \/ SelectTurnsAway(p, j) \/ SelectLetsIn(p, j) \/ ReplaceRow(p, j)
             \/ BodyRetries(p, j) \/ BodyFails(p, j)
             \/ StartJobRaises(p, j) \/ FinishJobRaises(p, j)
    <3>1. done' = done
      BY <2>1 DEF Fire, SelectTurnsAway, SelectLetsIn, ReplaceRow, BodyRetries, BodyFails,
                  StartJobRaises, FinishJobRaises
    <3>2. \A i \in Job : row'[i] = "success" => row[i] = "success"
      BY <2>1 DEF Fire, SelectTurnsAway, SelectLetsIn, ReplaceRow, BodyRetries, BodyFails,
                  StartJobRaises, FinishJobRaises
    <3>3. \A q \in Proc, i \in Job : run'[q][i] = "ok" => run[q][i] = "ok"
      <4>1. \/ run' = run
            \/ \E state \in RunStates \ {"ok"} : SetRun(p, j, state)
        BY <2>1 DEF Fire, SelectTurnsAway, SelectLetsIn, ReplaceRow, BodyRetries,
                    BodyFails, StartJobRaises, FinishJobRaises, RunStates
      <4>2. ASSUME NEW state \in RunStates \ {"ok"}, SetRun(p, j, state)
            PROVE  \A q \in Proc, i \in Job : run'[q][i] = "ok" => run[q][i] = "ok"
        <5>1. \A q \in Proc, i \in Job :
                run'[q][i] = IF q = p /\ i = j THEN state ELSE run[q][i]
          BY <4>2, SetRunFact
        <5> QED
          BY <4>2, <5>1
      <4> QED
        BY <4>1, <4>2
    <3> QED
      BY <3>1, <3>2, <3>3
  <2>2. CASE BodyCompletes(p, j)
    BY <2>2 DEF BodyCompletes
  <2>3. CASE FinishJob(p, j)
    BY <2>3 DEF FinishJob
  <2> QED
    BY <1>1, <2>1, <2>2, <2>3 DEF JobStep
<1>2. ASSUME NEW p \in Proc, Start(p) \/ BootStep(p)
      PROVE  ReportsTruly'
  BY <1>2 DEF Start, BootStep, CatchUpSelect, CatchUpReplace, CatchUpAbandoned, CatchUpBody,
              CatchUpFinish, CatchUpUnguarded, CatchUpUnrecorded
<1>3. ASSUME NEW p \in Proc, Stop(p)
      PROVE  ReportsTruly'
  BY <1>3 DEF Stop
<1>4. CASE Tick \/ UNCHANGED vars
  BY <1>4 DEF Tick, vars
<1> QED
  BY <1>1, <1>2, <1>3, <1>4 DEF Next

LEMMA NextRunner == TypeOK /\ RunningHasRunner /\ [Next]_vars => RunningHasRunner'
<1> SUFFICES ASSUME TypeOK, RunningHasRunner, [Next]_vars PROVE RunningHasRunner'
  OBVIOUS
<1> USE JobAssumption DEF TypeOK, RunningHasRunner, SetRow, UpdateRow, SetRun, SetBoot
<1>1. ASSUME NEW p \in Proc, NEW j \in Job, JobStep(p, j)
      PROVE  RunningHasRunner'
  <2>1. CASE Fire(p, j) \/ SelectTurnsAway(p, j) \/ SelectLetsIn(p, j)
             \/ BodyRetries(p, j) \/ BodyFails(p, j) \/ BodyCompletes(p, j)
             \/ StartJobRaises(p, j)
    <3>1. kills' = kills /\ fails' = fails /\ row' = row
      BY <2>1 DEF Fire, SelectTurnsAway, SelectLetsIn, BodyRetries, BodyFails, BodyCompletes,
                  StartJobRaises
    <3>2. \A q \in Proc, i \in Job : run[q][i] \in {"body", "ok", "bad"}
                                       => run'[q][i] \in {"body", "ok", "bad"}
      <4>1. CASE BodyRetries(p, j)
        BY <4>1 DEF BodyRetries
      <4>2. CASE Fire(p, j) \/ SelectTurnsAway(p, j) \/ SelectLetsIn(p, j) \/ StartJobRaises(p, j)
        <5>1. \/ run' = run
              \/ /\ run[p][j] \in {"idle", "fired", "selected"}
                 /\ \E state \in RunStates : SetRun(p, j, state)
          BY <4>2 DEF Fire, SelectTurnsAway, SelectLetsIn, StartJobRaises, RunStates
        <5> HIDE DEF SetRun
        <5>2. \A q \in Proc, i \in Job :
                \/ run'[q][i] = run[q][i]
                \/ run[q][i] \notin {"body", "ok", "bad"}
          BY <5>1, SetRunFact
        <5> QED
          BY <5>2
      <4>3. CASE BodyFails(p, j) \/ BodyCompletes(p, j)
        <5>1. \E state \in {"ok", "bad"} : SetRun(p, j, state)
          BY <4>3 DEF BodyFails, BodyCompletes
        <5> HIDE DEF SetRun
        <5>2. \A q \in Proc, i \in Job : run'[q][i] = run[q][i] \/ run'[q][i] \in {"ok", "bad"}
          BY <5>1, SetRunFact DEF RunStates
        <5> QED
          BY <5>2
      <4> QED
        BY <2>1, <4>1, <4>2, <4>3
    <3> QED
      BY <3>1, <3>2
  <2>2. CASE ReplaceRow(p, j)
    BY <2>2 DEF ReplaceRow
  <2>3. CASE FinishJob(p, j)
    BY <2>3 DEF FinishJob
  <2>4. CASE FinishJobRaises(p, j)
    <3>1. /\ kills' = kills /\ row' = row /\ fails'[j] # 0
          /\ \A i \in Job \ {j} : fails'[i] = fails[i]
      BY <2>4, FailFact DEF FinishJobRaises
    <3>2. \A q \in Proc, i \in Job \ {j} : run'[q][i] = run[q][i]
      BY <2>4 DEF FinishJobRaises
    <3> QED
      BY <3>1, <3>2
  <2> QED
    BY <1>1, <2>1, <2>2, <2>3, <2>4 DEF JobStep
<1>2. ASSUME NEW p \in Proc, Start(p) \/ BootStep(p)
      PROVE  RunningHasRunner'
  <2>1. kills' = kills /\ run' = run /\ \A j \in Job : row'[j] = row[j]
    BY <1>2 DEF Start, BootStep, CatchUpSelect, CatchUpReplace, CatchUpAbandoned, CatchUpBody,
                CatchUpFinish, CatchUpUnguarded, CatchUpUnrecorded
  <2>2. \A j \in Job : fails'[j] = fails[j]
    <3>1. CASE CatchUpUnguarded(p) \/ CatchUpUnrecorded(p)
      <4>1. CountFail(CatchUp)
        BY <3>1 DEF CatchUpUnguarded, CatchUpUnrecorded
      <4>2. \A i \in (Job \cup {CatchUp}) \ {CatchUp} : fails'[i] = fails[i]
        BY <4>1, FailFact
      <4>3. \A j \in Job : j # CatchUp
        BY JobAssumption
      <4> QED
        BY <4>2, <4>3
    <3>2. CASE ~(CatchUpUnguarded(p) \/ CatchUpUnrecorded(p))
      <4>1. fails' = fails
        BY <1>2, <3>2 DEF Start, BootStep, CatchUpSelect, CatchUpReplace, CatchUpAbandoned,
                          CatchUpBody, CatchUpFinish
      <4> QED
        BY <4>1
    <3> QED
      BY <3>1, <3>2
  <2> QED
    BY <2>1, <2>2
<1>3. ASSUME NEW p \in Proc, Stop(p)
      PROVE  RunningHasRunner'
  <2>1. CASE InFlight(p)
    BY <1>3, <2>1 DEF Stop
  <2>2. CASE ~InFlight(p)
    <3>1. \A j \in Job : run[p][j] = "idle" /\ run'[p][j] = "idle"
      BY <1>3, <2>2 DEF Stop, InFlight
    <3>2. \A q \in Proc, j \in Job : run'[q][j] = run[q][j]
      BY <1>3, <3>1 DEF Stop
    <3>3. kills' = kills /\ fails' = fails /\ row' = row
      BY <1>3, <2>2 DEF Stop
    <3> QED
      BY <3>2, <3>3
  <2> QED
    BY <2>1, <2>2
<1>4. CASE Tick \/ UNCHANGED vars
  BY <1>4 DEF Tick, vars
<1> QED
  BY <1>1, <1>2, <1>3, <1>4 DEF Next

LEMMA SharedInvariance == Spec => []Shared
<1>1. Shared /\ [Next]_vars => Shared'
  BY NextType, NextReports, NextRunner DEF Shared
<1> QED
  BY <1>1, InitShared, PTL DEF Spec

(***************************************************************************)
(* However many schedulers write the table, and whenever they are stopped, *)
(* a row that says "success" is about a completed body.                    *)
(***************************************************************************)
THEOREM SuccessIsTrue == Spec => []NoFalseSuccess
<1>1. Shared => NoFalseSuccess
  BY DEF Shared, ReportsTruly
<1> QED
  BY <1>1, SharedInvariance, PTL

(***************************************************************************)
(* A cron row is left at "running" by a kill only.                         *)
(***************************************************************************)
THEOREM RunningIsRun == Spec => []RunningHasRunner
<1>1. Shared => RunningHasRunner
  BY DEF Shared
<1> QED
  BY <1>1, SharedInvariance, PTL

-----------------------------------------------------------------------------
(***************************************************************************)
(* Completions, charged.                                                   *)
(***************************************************************************)
Busy(j) == {p \in Proc : AtWork(p, j)}
Pending(j) == {p \in Proc : run[p][j] \in {"selected", "body", "bad"}}

Starting == {p \in Proc : CatchingUp(p)}
Chaining == {p \in Proc : boot[p] \in {"replace", "body"}}

One(condition) == IF condition THEN 1 ELSE 0

\* The runs that have not completed count like those that have; the first
\* of a day is free as long as someone is at work or the row shows it.
JobCharged(j) ==
  done[j] + Cardinality(Pending(j))
    <= kills + overlaps[j] + fails[j] + One(Busy(j) # {} \/ row[j] = "success")

\* Who runs the chain without a row has failed at the table and is charged
\* for that: only one that is to write the row, or has one, counts as the first.
Recorder ==
  \/ row[CatchUp] = "success"
  \/ row[CatchUp] = "running" /\ Starting # {}
  \/ \E p \in Starting : boot[p] = "replace"
ChainCharged ==
  caught + Cardinality(Chaining) <= kills + overlaps[CatchUp] + fails[CatchUp] + One(Recorder)

\* start_job has written the row that finish_job is to update.
HasRow(j) == \A p \in Proc : run[p][j] \in {"body", "ok", "bad"} => row[j] # "absent"

\* A day without overlaps.
OneAtATime(j) ==
  overlaps[j] = 0 => /\ \A p, q \in Busy(j) : p = q
                     /\ row[j] = "success" => Busy(j) = {}

JobInv(j) == JobCharged(j) /\ OneAtATime(j) /\ HasRow(j)

Charged ==
  /\ TypeOK /\ ChainCharged /\ row[CatchUp] # "failed"
  /\ \A j \in Job : JobInv(j)

\* Two sets that differ in p only.
LEMMA CountMove ==
  ASSUME NEW S, NEW T, NEW p, IsFiniteSet(S), S \ {p} = T \ {p}
  PROVE  /\ Cardinality(S) \in Nat /\ Cardinality(T) \in Nat
         /\ Cardinality(T) = Cardinality(S) - One(p \in S) + One(p \in T)
<1> DEFINE R == S \ {p}
<1>1. IsFiniteSet(R) /\ Cardinality(R) \in Nat /\ p \notin R
  BY FS_RemoveElement, FS_CardinalityType
<1>2. Cardinality(R \cup {p}) = Cardinality(R) + 1
  BY <1>1, FS_AddElement
<1>3. /\ p \in S => S = R \cup {p}
      /\ p \notin S => S = R
      /\ p \in T => T = R \cup {p}
      /\ p \notin T => T = R
  OBVIOUS
<1> HIDE DEF R
<1>4. Cardinality(S) = Cardinality(R) + One(p \in S)
  <2>1. CASE p \in S
    BY <1>2, <1>3, <2>1 DEF One
  <2>2. CASE p \notin S
    BY <1>1, <1>3, <2>2 DEF One
  <2> QED
    BY <2>1, <2>2
<1>5. Cardinality(T) = Cardinality(R) + One(p \in T)
  <2>1. CASE p \in T
    BY <1>2, <1>3, <2>1 DEF One
  <2>2. CASE p \notin T
    BY <1>1, <1>3, <2>2 DEF One
  <2> QED
    BY <2>1, <2>2
<1> QED
  BY <1>1, <1>4, <1>5 DEF One

LEMMA SameWithout ==
  ASSUME NEW S, NEW T, NEW p, S \ {p} = T \ {p}, p \notin S, p \notin T
  PROVE  S = T
OBVIOUS

\* A step of process p changes the sets in p only.
LEMMA OthersStay ==
  ASSUME NEW p \in Proc, NEW j \in Job, TypeOK,
         \A q \in Proc \ {p} : run'[q][j] = run[q][j]
  PROVE  /\ Busy(j)' \ {p} = Busy(j) \ {p}
         /\ Cardinality(Pending(j)) \in Nat /\ Cardinality(Pending(j)') \in Nat
         /\ Cardinality(Pending(j)')
              = Cardinality(Pending(j)) - One(p \in Pending(j)) + One(p \in Pending(j)')
<1>1. Busy(j)' \ {p} = Busy(j) \ {p}
  BY DEF Busy, AtWork
<1>2. Pending(j) \ {p} = Pending(j)' \ {p}
  BY DEF Pending
<1>3. IsFiniteSet(Pending(j))
  BY JobAssumption, FS_Subset DEF Pending
<1> QED
  BY <1>1, <1>2, <1>3, CountMove

LEMMA InitCharged == Init => Charged
<1> SUFFICES ASSUME Init PROVE Charged
  OBVIOUS
<1>1. TypeOK
  BY InitType
<1>2. Chaining = {} /\ \A j \in Job : Pending(j) = {} /\ Busy(j) = {}
  BY DEF Init, Chaining, Pending, Busy, AtWork
<1>3. Cardinality({}) = 0
  BY FS_EmptySet
<1>4. /\ caught = 0 /\ kills = 0 /\ row[CatchUp] = "absent"
      /\ \A j \in Job \cup {CatchUp} : overlaps[j] = 0 /\ fails[j] = 0
  BY DEF Init
<1>5. ChainCharged
  BY <1>2, <1>3, <1>4 DEF ChainCharged, One
<1>6. ASSUME NEW j \in Job PROVE JobInv(j)
  <2>1. done[j] = 0 /\ \A p \in Proc : run[p][j] = "idle"
    BY DEF Init
  <2> QED
    BY <1>2, <1>3, <1>4, <2>1 DEF JobInv, JobCharged, OneAtATime, HasRow, One
<1> QED
  BY <1>1, <1>4, <1>5, <1>6 DEF Charged

\* What a step leaves alone of job i.
LEMMA JobFrame ==
  ASSUME NEW i \in Job, JobInv(i), kills' = kills,
         done'[i] = done[i], overlaps'[i] = overlaps[i], fails'[i] = fails[i], row'[i] = row[i],
         Busy(i)' = Busy(i), Pending(i)' = Pending(i),
         \A p \in Proc : run'[p][i] \in {"body", "ok", "bad"} => run[p][i] \in {"body", "ok", "bad"}
  PROVE  JobInv(i)'
BY DEF JobInv, JobCharged, OneAtATime, HasRow, One

LEMMA ChainFrame ==
  ASSUME ChainCharged, kills' = kills, caught' = caught,
         overlaps'[CatchUp] = overlaps[CatchUp], fails'[CatchUp] = fails[CatchUp],
         row'[CatchUp] = row[CatchUp], Starting' = Starting, Chaining' = Chaining,
         \A p \in Starting : boot'[p] = boot[p]
  PROVE  ChainCharged'
BY DEF ChainCharged, Recorder, One

\* The job of a job step.
LEMMA StepCharged ==
  ASSUME Charged, NEW p \in Proc, NEW j \in Job, JobStep(p, j)
  PROVE  JobInv(j)'
<1> DEFINE n == Cardinality(Pending(j))
           nn == Cardinality(Pending(j)')
<1>0. /\ TypeOK /\ JobInv(j) /\ JobCharged(j) /\ OneAtATime(j) /\ HasRow(j)
      /\ done[j] \in Nat /\ kills \in Nat /\ overlaps[j] \in Nat /\ fails[j] \in Nat
  BY JobAssumption DEF Charged, JobInv, TypeOK
<1>1. ASSUME NEW state \in RunStates, SetRun(p, j, state)
      PROVE  /\ run'[p][j] = state
             /\ Busy(j)' \ {p} = Busy(j) \ {p}
             /\ n \in Nat /\ nn \in Nat
             /\ nn = n - One(p \in Pending(j)) + One(p \in Pending(j)')
  <2>1. \A q \in Proc : run'[q][j] = IF q = p THEN state ELSE run[q][j]
    BY <1>0, <1>1, SetRunFact
  <2> QED
    BY <1>0, <2>1, OthersStay
<1>2. CASE Fire(p, j)
  <2>1. CASE run[p][j] = "idle"
    <3>1. SetRun(p, j, "fired")
      BY <1>2, <2>1 DEF Fire
    <3>2. \A q \in Proc : run'[q][j] = IF q = p THEN "fired" ELSE run[q][j]
      BY <1>0, <3>1, SetRunFact DEF RunStates
    <3>3. Busy(j)' = Busy(j) /\ Pending(j)' = Pending(j)
      BY <2>1, <3>2 DEF Busy, AtWork, Pending
    <3> QED
      BY <1>0, <1>2, <3>2, <3>3, JobFrame DEF Fire
  <2>2. CASE run[p][j] # "idle"
    <3>1. Busy(j)' = Busy(j) /\ Pending(j)' = Pending(j)
      BY <1>2, <2>2 DEF Fire, Busy, AtWork, Pending
    <3> QED
      BY <1>0, <1>2, <2>2, <3>1, JobFrame DEF Fire
  <2> QED
    BY <2>1, <2>2
<1>3. CASE SelectTurnsAway(p, j)
  <2>1. \A q \in Proc : run'[q][j] = IF q = p THEN "idle" ELSE run[q][j]
    BY <1>0, <1>3, SetRunFact DEF SelectTurnsAway, RunStates
  <2>2. Busy(j)' = Busy(j) /\ Pending(j)' = Pending(j)
    BY <1>3, <2>1 DEF SelectTurnsAway, Busy, AtWork, Pending
  <2> QED
    BY <1>0, <1>3, <2>1, <2>2, JobFrame DEF SelectTurnsAway
<1>4. CASE SelectLetsIn(p, j)
  <2>1. /\ run[p][j] = "fired" /\ row[j] # "success" /\ SetRun(p, j, "selected")
        /\ CountOverlap(j, Busy(j) \ {p})
        /\ done' = done /\ kills' = kills /\ fails' = fails /\ row' = row
    BY <1>4 DEF SelectLetsIn, Busy
  <2>2. p \notin Busy(j) /\ p \notin Pending(j)
    BY <2>1 DEF Busy, AtWork, Pending
  <2>3. run'[p][j] = "selected" /\ Busy(j)' \ {p} = Busy(j) /\ n \in Nat /\ nn \in Nat
    BY <1>1, <2>1, <2>2 DEF RunStates
  <2>4. p \in Busy(j)' /\ p \in Pending(j)'
    BY <2>3 DEF Busy, AtWork, Pending
  <2>5. nn = n + 1
    BY <1>1, <2>1, <2>2, <2>3, <2>4 DEF RunStates, One
  <2>8. HasRow(j)'
    <3>1. \A q \in Proc : run'[q][j] = IF q = p THEN "selected" ELSE run[q][j]
      BY <1>0, <2>1, SetRunFact DEF RunStates
    <3> QED
      BY <1>0, <2>1, <3>1 DEF HasRow
  <2> HIDE DEF n, nn
  <2>6. CASE Busy(j) = {}
    <3>1. overlaps' = overlaps
      BY <2>1, <2>2, <2>6 DEF CountOverlap
    <3>2. done[j] + n <= kills + overlaps[j] + fails[j]
      BY <1>0, <2>1, <2>3, <2>6 DEF JobCharged, One, n
    <3>3. JobCharged(j)'
      BY <1>0, <2>1, <2>3, <2>4, <2>5, <3>1, <3>2 DEF JobCharged, One, nn
    <3>4. Busy(j)' = {p}
      BY <2>3, <2>4, <2>6
    <3> QED
      BY <2>1, <2>8, <3>3, <3>4 DEF JobInv, OneAtATime
  <2>7. CASE Busy(j) # {}
    <3>1. overlaps'[j] = overlaps[j] + 1
      BY <1>0, <2>1, <2>2, <2>7 DEF CountOverlap, TypeOK
    <3>2. done[j] + n <= kills + overlaps[j] + fails[j] + 1
      BY <1>0, <2>3, <2>7 DEF JobCharged, One, n
    <3>3. JobCharged(j)'
      BY <1>0, <2>1, <2>3, <2>4, <2>5, <3>1, <3>2 DEF JobCharged, One, nn
    <3> QED
      BY <1>0, <2>8, <3>1, <3>3 DEF JobInv, OneAtATime
  <2> QED
    BY <2>6, <2>7
<1>5. CASE ReplaceRow(p, j) \/ BodyRetries(p, j)
  <2>1. /\ \A q \in Proc : run'[q][j] = IF q = p /\ ReplaceRow(p, j) THEN "body" ELSE run[q][j]
        /\ ReplaceRow(p, j) => run[p][j] = "selected"
    <3>1. CASE ReplaceRow(p, j)
      BY <1>0, <3>1, SetRunFact DEF ReplaceRow, RunStates
    <3>2. CASE ~ReplaceRow(p, j)
      BY <1>5, <3>2 DEF BodyRetries
    <3> QED
      BY <3>1, <3>2
  <2>2. Busy(j)' = Busy(j) /\ Pending(j)' = Pending(j) /\ p \in Busy(j)
    <3>1. run[p][j] \in {"selected", "body"}
      BY <1>5 DEF ReplaceRow, BodyRetries
    <3> QED
      BY <2>1, <3>1 DEF Busy, AtWork, Pending
  <2>3. /\ done' = done /\ kills' = kills /\ overlaps' = overlaps /\ fails' = fails
        /\ \/ row'[j] = "running"
           \/ row'[j] = row[j] /\ ~ReplaceRow(p, j)
    BY <1>0, <1>5 DEF ReplaceRow, BodyRetries, SetRow, TypeOK
  <2>4. HasRow(j)'
    BY <1>0, <2>1, <2>3 DEF HasRow
  <2> QED
    BY <1>0, <2>2, <2>3, <2>4 DEF JobInv, JobCharged, OneAtATime, One
<1>6. CASE BodyCompletes(p, j)
  <2>1. /\ run[p][j] = "body" /\ SetRun(p, j, "ok") /\ done'[j] = done[j] + 1
        /\ kills' = kills /\ overlaps' = overlaps /\ fails' = fails /\ row' = row
    BY <1>0, <1>6 DEF BodyCompletes, TypeOK
  <2>2. p \in Busy(j) /\ p \in Pending(j)
    BY <2>1 DEF Busy, AtWork, Pending
  <2>3. run'[p][j] = "ok" /\ Busy(j)' \ {p} = Busy(j) \ {p} /\ n \in Nat /\ nn \in Nat
    BY <1>1, <2>1 DEF RunStates
  <2>4. p \in Busy(j)' /\ p \notin Pending(j)'
    BY <2>3 DEF Busy, AtWork, Pending
  <2>5. nn = n - 1
    BY <1>1, <2>1, <2>2, <2>3, <2>4 DEF RunStates, One
  <2>6. Busy(j)' = Busy(j)
    BY <2>2, <2>3, <2>4
  <2>8. HasRow(j)'
    <3>1. \A q \in Proc : run'[q][j] = IF q = p THEN "ok" ELSE run[q][j]
      BY <1>0, <2>1, SetRunFact DEF RunStates
    <3> QED
      BY <1>0, <2>1, <3>1 DEF HasRow
  <2> HIDE DEF n, nn
  <2>7. JobCharged(j)'
    BY <1>0, <2>1, <2>3, <2>5, <2>6 DEF JobCharged, One, n, nn
  <2> QED
    BY <1>0, <2>1, <2>6, <2>7, <2>8 DEF JobInv, OneAtATime
<1>7. CASE BodyFails(p, j)
  <2>1. \A q \in Proc : run'[q][j] = IF q = p THEN "bad" ELSE run[q][j]
    BY <1>0, <1>7, SetRunFact DEF BodyFails, RunStates
  <2>2. Busy(j)' = Busy(j) /\ Pending(j)' = Pending(j)
    BY <1>7, <2>1 DEF BodyFails, Busy, AtWork, Pending
  <2>3. \A q \in Proc : run'[q][j] \in {"body", "ok", "bad"} => run[q][j] \in {"body", "ok", "bad"}
    BY <1>7, <2>1 DEF BodyFails
  <2> QED
    BY <1>0, <1>7, <2>2, <2>3, JobFrame DEF BodyFails
<1>8. CASE FinishJob(p, j)
  <2>1. /\ run[p][j] \in {"ok", "bad"} /\ SetRun(p, j, "idle")
        /\ done' = done /\ kills' = kills /\ overlaps' = overlaps /\ fails' = fails
        /\ row'[j] = IF run[p][j] = "ok" THEN "success" ELSE "failed"
    BY <1>0, <1>8 DEF FinishJob, UpdateRow, SetRow, HasRow, TypeOK
  <2>2. p \in Busy(j) /\ (p \in Pending(j) <=> run[p][j] = "bad")
    BY <2>1 DEF Busy, AtWork, Pending
  <2>3. run'[p][j] = "idle" /\ Busy(j)' \ {p} = Busy(j) \ {p} /\ n \in Nat /\ nn \in Nat
    BY <1>1, <2>1 DEF RunStates
  <2>4. p \notin Busy(j)' /\ p \notin Pending(j)'
    BY <2>3 DEF Busy, AtWork, Pending
  <2>5. nn = IF run[p][j] = "ok" THEN n ELSE n - 1
    BY <1>1, <2>1, <2>2, <2>4 DEF RunStates, One
  <2> HIDE DEF n, nn
  <2>6. done[j] + n <= kills + overlaps[j] + fails[j] + 1
    BY <1>0, <2>2, <2>3 DEF JobCharged, One, n
  <2>7. JobCharged(j)'
    BY <1>0, <2>1, <2>3, <2>5, <2>6 DEF JobCharged, One, nn
  <2>8. overlaps[j] = 0 => Busy(j)' = {}
    BY <1>0, <2>2, <2>3, <2>4 DEF OneAtATime
  <2>9. HasRow(j)'
    BY <2>1 DEF HasRow
  <2> QED
    BY <2>1, <2>7, <2>8, <2>9 DEF JobInv, OneAtATime
<1>9. CASE StartJobRaises(p, j) \/ FinishJobRaises(p, j)
  <2>1. /\ SetRun(p, j, "idle") /\ done' = done /\ kills' = kills /\ overlaps' = overlaps
        /\ row' = row /\ fails'[j] \in {fails[j], fails[j] + 1}
        /\ \/ run[p][j] = "fired" /\ fails' = fails
           \/ run[p][j] = "selected"
           \/ run[p][j] \in {"ok", "bad"} /\ fails'[j] = fails[j] + 1
    BY <1>0, <1>9, FailFact DEF StartJobRaises, FinishJobRaises
  <2>2. \A q \in Proc : run'[q][j] = IF q = p THEN "idle" ELSE run[q][j]
    BY <1>0, <2>1, SetRunFact DEF RunStates
  <2>3. /\ Busy(j)' \ {p} = Busy(j) \ {p} /\ n \in Nat /\ nn \in Nat
        /\ nn = n - One(p \in Pending(j)) + One(p \in Pending(j)')
    BY <1>1, <2>1 DEF RunStates
  <2>4. p \notin Busy(j)' /\ p \notin Pending(j)'
    BY <2>2 DEF Busy, AtWork, Pending
  <2>5. HasRow(j)'
    BY <1>0, <2>1, <2>2 DEF HasRow
  <2>6. nn = IF p \in Pending(j) THEN n - 1 ELSE n
    BY <2>3, <2>4 DEF One
  <2>7. /\ run[p][j] = "fired" => p \notin Pending(j) /\ p \notin Busy(j)
        /\ run[p][j] = "selected" => p \in Pending(j)
    BY DEF Busy, AtWork, Pending
  <2> HIDE DEF n, nn
  <2>8. JobCharged(j)'
    <3>1. CASE run[p][j] = "fired"
      <4>1. Busy(j)' = Busy(j) /\ nn = n /\ fails' = fails
        BY <2>1, <2>3, <2>4, <2>6, <2>7, <3>1, SameWithout
      <4> QED
        BY <1>0, <2>1, <4>1 DEF JobCharged, One, n, nn
    <3>2. CASE run[p][j] # "fired"
      <4>1. nn + fails[j] + 1 <= n + fails'[j] \/ nn + 1 <= n
        BY <1>0, <2>1, <2>3, <2>6, <2>7, <3>2
      <4>2. nn + fails[j] + 1 <= n + fails'[j]
        BY <1>0, <2>1, <2>3, <4>1
      <4>3. fails'[j] \in Nat
        BY <1>0, <2>1
      <4>4. done[j] + n <= kills + overlaps[j] + fails[j] + One(Busy(j) # {} \/ row[j] = "success")
        BY <1>0 DEF JobCharged, n
      <4>5. done[j] + nn <= kills + overlaps[j] + fails'[j]
        BY <1>0, <2>3, <4>2, <4>3, <4>4 DEF One
      <4> QED
        BY <1>0, <2>1, <2>3, <4>3, <4>5 DEF JobCharged, One, nn
    <3> QED
      BY <3>1, <3>2
  <2>9. Busy(j)' \subseteq Busy(j)
    BY <2>3, <2>4
  <2>10. OneAtATime(j)'
    BY <1>0, <2>1, <2>9 DEF OneAtATime
  <2> QED
    BY <2>5, <2>8, <2>10 DEF JobInv
<1> QED
  BY <1>2, <1>3, <1>4, <1>5, <1>6, <1>7, <1>8, <1>9 DEF JobStep

\* Every other job of a job step, and the chain.
LEMMA StepSpares ==
  ASSUME Charged, NEW p \in Proc, NEW j \in Job, JobStep(p, j)
  PROVE  /\ \A i \in Job \ {j} : JobInv(i)'
         /\ ChainCharged' /\ row'[CatchUp] # "failed"
<1>0. TypeOK /\ ChainCharged /\ CatchUp # j /\ row[CatchUp] # "failed"
  BY JobAssumption DEF Charged
<1>1. /\ kills' = kills /\ caught' = caught /\ boot' = boot
      /\ \A i \in (Job \cup {CatchUp}) \ {j} : row'[i] = row[i]
      /\ \A i \in Job \ {j} : done'[i] = done[i]
  BY <1>0 DEF JobStep, Fire, SelectTurnsAway, SelectLetsIn, ReplaceRow, BodyCompletes,
              BodyRetries, BodyFails, FinishJob, StartJobRaises, FinishJobRaises, UpdateRow,
              SetRow, TypeOK
<1>2. \A i \in (Job \cup {CatchUp}) \ {j} : overlaps'[i] = overlaps[i] /\ fails'[i] = fails[i]
  <2>1. CASE SelectLetsIn(p, j)
    BY <1>0, <2>1, OverlapFact DEF SelectLetsIn
  <2>2. CASE FinishJobRaises(p, j)
    BY <1>0, <2>2, FailFact DEF FinishJobRaises
  <2>3. CASE ~SelectLetsIn(p, j) /\ ~FinishJobRaises(p, j)
    BY <2>3 DEF JobStep, Fire, SelectTurnsAway, ReplaceRow, BodyCompletes, BodyRetries,
                BodyFails, FinishJob, StartJobRaises
  <2> QED
    BY <2>1, <2>2, <2>3
<1>3. \A q \in Proc, i \in Job \ {j} : run'[q][i] = run[q][i]
  <2>1. run' = run \/ \E state \in RunStates : SetRun(p, j, state)
    BY DEF JobStep, Fire, SelectTurnsAway, SelectLetsIn, ReplaceRow, BodyCompletes,
           BodyRetries, BodyFails, FinishJob, StartJobRaises, FinishJobRaises, RunStates
  <2> QED
    BY <1>0, <2>1, SetRunFact
<1>4. ChainCharged'
  BY <1>0, <1>1, <1>2, ChainFrame DEF Starting, Chaining, CatchingUp
<1>5. ASSUME NEW i \in Job \ {j} PROVE JobInv(i)'
  <2>1. Busy(i)' = Busy(i) /\ Pending(i)' = Pending(i)
    BY <1>3 DEF Busy, Pending, AtWork
  <2> QED
    BY <1>1, <1>2, <1>3, <2>1, JobFrame DEF Charged
<1> QED
  BY <1>0, <1>1, <1>4, <1>5

\* A start step is no business of the jobs.
LEMMA BootSpares ==
  ASSUME Charged, NEW p \in Proc, Start(p) \/ BootStep(p)
  PROVE  \A i \in Job : JobInv(i)'
<1>0. TypeOK /\ CatchUp \notin Job
  BY JobAssumption DEF Charged
<1>1. kills' = kills /\ done' = done /\ run' = run /\ \A i \in Job : row'[i] = row[i]
  BY <1>0 DEF Start, BootStep, CatchUpSelect, CatchUpReplace, CatchUpAbandoned, CatchUpBody,
              CatchUpFinish, CatchUpUnguarded, CatchUpUnrecorded, UpdateRow, SetRow, TypeOK
<1>2. \A i \in Job : overlaps'[i] = overlaps[i] /\ fails'[i] = fails[i]
  <2>1. CASE CatchUpSelect(p)
    BY <1>0, <2>1, OverlapFact DEF CatchUpSelect
  <2>2. CASE CatchUpUnguarded(p) \/ CatchUpUnrecorded(p)
    BY <1>0, <2>2, FailFact DEF CatchUpUnguarded, CatchUpUnrecorded
  <2>3. CASE ~(CatchUpSelect(p) \/ CatchUpUnguarded(p) \/ CatchUpUnrecorded(p))
    BY <2>3 DEF Start, BootStep, CatchUpReplace, CatchUpAbandoned, CatchUpBody, CatchUpFinish
  <2> QED
    BY <2>1, <2>2, <2>3
<1> SUFFICES ASSUME NEW i \in Job PROVE JobInv(i)'
  OBVIOUS
<1>3. Busy(i)' = Busy(i) /\ Pending(i)' = Pending(i)
  BY <1>1 DEF Busy, Pending, AtWork
<1> QED
  BY <1>1, <1>2, <1>3, JobFrame DEF Charged

LEMMA ChainStep ==
  ASSUME Charged, NEW p \in Proc, Start(p) \/ BootStep(p)
  PROVE  ChainCharged' /\ row'[CatchUp] # "failed"
<1> DEFINE n == Cardinality(Chaining)
           nn == Cardinality(Chaining')
<1>0. /\ TypeOK /\ ChainCharged /\ row[CatchUp] # "failed"
      /\ row[CatchUp] \in {"absent", "running", "success", "failed"}
      /\ caught \in Nat /\ kills \in Nat /\ overlaps[CatchUp] \in Nat /\ fails[CatchUp] \in Nat
  BY DEF Charged, TypeOK
<1>1. /\ kills' = kills
      /\ \A q \in Proc \ {p} : boot'[q] = boot[q]
  BY <1>0 DEF Start, BootStep, CatchUpSelect, CatchUpReplace, CatchUpAbandoned, CatchUpBody,
              CatchUpFinish, CatchUpUnguarded, CatchUpUnrecorded, SetBoot, TypeOK
<1>2. /\ Starting' \ {p} = Starting \ {p}
      /\ n \in Nat /\ nn \in Nat
      /\ nn = n - One(p \in Chaining) + One(p \in Chaining')
  <2>1. Starting' \ {p} = Starting \ {p}
    BY <1>1 DEF Starting, CatchingUp
  <2>2. Chaining \ {p} = Chaining' \ {p}
    BY <1>1 DEF Chaining
  <2>3. IsFiniteSet(Chaining)
    BY JobAssumption, FS_Subset DEF Chaining
  <2> QED
    BY <2>1, <2>2, <2>3, CountMove
<1>3. ASSUME boot[p] \in {"off", "select"}, boot'[p] = "serving" \/ boot'[p] = "select",
             UNCHANGED <<row, caught, overlaps, fails>>
      PROVE  ChainCharged'
  <2>1. Starting' = Starting /\ Chaining' = Chaining
    BY <1>1, <1>3 DEF Starting, Chaining, CatchingUp
  <2>2. \A q \in Starting : boot'[q] = boot[q]
    BY <1>1, <1>3 DEF Starting, CatchingUp
  <2> QED
    BY <1>0, <1>1, <1>3, <2>1, <2>2, ChainFrame
<1>4. CASE Start(p)
  <2>1. boot[p] = "off" /\ (boot'[p] = "select" \/ boot'[p] = "serving")
    BY <1>0, <1>4 DEF Start, SetBoot, TypeOK
  <2> QED
    BY <1>0, <1>3, <1>4, <2>1 DEF Start
<1>5. CASE CatchUpSelect(p)
  <2>1. CASE row[CatchUp] = "success"
    <3>1. boot[p] = "select" /\ boot'[p] = "serving" /\ UNCHANGED <<row, caught, overlaps, fails>>
      BY <1>0, <1>5, <2>1 DEF CatchUpSelect, SetBoot, TypeOK
    <3> QED
      BY <1>0, <1>3, <3>1
  <2>2. CASE row[CatchUp] # "success"
    <3>1. /\ boot[p] = "select" /\ boot'[p] = "replace" /\ row' = row /\ caught' = caught
          /\ fails' = fails /\ CountOverlap(CatchUp, Starting \ {p})
      BY <1>0, <1>5, <2>2 DEF CatchUpSelect, SetBoot, TypeOK, Starting
    <3>2. /\ p \notin Starting /\ p \notin Chaining /\ p \in Starting' /\ p \in Chaining'
          /\ Recorder'
      BY <3>1 DEF Starting, Chaining, CatchingUp, Recorder
    <3>3. nn = n + 1
      BY <1>2, <3>2 DEF One
    <3> HIDE DEF n, nn
    <3>4. CASE Starting = {}
      <4>1. overlaps' = overlaps
        BY <3>1, <3>4 DEF CountOverlap
      <4>2. caught + n <= kills + overlaps[CatchUp] + fails[CatchUp]
        BY <1>0, <1>2, <2>2, <3>4 DEF ChainCharged, Recorder, One, n
      <4> QED
        BY <1>0, <1>1, <1>2, <3>1, <3>2, <3>3, <4>1, <4>2 DEF ChainCharged, One, nn
    <3>5. CASE Starting # {}
      <4>1. overlaps'[CatchUp] = overlaps[CatchUp] + 1
        BY <1>0, <3>1, <3>2, <3>5 DEF CountOverlap, TypeOK
      <4>2. caught + n <= kills + overlaps[CatchUp] + fails[CatchUp] + 1
        BY <1>0, <1>2, <3>5 DEF ChainCharged, One, n
      <4> QED
        BY <1>0, <1>1, <1>2, <3>1, <3>2, <3>3, <4>1, <4>2 DEF ChainCharged, One, nn
    <3> QED
      BY <3>4, <3>5
  <2> QED
    BY <2>1, <2>2
<1>6. CASE CatchUpReplace(p)
  <2>1. /\ boot[p] = "replace" /\ boot'[p] = "body" /\ caught' = caught /\ overlaps' = overlaps
        /\ fails' = fails /\ row'[CatchUp] = "running"
    BY <1>0, <1>6 DEF CatchUpReplace, SetBoot, SetRow, TypeOK
  <2>2. Starting' = Starting /\ Chaining' = Chaining /\ Recorder /\ Recorder'
    BY <1>1, <2>1 DEF Starting, Chaining, CatchingUp, Recorder
  <2> QED
    BY <1>0, <1>1, <2>1, <2>2 DEF ChainCharged, One
<1>7. CASE CatchUpAbandoned(p) \/ CatchUpBody(p)
  <2>1. /\ boot[p] = "body" /\ overlaps' = overlaps /\ fails' = fails /\ row' = row
        /\ \/ boot'[p] = "serving" /\ caught' = caught
           \/ boot'[p] = "finish" /\ caught' \in {caught, caught + 1}
    BY <1>0, <1>7 DEF CatchUpAbandoned, CatchUpBody, SetBoot, TypeOK
  <2>2. p \in Chaining /\ p \notin Chaining'
    BY <2>1 DEF Chaining
  <2>3. nn = n - 1
    BY <1>2, <2>2 DEF One
  <2> HIDE DEF n, nn
  <2>4. CASE boot'[p] = "serving"
    BY <1>0, <1>1, <1>2, <2>1, <2>3, <2>4 DEF ChainCharged, One, n, nn
  <2>5. CASE boot'[p] = "finish"
    <3>1. Recorder => Recorder'
      BY <1>1, <2>1, <2>5 DEF Recorder, Starting, CatchingUp
    <3> QED
      BY <1>0, <1>1, <1>2, <2>1, <2>3, <2>5, <3>1 DEF ChainCharged, One, n, nn
  <2> QED
    BY <1>0, <2>1, <2>4, <2>5
<1>8. CASE CatchUpFinish(p)
  <2>1. /\ boot[p] = "finish" /\ boot'[p] = "serving" /\ caught' = caught
        /\ overlaps' = overlaps /\ fails' = fails
        /\ row'[CatchUp] = IF row[CatchUp] = "absent" THEN "absent" ELSE "success"
    BY <1>0, <1>8 DEF CatchUpFinish, SetBoot, UpdateRow, SetRow, TypeOK
  <2>2. Chaining' = Chaining
    BY <1>1, <2>1 DEF Chaining
  <2>3. Recorder => Recorder'
    BY <1>0, <1>1, <2>1 DEF Recorder, Starting, CatchingUp
  <2>4. row'[CatchUp] # "failed"
    BY <2>1
  <2>5. One(Recorder) <= One(Recorder') /\ One(Recorder) \in Nat /\ One(Recorder') \in Nat
    BY <2>3 DEF One
  <2>6. /\ caught' + nn = caught + n
        /\ kills' + overlaps'[CatchUp] + fails'[CatchUp] = kills + overlaps[CatchUp] + fails[CatchUp]
    BY <1>1, <2>1, <2>2
  <2> HIDE DEF n, nn
  <2>7. ChainCharged'
    BY <1>0, <1>1, <1>2, <2>1, <2>5, <2>6 DEF ChainCharged, n, nn
  <2> QED
    BY <2>4, <2>7
<1>9. CASE CatchUpUnguarded(p) \/ CatchUpUnrecorded(p)
  <2>1. /\ \/ boot[p] \in {"select", "replace"} /\ boot'[p] = "body"
           \/ boot[p] = "finish" /\ boot'[p] = "serving"
        /\ caught' = caught /\ overlaps' = overlaps /\ row' = row
        /\ fails'[CatchUp] = fails[CatchUp] + 1
    BY <1>0, <1>9, FailFact DEF CatchUpUnguarded, CatchUpUnrecorded, SetBoot, TypeOK
  <2>2. /\ boot[p] # "select" => nn = n
        /\ nn <= n + 1
    BY <1>2, <2>1 DEF Chaining, One
  <2> HIDE DEF n, nn
  <2>3. CASE boot[p] = "select"
    <3>1. Recorder => Recorder'
      BY <1>1, <2>1, <2>3 DEF Recorder, Starting, CatchingUp
    <3> QED
      BY <1>0, <1>1, <1>2, <2>1, <2>2, <3>1 DEF ChainCharged, One, n, nn
  <2>4. CASE boot[p] # "select"
    BY <1>0, <1>1, <1>2, <2>1, <2>2, <2>4 DEF ChainCharged, One, n, nn
  <2> QED
    BY <1>0, <2>1, <2>3, <2>4
<1> QED
  BY <1>4, <1>5, <1>6, <1>7, <1>8, <1>9 DEF BootStep

\* A stop costs at most one open run of each job, and a kill pays for it.
LEMMA StopCharged ==
  ASSUME Charged, NEW p \in Proc, Stop(p)
  PROVE  ChainCharged' /\ row'[CatchUp] # "failed" /\ \A j \in Job : JobInv(j)'
<1>0. /\ TypeOK /\ kills \in Nat /\ caught \in Nat
      /\ overlaps[CatchUp] \in Nat /\ fails[CatchUp] \in Nat
  BY DEF Charged, TypeOK
<1>1. /\ row' = row /\ done' = done /\ caught' = caught /\ overlaps' = overlaps /\ fails' = fails
      /\ kills' = IF InFlight(p) THEN kills + 1 ELSE kills
      /\ boot'[p] = "off" /\ \A q \in Proc \ {p} : boot'[q] = boot[q]
      /\ \A j \in Job : /\ run'[p][j] = "idle"
                        /\ \A q \in Proc \ {p} : run'[q][j] = run[q][j]
  BY <1>0 DEF Stop, SetBoot, TypeOK
<1>2. ASSUME NEW j \in Job PROVE JobInv(j)'
  <2>0. /\ JobCharged(j) /\ OneAtATime(j) /\ HasRow(j)
        /\ done[j] \in Nat /\ overlaps[j] \in Nat /\ fails[j] \in Nat
    BY <1>0 DEF Charged, JobInv, TypeOK
  <2> DEFINE n == Cardinality(Pending(j))
             nn == Cardinality(Pending(j)')
  <2>1. /\ Busy(j)' \ {p} = Busy(j) \ {p}
        /\ n \in Nat /\ nn \in Nat
        /\ nn = n - One(p \in Pending(j)) + One(p \in Pending(j)')
    BY <1>0, <1>1, OthersStay
  <2>2. p \notin Busy(j)' /\ p \notin Pending(j)' /\ Pending(j) \subseteq Busy(j)
    BY <1>1 DEF Busy, Pending, AtWork
  <2>3. nn <= n /\ (p \notin Busy(j) => nn = n /\ Busy(j)' = Busy(j))
    <3>1. nn = IF p \in Pending(j) THEN n - 1 ELSE n
      BY <2>1, <2>2 DEF One
    <3>2. p \notin Busy(j) => p \notin Pending(j)
      BY <2>2
    <3>3. p \notin Busy(j) => Busy(j)' = Busy(j)
      BY <2>1, <2>2, SameWithout
    <3> QED
      BY <2>1, <3>1, <3>2, <3>3
  <2>4. p \in Busy(j) => kills' = kills + 1
    BY <1>1 DEF Busy, AtWork, InFlight
  <2> HIDE DEF n, nn
  <2>5. JobCharged(j)'
    <3>1. CASE p \in Busy(j)
      BY <1>0, <1>1, <2>0, <2>1, <2>3, <2>4, <3>1 DEF JobCharged, One, n, nn
    <3>2. CASE p \notin Busy(j)
      BY <1>0, <1>1, <2>0, <2>1, <2>3, <3>2 DEF JobCharged, One, n, nn
    <3> QED
      BY <3>1, <3>2
  <2>6. Busy(j)' \subseteq Busy(j)
    BY <2>1, <2>2
  <2>7. HasRow(j)'
    BY <1>1, <2>0 DEF HasRow
  <2> QED
    BY <1>1, <2>0, <2>5, <2>6, <2>7 DEF JobInv, OneAtATime
<1>3. ChainCharged'
  <2> DEFINE n == Cardinality(Chaining)
             nn == Cardinality(Chaining')
  <2>1. /\ Starting' \ {p} = Starting \ {p} /\ Chaining \ {p} = Chaining' \ {p}
        /\ IsFiniteSet(Chaining)
    BY <1>1, JobAssumption, FS_Subset DEF Starting, Chaining, CatchingUp
  <2>2. n \in Nat /\ nn \in Nat /\ nn = n - One(p \in Chaining) + One(p \in Chaining')
    BY <2>1, CountMove
  <2>3. p \notin Starting' /\ p \notin Chaining' /\ Chaining \subseteq Starting
    BY <1>1 DEF Starting, Chaining, CatchingUp
  <2>4. nn <= n /\ (p \notin Starting => nn = n /\ Starting' = Starting)
    <3>1. nn = IF p \in Chaining THEN n - 1 ELSE n
      BY <2>2, <2>3 DEF One
    <3>2. p \notin Starting => p \notin Chaining /\ Starting' = Starting
      BY <2>1, <2>3, SameWithout
    <3> QED
      BY <2>2, <3>1, <3>2
  <2>5. p \in Starting => kills' = kills + 1
    BY <1>1 DEF Starting, InFlight
  <2>6. ChainCharged
    BY DEF Charged
  <2> HIDE DEF n, nn
  <2>7. CASE p \in Starting
    BY <1>0, <1>1, <2>2, <2>4, <2>5, <2>6, <2>7 DEF ChainCharged, One, n, nn
  <2>8. CASE p \notin Starting
    <3>1. Recorder => Recorder'
      BY <1>1, <2>4, <2>8 DEF Recorder, Starting
    <3> QED
      BY <1>0, <1>1, <2>2, <2>4, <2>6, <2>8, <3>1 DEF ChainCharged, One, n, nn
  <2> QED
    BY <2>7, <2>8
<1>4. row'[CatchUp] # "failed"
  BY <1>1 DEF Charged
<1> QED
  BY <1>2, <1>3, <1>4

LEMMA NextCharged == Charged /\ [Next]_vars => Charged'
<1> SUFFICES ASSUME Charged, [Next]_vars PROVE Charged'
  OBVIOUS
<1>0. TypeOK'
  BY NextType DEF Charged
<1>1. ASSUME NEW p \in Proc, NEW j \in Job, JobStep(p, j)
      PROVE  Charged'
  BY <1>0, <1>1, StepCharged, StepSpares DEF Charged
<1>2. ASSUME NEW p \in Proc, Start(p) \/ BootStep(p)
      PROVE  Charged'
  BY <1>0, <1>2, BootSpares, ChainStep DEF Charged
<1>3. ASSUME NEW p \in Proc, Stop(p)
      PROVE  Charged'
  BY <1>0, <1>3, StopCharged DEF Charged
<1>4. CASE Tick \/ UNCHANGED vars
  <2>1. UNCHANGED <<boot, run, row, done, caught, kills, overlaps, fails>>
    BY <1>4 DEF Tick, vars
  <2>2. ChainCharged'
    BY <2>1, ChainFrame DEF Charged, Starting, Chaining, CatchingUp
  <2>3. ASSUME NEW j \in Job PROVE JobInv(j)'
    <3>1. Busy(j)' = Busy(j) /\ Pending(j)' = Pending(j)
      BY <2>1 DEF Busy, Pending, AtWork
    <3> QED
      BY <2>1, <3>1, JobFrame DEF Charged
  <2> QED
    BY <1>0, <2>1, <2>2, <2>3 DEF Charged
<1> QED
  BY <1>1, <1>2, <1>3, <1>4 DEF Next

LEMMA ChargedInvariance == Spec => []Charged
BY InitCharged, NextCharged, PTL DEF Spec

(***************************************************************************)
(* However many schedulers run on one table, and whenever it fails: a job, *)
(* and the catch-up chain, completes at most once a day, plus once for     *)
(* every stop that hit work in flight, once for every run let in beside    *)
(* another and once for every read or write of its row that raised.        *)
(***************************************************************************)
THEOREM OneCompletionPerDay == Spec => []OncePerDay
<1>1. Charged => OncePerDay
  <2> SUFFICES ASSUME Charged PROVE OncePerDay
    OBVIOUS
  <2>1. /\ kills \in Nat /\ caught \in Nat
        /\ \A j \in Job \cup {CatchUp} : overlaps[j] \in Nat /\ fails[j] \in Nat
        /\ \A j \in Job : done[j] \in Nat
    BY DEF Charged, TypeOK
  <2>2. IsFiniteSet(Chaining) /\ \A j \in Job : IsFiniteSet(Pending(j))
    BY JobAssumption, FS_Subset DEF Chaining, Pending
  <2>3. Cardinality(Chaining) \in Nat /\ \A j \in Job : Cardinality(Pending(j)) \in Nat
    BY <2>2, FS_CardinalityType
  <2>4. caught <= 1 + kills + overlaps[CatchUp] + fails[CatchUp]
    BY <2>1, <2>3 DEF Charged, ChainCharged, One
  <2>5. \A j \in Job : done[j] <= 1 + kills + overlaps[j] + fails[j]
    BY <2>1, <2>3 DEF Charged, JobInv, JobCharged, One
  <2> QED
    BY <2>4, <2>5 DEF OncePerDay
<1> QED
  BY <1>1, ChargedInvariance, PTL

(***************************************************************************)
(* However many schedulers run on one table: a day's "success" is never    *)
(* taken back unless two processes ran the job at once, whatever late      *)
(* threads, retries and restarts do.                                       *)
(***************************************************************************)
THEOREM SuccessStays == Spec => SuccessIsFinal
<1>1. Charged /\ [Next]_vars =>
        [\A j \in Job : row[j] = "success" => row'[j] = "success" \/ overlaps'[j] > 0]_vars
  <2> SUFFICES ASSUME Charged, Charged', Next, NEW j \in Job, row[j] = "success",
                      row'[j] # "success"
               PROVE  overlaps'[j] > 0
    BY NextCharged
  <2>0. TypeOK /\ CatchUp \notin Job /\ overlaps[j] \in Nat
    BY JobAssumption DEF Charged, TypeOK
  <2>1. PICK p \in Proc : ReplaceRow(p, j) \/ FinishJob(p, j)
    <3>1. ~Tick
      BY DEF Tick
    <3>2. ASSUME NEW p \in Proc PROVE ~(Start(p) \/ BootStep(p) \/ Stop(p))
      BY <2>0, <3>2 DEF Start, BootStep, CatchUpSelect, CatchUpReplace, CatchUpAbandoned,
                        CatchUpBody, CatchUpFinish, CatchUpUnguarded, CatchUpUnrecorded, Stop,
                        UpdateRow, SetRow, TypeOK
    <3>3. PICK p \in Proc, i \in Job : JobStep(p, i)
      BY <3>1, <3>2 DEF Next
    <3>4. ReplaceRow(p, i) \/ FinishJob(p, i)
      BY <3>3 DEF JobStep, Fire, SelectTurnsAway, SelectLetsIn, BodyCompletes, BodyRetries,
                  BodyFails, StartJobRaises, FinishJobRaises
    <3>5. i = j
      BY <2>0, <3>4 DEF ReplaceRow, FinishJob, UpdateRow, SetRow, TypeOK
    <3> QED
      BY <3>4, <3>5
  <2>2. p \in Busy(j) /\ overlaps' = overlaps
    BY <2>1 DEF ReplaceRow, FinishJob, Busy, AtWork
  <2>3. overlaps[j] # 0
    BY <2>2 DEF Charged, JobInv, OneAtATime
  <2> QED
    BY <2>0, <2>2, <2>3
<1> QED
  BY <1>1, ChargedInvariance, PTL DEF Spec, SuccessIsFinal

-----------------------------------------------------------------------------
(***************************************************************************)
(* One process: no run of a job is let in while another is under way.      *)
(***************************************************************************)
NoOverlap == \A j \in Job \cup {CatchUp} : overlaps[j] = 0

LEMMA AloneInvariance ==
  ASSUME NEW p \in Proc, Proc = {p}
  PROVE  Spec => [](Charged /\ NoOverlap)
<1>1. Init => NoOverlap
  BY DEF Init, NoOverlap
<1>2. NoOverlap /\ [Next]_vars => NoOverlap'
  <2> SUFFICES ASSUME NoOverlap, [Next]_vars PROVE overlaps' = overlaps
    BY DEF NoOverlap
  <2>1. ASSUME NEW q \in Proc, NEW j \in Job, JobStep(q, j)
        PROVE  overlaps' = overlaps
    BY <2>1 DEF JobStep, Fire, SelectTurnsAway, SelectLetsIn, ReplaceRow, BodyCompletes,
                BodyRetries, BodyFails, FinishJob, StartJobRaises, FinishJobRaises, CountOverlap
  <2>2. ASSUME NEW q \in Proc, Start(q) \/ BootStep(q) \/ Stop(q)
        PROVE  overlaps' = overlaps
    BY <2>2 DEF Start, BootStep, CatchUpSelect, CatchUpReplace, CatchUpAbandoned, CatchUpBody,
                CatchUpFinish, CatchUpUnguarded, CatchUpUnrecorded, Stop, CountOverlap
  <2>3. CASE Tick \/ UNCHANGED vars
    BY <2>3 DEF Tick, vars
  <2> QED
    BY <2>1, <2>2, <2>3 DEF Next
<1> QED
  BY <1>1, <1>2, ChargedInvariance, PTL DEF Spec

(***************************************************************************)
(* One process: a job, and the catch-up chain, completes at most once a    *)
(* day, plus once for every stop that hit work in flight and once for      *)
(* every access to its row that raised; nothing else excuses a second      *)
(* completion.                                                             *)
(***************************************************************************)
THEOREM OneProcessOncePerDay ==
  ASSUME NEW p \in Proc, Proc = {p}
  PROVE  Spec => []( /\ \A j \in Job : done[j] <= 1 + kills + fails[j]
                     /\ caught <= 1 + kills + fails[CatchUp] )
<1>1. Charged /\ NoOverlap /\ OncePerDay =>
        /\ \A j \in Job : done[j] <= 1 + kills + fails[j]
        /\ caught <= 1 + kills + fails[CatchUp]
  BY DEF Charged, TypeOK, NoOverlap, OncePerDay
<1> QED
  BY <1>1, AloneInvariance, OneCompletionPerDay, PTL

(***************************************************************************)
(* One process: a day's "success" is never taken back.                     *)
(***************************************************************************)
THEOREM OneProcessSuccessStays ==
  ASSUME NEW p \in Proc, Proc = {p}
  PROVE  Spec => [][\A j \in Job : row[j] = "success" => row'[j] = "success"]_vars
<1>1. NoOverlap' /\ [\A j \in Job : row[j] = "success" => row'[j] = "success" \/ overlaps'[j] > 0]_vars
        => [\A j \in Job : row[j] = "success" => row'[j] = "success"]_vars
  BY DEF NoOverlap
<1> QED
  BY <1>1, AloneInvariance, SuccessStays, PTL DEF SuccessIsFinal
=============================================================================
