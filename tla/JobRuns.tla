------------------------------ MODULE JobRuns ------------------------------
(***************************************************************************)
(* The daily schedule (scheduler/jobs.py, scheduler/service.py) and the    *)
(* job_runs table that makes a job run once a day (repositories/           *)
(* sqlite_store.py, start_job and finish_job).                             *)
(*                                                                         *)
(* A scheduler process fires cron jobs on its own threads; every cron job  *)
(* here goes through idempotent_job.  On start a process that is late for  *)
(* the 9:31 order_submission runs the morning chain once ("catch-up"),     *)
(* guarded by a row of its own.  Several processes can share the table     *)
(* (the compose file starts a scheduler and a backend that embeds one).    *)
(* A stopped process loses its threads and its pending fires; the table    *)
(* stays.  One trading day is modelled: rows are keyed by the date.        *)
(***************************************************************************)
EXTENDS Integers, FiniteSets

CONSTANTS
  Proc,          \* scheduler processes
  Job,           \* cron jobs wrapped in idempotent_job
  Order,         \* "order_submission", a member of Job
  Slots,         \* Slots[j]: the clock slots at which cron fires j
  LastSlot,      \* the day has slots 0 .. LastSlot
  CloseSlot,     \* catch-up does not start from this slot on (16:00)
  MaxAttempts,   \* settings.scheduler_transient_max_attempts
  MaxStops,      \* bound: how often processes stop
  MaxFails       \* bound: how often the table fails under each job

CatchUp == "catch_up_pipeline"

ASSUME JobAssumption ==
  /\ IsFiniteSet(Proc)
  /\ Order \in Job /\ CatchUp \notin Job
  /\ LastSlot \in Nat /\ CloseSlot \in Nat
  /\ Slots \in [Job -> SUBSET (0..LastSlot)]
  /\ MaxAttempts \in 1..20
  /\ MaxStops \in Nat /\ MaxFails \in Nat

VARIABLES
  clock,     \* the current slot
  boot,      \* boot[p]: where process p is in its start sequence
  due,       \* due[p]: jobs whose fire time came and that have not been picked up
  run,       \* run[p][j]: where the one instance of j in p is
  attempt,   \* attempt[p][j]: transient retries used, 0 outside the body
  row,       \* job_runs.status of the day, "absent" when there is no row
  done,      \* done[j]: times the body of j completed
  caught,    \* times the catch-up completed its order_submission
  skipped,   \* fires <<j, slot>> that start_job turned away
  kills,     \* stops that hit a process with work in flight
  overlaps,  \* overlaps[j]: runs of j let in while another process was running it
  fails,     \* fails[j]: accesses to the row of j that raised and left a run unrecorded
  stops

vars == <<clock, boot, due, run, attempt, row, done, caught, skipped, kills, overlaps, fails, stops>>

RunStates == {"idle", "fired", "selected", "body", "ok", "bad"}
BootStates == {"off", "select", "replace", "body", "finish", "serving"}

TypeOK ==
  /\ clock \in 0..LastSlot
  /\ boot \in [Proc -> BootStates]
  /\ due \in [Proc -> SUBSET Job]
  /\ run \in [Proc -> [Job -> RunStates]]
  /\ attempt \in [Proc -> [Job -> 0..MaxAttempts - 1]]
  /\ row \in [Job \cup {CatchUp} -> {"absent", "running", "success", "failed"}]
  /\ done \in [Job -> Nat]
  /\ caught \in Nat
  /\ skipped \subseteq Job \X (0..LastSlot)
  /\ kills \in Nat
  /\ overlaps \in [Job \cup {CatchUp} -> Nat]
  /\ fails \in [Job \cup {CatchUp} -> 0..MaxFails]
  /\ stops \in 0..MaxStops

Init ==
  /\ clock = 0
  /\ boot = [p \in Proc |-> "off"]
  /\ due = [p \in Proc |-> {}]
  /\ run = [p \in Proc |-> [j \in Job |-> "idle"]]
  /\ attempt = [p \in Proc |-> [j \in Job |-> 0]]
  /\ row = [j \in Job \cup {CatchUp} |-> "absent"]
  /\ done = [j \in Job |-> 0]
  /\ caught = 0
  /\ skipped = {}
  /\ kills = 0
  /\ overlaps = [j \in Job \cup {CatchUp} |-> 0]
  /\ fails = [j \in Job \cup {CatchUp} |-> 0]
  /\ stops = 0

SetRow(j, status) == row' = [row EXCEPT ![j] = status]
\* finish_job is an UPDATE: it does not look at the status, and does nothing
\* where there is no row.
UpdateRow(j, status) == IF row[j] = "absent" THEN UNCHANGED row ELSE SetRow(j, status)
SetRun(p, j, state) == run' = [run EXCEPT ![p][j] = state]
SetBoot(p, state) == boot' = [boot EXCEPT ![p] = state]

\* Between the SELECT that let a run in and its last write to the row.
AtWork(p, j) == run[p][j] \in {"selected", "body", "ok", "bad"}
CatchingUp(p) == boot[p] \in {"replace", "body", "finish"}

CountOverlap(j, others) ==
  overlaps' = IF others = {} THEN overlaps ELSE [overlaps EXCEPT ![j] = @ + 1]
CountFail(j) ==
  /\ fails[j] < MaxFails
  /\ fails' = [fails EXCEPT ![j] = @ + 1]

(***************************************************************************)
(* The clock, and cron.  A process that is not serving misses the slot:    *)
(* the job store is in memory and only future times fire.                  *)
(***************************************************************************)
Tick ==
  /\ clock < LastSlot
  /\ clock' = clock + 1
  /\ due' = [p \in Proc |-> IF boot[p] = "serving"
                            THEN due[p] \cup {j \in Job : clock + 1 \in Slots[j]}
                            ELSE due[p]]
  /\ UNCHANGED <<boot, run, attempt, row, done, caught, skipped, kills, overlaps, fails, stops>>

\* max_instances = 1: a fire that finds the job still running is dropped.
Fire(p, j) ==
  /\ j \in due[p]
  /\ due' = [due EXCEPT ![p] = @ \ {j}]
  /\ IF run[p][j] = "idle" THEN SetRun(p, j, "fired") ELSE UNCHANGED run
  /\ UNCHANGED <<clock, boot, attempt, row, done, caught, skipped, kills, overlaps, fails, stops>>

(***************************************************************************)
(* idempotent_job.  start_job is a SELECT and then an INSERT OR REPLACE;   *)
(* sqlite3 opens its transaction at the second.                            *)
(***************************************************************************)
SelectTurnsAway(p, j) ==
  /\ run[p][j] = "fired"
  /\ row[j] = "success"
  /\ SetRun(p, j, "idle")
  /\ skipped' = skipped \cup {<<j, clock>>}
  /\ UNCHANGED <<clock, boot, due, attempt, row, done, caught, kills, overlaps, fails, stops>>

\* Mutant: start_job does not look for a success.
SelectLetsIn_always(p, j) ==
  /\ run[p][j] = "fired"
  /\ SetRun(p, j, "selected")
  /\ CountOverlap(j, {q \in Proc \ {p} : AtWork(q, j)})
  /\ UNCHANGED <<clock, boot, due, attempt, row, done, caught, skipped, kills, fails, stops>>

SelectLetsIn(p, j) ==
  /\ run[p][j] = "fired"
  /\ row[j] # "success"
  /\ SetRun(p, j, "selected")
  /\ CountOverlap(j, {q \in Proc \ {p} : AtWork(q, j)})
  /\ UNCHANGED <<clock, boot, due, attempt, row, done, caught, skipped, kills, fails, stops>>

ReplaceRow(p, j) ==
  /\ run[p][j] = "selected"
  /\ SetRow(j, "running")
  /\ SetRun(p, j, "body")
  /\ UNCHANGED <<clock, boot, due, attempt, done, caught, skipped, kills, overlaps, fails, stops>>

BodyCompletes(p, j) ==
  /\ run[p][j] = "body"
  /\ done' = [done EXCEPT ![j] = @ + 1]
  /\ SetRun(p, j, "ok")
  /\ attempt' = [attempt EXCEPT ![p][j] = 0]
  /\ UNCHANGED <<clock, boot, due, row, caught, skipped, kills, overlaps, fails, stops>>

\* Mutants of the retry: one attempt too many; a counter that wraps.
BodyRetries_oneMore(p, j) ==
  /\ run[p][j] = "body"
  /\ attempt[p][j] < MaxAttempts
  /\ attempt' = [attempt EXCEPT ![p][j] = @ + 1]
  /\ UNCHANGED <<clock, boot, due, run, row, done, caught, skipped, kills, overlaps, fails, stops>>
BodyRetries_wraps(p, j) ==
  /\ run[p][j] = "body"
  /\ attempt' = [attempt EXCEPT ![p][j] = (@ + 1) % MaxAttempts]
  /\ UNCHANGED <<clock, boot, due, run, row, done, caught, skipped, kills, overlaps, fails, stops>>

\* A transient exception with attempts left: the body starts over.
BodyRetries(p, j) ==
  /\ run[p][j] = "body"
  /\ attempt[p][j] < MaxAttempts - 1
  /\ attempt' = [attempt EXCEPT ![p][j] = @ + 1]
  /\ UNCHANGED <<clock, boot, due, run, row, done, caught, skipped, kills, overlaps, fails, stops>>

\* Any other Exception, or the last attempt.  What is no Exception (SystemExit)
\* would pass the except and be recorded as a success: no body raises one.
BodyFails(p, j) ==
  /\ run[p][j] = "body"
  /\ SetRun(p, j, "bad")
  /\ attempt' = [attempt EXCEPT ![p][j] = 0]
  /\ UNCHANGED <<clock, boot, due, row, done, caught, skipped, kills, overlaps, fails, stops>>

\* Mutants of finish_job: every end is a success; only a success is written.
FinishJob_alwaysSuccess(p, j) ==
  /\ run[p][j] \in {"ok", "bad"}
  /\ SetRow(j, "success")
  /\ SetRun(p, j, "idle")
  /\ UNCHANGED <<clock, boot, due, attempt, done, caught, skipped, kills, overlaps, fails, stops>>
FinishJob_successOnly(p, j) ==
  /\ run[p][j] \in {"ok", "bad"}
  /\ IF run[p][j] = "ok" THEN SetRow(j, "success") ELSE UNCHANGED row
  /\ SetRun(p, j, "idle")
  /\ UNCHANGED <<clock, boot, due, attempt, done, caught, skipped, kills, overlaps, fails, stops>>

\* finish_job, in a finally.
FinishJob(p, j) ==
  /\ run[p][j] \in {"ok", "bad"}
  /\ UpdateRow(j, IF run[p][j] = "ok" THEN "success" ELSE "failed")
  /\ SetRun(p, j, "idle")
  /\ UNCHANGED <<clock, boot, due, attempt, done, caught, skipped, kills, overlaps, fails, stops>>

\* start_job or finish_job raises (a locked or broken database): the thread
\* ends, and the row stays what it was.
StartJobRaises(p, j) ==
  /\ run[p][j] \in {"fired", "selected"}
  /\ SetRun(p, j, "idle")
  /\ UNCHANGED <<clock, boot, due, attempt, row, done, caught, skipped, kills, overlaps, fails, stops>>

FinishJobRaises(p, j) ==
  /\ run[p][j] \in {"ok", "bad"}
  /\ CountFail(j)
  /\ SetRun(p, j, "idle")
  /\ UNCHANGED <<clock, boot, due, attempt, row, done, caught, skipped, kills, overlaps, stops>>

(***************************************************************************)
(* Start and catch-up.                                                     *)
(***************************************************************************)
LateForOrders == \E s \in Slots[Order] : s <= clock

Start(p) ==
  /\ boot[p] = "off"
  /\ SetBoot(p, IF LateForOrders /\ clock < CloseSlot THEN "select" ELSE "serving")
  /\ UNCHANGED <<clock, due, run, attempt, row, done, caught, skipped, kills, overlaps, fails, stops>>

CatchUpSelect(p) ==
  /\ boot[p] = "select"
  /\ IF row[CatchUp] = "success"
     THEN SetBoot(p, "serving") /\ UNCHANGED overlaps
     ELSE SetBoot(p, "replace") /\ CountOverlap(CatchUp, {q \in Proc \ {p} : CatchingUp(q)})
  /\ UNCHANGED <<clock, due, run, attempt, row, done, caught, skipped, kills, fails, stops>>

CatchUpReplace(p) ==
  /\ boot[p] = "replace"
  /\ SetRow(CatchUp, "running")
  /\ SetBoot(p, "body")
  /\ UNCHANGED <<clock, due, run, attempt, done, caught, skipped, kills, overlaps, fails, stops>>

\* start_job raises, at its SELECT or at its INSERT: "pass", and the chain
\* runs without a row of its own, over a day's success too.
CatchUpUnguarded(p) ==
  /\ boot[p] \in {"select", "replace"}
  /\ CountFail(CatchUp)
  /\ SetBoot(p, "body")
  /\ UNCHANGED <<clock, due, run, attempt, row, done, caught, skipped, kills, overlaps, stops>>

\* No watchlist, or scoring failed: return, and leave the row "running".
CatchUpAbandoned(p) ==
  /\ boot[p] = "body"
  /\ SetBoot(p, "serving")
  /\ UNCHANGED <<clock, due, run, attempt, row, done, caught, skipped, kills, overlaps, fails, stops>>

\* order_submission is called directly; its exception is swallowed.
CatchUpBody(p) ==
  /\ boot[p] = "body"
  /\ caught' \in {caught, caught + 1}
  /\ SetBoot(p, "finish")
  /\ UNCHANGED <<clock, due, run, attempt, row, done, skipped, kills, overlaps, fails, stops>>

CatchUpFinish(p) ==
  /\ boot[p] = "finish"
  /\ UpdateRow(CatchUp, "success")
  /\ SetBoot(p, "serving")
  /\ UNCHANGED <<clock, due, run, attempt, done, caught, skipped, kills, overlaps, fails, stops>>

\* finish_job raises: "pass".  The row stays what it was, and the next start
\* runs the chain again.
CatchUpUnrecorded(p) ==
  /\ boot[p] = "finish"
  /\ CountFail(CatchUp)
  /\ SetBoot(p, "serving")
  /\ UNCHANGED <<clock, due, run, attempt, row, done, caught, skipped, kills, overlaps, stops>>

\* SIGTERM, a redeploy or a crash: shutdown(wait=False) or nothing at all.
InFlight(p) == CatchingUp(p) \/ \E j \in Job : run[p][j] # "idle"

Stop(p) ==
  /\ boot[p] # "off" /\ stops < MaxStops
  /\ SetBoot(p, "off")
  /\ due' = [due EXCEPT ![p] = {}]
  /\ run' = [run EXCEPT ![p] = [j \in Job |-> "idle"]]
  /\ attempt' = [attempt EXCEPT ![p] = [j \in Job |-> 0]]
  /\ kills' = IF InFlight(p) THEN kills + 1 ELSE kills
  /\ stops' = stops + 1
  /\ UNCHANGED <<clock, row, done, caught, skipped, overlaps, fails>>

JobStep(p, j) ==
  \/ Fire(p, j)
  \/ SelectTurnsAway(p, j) \/ SelectLetsIn(p, j) \/ ReplaceRow(p, j)
  \/ BodyCompletes(p, j) \/ BodyRetries(p, j) \/ BodyFails(p, j) \/ FinishJob(p, j)
  \/ StartJobRaises(p, j) \/ FinishJobRaises(p, j)

BootStep(p) ==
  \/ CatchUpSelect(p) \/ CatchUpReplace(p) \/ CatchUpUnguarded(p) \/ CatchUpAbandoned(p)
  \/ CatchUpBody(p) \/ CatchUpFinish(p) \/ CatchUpUnrecorded(p)

Next ==
  \/ Tick
  \/ \E p \in Proc : Start(p) \/ BootStep(p) \/ Stop(p) \/ \E j \in Job : JobStep(p, j)

Spec == Init /\ [][Next]_vars

\* The thread pool runs what was submitted to it, and a starting process
\* goes on; nothing makes a process start, stop, or the clock advance.
FairSpec ==
  /\ Spec
  /\ \A p \in Proc : WF_vars(BootStep(p))
  /\ \A p \in Proc, j \in Job : WF_vars(JobStep(p, j))

-----------------------------------------------------------------------------
(***************************************************************************)
(* The guard of start_job keeps a job to one completion a day, although    *)
(* retries, failures and later slots keep starting it, plus one for every  *)
(* stop that hit work in flight (a body may have completed before          *)
(* finish_job could say so), one for every run let in while another        *)
(* process was running the job (its row does not say "success" yet) and    *)
(* one for every time the table failed under it: a completion that was not *)
(* recorded, or a catch-up let in unread.  The same for the catch-up.      *)
(***************************************************************************)
OncePerDay ==
  /\ \A j \in Job : done[j] <= 1 + kills + overlaps[j] + fails[j]
  /\ caught <= 1 + kills + overlaps[CatchUp] + fails[CatchUp]

(***************************************************************************)
(* A row that says "success" is about a body that completed, whoever else  *)
(* writes the row.                                                         *)
(***************************************************************************)
NoFalseSuccess == \A j \in Job : row[j] = "success" => done[j] > 0

(***************************************************************************)
(* Once a row says "success" no late thread takes it back (finish_job does *)
(* not look at the row), unless two processes ran the job at once.         *)
(***************************************************************************)
SuccessIsFinal ==
  [][\A j \in Job : row[j] = "success" => row'[j] = "success" \/ overlaps'[j] > 0]_vars

(***************************************************************************)
(* While no process has been killed and its finish_job has not raised, a   *)
(* cron row says "running" only while a thread is at it (finish_job is in  *)
(* a finally).  The catch-up row has no such promise: an early return      *)
(* leaves it "running" for good.                                           *)
(***************************************************************************)
RunningHasRunner ==
  \A j \in Job : kills = 0 /\ fails[j] = 0 /\ row[j] = "running" =>
                 \E p \in Proc : run[p][j] \in {"body", "ok", "bad"}

(***************************************************************************)
(* A fired job ends, whatever its body does, and a start sequence ends.    *)
(***************************************************************************)
WorkEnds ==
  \A p \in Proc :
    /\ boot[p] \notin {"off", "serving"} ~> boot[p] \in {"off", "serving"}
    /\ \A j \in Job : run[p][j] # "idle" ~> run[p][j] = "idle"

(***************************************************************************)
(* jobs.py: "Intraday loss_cut_scan every 5 minutes during market hours".  *)
(* No fire of a job with several slots a day is turned away.               *)
(***************************************************************************)
IntradayJobsRunEverySlot ==
  \A j \in Job : Cardinality(Slots[j]) > 1 => \A s \in Slots[j] : <<j, s>> \notin skipped

(***************************************************************************)
(* service.py: the catch-up is to "Skip if the jobs already ran (e.g.      *)
(* scheduler restarted mid-day)": however it was started, the day's orders *)
(* are submitted once, plus once per killed run.                           *)
(***************************************************************************)
OrdersOncePerDay == done[Order] + caught <= 1 + kills
=============================================================================
