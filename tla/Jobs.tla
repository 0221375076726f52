-------------------------------- MODULE Jobs --------------------------------
(***************************************************************************)
(* The table of backup jobs of the web server (startJob, currentJob and    *)
(* allJobs of cmd/web/main.go) and the goroutines that run jobs: one for   *)
(* each accepted POST to /api/backup/run, and those of the scheduler.      *)
(*                                                                         *)
(* startJob works under jobsMu but reads the status of the active job,     *)
(* which JobRun.finish writes under a mutex of the job's own.  A reader    *)
(* that still sees "running", or sees one word of the string before and    *)
(* one after the write, either refuses the request, which changes nothing, *)
(* or goes on as if finish had just returned: the outcomes are those of    *)
(* taking finish for one step.  Module JobLog has the log of a job.        *)
(*                                                                         *)
(* A definition marked "Fault" is not part of the specification: put in    *)
(* the place of the definition that follows it, it breaks a property.      *)
(***************************************************************************)
EXTENDS Integers, Sequences

CONSTANTS
  Runners,      \* goroutines that start and run jobs
  HistoryCap,   \* jobs kept in the table (50)
  MaxJobs       \* bound on the number of jobs started

ASSUME JobsAssumption == HistoryCap \in Nat \ {0} /\ MaxJobs \in Nat

VARIABLES
  jobSeq,      \* the last job ID given out
  jobs,        \* IDs in the table, newest first
  activeJob,   \* ID of the active job; 0: nil
  status,      \* status of each job
  pc,          \* each runner: "idle", "run", "report"
  mine,        \* the job it runs, or ran last
  lastStatus   \* LastStatus of the schedule

vars == <<jobSeq, jobs, activeJob, status, pc, mine, lastStatus>>

Ids == 1..MaxJobs
Outcomes == {"success", "failed"}

Init ==
  /\ jobSeq = 0 /\ jobs = <<>> /\ activeJob = 0
  /\ status = [j \in Ids |-> "none"]
  /\ pc = [r \in Runners |-> "idle"]
  /\ mine = [r \in Runners |-> 0]
  /\ lastStatus = "none"

-----------------------------------------------------------------------------

Busy == activeJob # 0 /\ status[activeJob] = "running"

\* Fault: the table is cut at the wrong end (a.jobs[len(a.jobs)-50:]).
EnteredCutAtHead(j) ==
  LET all == <<j>> \o jobs
      drop == IF Len(all) > HistoryCap THEN Len(all) - HistoryCap ELSE 0
  IN  [i \in 1..(Len(all) - drop) |-> all[i + drop]]

\* Fault: the table is not cut.
EnteredUncut(j) == <<j>> \o jobs

\* The new job at the head, and the table cut to its length.
Entered(j) ==
  LET all == <<j>> \o jobs
  IN  [i \in 1..(IF Len(all) > HistoryCap THEN HistoryCap ELSE Len(all)) |-> all[i]]

\* Fault: the active job is not looked at.
StartJobAlways(r) ==
  /\ pc[r] = "idle" /\ jobSeq < MaxJobs
  /\ jobSeq' = jobSeq + 1
  /\ activeJob' = jobSeq'
  /\ status' = [status EXCEPT ![jobSeq'] = "running"]
  /\ jobs' = Entered(jobSeq')
  /\ pc' = [pc EXCEPT ![r] = "run"]
  /\ mine' = [mine EXCEPT ![r] = jobSeq']
  /\ UNCHANGED lastStatus

\* A request that finds a job running is refused and changes nothing.
StartJob(r) ==
  /\ pc[r] = "idle" /\ jobSeq < MaxJobs
  /\ ~Busy
  /\ jobSeq' = jobSeq + 1
  /\ activeJob' = jobSeq'
  /\ status' = [status EXCEPT ![jobSeq'] = "running"]
  /\ jobs' = Entered(jobSeq')
  /\ pc' = [pc EXCEPT ![r] = "run"]
  /\ mine' = [mine EXCEPT ![r] = jobSeq']
  /\ UNCHANGED lastStatus

\* RunWithLogger returns, and job.finish is called.
Finish(r) ==
  /\ pc[r] = "run"
  /\ \E s \in Outcomes : status' = [status EXCEPT ![mine[r]] = s]
  /\ pc' = [pc EXCEPT ![r] = "report"]
  /\ UNCHANGED <<jobSeq, jobs, activeJob, mine, lastStatus>>

\* updateScheduleLastRun
Report(r) ==
  /\ pc[r] = "report"
  /\ lastStatus' = status[mine[r]]
  /\ pc' = [pc EXCEPT ![r] = "idle"]
  /\ UNCHANGED <<jobSeq, jobs, activeJob, status, mine>>

Next == \E r \in Runners : StartJob(r) \/ Finish(r) \/ Report(r)

Spec == Init /\ [][Next]_vars

-----------------------------------------------------------------------------
(* Every variable has its type; the table keeps to its length.             *)
TypeOK ==
  /\ jobSeq \in 0..MaxJobs /\ activeJob \in 0..MaxJobs
  /\ jobs \in Seq(Ids) /\ Len(jobs) <= HistoryCap
  /\ status \in [Ids -> Outcomes \cup {"none", "running"}]
  /\ pc \in [Runners -> {"idle", "run", "report"}]
  /\ mine \in [Runners -> 0..MaxJobs]
  /\ lastStatus \in Outcomes \cup {"none"}

(* However requests and schedulers race for startJob, two pipelines are    *)
(* never in progress at the same time.                                     *)
OneAtATime == \A r, q \in Runners : pc[r] = "run" /\ pc[q] = "run" => r = q

(* A job that has not finished is the active one and heads the table: what *)
(* /api/backup/stream follows, what /api/backup/status reports and what    *)
(* the history shows first is the pipeline in progress, and it is never    *)
(* the one that is cut off.                                                *)
RunningHeads ==
  \A r \in Runners : pc[r] = "run" =>
    jobs # <<>> /\ Head(jobs) = mine[r] /\ activeJob = mine[r] /\ status[mine[r]] = "running"

(* The table is the newest jobs without a gap, newest first ("Past and     *)
(* current backup runs (last 50)").                                        *)
NewestFirst ==
  /\ Len(jobs) = (IF jobSeq < HistoryCap THEN jobSeq ELSE HistoryCap)
  /\ \A i \in 1..Len(jobs) : jobs[i] = jobSeq + 1 - i

(* With the runs read off the statuses, and the goroutines in a pipeline   *)
(* off the runners, the table keeps the contract: runs begin and end one   *)
(* after the other, whoever starts them, a run that has ended keeps its    *)
(* outcome whatever starts or ends later, and the history is always the    *)
(* newest runs.                                                            *)
Runs    == [j \in 1..jobSeq |-> status[j]]
Working == {r \in Runners : pc[r] = "run"}

Contract == INSTANCE JobsContract WITH
  runs <- Runs, working <- Working, shown <- jobs, last <- lastStatus

KeepsTable == Contract!CSpec

(* "Last run: ... success/failed": once all goroutines are done, the       *)
(* status shown for the last run is that of the newest job.                *)
LastRunIsNewest ==
  (jobSeq > 0 /\ \A r \in Runners : pc[r] = "idle") => lastStatus = status[jobSeq]

=============================================================================
