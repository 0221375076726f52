----------------------------- MODULE JobsProofs -----------------------------
(***************************************************************************)
(* Theorems about modules Jobs and RunPage, for any number of goroutines,  *)
(* jobs, pages and posts, and every length of the table.                   *)
(*                                                                         *)
(* Mutual exclusion is not inductive as it stands: startJob looks at the   *)
(* active job only.  RunningHeads, which says that a runner's job is the   *)
(* active one and "running", makes startJob refuse while anybody runs.     *)
(***************************************************************************)
EXTENDS RunPage, TLAPS

USE JobsAssumption

\* A runner owns a job that has been started, and reports one that has ended.
MineInv ==
  \A r \in Runners :
    /\ mine[r] <= jobSeq
    /\ pc[r] = "run" => mine[r] \in Ids
    /\ pc[r] = "report" => mine[r] \in Ids /\ status[mine[r]] \in Outcomes

IInv == TypeOK /\ MineInv /\ OneAtATime /\ RunningHeads /\ NewestFirst

\* Nobody is in a pipeline when startJob accepts.
LEMMA IdleWhenFree == IInv /\ ~Busy => \A r \in Runners : pc[r] # "run"
<1> SUFFICES ASSUME IInv, ~Busy, NEW r \in Runners, pc[r] = "run" PROVE FALSE
  OBVIOUS
<1>1. activeJob = mine[r] /\ status[mine[r]] = "running" /\ mine[r] \in Ids
  BY DEF IInv, RunningHeads, MineInv
<1> QED BY <1>1 DEF Busy, Ids

\* What entering a job makes of the table.
LEMMA EnteredFacts ==
  ASSUME TypeOK, NewestFirst, jobSeq < MaxJobs, NEW j, j = jobSeq + 1
  PROVE  /\ Entered(j) \in Seq(Ids) /\ Len(Entered(j)) <= HistoryCap
         /\ Entered(j) # <<>> /\ Head(Entered(j)) = j
         /\ Len(Entered(j)) = (IF j < HistoryCap THEN j ELSE HistoryCap)
         /\ \A i \in 1..Len(Entered(j)) : Entered(j)[i] = j + 1 - i
<1> DEFINE all == <<j>> \o jobs
           n   == IF Len(all) > HistoryCap THEN HistoryCap ELSE Len(all)
<1>1. jobs \in Seq(Ids) /\ Len(jobs) \in Nat /\ jobSeq \in Nat /\ j \in Ids /\ j \in Nat
  BY DEF TypeOK, Ids
<1>2. Len(all) = Len(jobs) + 1
  BY <1>1
<1>3. all[1] = j /\ \A i \in 2..Len(all) : all[i] = jobs[i - 1]
  BY <1>1
<1>4. \A i \in 1..Len(all) : all[i] = j + 1 - i
  <2> SUFFICES ASSUME NEW i \in 1..Len(all) PROVE all[i] = j + 1 - i
    OBVIOUS
  <2>1. CASE i = 1
    BY <2>1, <1>1, <1>3
  <2>2. CASE i \in 2..Len(all)
    <3>1. i - 1 \in 1..Len(jobs)
      BY <2>2, <1>1, <1>2
    <3>2. jobs[i - 1] = jobSeq + 1 - (i - 1)
      BY <3>1 DEF NewestFirst
    <3> QED BY <2>2, <3>2, <1>1, <1>3
  <2> QED BY <2>1, <2>2, <1>1, <1>2
<1>5. n = (IF j < HistoryCap THEN j ELSE HistoryCap)
  BY <1>1, <1>2 DEF NewestFirst
<1>6. n \in Nat \ {0} /\ n <= HistoryCap /\ n <= Len(all) /\ n <= j
  BY <1>1, <1>2, <1>5
<1>7. Entered(j) = [i \in 1..n |-> all[i]]
  BY DEF Entered
<1> HIDE DEF all, n
<1>8. \A i \in 1..n : all[i] \in Ids
  BY <1>1, <1>4, <1>6 DEF Ids
<1>9. Entered(j) \in Seq(Ids) /\ Len(Entered(j)) = n
  BY <1>6, <1>7, <1>8
<1>10. \A i \in 1..n : Entered(j)[i] = j + 1 - i
  BY <1>4, <1>6, <1>7, <1>2, <1>1
<1>11. Entered(j) # <<>> /\ Head(Entered(j)) = j
  <2>1. Head(Entered(j)) = Entered(j)[1] /\ Entered(j) # <<>>
    BY <1>6, <1>9
  <2> QED BY <2>1, <1>1, <1>6, <1>10
<1> QED BY <1>5, <1>6, <1>9, <1>10, <1>11

\* Accepting a job keeps the invariant.
LEMMA StartStep == ASSUME IInv, NEW r \in Runners, StartJob(r) PROVE IInv'
<1>0. TypeOK /\ MineInv /\ OneAtATime /\ RunningHeads /\ NewestFirst
  BY DEF IInv
<1>1. jobSeq < MaxJobs /\ jobSeq' = jobSeq + 1 /\ activeJob' = jobSeq' /\ jobs' = Entered(jobSeq')
      /\ status' = [status EXCEPT ![jobSeq'] = "running"] /\ pc' = [pc EXCEPT ![r] = "run"]
      /\ mine' = [mine EXCEPT ![r] = jobSeq'] /\ UNCHANGED lastStatus
  BY DEF StartJob
<1>2. /\ jobs' \in Seq(Ids) /\ Len(jobs') <= HistoryCap /\ jobs' # <<>> /\ Head(jobs') = jobSeq'
      /\ Len(jobs') = (IF jobSeq' < HistoryCap THEN jobSeq' ELSE HistoryCap)
      /\ \A i \in 1..Len(jobs') : jobs'[i] = jobSeq' + 1 - i
  BY <1>0, <1>1, EnteredFacts
<1>3. \A q \in Runners : pc[q] # "run"
  BY IdleWhenFree DEF StartJob
<1>4. jobSeq \in Nat /\ jobSeq' \in Ids
  BY <1>0, <1>1 DEF TypeOK, Ids
<1>5. TypeOK'
  BY <1>0, <1>1, <1>2, <1>4 DEF TypeOK, Ids
<1>6. \A q \in Runners : pc'[q] = "run" => q = r
  BY <1>0, <1>1, <1>3 DEF TypeOK
<1>7. mine'[r] = jobSeq' /\ status'[jobSeq'] = "running"
  BY <1>0, <1>1, <1>4 DEF TypeOK
<1>8. OneAtATime' /\ RunningHeads'
  BY <1>1, <1>2, <1>6, <1>7 DEF OneAtATime, RunningHeads
<1>9. MineInv'
  <2> SUFFICES ASSUME NEW q \in Runners
      PROVE /\ mine'[q] <= jobSeq'
            /\ pc'[q] = "run" => mine'[q] \in Ids
            /\ pc'[q] = "report" => mine'[q] \in Ids /\ status'[mine'[q]] \in Outcomes
    BY DEF MineInv
  <2>1. CASE q = r
    <3>1. pc'[q] = "run"
      BY <2>1, <1>0, <1>1 DEF TypeOK
    <3> QED BY <2>1, <3>1, <1>4, <1>7 DEF Ids
  <2>2. CASE q # r
    <3>1. mine'[q] = mine[q] /\ pc'[q] = pc[q]
      BY <2>2, <1>0, <1>1 DEF TypeOK
    <3>2. mine[q] <= jobSeq /\ mine[q] \in Nat
      BY <1>0 DEF MineInv, TypeOK
    <3>3. pc[q] = "report" => mine[q] \in Ids /\ status'[mine[q]] = status[mine[q]]
      BY <3>2, <1>0, <1>1, <1>4 DEF MineInv, TypeOK
    <3> QED BY <3>1, <3>2, <3>3, <1>0, <1>1, <1>3, <1>4 DEF MineInv
  <2> QED BY <2>1, <2>2
<1>10. NewestFirst'
  BY <1>2 DEF NewestFirst
<1> QED BY <1>5, <1>8, <1>9, <1>10 DEF IInv

\* The end of a run keeps the invariant.
LEMMA FinishStep == ASSUME IInv, NEW r \in Runners, Finish(r) PROVE IInv'
<1>0. TypeOK /\ MineInv /\ OneAtATime /\ RunningHeads /\ NewestFirst
  BY DEF IInv
<1>1. PICK s \in Outcomes : status' = [status EXCEPT ![mine[r]] = s]
  BY DEF Finish
<1>2. pc[r] = "run" /\ pc' = [pc EXCEPT ![r] = "report"]
      /\ UNCHANGED <<jobSeq, jobs, activeJob, mine, lastStatus>>
  BY DEF Finish
<1>3. TypeOK'
  BY <1>0, <1>1, <1>2 DEF TypeOK
<1>4. \A q \in Runners : pc'[q] # "run"
  BY <1>0, <1>2 DEF TypeOK, OneAtATime
<1>5. OneAtATime' /\ RunningHeads'
  BY <1>4 DEF OneAtATime, RunningHeads
<1>6. mine[r] \in Ids /\ status'[mine[r]] = s
  BY <1>0, <1>1, <1>2 DEF MineInv, TypeOK
<1>7. \A q \in Runners : pc'[q] = "report" => mine[q] \in Ids /\ status'[mine[q]] \in Outcomes
  <2> SUFFICES ASSUME NEW q \in Runners, pc'[q] = "report"
               PROVE  mine[q] \in Ids /\ status'[mine[q]] \in Outcomes
    OBVIOUS
  <2>1. CASE mine[q] = mine[r]
    BY <2>1, <1>6
  <2>2. CASE mine[q] # mine[r]
    <3>1. q # r /\ pc[q] = "report"
      BY <2>2, <1>0, <1>2 DEF TypeOK
    <3> QED BY <2>2, <3>1, <1>0, <1>1 DEF MineInv, TypeOK
  <2> QED BY <2>1, <2>2
<1>8. MineInv'
  BY <1>0, <1>2, <1>4, <1>7 DEF MineInv
<1>9. NewestFirst'
  BY <1>0, <1>2 DEF NewestFirst
<1> QED BY <1>3, <1>5, <1>8, <1>9 DEF IInv

\* Reporting the outcome keeps the invariant.
LEMMA ReportStep == ASSUME IInv, NEW r \in Runners, Report(r) PROVE IInv'
<1>0. TypeOK /\ MineInv /\ OneAtATime /\ RunningHeads /\ NewestFirst
  BY DEF IInv
<1>1. pc[r] = "report" /\ pc' = [pc EXCEPT ![r] = "idle"] /\ lastStatus' = status[mine[r]]
      /\ UNCHANGED <<jobSeq, jobs, activeJob, status, mine>>
  BY DEF Report
<1>2. status[mine[r]] \in Outcomes
  BY <1>0, <1>1 DEF MineInv
<1>3. TypeOK'
  BY <1>0, <1>1, <1>2 DEF TypeOK
<1>4. \A q \in Runners : pc'[q] = pc[q] \/ pc'[q] = "idle"
  BY <1>0, <1>1 DEF TypeOK
<1> QED BY <1>0, <1>1, <1>3, <1>4 DEF IInv, MineInv, OneAtATime, RunningHeads, NewestFirst

\* IInv holds in every reachable state.
THEOREM Invariance == Spec => []IInv
<1>1. Init => IInv
  BY DEF Init, IInv, TypeOK, MineInv, OneAtATime, RunningHeads, NewestFirst, Ids
<1>2. IInv /\ [Next]_vars => IInv'
  <2> SUFFICES ASSUME IInv, [Next]_vars PROVE IInv'
    OBVIOUS
  <2>1. CASE UNCHANGED vars
    BY <2>1 DEF vars, IInv, TypeOK, MineInv, OneAtATime, RunningHeads, NewestFirst
  <2> QED BY <2>1, StartStep, FinishStep, ReportStep DEF Next
<1> QED BY <1>1, <1>2, PTL DEF Spec

\* Every variable has its type.
THEOREM TypeCorrect == Spec => []TypeOK
<1>1. IInv => TypeOK
  BY DEF IInv
<1> QED BY <1>1, Invariance, PTL

\* Two pipelines are never in progress at the same time.
THEOREM Exclusion == Spec => []OneAtATime
<1>1. IInv => OneAtATime
  BY DEF IInv
<1> QED BY <1>1, Invariance, PTL

\* The pipeline in progress is the active job and heads the table.
THEOREM Heads == Spec => []RunningHeads
<1>1. IInv => RunningHeads
  BY DEF IInv
<1> QED BY <1>1, Invariance, PTL

\* The table holds the newest jobs without a gap, newest first.
THEOREM Table == Spec => []NewestFirst
<1>1. IInv => NewestFirst
  BY DEF IInv
<1> QED BY <1>1, Invariance, PTL

-----------------------------------------------------------------------------
(* The contract.                                                           *)

\* The active job is the last one: the server never forgets it.
ActiveInv == activeJob = jobSeq

\* The server never forgets its last job.
LEMMA ActiveGrows ==
  TypeOK /\ ActiveInv /\ [Next]_vars => ActiveInv' /\ activeJob <= activeJob'
<1> SUFFICES ASSUME TypeOK, ActiveInv, [Next]_vars PROVE ActiveInv' /\ activeJob <= activeJob'
  OBVIOUS
<1>1. jobSeq \in Nat
  BY DEF TypeOK
<1>2. ASSUME NEW r \in Runners, StartJob(r) PROVE ActiveInv' /\ activeJob <= activeJob'
  BY <1>1, <1>2 DEF StartJob, ActiveInv
<1>3. ASSUME NEW r \in Runners, Finish(r) \/ Report(r) PROVE ActiveInv' /\ activeJob <= activeJob'
  BY <1>1, <1>3 DEF Finish, Report, ActiveInv
<1>4. CASE UNCHANGED vars
  BY <1>1, <1>4 DEF vars, ActiveInv
<1> QED BY <1>2, <1>3, <1>4 DEF Next

\* The runs read off the statuses are a sequence of as many.
RunsOK ==
  /\ Runs \in Seq(Outcomes \cup {"none", "running"}) /\ Len(Runs) = jobSeq
  /\ jobSeq \in Nat /\ \A j \in 1..jobSeq : Runs[j] = status[j] /\ j \in Ids

LEMMA RunsFacts == TypeOK => RunsOK
<1> SUFFICES ASSUME TypeOK PROVE RunsOK
  OBVIOUS
<1>1. jobSeq \in Nat /\ 1..jobSeq \subseteq Ids
  BY DEF TypeOK, Ids
<1>2. \A j \in 1..jobSeq : status[j] \in Outcomes \cup {"none", "running"}
  BY <1>1 DEF TypeOK
<1> QED BY <1>1, <1>2 DEF Runs, RunsOK

LEMMA RunsFactsNext == TypeOK' => RunsOK'
BY RunsFacts, PTL

\* A job that is accepted begins a run.
LEMMA StartBegins ==
  ASSUME IInv, IInv', NEW r \in Runners, StartJob(r) PROVE Contract!Begin(r)
<1>0. TypeOK /\ TypeOK' /\ NewestFirst'
  BY DEF IInv
<1>1. jobSeq < MaxJobs /\ jobSeq' = jobSeq + 1 /\ UNCHANGED lastStatus
      /\ status' = [status EXCEPT ![jobSeq'] = "running"] /\ pc' = [pc EXCEPT ![r] = "run"]
  BY DEF StartJob
<1>2. Working = {} /\ Working' = {r}
  <2>1. \A q \in Runners : pc[q] # "run"
    BY IdleWhenFree DEF StartJob
  <2> QED BY <2>1, <1>0, <1>1 DEF Working, TypeOK
<1>3. /\ jobSeq \in Nat /\ jobSeq' \in Ids
      /\ Runs \in Seq(Outcomes \cup {"none", "running"}) /\ Len(Runs) = jobSeq
      /\ Runs' \in Seq(Outcomes \cup {"none", "running"}) /\ Len(Runs') = jobSeq'
  BY <1>0, <1>1, RunsFacts, RunsFactsNext DEF RunsOK, Ids
<1>4. Runs' = Append(Runs, "running")
  <2>1. \A j \in 1..jobSeq : Runs'[j] = Runs[j]
    <3> SUFFICES ASSUME NEW j \in 1..jobSeq PROVE Runs'[j] = Runs[j]
      OBVIOUS
    <3>1. j \in 1..jobSeq' /\ j # jobSeq' /\ j \in Ids
      BY <1>0, <1>1, <1>3, RunsFacts DEF RunsOK
    <3>2. status'[j] = status[j]
      BY <3>1, <1>0, <1>1 DEF TypeOK
    <3>3. Runs'[j] = status'[j] /\ Runs[j] = status[j]
      BY <3>1, <1>0, RunsFacts, RunsFactsNext DEF RunsOK
    <3> QED BY <3>2, <3>3
  <2>2. Runs'[jobSeq'] = "running"
    <3>1. jobSeq' \in 1..jobSeq'
      BY <1>1, <1>3
    <3>2. Runs'[jobSeq'] = status'[jobSeq']
      BY <3>1, <1>0, RunsFactsNext DEF RunsOK
    <3>3. status'[jobSeq'] = "running"
      BY <1>0, <1>1, <1>3 DEF TypeOK
    <3> QED BY <3>2, <3>3
  <2> QED BY <2>1, <2>2, <1>1, <1>3
<1>5. jobs' = Contract!Newest(Len(Runs'))
  <2> DEFINE n == IF jobSeq' > HistoryCap THEN HistoryCap ELSE jobSeq'
  <2>1. Len(jobs') = n /\ n \in Nat /\ jobs' \in Seq(Ids)
    BY <1>0, <1>1, <1>3 DEF NewestFirst, TypeOK
  <2>2. \A i \in 1..n : jobs'[i] = jobSeq' + 1 - i
    BY <2>1, <1>0 DEF NewestFirst
  <2>3. Contract!Newest(jobSeq') = [i \in 1..n |-> jobSeq' + 1 - i]
    BY DEF Contract!Newest
  <2> HIDE DEF n
  <2>4. jobs' = [i \in 1..n |-> jobs'[i]]
    BY <2>1
  <2>5. jobs' = [i \in 1..n |-> jobSeq' + 1 - i]
    BY <2>2, <2>4
  <2> QED BY <2>3, <2>5, <1>3
<1> QED BY <1>1, <1>2, <1>4, <1>5 DEF Contract!Begin

\* The job that ends is the last run.
LEMMA FinishEnds ==
  ASSUME IInv, IInv', ActiveInv, NEW r \in Runners, Finish(r) PROVE Contract!End(r)
<1>0. TypeOK /\ TypeOK' /\ OneAtATime /\ RunningHeads /\ MineInv
  BY DEF IInv
<1>1. PICK s \in Outcomes : status' = [status EXCEPT ![mine[r]] = s]
  BY DEF Finish
<1>2. pc[r] = "run" /\ pc' = [pc EXCEPT ![r] = "report"]
      /\ UNCHANGED <<jobSeq, jobs, activeJob, mine, lastStatus>>
  BY DEF Finish
<1>3. mine[r] = jobSeq /\ mine[r] \in Ids
  BY <1>0, <1>2 DEF RunningHeads, MineInv, ActiveInv
<1>4. Working = {r} /\ Working' = {}
  BY <1>0, <1>2 DEF Working, OneAtATime, TypeOK
<1>5. /\ jobSeq \in Nat /\ jobSeq \in 1..jobSeq
      /\ Runs \in Seq(Outcomes \cup {"none", "running"}) /\ Len(Runs) = jobSeq
      /\ Runs' \in Seq(Outcomes \cup {"none", "running"}) /\ Len(Runs') = jobSeq
  BY <1>0, <1>2, <1>3, RunsFacts, RunsFactsNext DEF RunsOK, Ids
<1>6. \A j \in 1..jobSeq : Runs'[j] = (IF j = jobSeq THEN s ELSE Runs[j])
  <2> SUFFICES ASSUME NEW j \in 1..jobSeq PROVE Runs'[j] = (IF j = jobSeq THEN s ELSE Runs[j])
    OBVIOUS
  <2>1. Runs'[j] = status'[j] /\ Runs[j] = status[j] /\ j \in Ids
    BY <1>0, <1>2, RunsFacts, RunsFactsNext DEF RunsOK
  <2> QED BY <2>1, <1>0, <1>1, <1>3 DEF TypeOK
<1>7. Runs' = [Runs EXCEPT ![Len(Runs)] = s]
  <2> DEFINE new == [Runs EXCEPT ![Len(Runs)] = s]
  <2>1. new \in Seq(Outcomes \cup {"none", "running"}) /\ Len(new) = jobSeq
        /\ \A j \in 1..jobSeq : new[j] = (IF j = jobSeq THEN s ELSE Runs[j])
    BY <1>5
  <2> HIDE DEF new
  <2>2. Runs' = new
    BY <1>5, <1>6, <2>1
  <2> QED BY <2>2 DEF new
<1> QED BY <1>2, <1>4, <1>7 DEF Contract!End, Outcomes

\* What is reported is the outcome of a run that has ended.
LEMMA ReportRecords ==
  ASSUME IInv, IInv', NEW r \in Runners, Report(r) PROVE Contract!Record
<1>0. TypeOK /\ TypeOK' /\ MineInv
  BY DEF IInv
<1>1. pc[r] = "report" /\ pc' = [pc EXCEPT ![r] = "idle"] /\ lastStatus' = status[mine[r]]
      /\ UNCHANGED <<jobSeq, jobs, activeJob, status, mine>>
  BY DEF Report
<1>2. mine[r] \in 1..jobSeq /\ status[mine[r]] # "running"
  BY <1>0, <1>1 DEF MineInv, Ids, TypeOK, Outcomes
<1>3. mine[r] \in 1..Len(Runs) /\ Runs[mine[r]] = status[mine[r]]
  BY <1>0, <1>2, RunsFacts DEF RunsOK
<1>4. Runs' = Runs /\ Working' = Working
  BY <1>0, <1>1 DEF Runs, Working, TypeOK
<1> QED BY <1>1, <1>2, <1>3, <1>4 DEF Contract!Record

(* Whoever starts backups, they run one after the other; an outcome is     *)
(* final, and the history is the newest ones at every moment.              *)
THEOREM Implements == Spec => KeepsTable
<1>1. Init => Contract!CInit /\ ActiveInv
  <2> SUFFICES ASSUME Init PROVE Contract!CInit /\ ActiveInv
    OBVIOUS
  <2>1. Runs = <<>> /\ Working = {}
    BY DEF Init, Runs, Working
  <2> QED BY <2>1 DEF Init, Contract!CInit, ActiveInv
<1>2. IInv /\ IInv' /\ ActiveInv /\ [Next]_vars
        => [Contract!CNext]_<<Runs, Working, jobs, lastStatus>>
  <2> SUFFICES ASSUME IInv, IInv', ActiveInv, [Next]_vars
               PROVE  [Contract!CNext]_<<Runs, Working, jobs, lastStatus>>
    OBVIOUS
  <2>1. CASE UNCHANGED vars
    BY <2>1 DEF vars, Runs, Working
  <2> QED BY <2>1, StartBegins, FinishEnds, ReportRecords DEF Next, Contract!CNext
<1>3. IInv => TypeOK
  BY DEF IInv
<1> QED BY <1>1, <1>2, <1>3, ActiveGrows, Invariance, PTL DEF Spec, KeepsTable, Contract!CSpec

-----------------------------------------------------------------------------
(* The pages.                                                              *)

\* The answers in flight are about jobs the server has started, and so is
\* what the page shows.
PageInv ==
  \A p \in Pages :
    /\ es[p] # "null" \/ asked[p] = "running" => activeJob # 0
    /\ announced[p] <= activeJob
    /\ followed[p] # 0 => followed[p] >= announced[p]
    /\ \A n \in 1..MaxPosts : posts[p][n].at = "accepted" =>
         posts[p][n].job # 0 /\ posts[p][n].job <= activeJob

PagesInv == TypeOK /\ PagesTyped /\ ActiveInv /\ PageInv

\* A step of the pages is a step of the job table, or none at all.
LEMMA PageStep == [PNext]_allVars => [Next]_vars
BY DEF PNext, Next, Handling, Scripting, StatusHandled, StreamHandled, PostStarts, StatusArrives,
   Done, PostAccepted, PostFails, Load, Click, Disconnected, CancelBackup, allVars, vars

LEMMA InitPages == PInit => PagesInv
BY RunPageAssumption DEF PInit, PagesInv, Init, TypeOK, PagesTyped, ActiveInv, PageInv, NoPosts, NoPost,
   Post, Ids

\* The pages alone move.
LEMMA ScriptStep ==
  ASSUME PagesInv, NEW p \in Pages, UNCHANGED vars,
         \/ Load(p) \/ StatusArrives(p) \/ Click(p) \/ Done(p) \/ Disconnected(p)
         \/ CancelBackup(p) \/ StatusHandled(p) \/ StreamHandled(p)
         \/ \E n \in 1..MaxPosts : PostAccepted(p, n) \/ PostFails(p, n)
  PROVE  PagesTyped' /\ PageInv'
<1> USE DEF PagesInv, PagesTyped, PageInv, Disable, Reset, CloseStream, StreamLogs, PostAnswered
<1>1. activeJob \in 0..MaxJobs /\ activeJob' = activeJob
  BY DEF TypeOK, vars
<1>2. CASE Load(p)
  <2>1. NoPosts \in [1..MaxPosts -> Post] /\ \A n \in 1..MaxPosts : NoPosts[n].at = "off"
    BY DEF NoPosts, NoPost, Post
  <2> QED BY <1>1, <1>2, <2>1 DEF Load
<1>3. CASE StatusArrives(p)
  BY <1>1, <1>3 DEF StatusArrives
<1>4. CASE Click(p)
  <2>1. PICK n \in 1..MaxPosts : posts' = [posts EXCEPT ![p][n].at = "sent"]
    BY <1>4 DEF Click
  <2>2. posts[p][n] \in Post
    OBVIOUS
  <2>3. [posts[p][n] EXCEPT !.at = "sent"] \in Post /\ [posts[p][n] EXCEPT !.at = "sent"].at = "sent"
    BY <2>2 DEF Post
  <2>4. posts' \in [Pages -> [1..MaxPosts -> Post]]
    BY <2>1, <2>3
  <2>5. \A q \in Pages, m \in 1..MaxPosts : posts'[q][m].at = "accepted" => posts'[q][m] = posts[q][m]
    BY <2>1, <2>3
  <2> QED BY <1>1, <1>4, <2>4, <2>5 DEF Click
<1>5. CASE Done(p) \/ Disconnected(p) \/ CancelBackup(p)
  <2>1. /\ disabled' = [disabled EXCEPT ![p] = FALSE] /\ es' = [es EXCEPT ![p] = "null"]
        /\ followed' = [followed EXCEPT ![p] = 0] /\ UNCHANGED <<asked, posts, announced>>
    BY <1>5 DEF Done, Disconnected, CancelBackup
  <2> QED BY <1>1, <2>1
<1>6. CASE StatusHandled(p)
  BY <1>1, <1>6 DEF StatusHandled, Busy
<1>7. CASE StreamHandled(p)
  BY <1>1, <1>7 DEF StreamHandled
<1>8. ASSUME NEW n \in 1..MaxPosts, PostAccepted(p, n) \/ PostFails(p, n)
      PROVE  PagesTyped' /\ PageInv'
  <2>1. posts' = [posts EXCEPT ![p][n] = NoPost]
    BY <1>8 DEF PostAccepted, PostFails
  <2>2. NoPost \in Post /\ NoPost.at = "off"
    BY DEF NoPost, Post
  <2>3. posts' \in [Pages -> [1..MaxPosts -> Post]]
    BY <2>1, <2>2
  <2>4. \A q \in Pages, m \in 1..MaxPosts : posts'[q][m].at = "accepted" => posts'[q][m] = posts[q][m]
    BY <2>1, <2>2
  <2>5. CASE PostAccepted(p, n)
    <3>1. posts[p][n].job \in 0..MaxJobs /\ posts[p][n].job # 0 /\ posts[p][n].job <= activeJob
      BY <2>5 DEF PostAccepted, Post
    <3> QED BY <1>1, <2>5, <2>3, <2>4, <3>1 DEF PostAccepted
  <2>6. CASE PostFails(p, n)
    BY <1>1, <2>6, <2>3, <2>4 DEF PostFails
  <2> QED BY <1>8, <2>5, <2>6
<1> QED BY <1>2, <1>3, <1>4, <1>5, <1>6, <1>7, <1>8

\* A post starts a job.
LEMMA PostStep ==
  ASSUME PagesInv, TypeOK', ActiveInv', activeJob <= activeJob',
         NEW p \in Pages, NEW n \in 1..MaxPosts, PostStarts(p, n)
  PROVE  PagesTyped' /\ PageInv'
<1> USE DEF PagesInv, PagesTyped, PageInv
<1>1. /\ activeJob \in 0..MaxJobs /\ activeJob' \in 0..MaxJobs /\ jobSeq' = activeJob'
      /\ activeJob' # 0
  BY DEF TypeOK, ActiveInv, PostStarts, StartJob
<1>2. posts' = [posts EXCEPT ![p][n] = [at |-> "accepted", job |-> jobSeq']]
  BY DEF PostStarts
<1>3. [at |-> "accepted", job |-> jobSeq'] \in Post
  BY <1>1 DEF Post
<1>4. posts' \in [Pages -> [1..MaxPosts -> Post]]
  BY <1>2, <1>3
<1>5. \A q \in Pages, m \in 1..MaxPosts :
        posts'[q][m] = posts[q][m] \/ posts'[q][m] = [at |-> "accepted", job |-> jobSeq']
  BY <1>2, <1>3
<1>6. \A q \in Pages, m \in 1..MaxPosts : posts[q][m].job \in 0..MaxJobs
  BY DEF Post
<1>7. \A q \in Pages, m \in 1..MaxPosts : posts'[q][m].at = "accepted" =>
        posts'[q][m].job # 0 /\ posts'[q][m].job <= activeJob'
  <2> SUFFICES ASSUME NEW q \in Pages, NEW m \in 1..MaxPosts, posts'[q][m].at = "accepted"
               PROVE  posts'[q][m].job # 0 /\ posts'[q][m].job <= activeJob'
    OBVIOUS
  <2>1. CASE posts'[q][m] = posts[q][m]
    <3>1. posts[q][m].job # 0 /\ posts[q][m].job <= activeJob
      BY <2>1
    <3> QED BY <2>1, <3>1, <1>1, <1>6
  <2>2. CASE posts'[q][m] = [at |-> "accepted", job |-> jobSeq']
    BY <2>2, <1>1
  <2> QED BY <2>1, <2>2, <1>5
<1> QED BY <1>1, <1>4, <1>7 DEF PostStarts

\* The job table alone moves.
LEMMA TableStep ==
  ASSUME PagesInv, TypeOK', activeJob <= activeJob', UNCHANGED pageVars
  PROVE  PagesTyped' /\ PageInv'
<1>1. activeJob \in Nat /\ activeJob' \in Nat
  BY DEF PagesInv, TypeOK
<1>2. UNCHANGED <<asked, posts, disabled, es, followed, announced>>
  BY DEF pageVars
<1>3. PagesTyped'
  BY <1>2 DEF PagesInv, PagesTyped
<1>4. \A p \in Pages, n \in 1..MaxPosts : posts[p][n].job \in Nat
  <2>1. \A p \in Pages, n \in 1..MaxPosts : posts[p][n] \in Post
    BY DEF PagesInv, PagesTyped
  <2> QED BY <2>1, JobsAssumption DEF Post
<1>5. \A p \in Pages : announced[p] \in Nat
  BY DEF PagesInv, PagesTyped
<1>6. PageInv'
  BY <1>1, <1>2, <1>4, <1>5 DEF PagesInv, PageInv
<1> QED BY <1>3, <1>6

LEMMA NextPages == PagesInv /\ TypeOK' /\ [PNext]_allVars => PagesInv'
<1> SUFFICES ASSUME PagesInv, TypeOK', [PNext]_allVars PROVE PagesInv'
  OBVIOUS
<1>1. ActiveInv' /\ activeJob <= activeJob'
  BY PageStep, ActiveGrows DEF PagesInv
<1>2. PagesTyped' /\ PageInv'
  <2>1. CASE UNCHANGED pageVars
    BY <1>1, <2>1, TableStep
  <2>2. ASSUME NEW p \in Pages, NEW n \in 1..MaxPosts, PostStarts(p, n) PROVE PagesTyped' /\ PageInv'
    BY <1>1, <2>2, PostStep
  <2>3. ASSUME NEW p \in Pages, NEW n \in 1..MaxPosts, PostAccepted(p, n) \/ PostFails(p, n)
        PROVE  PagesTyped' /\ PageInv'
    <3>1. UNCHANGED vars
      BY <2>3 DEF PostAccepted, PostFails, vars
    <3> QED BY <2>3, <3>1, ScriptStep
  <2>4. ASSUME NEW p \in Pages,
               \/ Load(p) \/ StatusArrives(p) \/ Click(p) \/ Done(p) \/ Disconnected(p)
               \/ CancelBackup(p) \/ StatusHandled(p) \/ StreamHandled(p)
        PROVE  PagesTyped' /\ PageInv'
    <3>1. UNCHANGED vars
      BY <2>4 DEF Load, StatusArrives, Click, Done, Disconnected, CancelBackup, StatusHandled,
         StreamHandled, vars
    <3> QED BY <2>4, <3>1, ScriptStep
  <2> QED BY <2>1, <2>2, <2>3, <2>4 DEF PNext, Handling, Scripting, allVars
<1> QED BY <1>1, <1>2 DEF PagesInv

(* With its pages, the job table is the one of module Jobs, so that what   *)
(* is proved of apiRunBackup and startJob above holds whatever the pages   *)
(* do.                                                                     *)
THEOREM IsJobs == PSpec => Spec
<1>1. PInit => Init
  BY DEF PInit
<1> QED BY <1>1, PageStep, PTL DEF PSpec, Spec

(* What is in flight between the pages and the server is about jobs that   *)
(* the server has started, and the job announced is not newer than those.  *)
THEOREM PagesInvariance == PSpec => []PagesInv
<1> QED BY InitPages, NextPages, TypeCorrect, IsJobs, PTL DEF PSpec

(* A page that has said "Job #... started" does not show the log of an     *)
(* older one, for any number of pages, posts and jobs.                     *)
THEOREM NewFollowed == PSpec => []FollowsNew
<1>1. PagesInv => FollowsNew
  BY DEF PagesInv, PageInv, FollowsNew
<1> QED BY <1>1, PagesInvariance, PTL

(* The types of the pages, and that an open stream follows a job.          *)
THEOREM PagesTypeCorrect == PSpec => []PagesOK
<1>1. PagesInv => PagesOK
  BY DEF PagesInv, PagesOK
<1> QED BY <1>1, PagesInvariance, PTL

-----------------------------------------------------------------------------
(* What a disabled button waits for.                                       *)

\* A job that has begun has ended, or a goroutine is in it.
OwnedInv ==
  \A j \in 1..jobSeq :
    status[j] \in Outcomes \/ \E r \in Runners : pc[r] = "run" /\ mine[r] = j

LEMMA OwnedStep == IInv /\ OwnedInv /\ [Next]_vars => OwnedInv'
<1> SUFFICES ASSUME IInv, OwnedInv, [Next]_vars, NEW j \in 1..jobSeq'
             PROVE  status'[j] \in Outcomes \/ \E r \in Runners : pc'[r] = "run" /\ mine'[r] = j
  BY DEF OwnedInv
<1>0. TypeOK /\ MineInv /\ OneAtATime /\ jobSeq \in Nat
  BY DEF IInv, TypeOK
<1>1. ASSUME NEW r \in Runners, StartJob(r)
      PROVE  status'[j] \in Outcomes \/ \E q \in Runners : pc'[q] = "run" /\ mine'[q] = j
  <2>1. /\ jobSeq' = jobSeq + 1 /\ jobSeq < MaxJobs
        /\ status' = [status EXCEPT ![jobSeq'] = "running"]
        /\ pc' = [pc EXCEPT ![r] = "run"] /\ mine' = [mine EXCEPT ![r] = jobSeq']
    BY <1>1 DEF StartJob
  <2>2. CASE j = jobSeq'
    BY <2>1, <2>2, <1>0 DEF TypeOK
  <2>3. CASE j # jobSeq'
    <3>1. j \in 1..jobSeq /\ j \in Ids
      BY <2>1, <2>3, <1>0 DEF Ids, TypeOK
    <3>2. \A q \in Runners : pc[q] # "run"
      BY <1>1, IdleWhenFree DEF StartJob
    <3>3. status[j] \in Outcomes
      BY <3>1, <3>2 DEF OwnedInv
    <3> QED BY <2>1, <2>3, <3>1, <3>3, <1>0 DEF TypeOK
  <2> QED BY <2>2, <2>3
<1>2. ASSUME NEW r \in Runners, Finish(r)
      PROVE  status'[j] \in Outcomes \/ \E q \in Runners : pc'[q] = "run" /\ mine'[q] = j
  <2>1. PICK s \in Outcomes : status' = [status EXCEPT ![mine[r]] = s]
    BY <1>2 DEF Finish
  <2>2. pc[r] = "run" /\ jobSeq' = jobSeq /\ mine[r] \in Ids
    BY <1>2, <1>0 DEF Finish, MineInv
  <2>3. j \in Ids
    BY <2>2, <1>0 DEF Ids, TypeOK
  <2>4. CASE j = mine[r]
    BY <2>1, <2>2, <2>4, <1>0 DEF TypeOK
  <2>5. CASE j # mine[r]
    <3>1. status[j] \in Outcomes
      BY <2>2, <2>5, <1>0 DEF OwnedInv, OneAtATime
    <3> QED BY <2>1, <2>3, <2>5, <3>1, <1>0 DEF TypeOK
  <2> QED BY <2>4, <2>5
<1>3. ASSUME NEW r \in Runners, Report(r)
      PROVE  status'[j] \in Outcomes \/ \E q \in Runners : pc'[q] = "run" /\ mine'[q] = j
  <2>1. pc[r] = "report" /\ pc' = [pc EXCEPT ![r] = "idle"] /\ UNCHANGED <<jobSeq, status, mine>>
    BY <1>3 DEF Report
  <2>2. \A q \in Runners : pc[q] = "run" => pc'[q] = "run"
    BY <2>1, <1>0 DEF TypeOK
  <2> QED BY <2>1, <2>2 DEF OwnedInv
<1>4. CASE UNCHANGED vars
  BY <1>4 DEF vars, OwnedInv
<1> QED BY <1>1, <1>2, <1>3, <1>4 DEF Next

\* A post is under way or a stream asked for, and it follows a job the
\* server has started.
AwaitInv ==
  \A p \in Pages :
    /\ followed[p] <= activeJob
    /\ disabled[p] => es[p] # "null" \/ \E n \in 1..MaxPosts : posts[p][n].at # "off"

LEMMA AwaitStep == PagesInv /\ TypeOK' /\ AwaitInv /\ [PNext]_allVars => AwaitInv'
<1> SUFFICES ASSUME PagesInv, TypeOK', AwaitInv, [PNext]_allVars, NEW q \in Pages
             PROVE  /\ followed'[q] <= activeJob'
                    /\ disabled'[q] =>
                         es'[q] # "null" \/ \E n \in 1..MaxPosts : posts'[q][n].at # "off"
  BY DEF AwaitInv
<1> DEFINE Waits  == disabled[q] => es[q] # "null" \/ \E n \in 1..MaxPosts : posts[q][n].at # "off"
           WaitsP == disabled'[q] => es'[q] # "null" \/ \E n \in 1..MaxPosts : posts'[q][n].at # "off"
<1>0. /\ activeJob \in Nat /\ activeJob' \in Nat /\ activeJob <= activeJob'
      /\ followed[q] \in Nat /\ followed[q] <= activeJob /\ PagesTyped /\ Waits
  BY PageStep, ActiveGrows DEF PagesInv, TypeOK, PagesTyped, AwaitInv
<1>1. ASSUME UNCHANGED pageVars PROVE followed'[q] <= activeJob' /\ WaitsP
  BY <1>0, <1>1 DEF pageVars
<1>2. ASSUME NEW p \in Pages,
             Load(p) \/ Done(p) \/ Disconnected(p) \/ CancelBackup(p)
      PROVE  followed'[q] <= activeJob' /\ WaitsP
  <2>1. /\ disabled' = [disabled EXCEPT ![p] = FALSE] /\ es' = [es EXCEPT ![p] = "null"]
        /\ followed' = [followed EXCEPT ![p] = 0]
        /\ posts' = posts \/ posts' = [posts EXCEPT ![p] = NoPosts]
    BY <1>2 DEF Load, Done, Disconnected, CancelBackup, Reset, CloseStream
  <2>2. CASE p = q
    BY <2>1, <2>2, <1>0 DEF PagesTyped
  <2>3. CASE p # q
    <3>1. disabled'[q] = disabled[q] /\ es'[q] = es[q] /\ followed'[q] = followed[q]
          /\ posts'[q] = posts[q]
      BY <2>1, <2>3, <1>0 DEF PagesTyped
    <3> QED BY <3>1, <1>0
  <2> QED BY <2>2, <2>3
<1>3. ASSUME NEW p \in Pages, StatusArrives(p) PROVE followed'[q] <= activeJob' /\ WaitsP
  <2>1. /\ disabled' = [disabled EXCEPT ![p] = TRUE] /\ es' = [es EXCEPT ![p] = "connecting"]
        /\ followed' = [followed EXCEPT ![p] = 0] /\ posts' = posts
    BY <1>3 DEF StatusArrives, Disable, StreamLogs
  <2> QED BY <2>1, <1>0 DEF PagesTyped
<1>4. ASSUME NEW p \in Pages, Click(p) PROVE followed'[q] <= activeJob' /\ WaitsP
  <2>1. PICK n \in 1..MaxPosts : posts' = [posts EXCEPT ![p][n].at = "sent"]
    BY <1>4 DEF Click
  <2>2. disabled' = [disabled EXCEPT ![p] = TRUE] /\ UNCHANGED <<es, followed>>
    BY <1>4 DEF Click, Disable
  <2>3. posts[p][n] \in Post
    BY <1>0 DEF PagesTyped
  <2>4. posts'[p][n].at = "sent"
    BY <2>1, <2>3, <1>0 DEF PagesTyped, Post
  <2>5. p # q => posts'[q] = posts[q] /\ disabled'[q] = disabled[q]
    BY <2>1, <2>2, <1>0 DEF PagesTyped
  <2>6. CASE p = q
    BY <2>2, <2>4, <2>6, <1>0
  <2>7. CASE p # q
    BY <2>2, <2>5, <2>7, <1>0
  <2> QED BY <2>6, <2>7
<1>5. ASSUME NEW p \in Pages, NEW n \in 1..MaxPosts, PostAccepted(p, n) \/ PostFails(p, n)
      PROVE  followed'[q] <= activeJob' /\ WaitsP
  <2>1. posts' = [posts EXCEPT ![p][n] = NoPost]
    BY <1>5 DEF PostAccepted, PostFails, PostAnswered
  <2>2. \/ /\ es' = [es EXCEPT ![p] = "connecting"] /\ followed' = [followed EXCEPT ![p] = 0]
           /\ disabled' = disabled
        \/ disabled' = [disabled EXCEPT ![p] = FALSE] /\ es' = es /\ followed' = followed
    BY <1>5 DEF PostAccepted, PostFails, StreamLogs, Reset
  <2>3. CASE p = q
    BY <2>2, <2>3, <1>0 DEF PagesTyped
  <2>4. CASE p # q
    <3>1. disabled'[q] = disabled[q] /\ es'[q] = es[q] /\ followed'[q] = followed[q]
          /\ posts'[q] = posts[q]
      BY <2>1, <2>2, <2>4, <1>0 DEF PagesTyped
    <3> QED BY <3>1, <1>0
  <2> QED BY <2>3, <2>4
<1>6. ASSUME NEW p \in Pages, StatusHandled(p) PROVE followed'[q] <= activeJob' /\ WaitsP
  BY <1>6, <1>0 DEF StatusHandled
<1>7. ASSUME NEW p \in Pages, StreamHandled(p) PROVE followed'[q] <= activeJob' /\ WaitsP
  <2>1. /\ es[p] = "connecting" /\ es' = [es EXCEPT ![p] = "open"] /\ UNCHANGED <<posts, disabled>>
        /\ followed' = [followed EXCEPT ![p] = activeJob]
    BY <1>7 DEF StreamHandled
  <2> QED BY <2>1, <1>0 DEF PagesTyped
<1>8. ASSUME NEW p \in Pages, NEW n \in 1..MaxPosts, PostStarts(p, n)
      PROVE  followed'[q] <= activeJob' /\ WaitsP
  <2>1. posts' = [posts EXCEPT ![p][n] = [at |-> "accepted", job |-> jobSeq']]
        /\ UNCHANGED <<es, followed, disabled>>
    BY <1>8 DEF PostStarts
  <2>2. \A m \in 1..MaxPosts : posts[q][m].at # "off" => posts'[q][m].at # "off"
    BY <2>1, <1>0 DEF PagesTyped
  <2> QED BY <2>1, <2>2, <1>0
<1> HIDE DEF Waits, WaitsP
<1>9. followed'[q] <= activeJob' /\ WaitsP
  <2>1. CASE UNCHANGED allVars
    BY <1>1, <2>1 DEF allVars
  <2>2. CASE PNext
    <3>1. ASSUME NEW p \in Pages, Handling(p) PROVE followed'[q] <= activeJob' /\ WaitsP
      BY <3>1, <1>6, <1>7, <1>8, Zenon DEF Handling
    <3>2. ASSUME NEW p \in Pages, Scripting(p) PROVE followed'[q] <= activeJob' /\ WaitsP
      BY <3>2, <1>2, <1>3, <1>5, Zenon DEF Scripting
    <3> QED BY <2>2, <3>1, <3>2, <1>1, <1>2, <1>4, Zenon DEF PNext
  <2> QED BY <2>1, <2>2
<1> QED BY <1>9 DEF WaitsP

(* No order of answers, refusals, disconnections and clicks leaves the     *)
(* button disabled with nothing on its way that enables it: what is left   *)
(* of ButtonComesBack is that what is on its way arrives.                  *)
THEOREM Awaits == PSpec => []ButtonAwaits
<1>1. PInit => OwnedInv /\ AwaitInv
  BY DEF PInit, Init, OwnedInv, AwaitInv
<1>2. PagesInv /\ OwnedInv /\ AwaitInv => ButtonAwaits
  <2> SUFFICES ASSUME PagesInv, OwnedInv, AwaitInv, NEW p \in Pages, disabled[p]
               PROVE  Awaited(p)
    BY DEF ButtonAwaits
  <2>1. CASE es[p] = "open"
    <3>1. followed[p] \in 1..jobSeq
      BY <2>1 DEF PagesInv, PagesTyped, ActiveInv, AwaitInv
    <3> QED BY <2>1, <3>1 DEF OwnedInv, Awaited
  <2>2. CASE es[p] # "open"
    BY <2>2 DEF PagesInv, PagesTyped, AwaitInv, Awaited
  <2> QED BY <2>1, <2>2
<1>3. PagesInv => TypeOK
  BY DEF PagesInv
<1>4. [PNext]_allVars => [Next]_vars
  BY PageStep
<1> QED BY <1>1, <1>2, <1>3, <1>4, OwnedStep, AwaitStep, Invariance, PagesInvariance, IsJobs, PTL DEF PSpec

=============================================================================
