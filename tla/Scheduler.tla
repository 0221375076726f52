------------------------------ MODULE Scheduler ------------------------------
(***************************************************************************)
(* Automatic backups of the web server: the schedule, its file, the        *)
(* scheduler goroutines, the requests that change the schedule, and the    *)
(* manual backups that compete for the one job (module Jobs).              *)
(*                                                                         *)
(* A goroutine started by startSchedulerWithCtx copies the schedule, waits *)
(* for the time it has copied or for its context, runs a backup, sets the  *)
(* time of the next one, saves the schedule and starts over.  While the    *)
(* backup runs it looks at no context.  apiSaveSchedule changes and saves  *)
(* the schedule, cancels the scheduler that schedulerCtx stands for and,   *)
(* if enabled, starts another; schedulerCtx is guarded by no mutex.        *)
(*                                                                         *)
(* saveSchedule copies under scheduleMu but writes the file afterwards, in *)
(* two steps (os.WriteFile truncates, then writes); two writers may leave  *)
(* the tail of the longer text behind, which loadSchedule cannot parse.    *)
(* Its error is dropped: whoever saved goes on as if it had been written.  *)
(*                                                                         *)
(* A point in time is the number of ticks until then, 0 once it has come.  *)
(* LastRun and LastStatus are in module Jobs.                              *)
(*                                                                         *)
(* A definition marked "Fault" is not part of the specification: put in    *)
(* the place of the definition that follows it, it breaks a property.      *)
(***************************************************************************)
EXTENDS Integers

CONSTANTS
  Main,          \* the goroutine of main that waits for a signal
  Hands,         \* goroutines of backups started by hand that can be alive at once
  Boot,          \* the scheduler that main starts
  Schedulers,    \* those that requests start, one ID per goroutine alive
  Savers,        \* requests to /api/schedule/save that can be under way at once
  Intervals,     \* seconds of the intervals submitted; less than a second: 0
  DiskFails,     \* can the file fail to be opened or written?
  Signals,       \* is the process asked to end?
  MaxRestarts    \* bound on the number of restarts

ASSUME SchedulerAssumption ==
  /\ Boot \notin Schedulers /\ "nil" \notin {Boot} \cup Schedulers
  /\ Main \notin {Boot} \cup Schedulers \cup Savers \cup Hands
  /\ Savers \cap ({Boot} \cup Schedulers) = {}
  /\ Hands \cap ({Boot} \cup Schedulers \cup Savers) = {}
  /\ Intervals \subseteq Nat
  /\ DiskFails \in BOOLEAN /\ Signals \in BOOLEAN /\ MaxRestarts \in Nat

Goroutines == {Boot} \cup Schedulers
Procs      == Goroutines \cup Savers \cup Hands \cup {Main}

VARIABLES
  sched,       \* the schedule: [enabled, interval, next]
  file,        \* schedule.json: "none", "empty", "garbled" or "whole"
  disk,        \* the schedule it holds; Zero unless it is whole
  schedulerCtx,\* the scheduler it would cancel, or "nil"
  pc,          \* where each process stands
  cancelled,   \* has the context of the scheduler been cancelled?
  due,         \* its copy of next; 0 when it is not used any more
  interval,    \* its copy of interval; likewise
  wants,       \* "enabled" of the request; likewise FALSE
  buf,         \* what a process is about to write; likewise Zero
  busy,        \* is the active job running?
  configOk,    \* does toBackupConfig accept the settings?
  restarts     \* number of restarts so far

fileVars  == <<file, disk, buf>>
schedVars == <<schedulerCtx, cancelled, due, interval, wants>>
vars == <<sched, file, disk, schedulerCtx, pc, cancelled, due, interval, wants, buf,
          busy, configOk, restarts>>

Zero == [enabled |-> FALSE, interval |-> 0, next |-> 0]
Goto(p, l) == pc' = [pc EXCEPT ![p] = l]

\* What the process does with the file when it starts: loadSchedule, and
\* startScheduler if the schedule is enabled.
Starts(d) ==
  [p \in Procs |-> IF p = Boot /\ d.enabled THEN "top" ELSE "off"]

Init ==
  /\ \/ file = "none" /\ disk = Zero
     \/ file = "whole" /\ disk \in [enabled : BOOLEAN, interval : Intervals, next : {0}]
  /\ sched = disk /\ pc = Starts(disk)
  /\ schedulerCtx = (IF disk.enabled THEN Boot ELSE "nil")
  /\ cancelled = [g \in Goroutines |-> FALSE]
  /\ due = [g \in Goroutines |-> 0] /\ interval = [g \in Goroutines |-> 0]
  /\ wants = [w \in Savers |-> FALSE]
  /\ buf = [p \in Procs |-> Zero]
  /\ busy = FALSE /\ configOk \in BOOLEAN /\ restarts = 0

-----------------------------------------------------------------------------
(* saveSchedule, as called by every process; After is where it goes on.    *)

After(p) ==
  CASE p \in Goroutines -> "top"
    [] p \in Savers     -> "cancel"
    [] p = Main         -> "exit"
    [] p \in Hands      -> "off"

Marshal(p) ==
  /\ pc[p] = "marshal"
  /\ Goto(p, "truncate")
  /\ buf' = [buf EXCEPT ![p] = sched]
  /\ UNCHANGED <<sched, file, disk, schedVars, busy, configOk, restarts>>

Truncate(p) ==
  /\ pc[p] = "truncate"
  /\ Goto(p, "write")
  /\ file' = "empty" /\ disk' = Zero
  /\ UNCHANGED <<sched, buf, schedVars, busy, configOk, restarts>>

Write(p) ==
  /\ pc[p] = "write"
  /\ Goto(p, After(p))
  /\ \/ file' = "whole" /\ disk' = buf[p]
     \/ file # "empty" /\ file' = "garbled" /\ disk' = Zero
  /\ buf' = [buf EXCEPT ![p] = Zero]
  /\ UNCHANGED <<sched, schedVars, busy, configOk, restarts>>

\* The error of os.WriteFile is dropped: the file could not be opened, or
\* got nothing or only a part of the text.
SaveFails(p) ==
  /\ DiskFails /\ pc[p] \in {"truncate", "write"}
  /\ Goto(p, After(p))
  /\ \/ UNCHANGED <<file, disk>>
     \/ pc[p] = "write" /\ file' = "garbled" /\ disk' = Zero
  /\ buf' = [buf EXCEPT ![p] = Zero]
  /\ UNCHANGED <<sched, schedVars, busy, configOk, restarts>>

Save(p) == Marshal(p) \/ Truncate(p) \/ Write(p) \/ SaveFails(p)

-----------------------------------------------------------------------------
(* A scheduler goroutine.                                                  *)

\* Fault: Enabled is looked at only when the goroutine starts.
LoopTopBlind(g) ==
  /\ pc[g] = "top"
  /\ Goto(g, "wait")
  /\ due' = [due EXCEPT ![g] = sched.next]
  /\ interval' = [interval EXCEPT ![g] = sched.interval]
  /\ UNCHANGED <<sched, fileVars, schedulerCtx, cancelled, wants, busy, configOk, restarts>>

LoopTop(g) ==
  /\ pc[g] = "top"
  /\ \/ /\ sched.enabled /\ sched.interval > 0
        /\ Goto(g, "wait")
        /\ due' = [due EXCEPT ![g] = sched.next]
        /\ interval' = [interval EXCEPT ![g] = sched.interval]
     \/ /\ ~(sched.enabled /\ sched.interval > 0)
        /\ Goto(g, "off")
        /\ UNCHANGED <<due, interval>>
  /\ UNCHANGED <<sched, fileVars, schedulerCtx, cancelled, wants, busy, configOk, restarts>>

\* Fault: the goroutine returns when a backup is already running.
TriggerOrExit(g) ==
  /\ pc[g] = "wait" /\ due[g] = 0
  /\ \/ configOk /\ ~busy /\ busy' = TRUE /\ Goto(g, "run")
     \/ ~configOk /\ Goto(g, "next") /\ UNCHANGED busy
     \/ configOk /\ busy /\ Goto(g, "off") /\ UNCHANGED busy
  /\ UNCHANGED <<sched, fileVars, schedVars, configOk, restarts>>

\* The timer fires; select may prefer it to a cancelled context.
Trigger(g) ==
  /\ pc[g] = "wait" /\ due[g] = 0
  /\ \/ configOk /\ ~busy /\ busy' = TRUE /\ Goto(g, "run")
     \/ (configOk => busy) /\ Goto(g, "next") /\ UNCHANGED busy
  /\ UNCHANGED <<sched, fileVars, schedVars, configOk, restarts>>

Stop(g) ==
  /\ pc[g] = "wait" /\ cancelled[g]
  /\ Goto(g, "off")
  /\ due' = [due EXCEPT ![g] = 0] /\ interval' = [interval EXCEPT ![g] = 0]
  /\ UNCHANGED <<sched, fileVars, schedulerCtx, cancelled, wants, busy, configOk, restarts>>

\* Fault: job.finish is not called.
RunEndsUnfinished(g) ==
  /\ pc[g] = "run"
  /\ Goto(g, "next")
  /\ UNCHANGED <<sched, fileVars, schedVars, busy, configOk, restarts>>

\* RunWithLogger returns; job.finish and updateScheduleLastRun follow.
RunEnds(g) ==
  /\ pc[g] = "run"
  /\ busy' = FALSE
  /\ Goto(g, "next")
  /\ UNCHANGED <<sched, fileVars, schedVars, configOk, restarts>>

SetNext(g) ==
  /\ pc[g] = "next"
  /\ sched' = [sched EXCEPT !.next = interval[g]]
  /\ interval' = [interval EXCEPT ![g] = 0]
  /\ Goto(g, "marshal")
  /\ UNCHANGED <<fileVars, schedulerCtx, cancelled, due, wants, busy, configOk, restarts>>

-----------------------------------------------------------------------------
(* Backups started by hand (apiRunBackup): the next one may start while    *)
(* the last is still saving the schedule.                                  *)

ManualStarts(h) ==
  /\ pc[h] = "off" /\ configOk /\ ~busy
  /\ busy' = TRUE
  /\ Goto(h, "run")
  /\ UNCHANGED <<sched, fileVars, schedVars, configOk, restarts>>

ManualEnds(h) ==
  /\ pc[h] = "run"
  /\ busy' = FALSE
  /\ Goto(h, "marshal")
  /\ UNCHANGED <<sched, fileVars, schedVars, configOk, restarts>>

-----------------------------------------------------------------------------
(* A request to /api/schedule/save.                                        *)

Apply(w, enabled, d) ==
  /\ pc[w] = "off"
  /\ sched' = [enabled |-> enabled, interval |-> d, next |-> IF enabled THEN d ELSE sched.next]
  /\ wants' = [wants EXCEPT ![w] = enabled]
  /\ Goto(w, "marshal")
  /\ UNCHANGED <<fileVars, schedulerCtx, cancelled, due, interval, busy, configOk, restarts>>

\* Fault: the scheduler in place is cancelled only when none takes over.
CancelIfDisabled(w) ==
  /\ pc[w] = "cancel"
  /\ cancelled' = [g \in Goroutines |-> cancelled[g] \/ (g = schedulerCtx /\ ~wants[w])]
  /\ Goto(w, IF wants[w] THEN "spawn" ELSE "off")
  /\ wants' = [wants EXCEPT ![w] = FALSE]
  /\ UNCHANGED <<sched, fileVars, schedulerCtx, due, interval, busy, configOk, restarts>>

Cancel(w) ==
  /\ pc[w] = "cancel"
  /\ cancelled' = [g \in Goroutines |-> cancelled[g] \/ g = schedulerCtx]
  /\ Goto(w, IF wants[w] THEN "spawn" ELSE "off")
  /\ wants' = [wants EXCEPT ![w] = FALSE]
  /\ UNCHANGED <<sched, fileVars, schedulerCtx, due, interval, busy, configOk, restarts>>

\* Fault: the cancel function of the new context is not kept.
SpawnUnkept(w) ==
  /\ pc[w] = "spawn"
  /\ \E g \in Schedulers :
       /\ pc[g] = "off"
       /\ pc' = [pc EXCEPT ![w] = "off", ![g] = "top"]
       /\ cancelled' = [cancelled EXCEPT ![g] = FALSE]
  /\ UNCHANGED <<sched, fileVars, schedulerCtx, due, interval, wants, busy, configOk, restarts>>

Spawn(w) ==
  /\ pc[w] = "spawn"
  /\ \E g \in Schedulers :
       /\ pc[g] = "off"
       /\ pc' = [pc EXCEPT ![w] = "off", ![g] = "top"]
       /\ cancelled' = [cancelled EXCEPT ![g] = FALSE]
       /\ schedulerCtx' = g
  /\ UNCHANGED <<sched, fileVars, due, interval, wants, busy, configOk, restarts>>

-----------------------------------------------------------------------------
(* The process.                                                            *)

\* The context of main is that of the scheduler it started.
Signalled ==
  /\ Signals /\ pc[Main] = "off"
  /\ Goto(Main, "marshal")
  /\ cancelled' = [cancelled EXCEPT ![Boot] = TRUE]
  /\ UNCHANGED <<sched, fileVars, schedulerCtx, due, interval, wants, busy, configOk, restarts>>

\* The process ends, at any point or once the schedule has been saved, and
\* is started again.
Restart ==
  /\ restarts < MaxRestarts
  /\ restarts' = restarts + 1
  /\ sched' = disk /\ pc' = Starts(disk)
  /\ schedulerCtx' = (IF disk.enabled THEN Boot ELSE "nil")
  /\ cancelled' = [g \in Goroutines |-> FALSE]
  /\ due' = [g \in Goroutines |-> 0] /\ interval' = [g \in Goroutines |-> 0]
  /\ wants' = [w \in Savers |-> FALSE] /\ buf' = [p \in Procs |-> Zero]
  /\ busy' = FALSE
  /\ UNCHANGED <<file, disk, configOk>>

Sooner(t) == IF t = 0 THEN 0 ELSE t - 1

Tick ==
  /\ sched' = [sched EXCEPT !.next = Sooner(@)]
  /\ disk' = [disk EXCEPT !.next = Sooner(@)]
  /\ buf' = [p \in Procs |-> [buf[p] EXCEPT !.next = Sooner(@)]]
  /\ due' = [g \in Goroutines |-> Sooner(due[g])]
  /\ UNCHANGED <<file, schedulerCtx, pc, cancelled, interval, wants, busy, configOk, restarts>>

-----------------------------------------------------------------------------

Scheduling(g) == LoopTop(g) \/ Trigger(g) \/ Stop(g) \/ RunEnds(g) \/ SetNext(g) \/ Save(g)
Saving(w)     == Save(w) \/ Cancel(w) \/ Spawn(w)
Running(h)    == ManualEnds(h) \/ Save(h)

Next ==
  \/ \E g \in Goroutines : Scheduling(g)
  \/ \E w \in Savers : Saving(w)
  \/ \E w \in Savers, e \in BOOLEAN, d \in Intervals : Apply(w, e, d)
  \/ \E h \in Hands : ManualStarts(h) \/ Running(h)
  \/ Signalled \/ Save(Main) \/ Restart \/ Tick

Spec == Init /\ [][Next]_vars

\* Goroutines run when they can, a backup returns, and time goes on.
Fairness ==
  /\ \A g \in Goroutines : WF_vars(Scheduling(g))
  /\ \A w \in Savers : WF_vars(Saving(w))
  /\ \A h \in Hands : WF_vars(Running(h))
  /\ WF_vars(Tick)

FairSpec == Spec /\ Fairness

-----------------------------------------------------------------------------
Schedules == [enabled : BOOLEAN, interval : Intervals \cup {0}, next : Nat]
Locations == {"off", "top", "wait", "run", "next", "marshal", "truncate", "write",
              "cancel", "spawn", "exit"}

(* Every variable has its type, and the job is taken exactly when a        *)
(* goroutine is in a backup.                                               *)
TypeOK ==
  /\ sched \in Schedules /\ disk \in Schedules /\ buf \in [Procs -> Schedules]
  /\ file \in {"none", "empty", "garbled", "whole"}
  /\ schedulerCtx \in Goroutines \cup {"nil"}
  /\ pc \in [Procs -> Locations]
  /\ cancelled \in [Goroutines -> BOOLEAN] /\ wants \in [Savers -> BOOLEAN]
  /\ due \in [Goroutines -> Nat] /\ interval \in [Goroutines -> Intervals \cup {0}]
  /\ busy \in BOOLEAN /\ configOk \in BOOLEAN /\ restarts \in 0..MaxRestarts
  /\ busy <=> \E p \in Procs : pc[p] = "run"

Live(g) == pc[g] # "off" /\ ~cancelled[g]
Settled == pc[Main] = "off" /\ \A w \in Savers : pc[w] = "off"

(* However often the schedule is changed, the server restarted or a backup *)
(* outlives its scheduler, at most one scheduler goes on, and it is the    *)
(* one that the next change can cancel.                                    *)
OneScheduler == \A g \in Goroutines : Live(g) => g = schedulerCtx

(* "When enabled, backups run automatically": between changes, a scheduler *)
(* goes on when the schedule is enabled with an interval of a second or    *)
(* more, and none does when it is disabled.                                *)
EnabledIsServed ==
  Settled =>
    /\ sched.enabled /\ sched.interval > 0 => \E g \in Goroutines : Live(g)
    /\ ~sched.enabled => \A g \in Goroutines : ~Live(g)

(* While the schedule stays enabled backups keep being made, by hand or by *)
(* the scheduler, which gives way to them but never gives up.              *)
BackupsKeepComing ==
  (configOk /\ <>[](Settled /\ sched.enabled /\ sched.interval > 0)) => []<>busy

(* Once the schedule stays disabled, every scheduler goes, the one in the  *)
(* middle of a backup included.                                            *)
DisabledGoesQuiet ==
  <>[](Settled /\ ~sched.enabled) => <>[](\A g \in Goroutines : pc[g] = "off")

(* "Schedule saved.": when nobody is changing or writing it any more, a    *)
(* file that can be read has the schedule that was submitted last.         *)
SavedIsSaved ==
  (\A p \in Procs : pc[p] \in {"off", "wait", "run"}) /\ file = "whole" =>
    disk.enabled = sched.enabled /\ disk.interval = sched.interval

(* "Next run: ...": the time that the page shows is the time for which the *)
(* scheduler waits.                                                        *)
NextRunIsShown ==
  (\A p \in Procs : pc[p] \in {"off", "wait"}) =>
    \A g \in Goroutines : Live(g) => sched.next = due[g]

(* "Disabled" takes effect: between changes, while the schedule is         *)
(* disabled, a scheduler that is left waits for nothing, has at most seven *)
(* steps to go, one last backup included, and nobody gives it more, unless *)
(* the process starts again.  With fairness this is DisabledGoesQuiet.     *)
StepsLeft(g) ==
  CASE pc[g] = "wait"     -> 7
    [] pc[g] = "run"      -> 6
    [] pc[g] = "next"     -> 5
    [] pc[g] = "marshal"  -> 4
    [] pc[g] = "truncate" -> 3
    [] pc[g] = "write"    -> 2
    [] pc[g] = "top"      -> 1
    [] pc[g] = "off"      -> 0

CanGo(g) == pc[g] # "off" /\ (pc[g] = "wait" => cancelled[g] \/ due[g] = 0)

GoesQuiet ==
  [][\A g \in Goroutines : Settled /\ ~sched.enabled /\ pc[g] # "off" =>
       /\ CanGo(g)
       /\ StepsLeft(g) \in 1..7
       /\ Scheduling(g) => StepsLeft(g)' < StepsLeft(g)
       /\ ~Scheduling(g) /\ restarts' = restarts => pc'[g] = pc[g]]_vars

=============================================================================
