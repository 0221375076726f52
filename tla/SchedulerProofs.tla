--------------------------- MODULE SchedulerProofs ---------------------------
(***************************************************************************)
(* Theorems about module Scheduler, for any number of schedulers alive, of *)
(* backups by hand at once and of restarts, any intervals, and writes that *)
(* may fail or not.                                                        *)
(*                                                                         *)
(* Requests to /api/schedule/save are taken to come one at a time (OneTab),*)
(* because schedulerCtx is guarded by no lock.  Between the cancellation   *)
(* of the old scheduler and the start of the new one the request has made  *)
(* sure that nobody goes on (ChangeInv), so that the new one is alone.     *)
(***************************************************************************)
EXTENDS Scheduler, TLAPS

USE SchedulerAssumption

\* One request to change the schedule at a time.
OneTab == \A v, w \in Savers : v = w

\* The processes other than the schedulers keep to their own steps.
PlaceInv ==
  /\ pc[Main] \in {"off", "marshal", "truncate", "write", "exit"}
  /\ \A h \in Hands : pc[h] \in {"off", "run", "marshal", "truncate", "write"}
  /\ \A w \in Savers : pc[w] \in {"off", "marshal", "truncate", "write", "cancel", "spawn"}
  /\ \A g \in Goroutines :
       pc[g] \in {"off", "top", "wait", "run", "next", "marshal", "truncate", "write"}

\* Two processes are never in a backup at once.
RunInv == \A p, q \in Procs : pc[p] = "run" /\ pc[q] = "run" => p = q

\* What a request to change the schedule has done so far.
ChangeInv ==
  \A w \in Savers :
    /\ pc[w] \in {"marshal", "truncate", "write", "cancel"} => wants[w] = sched.enabled
    /\ pc[w] = "spawn" => sched.enabled /\ \A g \in Goroutines : ~Live(g)

BaseInv == TypeOK /\ PlaceInv /\ RunInv
IInv == BaseInv /\ OneScheduler /\ ChangeInv /\ EnabledIsServed

LEMMA ProcsApart ==
  /\ Goroutines \cap Savers = {} /\ Hands \cap (Goroutines \cup Savers) = {}
  /\ Main \notin Goroutines /\ Main \notin Savers /\ Main \notin Hands
  /\ Procs = Goroutines \cup Savers \cup Hands \cup {Main} /\ Boot \in Goroutines
  /\ Schedulers \subseteq Goroutines /\ "nil" \notin Goroutines
BY DEF Goroutines, Procs

LEMMA ZeroType == Zero \in Schedules
BY DEF Zero, Schedules

LEMMA IntervalsNat == \A d \in Intervals \cup {0} : d \in Nat
<1>1. \A d \in Intervals : d \in Nat
  OBVIOUS
<1> QED BY <1>1

\* What Init and Restart have in common.
LEMMA StartsFacts ==
  ASSUME NEW d \in Schedules
  PROVE  /\ Starts(d) \in [Procs -> {"off", "top"}]
         /\ \A p \in Procs : Starts(d)[p] # "off" <=> p = Boot /\ d.enabled
BY DEF Starts, Schedules

-----------------------------------------------------------------------------
(* Types and places.                                                       *)

LEMMA InitBase == Init => BaseInv
<1> SUFFICES ASSUME Init PROVE BaseInv
  OBVIOUS
<1>1. disk \in Schedules /\ sched = disk
  BY ZeroType DEF Init, Schedules
<1>2. pc \in [Procs -> {"off", "top"}]
      /\ \A p \in Procs : pc[p] # "off" <=> p = Boot /\ disk.enabled
  BY <1>1, StartsFacts DEF Init
<1>3. TypeOK
  <2>1. schedulerCtx \in Goroutines \cup {"nil"}
    BY ProcsApart DEF Init
  <2>2. pc \in [Procs -> Locations] /\ \A p \in Procs : pc[p] # "run"
    BY <1>2 DEF Locations
  <2>3. buf \in [Procs -> Schedules] /\ wants \in [Savers -> BOOLEAN]
        /\ cancelled \in [Goroutines -> BOOLEAN]
        /\ due \in [Goroutines -> Nat] /\ interval \in [Goroutines -> Intervals \cup {0}]
    BY ZeroType DEF Init
  <2>4. file \in {"none", "empty", "garbled", "whole"} /\ busy = FALSE /\ configOk \in BOOLEAN
        /\ restarts \in 0..MaxRestarts
    BY DEF Init
  <2> QED BY <1>1, <2>1, <2>2, <2>3, <2>4 DEF TypeOK
<1>4. PlaceInv
  BY <1>2, ProcsApart DEF PlaceInv
<1>5. RunInv
  BY <1>2 DEF RunInv
<1> QED BY <1>3, <1>4, <1>5 DEF BaseInv

\* A step of one process that neither starts nor ends a backup.
LEMMA PlaceStep ==
  ASSUME BaseInv, NEW p \in Procs, NEW l \in Locations \ {"run"}, Goto(p, l),
         pc[p] # "run", UNCHANGED busy
  PROVE  /\ pc' \in [Procs -> Locations] /\ busy' \in BOOLEAN
         /\ busy' <=> \E q \in Procs : pc'[q] = "run"
         /\ RunInv'
         /\ \A q \in Procs \ {p} : pc'[q] = pc[q]
         /\ pc'[p] = l
<1>1. pc \in [Procs -> Locations] /\ busy \in BOOLEAN /\ (busy <=> \E q \in Procs : pc[q] = "run")
  BY DEF BaseInv, TypeOK
<1>2. pc' = [pc EXCEPT ![p] = l]
  BY DEF Goto
<1>3. pc' \in [Procs -> Locations] /\ pc'[p] = l /\ \A q \in Procs \ {p} : pc'[q] = pc[q]
  BY <1>1, <1>2
<1>4. \A q \in Procs : pc'[q] = "run" <=> pc[q] = "run"
  BY <1>3
<1>5. RunInv'
  BY <1>4 DEF BaseInv, RunInv
<1> QED BY <1>1, <1>3, <1>4, <1>5

\* A process enters a backup, the job being free.
LEMMA EnterStep ==
  ASSUME BaseInv, NEW p \in Procs, Goto(p, "run"), ~busy, busy' = TRUE
  PROVE  /\ pc' \in [Procs -> Locations] /\ busy' \in BOOLEAN
         /\ busy' <=> \E q \in Procs : pc'[q] = "run"
         /\ RunInv'
         /\ \A q \in Procs \ {p} : pc'[q] = pc[q]
         /\ pc'[p] = "run"
<1>1. pc \in [Procs -> Locations] /\ \A q \in Procs : pc[q] # "run"
  BY DEF BaseInv, TypeOK
<1>2. pc' = [pc EXCEPT ![p] = "run"]
  BY DEF Goto
<1>3. pc' \in [Procs -> Locations] /\ pc'[p] = "run" /\ \A q \in Procs \ {p} : pc'[q] = pc[q]
  BY <1>1, <1>2 DEF Locations
<1>4. RunInv'
  BY <1>1, <1>3 DEF RunInv
<1> QED BY <1>3, <1>4

\* A process leaves its backup; nobody else was in one.
LEMMA LeaveStep ==
  ASSUME BaseInv, NEW p \in Procs, NEW l \in Locations \ {"run"}, Goto(p, l),
         pc[p] = "run", busy' = FALSE
  PROVE  /\ pc' \in [Procs -> Locations] /\ busy' \in BOOLEAN
         /\ busy' <=> \E q \in Procs : pc'[q] = "run"
         /\ RunInv'
         /\ \A q \in Procs \ {p} : pc'[q] = pc[q]
         /\ pc'[p] = l
<1>1. pc \in [Procs -> Locations] /\ \A q \in Procs \ {p} : pc[q] # "run"
  BY DEF BaseInv, TypeOK, RunInv
<1>2. pc' = [pc EXCEPT ![p] = l]
  BY DEF Goto
<1>3. pc' \in [Procs -> Locations] /\ pc'[p] = l /\ \A q \in Procs \ {p} : pc'[q] = pc[q]
  BY <1>1, <1>2
<1>4. \A q \in Procs : pc'[q] # "run"
  BY <1>1, <1>3
<1> QED BY <1>3, <1>4 DEF RunInv

\* The places are kept when one process moves to a place of its own.
LEMMA PlaceMoved ==
  ASSUME BaseInv, NEW p \in Procs, \A q \in Procs \ {p} : pc'[q] = pc[q],
         p = Main => pc'[p] \in {"off", "marshal", "truncate", "write", "exit"},
         p \in Hands => pc'[p] \in {"off", "run", "marshal", "truncate", "write"},
         p \in Savers =>
           pc'[p] \in {"off", "marshal", "truncate", "write", "cancel", "spawn"},
         p \in Goroutines =>
           pc'[p] \in {"off", "top", "wait", "run", "next", "marshal", "truncate", "write"}
  PROVE  PlaceInv'
<1>1. PlaceInv
  BY DEF BaseInv
<1>2. pc'[Main] \in {"off", "marshal", "truncate", "write", "exit"}
  BY <1>1, ProcsApart DEF PlaceInv
<1>3. ASSUME NEW h \in Hands PROVE pc'[h] \in {"off", "run", "marshal", "truncate", "write"}
  BY <1>1, <1>3, ProcsApart DEF PlaceInv
<1>4. ASSUME NEW w \in Savers
      PROVE  pc'[w] \in {"off", "marshal", "truncate", "write", "cancel", "spawn"}
  BY <1>1, <1>4, ProcsApart DEF PlaceInv
<1>5. ASSUME NEW g \in Goroutines
      PROVE  pc'[g] \in {"off", "top", "wait", "run", "next", "marshal", "truncate", "write"}
  BY <1>1, <1>5, ProcsApart DEF PlaceInv
<1> QED BY <1>2, <1>3, <1>4, <1>5 DEF PlaceInv

\* Everything but pc and busy has its type.
DataOK ==
  /\ sched \in Schedules /\ disk \in Schedules /\ buf \in [Procs -> Schedules]
  /\ file \in {"none", "empty", "garbled", "whole"}
  /\ schedulerCtx \in Goroutines \cup {"nil"}
  /\ cancelled \in [Goroutines -> BOOLEAN] /\ wants \in [Savers -> BOOLEAN]
  /\ due \in [Goroutines -> Nat] /\ interval \in [Goroutines -> Intervals \cup {0}]
  /\ configOk \in BOOLEAN /\ restarts \in 0..MaxRestarts

LEMMA TypeParts ==
  TypeOK <=> /\ DataOK /\ pc \in [Procs -> Locations] /\ busy \in BOOLEAN
             /\ busy <=> \E p \in Procs : pc[p] = "run"
BY DEF TypeOK, DataOK

LEMMA BaseNext ==
  ASSUME DataOK', PlaceInv', RunInv', pc' \in [Procs -> Locations], busy' \in BOOLEAN,
         busy' <=> \E p \in Procs : pc'[p] = "run"
  PROVE  BaseInv'
BY DEF BaseInv, TypeOK, DataOK

LEMMA SaveBase == ASSUME BaseInv, NEW p \in Procs, Save(p) PROVE BaseInv'
<1>1. DataOK /\ PlaceInv
  BY TypeParts DEF BaseInv
<1>2. After(p) \in {"top", "cancel", "exit", "off"}
      /\ (p \in Goroutines => After(p) = "top") /\ (p \in Savers => After(p) = "cancel")
      /\ (p = Main => After(p) = "exit") /\ (p \in Hands => After(p) = "off")
  BY ProcsApart DEF After
<1>3. PICK l \in {"truncate", "write", After(p)} : Goto(p, l) /\ pc[p] # "run" /\ UNCHANGED busy
  BY DEF Save, Marshal, Truncate, Write, SaveFails
<1> l \in Locations \ {"run"}
  BY <1>2, <1>3 DEF Locations
<1>4. /\ pc' \in [Procs -> Locations] /\ busy' \in BOOLEAN
      /\ busy' <=> \E q \in Procs : pc'[q] = "run"
      /\ RunInv' /\ \A q \in Procs \ {p} : pc'[q] = pc[q]
      /\ pc'[p] = l
  BY <1>3, PlaceStep
<1>5. PlaceInv'
  BY <1>2, <1>4, PlaceMoved
<1>6. DataOK'
  <2>1. CASE Marshal(p)
    BY <2>1, <1>1 DEF Marshal, DataOK, schedVars
  <2>2. CASE Truncate(p)
    BY <2>2, <1>1, ZeroType DEF Truncate, DataOK, schedVars
  <2>3. CASE Write(p)
    BY <2>3, <1>1, ZeroType DEF Write, DataOK, schedVars
  <2>4. CASE SaveFails(p)
    BY <2>4, <1>1, ZeroType DEF SaveFails, DataOK, schedVars
  <2> QED BY <2>1, <2>2, <2>3, <2>4 DEF Save
<1> QED BY <1>4, <1>5, <1>6, BaseNext

\* A scheduler, apart from its save.
Advance(g) == LoopTop(g) \/ Trigger(g) \/ Stop(g) \/ RunEnds(g) \/ SetNext(g)

LEMMA AdvanceBase == ASSUME BaseInv, NEW g \in Goroutines, Advance(g) PROVE BaseInv'
<1>1. DataOK /\ PlaceInv /\ g \in Procs /\ g \notin Savers \cup Hands \cup {Main}
  BY TypeParts, ProcsApart DEF BaseInv
<1>2. DataOK'
  <2>1. sched.next \in Nat /\ sched.interval \in Intervals \cup {0} /\ sched.enabled \in BOOLEAN
    BY <1>1 DEF DataOK, Schedules
  <2>2. CASE LoopTop(g)
    BY <2>1, <2>2, <1>1 DEF LoopTop, DataOK, fileVars
  <2>3. CASE Trigger(g)
    BY <2>3, <1>1 DEF Trigger, DataOK, fileVars, schedVars
  <2>4. CASE Stop(g)
    BY <2>4, <1>1 DEF Stop, DataOK, fileVars
  <2>5. CASE RunEnds(g)
    BY <2>5, <1>1 DEF RunEnds, DataOK, fileVars, schedVars
  <2>6. CASE SetNext(g)
    <3>1. interval[g] \in Intervals \cup {0}
      BY <1>1 DEF DataOK
    <3>2. interval[g] \in Nat
      BY <3>1, IntervalsNat
    <3>3. sched' \in Schedules
      BY <2>6, <3>2, <1>1 DEF SetNext, DataOK, Schedules
    <3>4. interval' \in [Goroutines -> Intervals \cup {0}]
      BY <2>6, <1>1 DEF SetNext, DataOK
    <3> QED BY <2>6, <3>3, <3>4, <1>1 DEF SetNext, DataOK, fileVars
  <2> QED BY <2>2, <2>3, <2>4, <2>5, <2>6 DEF Advance
<1>3. CASE RunEnds(g)
  <2>1. pc[g] = "run" /\ Goto(g, "next") /\ busy' = FALSE /\ "next" \in Locations \ {"run"}
    BY <1>3 DEF RunEnds, Locations
  <2>2. /\ pc' \in [Procs -> Locations] /\ busy' \in BOOLEAN
        /\ busy' <=> \E q \in Procs : pc'[q] = "run"
        /\ RunInv' /\ \A q \in Procs \ {g} : pc'[q] = pc[q]
        /\ pc'[g] = "next"
    BY <2>1, <1>1, LeaveStep
  <2>3. PlaceInv'
    BY <2>2, <1>1, PlaceMoved
  <2> QED BY <2>2, <2>3, <1>2, BaseNext
<1>4. CASE Trigger(g) /\ busy' # busy
  <2>1. Goto(g, "run") /\ ~busy /\ busy' = TRUE
    BY <1>4 DEF Trigger
  <2>2. /\ pc' \in [Procs -> Locations] /\ busy' \in BOOLEAN
        /\ busy' <=> \E q \in Procs : pc'[q] = "run"
        /\ RunInv' /\ \A q \in Procs \ {g} : pc'[q] = pc[q]
        /\ pc'[g] = "run"
    BY <2>1, <1>1, EnterStep
  <2>3. PlaceInv'
    BY <2>2, <1>1, PlaceMoved
  <2> QED BY <2>2, <2>3, <1>2, BaseNext
<1>5. CASE UNCHANGED busy /\ ~RunEnds(g)
  <2>1. PICK l \in {"off", "wait", "next", "marshal"} : Goto(g, l) /\ pc[g] # "run"
    BY <1>5 DEF Advance, LoopTop, Trigger, Stop, SetNext
  <2>2. l \in Locations \ {"run"}
    BY DEF Locations
  <2>3. /\ pc' \in [Procs -> Locations] /\ busy' \in BOOLEAN
        /\ busy' <=> \E q \in Procs : pc'[q] = "run"
        /\ RunInv' /\ \A q \in Procs \ {g} : pc'[q] = pc[q]
        /\ pc'[g] = l
    BY <2>1, <2>2, <1>1, <1>5, PlaceStep
  <2>4. PlaceInv'
    BY <2>3, <1>1, PlaceMoved
  <2> QED BY <2>3, <2>4, <1>2, BaseNext
<1> QED BY <1>3, <1>4, <1>5 DEF Advance, LoopTop, Stop, SetNext

\* A request to change the schedule, apart from its save.
LEMMA RequestBase ==
  ASSUME BaseInv, NEW w \in Savers,
         Cancel(w) \/ \E e \in BOOLEAN, d \in Intervals : Apply(w, e, d)
  PROVE  BaseInv'
<1>1. DataOK /\ PlaceInv /\ w \in Procs /\ w \notin Goroutines \cup Hands \cup {Main}
  BY TypeParts, ProcsApart DEF BaseInv
<1>2. DataOK'
  <2>1. CASE Cancel(w)
    BY <2>1, <1>1 DEF Cancel, DataOK, fileVars
  <2>2. ASSUME NEW e \in BOOLEAN, NEW d \in Intervals, Apply(w, e, d) PROVE DataOK'
    <3>1. d \in Nat /\ sched.next \in Nat
      BY <1>1 DEF DataOK, Schedules
    <3>2. sched' \in Schedules
      BY <2>2, <3>1 DEF Apply, Schedules
    <3> QED BY <2>2, <3>2, <1>1 DEF Apply, DataOK, fileVars
  <2> QED BY <2>1, <2>2
<1>3. PICK l \in {"spawn", "off", "marshal"} : Goto(w, l) /\ pc[w] # "run" /\ UNCHANGED busy
  BY DEF Cancel, Apply
<1>4. l \in Locations \ {"run"}
  BY DEF Locations
<1>5. /\ pc' \in [Procs -> Locations] /\ busy' \in BOOLEAN
      /\ busy' <=> \E q \in Procs : pc'[q] = "run"
      /\ RunInv' /\ \A q \in Procs \ {w} : pc'[q] = pc[q]
      /\ pc'[w] = l
  BY <1>3, <1>4, <1>1, PlaceStep
<1>6. PlaceInv'
  BY <1>5, <1>1, PlaceMoved
<1> QED BY <1>2, <1>5, <1>6, BaseNext

\* The new scheduler takes a free identity.
LEMMA SpawnBase == ASSUME BaseInv, NEW w \in Savers, Spawn(w) PROVE BaseInv'
<1>1. DataOK /\ PlaceInv /\ TypeOK /\ RunInv /\ w \in Procs
  BY TypeParts, ProcsApart DEF BaseInv
<1>2. PICK g \in Schedulers : /\ pc' = [pc EXCEPT ![w] = "off", ![g] = "top"]
                              /\ cancelled' = [cancelled EXCEPT ![g] = FALSE]
                              /\ schedulerCtx' = g /\ pc[g] = "off"
  BY DEF Spawn
<1>3. g \in Goroutines /\ g \in Procs /\ g # w
  BY ProcsApart
<1>4. /\ pc' \in [Procs -> Locations] /\ pc'[w] = "off" /\ pc'[g] = "top"
      /\ \A q \in Procs \ {w, g} : pc'[q] = pc[q]
  BY <1>1, <1>2, <1>3 DEF TypeOK, Locations
<1>5. DataOK'
  BY <1>1, <1>2, <1>3 DEF Spawn, DataOK, fileVars
<1>6. \A q \in Procs : pc'[q] = "run" <=> pc[q] = "run"
  BY <1>4, <1>2 DEF Spawn
<1>7. RunInv' /\ busy' \in BOOLEAN /\ (busy' <=> \E q \in Procs : pc'[q] = "run")
  BY <1>1, <1>6 DEF RunInv, TypeOK, Spawn
<1>8. PlaceInv'
  BY <1>1, <1>3, <1>4, ProcsApart DEF PlaceInv
<1> QED BY <1>4, <1>5, <1>7, <1>8, BaseNext

\* A backup started by hand.
LEMMA ManualBase == ASSUME BaseInv, NEW h \in Hands, ManualStarts(h) \/ ManualEnds(h) PROVE BaseInv'
<1>1. DataOK /\ PlaceInv /\ h \in Procs /\ h \notin Goroutines \cup Savers \cup {Main}
  BY TypeParts, ProcsApart DEF BaseInv
<1>2. DataOK'
  BY <1>1 DEF ManualStarts, ManualEnds, DataOK, fileVars, schedVars
<1>3. CASE ManualStarts(h)
  <2>1. Goto(h, "run") /\ ~busy /\ busy' = TRUE
    BY <1>3 DEF ManualStarts
  <2>2. /\ pc' \in [Procs -> Locations] /\ busy' \in BOOLEAN
        /\ busy' <=> \E q \in Procs : pc'[q] = "run"
        /\ RunInv' /\ \A q \in Procs \ {h} : pc'[q] = pc[q]
        /\ pc'[h] = "run"
    BY <2>1, <1>1, EnterStep
  <2>3. PlaceInv'
    BY <2>2, <1>1, PlaceMoved
  <2> QED BY <2>2, <2>3, <1>2, BaseNext
<1>4. CASE ManualEnds(h)
  <2>1. Goto(h, "marshal") /\ pc[h] = "run" /\ busy' = FALSE
        /\ "marshal" \in Locations \ {"run"}
    BY <1>4 DEF ManualEnds, Locations
  <2>2. /\ pc' \in [Procs -> Locations] /\ busy' \in BOOLEAN
        /\ busy' <=> \E q \in Procs : pc'[q] = "run"
        /\ RunInv' /\ \A q \in Procs \ {h} : pc'[q] = pc[q]
        /\ pc'[h] = "marshal"
    BY <2>1, <1>1, LeaveStep
  <2>3. PlaceInv'
    BY <2>2, <1>1, PlaceMoved
  <2> QED BY <2>2, <2>3, <1>2, BaseNext
<1> QED BY <1>3, <1>4

\* The process as a whole.
LEMMA ProcessBase == ASSUME BaseInv, Signalled \/ Restart \/ Tick PROVE BaseInv'
<1>1. DataOK /\ PlaceInv /\ TypeOK /\ RunInv /\ Main \in Procs
  BY TypeParts, ProcsApart DEF BaseInv
<1>2. CASE Signalled
  <2>1. Goto(Main, "marshal") /\ pc[Main] # "run" /\ UNCHANGED busy
        /\ "marshal" \in Locations \ {"run"}
    BY <1>2 DEF Signalled, Locations
  <2>2. /\ pc' \in [Procs -> Locations] /\ busy' \in BOOLEAN
        /\ busy' <=> \E q \in Procs : pc'[q] = "run"
        /\ RunInv' /\ \A q \in Procs \ {Main} : pc'[q] = pc[q]
        /\ pc'[Main] = "marshal"
    BY <2>1, <1>1, PlaceStep
  <2>3. PlaceInv'
    BY <2>2, <1>1, ProcsApart, PlaceMoved
  <2>4. DataOK'
    BY <1>1, <1>2 DEF Signalled, DataOK, fileVars
  <2> QED BY <2>2, <2>3, <2>4, BaseNext
<1>3. CASE Restart
  <2>1. pc' \in [Procs -> {"off", "top"}]
        /\ \A p \in Procs : pc'[p] # "off" <=> p = Boot /\ disk.enabled
    BY <1>1, <1>3, StartsFacts DEF Restart, DataOK
  <2>2. RunInv' /\ pc' \in [Procs -> Locations] /\ busy' \in BOOLEAN
        /\ (busy' <=> \E p \in Procs : pc'[p] = "run")
    BY <2>1, <1>3 DEF Restart, RunInv, Locations
  <2>3. PlaceInv'
    BY <2>1, ProcsApart DEF PlaceInv
  <2>4. schedulerCtx' \in Goroutines \cup {"nil"} /\ restarts' \in 0..MaxRestarts
    BY <1>1, <1>3, ProcsApart DEF Restart, DataOK
  <2>5. DataOK'
    BY <1>1, <1>3, <2>4, ZeroType DEF Restart, DataOK
  <2> QED BY <2>2, <2>3, <2>5, BaseNext
<1>4. CASE Tick
  <2>1. \A t \in Nat : Sooner(t) \in Nat
    BY DEF Sooner
  <2>2. \A d \in Schedules : [d EXCEPT !.next = Sooner(@)] \in Schedules
    BY <2>1 DEF Schedules
  <2>3. sched' \in Schedules /\ disk' \in Schedules
    BY <1>1, <1>4, <2>2 DEF Tick, DataOK
  <2>4. buf' \in [Procs -> Schedules]
    BY <1>1, <1>4, <2>2 DEF Tick, DataOK
  <2>5. due' \in [Goroutines -> Nat]
    BY <1>1, <1>4, <2>1 DEF Tick, DataOK
  <2>6. DataOK'
    BY <1>1, <1>4, <2>3, <2>4, <2>5 DEF Tick, DataOK
  <2>7. UNCHANGED <<pc, busy>>
    BY <1>4 DEF Tick
  <2> QED BY <1>1, <2>6, <2>7, BaseNext DEF PlaceInv, RunInv, TypeOK
<1> QED BY <1>2, <1>3, <1>4

LEMMA BaseStep == BaseInv /\ [Next]_vars => BaseInv'
<1> SUFFICES ASSUME BaseInv, [Next]_vars PROVE BaseInv'
  OBVIOUS
<1>1. ASSUME NEW g \in Goroutines, Scheduling(g) PROVE BaseInv'
  BY <1>1, SaveBase, AdvanceBase, ProcsApart DEF Scheduling, Advance
<1>2. ASSUME NEW w \in Savers, Saving(w) PROVE BaseInv'
  BY <1>2, SaveBase, RequestBase, SpawnBase, ProcsApart DEF Saving
<1>3. ASSUME NEW w \in Savers, NEW e \in BOOLEAN, NEW d \in Intervals, Apply(w, e, d)
      PROVE  BaseInv'
  BY <1>3, RequestBase
<1>4. ASSUME NEW h \in Hands, ManualStarts(h) \/ Running(h) PROVE BaseInv'
  BY <1>4, ManualBase, SaveBase, ProcsApart DEF Running
<1>5. CASE Signalled \/ Restart \/ Tick
  BY <1>5, ProcessBase
<1>6. CASE Save(Main)
  BY <1>6, SaveBase, ProcsApart
<1>7. CASE UNCHANGED vars
  BY <1>7 DEF vars, BaseInv, TypeOK, PlaceInv, RunInv
<1> QED BY <1>1, <1>2, <1>3, <1>4, <1>5, <1>6, <1>7 DEF Next

(* Every variable of the scheduler keeps its type, and the job is taken    *)
(* exactly when a goroutine is in a backup, also with requests at once.    *)
THEOREM TypeCorrect == Spec => []TypeOK
<1>1. BaseInv => TypeOK
  BY DEF BaseInv
<1> QED BY <1>1, InitBase, BaseStep, PTL DEF Spec

-----------------------------------------------------------------------------
(* Who goes on.                                                            *)

SchedInv == OneScheduler /\ ChangeInv /\ EnabledIsServed

\* A step that starts no scheduler, and ends none that is to go on.
LEMMA CarryOver ==
  ASSUME IInv, UNCHANGED <<schedulerCtx, wants>>,
         sched'.enabled = sched.enabled, sched'.interval = sched.interval,
         \A g \in Goroutines : Live(g)' => Live(g),
         Settled' => Settled,
         Settled' /\ sched.enabled /\ sched.interval > 0
           => \A g \in Goroutines : Live(g) => Live(g)',
         \A w \in Savers :
           \/ pc'[w] = pc[w]
           \/ /\ pc[w] \in {"marshal", "truncate", "write"}
              /\ pc'[w] \in {"truncate", "write", "cancel"}
  PROVE  SchedInv'
<1>1. OneScheduler'
  BY DEF IInv, OneScheduler
<1>2. EnabledIsServed'
  <2> SUFFICES ASSUME Settled'
               PROVE  /\ sched'.enabled /\ sched'.interval > 0 => \E g \in Goroutines : Live(g)'
                      /\ ~sched'.enabled => \A g \in Goroutines : ~Live(g)'
    BY DEF EnabledIsServed
  <2>1. EnabledIsServed /\ Settled
    BY DEF IInv
  <2> QED BY <2>1 DEF EnabledIsServed
<1>3. ChangeInv'
  <2> SUFFICES ASSUME NEW w \in Savers
               PROVE  /\ pc'[w] \in {"marshal", "truncate", "write", "cancel"}
                           => wants'[w] = sched'.enabled
                      /\ pc'[w] = "spawn" => sched'.enabled /\ \A g \in Goroutines : ~Live(g)'
    BY DEF ChangeInv
  <2>1. /\ pc[w] \in {"marshal", "truncate", "write", "cancel"} => wants[w] = sched.enabled
        /\ pc[w] = "spawn" => sched.enabled /\ \A g \in Goroutines : ~Live(g)
    BY DEF IInv, ChangeInv
  <2> QED BY <2>1
<1> QED BY <1>1, <1>2, <1>3 DEF SchedInv

LEMMA InitIInv == Init => IInv
<1> SUFFICES ASSUME Init PROVE IInv
  OBVIOUS
<1>1. BaseInv /\ disk \in Schedules /\ sched = disk
  BY InitBase DEF BaseInv, TypeOK, Init
<1>2. \A p \in Procs : pc[p] # "off" <=> p = Boot /\ sched.enabled
  BY <1>1, StartsFacts DEF Init
<1>3. \A g \in Goroutines : Live(g) <=> g = Boot /\ sched.enabled
  BY <1>2, ProcsApart DEF Init, Live
<1>4. OneScheduler /\ EnabledIsServed
  BY <1>3, ProcsApart DEF Init, OneScheduler, EnabledIsServed
<1>5. ChangeInv
  BY <1>2, ProcsApart DEF ChangeInv
<1> QED BY <1>1, <1>4, <1>5 DEF IInv

\* A scheduler ends only when it is told to, or not wanted any more.
LEMMA AdvanceSched == ASSUME IInv, NEW g \in Goroutines, Advance(g) PROVE SchedInv'
<1>1. TypeOK /\ g \in Procs /\ g \notin Savers \cup {Main}
  BY ProcsApart DEF IInv, BaseInv
<1>2. UNCHANGED <<schedulerCtx, wants, cancelled>>
  BY DEF Advance, LoopTop, Trigger, Stop, RunEnds, SetNext, schedVars
<1>3. sched'.enabled = sched.enabled /\ sched'.interval = sched.interval
  BY <1>1 DEF Advance, LoopTop, Trigger, Stop, RunEnds, SetNext, TypeOK, Schedules
<1>4. PICK l \in {"off", "wait", "run", "next", "marshal"} : Goto(g, l)
  BY DEF Advance, LoopTop, Trigger, Stop, RunEnds, SetNext
<1>5. pc'[g] = l /\ \A p \in Procs \ {g} : pc'[p] = pc[p]
  BY <1>1, <1>4 DEF Goto, TypeOK
<1>6. pc[g] # "off"
  BY DEF Advance, LoopTop, Trigger, Stop, RunEnds, SetNext
<1>7. (\A w \in Savers : pc'[w] = pc[w]) /\ pc'[Main] = pc[Main]
  BY <1>1, <1>5, ProcsApart
<1>8. Settled' => Settled
  BY <1>7 DEF Settled
<1>9. \A h \in Goroutines : Live(h)' => Live(h)
  BY <1>2, <1>5, <1>6, ProcsApart DEF Live
<1>10. ASSUME sched.enabled, sched.interval > 0, NEW h \in Goroutines, Live(h) PROVE Live(h)'
  <2>1. CASE h # g
    BY <1>2, <1>5, <1>10, <2>1, ProcsApart DEF Live
  <2>2. CASE h = g
    <3>1. ~cancelled[g]
      BY <1>10, <2>2 DEF Live
    <3>2. pc'[g] # "off"
      BY <3>1, <1>1, <1>10 DEF Advance, LoopTop, Trigger, Stop, RunEnds, SetNext, Goto, TypeOK
    <3> QED BY <3>1, <3>2, <2>2, <1>2 DEF Live
  <2> QED BY <2>1, <2>2
<1> QED BY <1>2, <1>3, <1>7, <1>8, <1>9, <1>10, CarryOver

\* Saving the file moves nobody else and ends no scheduler.
LEMMA SaveSched == ASSUME IInv, NEW p \in Procs, Save(p) PROVE SchedInv'
<1>1. TypeOK
  BY DEF IInv, BaseInv
<1>2. UNCHANGED <<sched, schedulerCtx, wants, cancelled>>
  BY DEF Save, Marshal, Truncate, Write, SaveFails, schedVars
<1>3. pc[p] \in {"marshal", "truncate", "write"} /\ \A q \in Procs \ {p} : pc'[q] = pc[q]
  BY <1>1 DEF Save, Marshal, Truncate, Write, SaveFails, Goto, TypeOK
<1>4. pc'[p] \in {"truncate", "write", After(p)}
  BY <1>1 DEF Save, Marshal, Truncate, Write, SaveFails, Goto, TypeOK
<1>5. /\ p \in Goroutines => After(p) = "top"
      /\ p \in Savers => After(p) = "cancel"
      /\ p = Main => After(p) = "exit"
  BY ProcsApart DEF After
<1>6. \A w \in Savers :
        \/ pc'[w] = pc[w]
        \/ /\ pc[w] \in {"marshal", "truncate", "write"}
           /\ pc'[w] \in {"truncate", "write", "cancel"}
  BY <1>3, <1>4, <1>5, ProcsApart
<1>7. pc'[Main] = pc[Main] \/ pc'[Main] # "off"
  BY <1>3, <1>4, <1>5, ProcsApart
<1>8. Settled' => Settled
  BY <1>6, <1>7 DEF Settled
<1>9. \A g \in Goroutines : Live(g)' <=> Live(g)
  BY <1>2, <1>3, <1>4, <1>5, ProcsApart DEF Live
<1> QED BY <1>2, <1>6, <1>8, <1>9, CarryOver

\* A backup by hand, a signal and the clock start no scheduler.
LEMMA OtherSched ==
  ASSUME IInv,
         (\E h \in Hands : ManualStarts(h) \/ ManualEnds(h)) \/ Signalled \/ Tick
  PROVE  SchedInv'
<1>1. TypeOK /\ Main \in Procs /\ Hands \subseteq Procs
  BY ProcsApart DEF IInv, BaseInv
<1>2. UNCHANGED <<schedulerCtx, wants>>
  BY DEF ManualStarts, ManualEnds, Signalled, Tick, schedVars
<1>3. sched'.enabled = sched.enabled /\ sched'.interval = sched.interval
  BY <1>1 DEF ManualStarts, ManualEnds, Signalled, Tick, TypeOK, Schedules
<1>4. \A p \in Goroutines \cup Savers : pc'[p] = pc[p]
  BY <1>1, ProcsApart DEF ManualStarts, ManualEnds, Signalled, Tick, Goto, TypeOK
<1>5. \A g \in Goroutines : cancelled[g] => cancelled'[g]
  BY <1>1 DEF ManualStarts, ManualEnds, Signalled, Tick, schedVars, TypeOK
<1>6. (pc'[Main] = pc[Main] /\ UNCHANGED cancelled) \/ pc'[Main] = "marshal"
  BY <1>1, ProcsApart DEF ManualStarts, ManualEnds, Signalled, Tick, schedVars, Goto, TypeOK
<1>7. \A g \in Goroutines : Live(g)' => Live(g)
  BY <1>4, <1>5 DEF Live
<1>8. Settled' => Settled /\ UNCHANGED cancelled
  BY <1>4, <1>6 DEF Settled
<1>9. Settled' => \A g \in Goroutines : Live(g) => Live(g)'
  BY <1>4, <1>8 DEF Live
<1> QED BY <1>2, <1>3, <1>4, <1>7, <1>8, <1>9, CarryOver

\* A new process has the scheduler that its file asks for, if any.
LEMMA RestartSched == ASSUME IInv, Restart PROVE SchedInv'
<1>1. disk \in Schedules /\ sched' = disk
  BY DEF IInv, BaseInv, TypeOK, Restart
<1>2. \A p \in Procs : pc'[p] # "off" <=> p = Boot /\ disk.enabled
  BY <1>1, StartsFacts DEF Restart
<1>3. \A g \in Goroutines : ~cancelled'[g]
  BY DEF Restart
<1>4. \A g \in Goroutines : Live(g)' <=> g = Boot /\ disk.enabled
  BY <1>2, <1>3, ProcsApart DEF Live
<1>5. OneScheduler'
  BY <1>4 DEF Restart, OneScheduler
<1>6. EnabledIsServed'
  BY <1>1, <1>4, ProcsApart DEF EnabledIsServed
<1>7. \A w \in Savers : pc'[w] = "off"
  BY <1>2, ProcsApart
<1>8. ChangeInv'
  BY <1>7 DEF ChangeInv
<1> QED BY <1>5, <1>6, <1>8 DEF SchedInv

\* The request that changes the schedule remembers what it has asked for.
LEMMA ApplySched ==
  ASSUME OneTab, IInv, NEW w \in Savers, NEW e \in BOOLEAN, NEW d \in Intervals,
         Apply(w, e, d)
  PROVE  SchedInv'
<1>1. TypeOK /\ w \in Procs
  BY ProcsApart DEF IInv, BaseInv
<1>2. UNCHANGED <<schedulerCtx, cancelled>> /\ sched'.enabled = e /\ wants'[w] = e
  BY <1>1 DEF Apply, TypeOK
<1>3. pc'[w] = "marshal" /\ \A p \in Procs \ {w} : pc'[p] = pc[p]
  BY <1>1 DEF Apply, Goto, TypeOK
<1>4. \A g \in Goroutines : Live(g)' <=> Live(g)
  BY <1>2, <1>3, ProcsApart DEF Live
<1>5. OneScheduler'
  BY <1>2, <1>4 DEF IInv, OneScheduler
<1>6. ~Settled'
  BY <1>3 DEF Settled
<1>7. ChangeInv'
  BY <1>2, <1>3 DEF OneTab, ChangeInv
<1> QED BY <1>5, <1>6, <1>7 DEF SchedInv, EnabledIsServed

\* Cancelling the scheduler in place leaves nobody who goes on.
LEMMA CancelSched ==
  ASSUME OneTab, IInv, NEW w \in Savers, Cancel(w) PROVE SchedInv'
<1>1. TypeOK /\ w \in Procs
  BY ProcsApart DEF IInv, BaseInv
<1>2. wants[w] = sched.enabled /\ UNCHANGED sched
  BY DEF IInv, ChangeInv, Cancel
<1>3. /\ pc'[w] = IF wants[w] THEN "spawn" ELSE "off"
      /\ \A p \in Procs \ {w} : pc'[p] = pc[p]
  BY <1>1 DEF Cancel, Goto, TypeOK
<1>4. \A g \in Goroutines : ~Live(g)'
  <2> SUFFICES ASSUME NEW g \in Goroutines, Live(g)' PROVE FALSE
    OBVIOUS
  <2>1. ~cancelled[g] /\ g # schedulerCtx
    BY DEF Live, Cancel
  <2>2. pc[g] # "off"
    BY <1>3, ProcsApart DEF Live
  <2>3. Live(g)
    BY <2>1, <2>2 DEF Live
  <2> QED BY <2>1, <2>3 DEF IInv, OneScheduler
<1>5. OneScheduler'
  BY <1>4 DEF OneScheduler
<1>6. Settled' => ~sched'.enabled
  BY <1>2, <1>3 DEF Settled
<1>7. EnabledIsServed'
  BY <1>4, <1>6 DEF EnabledIsServed
<1>8. ChangeInv'
  <2>1. \A v \in Savers : v = w
    BY DEF OneTab
  <2>2. pc'[w] = "spawn" => sched'.enabled
    BY <1>2, <1>3
  <2>3. pc'[w] \notin {"marshal", "truncate", "write", "cancel"}
    BY <1>3
  <2> QED BY <1>4, <2>1, <2>2, <2>3 DEF ChangeInv
<1> QED BY <1>5, <1>7, <1>8 DEF SchedInv

\* The scheduler that the request starts is alone, and cancellable.
LEMMA SpawnSched ==
  ASSUME OneTab, IInv, NEW w \in Savers, Spawn(w) PROVE SchedInv'
<1>1. TypeOK /\ w \in Procs /\ \A v \in Savers : v = w
  BY ProcsApart DEF IInv, BaseInv, OneTab
<1>2. sched.enabled /\ \A h \in Goroutines : ~Live(h)
  BY DEF IInv, ChangeInv, Spawn
<1>3. PICK g \in Schedulers : /\ pc' = [pc EXCEPT ![w] = "off", ![g] = "top"]
                              /\ cancelled' = [cancelled EXCEPT ![g] = FALSE]
                              /\ schedulerCtx' = g
  BY DEF Spawn
<1>4. g \in Goroutines /\ g \in Procs /\ g # w /\ UNCHANGED sched
  BY ProcsApart DEF Spawn
<1>5. /\ pc'[w] = "off" /\ pc'[g] = "top" /\ ~cancelled'[g]
      /\ \A p \in Procs \ {w, g} : pc'[p] = pc[p]
      /\ \A h \in Goroutines \ {g} : cancelled'[h] = cancelled[h]
  BY <1>1, <1>3, <1>4 DEF TypeOK
<1>6. \A h \in Goroutines : Live(h)' <=> h = g
  BY <1>2, <1>4, <1>5, ProcsApart DEF Live
<1>7. OneScheduler'
  BY <1>3, <1>6 DEF OneScheduler
<1>8. EnabledIsServed'
  BY <1>2, <1>4, <1>6 DEF EnabledIsServed
<1>9. ChangeInv'
  BY <1>1, <1>5 DEF ChangeInv
<1> QED BY <1>7, <1>8, <1>9 DEF SchedInv

LEMMA NextIInv == ASSUME OneTab PROVE IInv /\ [Next]_vars => IInv'
<1> SUFFICES ASSUME IInv, [Next]_vars PROVE IInv'
  OBVIOUS
<1>1. BaseInv'
  BY BaseStep DEF IInv
<1>2. SchedInv'
  <2>1. ASSUME NEW g \in Goroutines, Scheduling(g) PROVE SchedInv'
    BY <2>1, SaveSched, AdvanceSched, ProcsApart DEF Scheduling, Advance
  <2>2. ASSUME NEW w \in Savers, Saving(w) PROVE SchedInv'
    BY <2>2, SaveSched, CancelSched, SpawnSched, ProcsApart DEF Saving
  <2>3. ASSUME NEW w \in Savers, NEW e \in BOOLEAN, NEW d \in Intervals, Apply(w, e, d)
        PROVE  SchedInv'
    BY <2>3, ApplySched
  <2>4. ASSUME NEW h \in Hands, ManualStarts(h) \/ Running(h) PROVE SchedInv'
    BY <2>4, OtherSched, SaveSched, ProcsApart DEF Running
  <2>5. CASE Signalled \/ Restart \/ Tick
    BY <2>5, OtherSched, RestartSched
  <2>6. CASE Save(Main)
    BY <2>6, SaveSched, ProcsApart
  <2>7. CASE UNCHANGED vars
    <3>1. UNCHANGED <<schedulerCtx, wants, sched, pc, cancelled>>
      BY <2>7 DEF vars
    <3> QED BY <3>1 DEF IInv, SchedInv, OneScheduler, ChangeInv, EnabledIsServed, Live, Settled
  <2> QED BY <2>1, <2>2, <2>3, <2>4, <2>5, <2>6, <2>7 DEF Next
<1> QED BY <1>1, <1>2 DEF IInv, SchedInv

(* The inductive invariant: besides the types, one scheduler goes on, and  *)
(* a request that has cancelled it keeps the place free for its own.       *)
THEOREM Invariance == ASSUME OneTab PROVE Spec => []IInv
<1>1. OneTab /\ (Init => IInv) /\ (IInv /\ [Next]_vars => IInv')
  BY InitIInv, NextIInv
<1> QED BY <1>1, PTL DEF Spec

(* As long as requests come one at a time, at most one scheduler goes on,  *)
(* the one that schedulerCtx stands for.                                   *)
THEOREM Alone == ASSUME OneTab PROVE Spec => []OneScheduler
<1>1. IInv => OneScheduler
  BY DEF IInv
<1> QED BY <1>1, Invariance, PTL

(* As long as requests come one at a time, an enabled schedule has its     *)
(* scheduler between changes, and a disabled one has none.                 *)
THEOREM Served == ASSUME OneTab PROVE Spec => []EnabledIsServed
<1>1. IInv => EnabledIsServed
  BY DEF IInv
<1> QED BY <1>1, Invariance, PTL

-----------------------------------------------------------------------------
(* What is left of a disabled schedule.                                    *)

\* A step of the scheduler, while the schedule is disabled, is a step down.
LEMMA StepDown ==
  ASSUME BaseInv, NEW g \in Goroutines, ~sched.enabled, Scheduling(g)
  PROVE  StepsLeft(g)' < StepsLeft(g)
<1>1. g \in Procs /\ pc \in [Procs -> Locations] /\ After(g) = "top"
  BY ProcsApart DEF BaseInv, TypeOK, After
<1>2. ASSUME NEW l, Goto(g, l) PROVE pc'[g] = l
  BY <1>1, <1>2 DEF Goto
<1>3. CASE LoopTop(g)
  <2>1. pc[g] = "top" /\ pc'[g] = "off"
    BY <1>2, <1>3 DEF LoopTop
  <2> QED BY <2>1 DEF StepsLeft
<1>4. CASE Trigger(g)
  <2>1. pc[g] = "wait" /\ pc'[g] \in {"run", "next"}
    BY <1>2, <1>4 DEF Trigger
  <2> QED BY <2>1 DEF StepsLeft
<1>5. CASE Stop(g)
  <2>1. pc[g] = "wait" /\ pc'[g] = "off"
    BY <1>2, <1>5 DEF Stop
  <2> QED BY <2>1 DEF StepsLeft
<1>6. CASE RunEnds(g)
  <2>1. pc[g] = "run" /\ pc'[g] = "next"
    BY <1>2, <1>6 DEF RunEnds
  <2> QED BY <2>1 DEF StepsLeft
<1>7. CASE SetNext(g)
  <2>1. pc[g] = "next" /\ pc'[g] = "marshal"
    BY <1>2, <1>7 DEF SetNext
  <2> QED BY <2>1 DEF StepsLeft
<1>8. CASE Save(g)
  <2>1. \/ pc[g] = "marshal" /\ pc'[g] = "truncate"
        \/ pc[g] = "truncate" /\ pc'[g] \in {"write", "top"}
        \/ pc[g] = "write" /\ pc'[g] = "top"
    BY <1>1, <1>2, <1>8 DEF Save, Marshal, Truncate, Write, SaveFails
  <2> QED BY <2>1 DEF StepsLeft
<1> QED BY <1>3, <1>4, <1>5, <1>6, <1>7, <1>8 DEF Scheduling

\* Between changes only its own steps, or a restart, move a scheduler.
LEMMA Unmoved ==
  ASSUME BaseInv, NEW g \in Goroutines, Settled, [Next]_vars, ~Scheduling(g), restarts' = restarts
  PROVE  pc'[g] = pc[g]
<1>0. g \in Procs /\ pc \in [Procs -> Locations] /\ restarts \in Nat
  BY ProcsApart DEF BaseInv, TypeOK
<1>1. ASSUME NEW p, NEW l, p # g, Goto(p, l) PROVE pc'[g] = pc[g]
  BY <1>0, <1>1 DEF Goto
<1>2. ASSUME NEW p \in Procs, p # g, Save(p) PROVE pc'[g] = pc[g]
  BY <1>1, <1>2 DEF Save, Marshal, Truncate, Write, SaveFails
<1>3. ASSUME NEW h \in Goroutines, Scheduling(h) PROVE pc'[g] = pc[g]
  <2>1. h # g /\ h \in Procs
    BY <1>3, ProcsApart
  <2> QED BY <1>1, <1>2, <1>3, <2>1
          DEF Scheduling, LoopTop, Trigger, Stop, RunEnds, SetNext
<1>4. ASSUME NEW w \in Savers, Saving(w) PROVE FALSE
  BY <1>4 DEF Settled, Saving, Save, Marshal, Truncate, Write, SaveFails, Cancel, Spawn
<1>5. ASSUME NEW w \in Savers, NEW e \in BOOLEAN, NEW d \in Intervals, Apply(w, e, d)
      PROVE  pc'[g] = pc[g]
  BY <1>1, <1>5, ProcsApart DEF Apply
<1>6. ASSUME NEW h \in Hands, ManualStarts(h) \/ Running(h) PROVE pc'[g] = pc[g]
  BY <1>1, <1>2, <1>6, ProcsApart DEF ManualStarts, Running, ManualEnds
<1>7. CASE Signalled \/ Save(Main)
  BY <1>1, <1>2, <1>7, ProcsApart DEF Signalled
<1>8. CASE Restart
  BY <1>0, <1>8 DEF Restart
<1>9. CASE Tick \/ UNCHANGED vars
  BY <1>9 DEF Tick, vars
<1> QED BY <1>3, <1>4, <1>5, <1>6, <1>7, <1>8, <1>9 DEF Next

(* Once the schedule is disabled and nobody is changing it, a scheduler    *)
(* that is in the middle of something ends within seven steps of its own,  *)
(* and has no reason to wait: it has been cancelled.                       *)
THEOREM Quiet == ASSUME OneTab PROVE Spec => GoesQuiet
<1> DEFINE Down == \A g \in Goroutines : Settled /\ ~sched.enabled /\ pc[g] # "off" =>
             /\ CanGo(g)
             /\ StepsLeft(g) \in 1..7
             /\ Scheduling(g) => StepsLeft(g)' < StepsLeft(g)
             /\ ~Scheduling(g) /\ restarts' = restarts => pc'[g] = pc[g]
<1>1. IInv /\ [Next]_vars => Down
  <2> SUFFICES ASSUME IInv, [Next]_vars, NEW g \in Goroutines,
                      Settled, ~sched.enabled, pc[g] # "off"
               PROVE  /\ CanGo(g)
                      /\ StepsLeft(g) \in 1..7
                      /\ Scheduling(g) => StepsLeft(g)' < StepsLeft(g)
                      /\ ~Scheduling(g) /\ restarts' = restarts => pc'[g] = pc[g]
    OBVIOUS
  <2>1. BaseInv /\ EnabledIsServed
    BY DEF IInv
  <2>2. ~Live(g)
    BY <2>1 DEF EnabledIsServed
  <2>3. CanGo(g)
    BY <2>2 DEF Live, CanGo
  <2>4. StepsLeft(g) \in 1..7
    <3>1. pc[g] \in {"top", "wait", "run", "next", "marshal", "truncate", "write"}
      BY <2>1 DEF BaseInv, PlaceInv
    <3> QED BY <3>1 DEF StepsLeft
  <2>5. Scheduling(g) => StepsLeft(g)' < StepsLeft(g)
    BY <2>1, StepDown
  <2>6. ~Scheduling(g) /\ restarts' = restarts => pc'[g] = pc[g]
    BY <2>1, Unmoved
  <2> QED BY <2>3, <2>4, <2>5, <2>6
<1> HIDE DEF Down
<1>2. OneTab /\ (IInv /\ [Next]_vars => Down)
  BY <1>1
<1>3. Spec => [][Down]_vars
  BY <1>2, Invariance, PTL DEF Spec
<1> QED BY <1>3 DEF GoesQuiet, Down

(* Backups of the scheduler and by hand never overlap, whatever requests   *)
(* come at once and however schedulers are replaced.                       *)
THEOREM OneBackup == Spec => []RunInv
<1>1. Init => BaseInv
  BY InitBase
<1>2. BaseInv => RunInv
  BY DEF BaseInv
<1> QED BY <1>1, <1>2, BaseStep, PTL DEF Spec

=============================================================================
