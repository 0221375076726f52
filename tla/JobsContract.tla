---------------------------- MODULE JobsContract ----------------------------
(***************************************************************************)
(* What the server promises of the backups it runs: they begin and end one *)
(* after the other, the outcome of one that has ended never changes, the   *)
(* history shows the newest ones, newest first, from the moment they       *)
(* begin, and "Last run" is the outcome of one of those that have ended.   *)
(***************************************************************************)
EXTENDS Integers, Sequences

CONSTANTS Runners, HistoryCap

VARIABLES
  runs,      \* every run so far: "running", "success" or "failed"
  working,   \* who is in a pipeline
  shown,     \* the history: numbers of runs
  last       \* the outcome shown for the last run, "none" before

CInit == runs = <<>> /\ working = {} /\ shown = <<>> /\ last = "none"

Newest(n) == [i \in 1..(IF n > HistoryCap THEN HistoryCap ELSE n) |-> n + 1 - i]

Begin(r) ==
  /\ working = {} /\ working' = {r}
  /\ runs' = Append(runs, "running")
  /\ shown' = Newest(Len(runs'))
  /\ UNCHANGED last

End(r) ==
  /\ working = {r} /\ working' = {}
  /\ \E s \in {"success", "failed"} : runs' = [runs EXCEPT ![Len(runs)] = s]
  /\ UNCHANGED <<shown, last>>

Record ==
  /\ \E j \in 1..Len(runs) : runs[j] # "running" /\ last' = runs[j]
  /\ UNCHANGED <<runs, working, shown>>

CNext == Record \/ \E r \in Runners : Begin(r) \/ End(r)

CSpec == CInit /\ [][CNext]_<<runs, working, shown, last>>

=============================================================================
