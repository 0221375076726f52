---------------------------- MODULE StreamContract ----------------------------
(***************************************************************************)
(* What a browser that follows a backup job sees of it: lines of the job,  *)
(* each once and in the order in which they were logged, and at the end,   *)
(* once, the status the job has ended with.  Lines may be missing.         *)
(***************************************************************************)
EXTENDS Integers, Sequences

CONSTANT Viewers

VARIABLES
  status,   \* the job: "running", "success" or "failed"
  lines,    \* number of lines it has logged
  shown,    \* the lines each browser has been sent
  told      \* the status each browser has been told, "none" before

CInit ==
  /\ status = "running" /\ lines = 0
  /\ shown = [v \in Viewers |-> <<>>]
  /\ told = [v \in Viewers |-> "none"]

Log ==
  /\ lines' = lines + 1
  /\ UNCHANGED <<status, shown, told>>

End ==
  /\ status = "running" /\ status' \in {"success", "failed"}
  /\ UNCHANGED <<lines, shown, told>>

\* The new lines of a browser: later ones than it has, logged by now.
Continues(old, new) ==
  /\ Len(old) <= Len(new)
  /\ \A i \in 1..Len(old) : new[i] = old[i]
  /\ \A i \in (Len(old) + 1)..Len(new) :
       new[i] \in 1..lines /\ (i > 1 => new[i - 1] < new[i])

\* After the final event nothing is sent.
Send(v) ==
  /\ told[v] = "none"
  /\ Continues(shown[v], shown'[v])
  /\ shown' = [shown EXCEPT ![v] = shown'[v]]
  /\ \/ UNCHANGED told
     \/ status # "running" /\ told' = [told EXCEPT ![v] = status]
  /\ UNCHANGED <<status, lines>>

CNext == Log \/ End \/ \E v \in Viewers : Send(v)

CSpec == CInit /\ [][CNext]_<<status, lines, shown, told>>

=============================================================================
