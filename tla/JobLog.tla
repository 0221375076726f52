------------------------------- MODULE JobLog -------------------------------
(***************************************************************************)
(* The log of one backup job of the web interface and the browsers that    *)
(* follow it (JobRun and apiBackupStream of cmd/web/main.go).              *)
(*                                                                         *)
(* A job keeps every line in "logs" and offers it to whoever reads the one *)
(* channel "logCh".  A request to /api/backup/stream first sends the lines *)
(* logged so far, then throws away as many channel items as it has sent,   *)
(* and from then on passes every item it receives on to its browser.  All  *)
(* requests receive from the same channel, and appendLog never waits: a    *)
(* line that finds the channel full is only kept in logs.                  *)
(*                                                                         *)
(* Lines are numbered in the order in which appendLog stores them, so logs *)
(* is 1, 2, ..., lines.  The lines come from RunWithLogger and from the    *)
(* gzip goroutine, which may still report its progress after the job has   *)
(* finished.  The data sent to a slow browser waits in the connection and  *)
(* does not hold the job up: a request is a process of its own.            *)
(*                                                                         *)
(* A definition marked "Fault" is not part of the specification: put in    *)
(* the place of the definition that follows it, it breaks a property.      *)
(***************************************************************************)
EXTENDS Integers, Sequences

CONSTANTS
  Viewers,    \* requests to /api/backup/stream
  LogChCap,   \* capacity of logCh (512)
  MaxLines    \* bound on the number of lines a job logs

ASSUME JobLogAssumption ==
  /\ LogChCap \in Nat \ {0}
  /\ MaxLines \in Nat

VARIABLES
  status,     \* the job: "running", "success" or "failed"
  lines,      \* number of lines in logs
  logCh,      \* lines waiting in the channel
  closed,     \* is the channel closed?
  atFinish,   \* number of lines logged when the job finished
  viewer,     \* each request: "away", "reading", "told" or "gone"
  snap,       \* number of lines the request has sent from logs
  owed,       \* channel items it still has to throw away
  shown,      \* lines its browser has been sent, in order
  told        \* status in the final event of the stream, "none" before

jobVars == <<status, lines, logCh, closed, atFinish>>
viewVars == <<viewer, snap, owed, shown, told>>
vars == <<status, lines, logCh, closed, atFinish, viewer, snap, owed, shown, told>>

Statuses == {"running", "success", "failed"}

Init ==
  /\ status = "running" /\ lines = 0 /\ logCh = <<>> /\ closed = FALSE /\ atFinish = 0
  /\ viewer = [v \in Viewers |-> "away"]
  /\ snap = [v \in Viewers |-> 0]
  /\ owed = [v \in Viewers |-> 0]
  /\ shown = [v \in Viewers |-> <<>>]
  /\ told = [v \in Viewers |-> "none"]

-----------------------------------------------------------------------------
(* The job.                                                                *)

\* Fault: the status is not looked at before the send.
AppendLogUnchecked ==
  /\ lines < MaxLines
  /\ lines' = lines + 1
  /\ logCh' = IF Len(logCh) < LogChCap THEN Append(logCh, lines + 1) ELSE logCh
  /\ UNCHANGED <<status, closed, atFinish, viewVars>>

AppendLog ==
  /\ lines < MaxLines
  /\ lines' = lines + 1
  /\ logCh' = IF status = "running" /\ Len(logCh) < LogChCap
              THEN Append(logCh, lines + 1) ELSE logCh
  /\ UNCHANGED <<status, closed, atFinish, viewVars>>

\* Fault: the channel is left open.
FinishUnclosed ==
  /\ status = "running"
  /\ status' \in {"success", "failed"}
  /\ atFinish' = lines
  /\ UNCHANGED <<lines, logCh, closed, viewVars>>

Finish ==
  /\ status = "running"
  /\ status' \in {"success", "failed"}
  /\ closed' = TRUE
  /\ atFinish' = lines
  /\ UNCHANGED <<lines, logCh, viewVars>>

-----------------------------------------------------------------------------
(* A request to /api/backup/stream.                                        *)

Logged == [i \in 1..lines |-> i]

\* Fault: the items of the snapshot are left in the channel.
ConnectUndrained(v) ==
  /\ viewer[v] = "away"
  /\ snap' = [snap EXCEPT ![v] = lines]
  /\ shown' = [shown EXCEPT ![v] = Logged]
  /\ \/ /\ status = "running"
        /\ viewer' = [viewer EXCEPT ![v] = "reading"]
        /\ UNCHANGED <<owed, told>>
     \/ /\ status # "running"
        /\ viewer' = [viewer EXCEPT ![v] = "told"]
        /\ told' = [told EXCEPT ![v] = status]
        /\ UNCHANGED owed
  /\ UNCHANGED jobVars

\* Fault: one item too many is thrown away (i <= snapshotLen).
ConnectOffByOne(v) ==
  /\ viewer[v] = "away"
  /\ snap' = [snap EXCEPT ![v] = lines]
  /\ shown' = [shown EXCEPT ![v] = Logged]
  /\ \/ /\ status = "running"
        /\ viewer' = [viewer EXCEPT ![v] = "reading"]
        /\ owed' = [owed EXCEPT ![v] = lines + 1]
        /\ UNCHANGED told
     \/ /\ status # "running"
        /\ viewer' = [viewer EXCEPT ![v] = "told"]
        /\ told' = [told EXCEPT ![v] = status]
        /\ UNCHANGED owed
  /\ UNCHANGED jobVars

\* snapshot() and what is sent of it; a finished job ends the stream.
Connect(v) ==
  /\ viewer[v] = "away"
  /\ snap' = [snap EXCEPT ![v] = lines]
  /\ shown' = [shown EXCEPT ![v] = Logged]
  /\ \/ /\ status = "running"
        /\ viewer' = [viewer EXCEPT ![v] = "reading"]
        /\ owed' = [owed EXCEPT ![v] = lines]
        /\ UNCHANGED told
     \/ /\ status # "running"
        /\ viewer' = [viewer EXCEPT ![v] = "told"]
        /\ told' = [told EXCEPT ![v] = status]
        /\ UNCHANGED owed
  /\ UNCHANGED jobVars

\* Fault: the drain loop has no end.
DrainForever(v) ==
  /\ viewer[v] = "reading" /\ logCh # <<>>
  /\ logCh' = Tail(logCh)
  /\ owed' = [owed EXCEPT ![v] = @ - 1]
  /\ UNCHANGED <<status, lines, closed, atFinish, viewer, snap, shown, told>>

\* One turn of the drain loop.
Drain(v) ==
  /\ viewer[v] = "reading" /\ owed[v] > 0 /\ logCh # <<>>
  /\ logCh' = Tail(logCh)
  /\ owed' = [owed EXCEPT ![v] = @ - 1]
  /\ UNCHANGED <<status, lines, closed, atFinish, viewer, snap, shown, told>>

\* One turn of the loop that follows it.
Receive(v) ==
  /\ viewer[v] = "reading" /\ owed[v] = 0 /\ logCh # <<>>
  /\ logCh' = Tail(logCh)
  /\ shown' = [shown EXCEPT ![v] = Append(@, Head(logCh))]
  /\ UNCHANGED <<status, lines, closed, atFinish, viewer, snap, owed, told>>

\* Either loop finds the channel closed and empty.
SeeClosed(v) ==
  /\ viewer[v] = "reading" /\ logCh = <<>> /\ closed
  /\ viewer' = [viewer EXCEPT ![v] = "told"]
  /\ told' = [told EXCEPT ![v] = status]
  /\ UNCHANGED <<jobVars, snap, owed, shown>>

\* The browser goes away: r.Context() is done.
Disconnect(v) ==
  /\ viewer[v] = "reading"
  /\ viewer' = [viewer EXCEPT ![v] = "gone"]
  /\ UNCHANGED <<jobVars, snap, owed, shown, told>>

-----------------------------------------------------------------------------

View(v) == Drain(v) \/ Receive(v) \/ SeeClosed(v)

Next ==
  \/ AppendLog
  \/ Finish
  \/ \E v \in Viewers : Connect(v) \/ View(v) \/ Disconnect(v)

Spec == Init /\ [][Next]_vars

(* A backup run returns (RunReturns of module Pipeline), finish follows,   *)
(* and the requests are goroutines that run when they can.                 *)
FairSpec == Spec /\ WF_vars(Finish) /\ \A v \in Viewers : WF_vars(View(v))

-----------------------------------------------------------------------------
(* Every variable has its type, and the channel never exceeds its capacity.*)
TypeOK ==
  /\ status \in Statuses /\ lines \in 0..MaxLines
  /\ logCh \in Seq(1..MaxLines) /\ Len(logCh) <= LogChCap
  /\ closed \in BOOLEAN /\ atFinish \in 0..MaxLines
  /\ viewer \in [Viewers -> {"away", "reading", "told", "gone"}]
  /\ snap \in [Viewers -> 0..MaxLines]
  /\ owed \in [Viewers -> Nat]
  /\ shown \in [Viewers -> Seq(1..MaxLines)]
  /\ told \in [Viewers -> Statuses \cup {"none"}]

Increasing(s) == \A i, j \in 1..Len(s) : i < j => s[i] < s[j]

(* No browser is shown a line twice, or a line after a later one, however  *)
(* many of them read the channel and whatever was dropped: after throwing  *)
(* away as many items as its snapshot had lines, a request finds only      *)
(* lines in the channel that its snapshot did not have.                    *)
InOrder == \A v \in Viewers : Increasing(shown[v])

(* Every stream keeps the contract: no line twice or after a later one,    *)
(* none that was not logged, and one final event with the final status,    *)
(* after which nothing comes.                                              *)
Contract == INSTANCE StreamContract
KeepsStream == Contract!CSpec

(* The stream ends with the status the job ends with, never "running".     *)
ToldFinal ==
  \A v \in Viewers : told[v] # "none" => told[v] = status /\ status # "running"

(* Nothing is sent on the channel once it is closed, which would panic and *)
(* take the server down; lines do come after that, from the goroutines a   *)
(* failed run leaves behind.                                               *)
NoSendAfterClose == [][closed => Len(logCh') <= Len(logCh)]_vars

(* A browser that follows the job alone, from whatever line on, has been   *)
(* shown every line of the run when the stream ends, provided the channel  *)
(* can never have been full.                                               *)
SoleViewerSeesAll ==
  \A v \in Viewers :
    /\ viewer[v] = "told" /\ atFinish <= LogChCap
    /\ \A w \in Viewers \ {v} : viewer[w] = "away"
    => \A n \in 1..atFinish : \E i \in 1..Len(shown[v]) : shown[v][i] = n

(* Every stream comes to an end, with the final status: none waits in the  *)
(* drain loop or in the loop after it for an item that another request has *)
(* taken.                                                                  *)
StreamsEnd ==
  \A v \in Viewers : viewer[v] = "reading" ~>
    viewer[v] = "gone" \/ (told[v] = status /\ status # "running")

(* "Drain the items already sent via the snapshot from the channel": what  *)
(* a request throws away is a line its browser has been sent.              *)
DrainsOnlyShown ==
  [][\A v \in Viewers : owed'[v] < owed[v] => Head(logCh) <= snap[v]]_vars

(* What does hold: while one browser alone follows a job that cannot have  *)
(* filled the channel, its request throws away only lines it has sent.     *)
LoneDrainsShown ==
  [][\A v \in Viewers :
       /\ owed'[v] < owed[v] /\ lines <= LogChCap
       /\ \A w \in Viewers \ {v} : viewer[w] = "away"
       => Head(logCh) <= snap[v]]_vars

(* Once the job has finished, a request that is still reading can go on,   *)
(* whatever the others take from the channel, and ends within LogChCap + 1 *)
(* steps of its own: this is what is left for the scheduler in StreamsEnd. *)
StreamLeft(v) == Len(logCh) + (IF viewer[v] = "reading" THEN 1 ELSE 0)
CanView(v) ==   \* the guards of View(v)
  /\ viewer[v] = "reading"
  /\ \/ logCh # <<>> /\ (owed[v] > 0 \/ owed[v] = 0)
     \/ logCh = <<>> /\ closed

WindsDown ==
  [][\A v \in Viewers : closed /\ viewer[v] = "reading" =>
       /\ CanView(v)
       /\ StreamLeft(v) \in 1..(LogChCap + 1)
       /\ StreamLeft(v)' <= StreamLeft(v)
       /\ View(v) => StreamLeft(v)' < StreamLeft(v)]_vars

=============================================================================
