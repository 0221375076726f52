---------------------------- MODULE JobLogProofs ----------------------------
(***************************************************************************)
(* Proofs about JobLog, for any set of browsers, any channel capacity and  *)
(* any number of lines.                                                    *)
(*                                                                         *)
(* That no browser is shown a line twice rests on counting, not on what    *)
(* the drain loop throws away: the i-th item in the channel is at least    *)
(* line i, so behind as many items as a snapshot has lines there are only  *)
(* lines the snapshot does not have (BehindInv), and items that others     *)
(* receive or appendLog drops only move the rest further forward.          *)
(***************************************************************************)
EXTENDS JobLog, SequenceTheorems, TLAPS

ClosingInv ==
  /\ closed <=> status # "running"
  /\ closed => atFinish <= lines
  /\ ToldFinal
  /\ \A v \in Viewers : viewer[v] = "told" => closed
  /\ \A v \in Viewers : viewer[v] \in {"away", "reading"} => told[v] = "none"
  /\ \A v \in Viewers : viewer[v] = "away" => shown[v] = <<>>

ChannelInv ==
  /\ Increasing(logCh)
  /\ \A i \in 1..Len(logCh) : i <= logCh[i] /\ logCh[i] <= lines

ShownInv == \A v \in Viewers : \A k \in 1..Len(shown[v]) : shown[v][k] <= lines

BehindInv ==
  \A v \in Viewers :
    viewer[v] = "reading" =>
      \A i \in 1..Len(logCh) :
        i > owed[v] => \A k \in 1..Len(shown[v]) : shown[v][k] < logCh[i]

Sent == IF status = "running" THEN lines ELSE atFinish
Alone(v)    == \A w \in Viewers \ {v} : viewer[w] = "away"
Shown(v, n) == \E k \in 1..Len(shown[v]) : shown[v][k] = n
Waiting(n)  == \E i \in 1..Len(logCh) : logCh[i] = n

(* Before anybody reads the channel, every line is in it.                  *)
UnreadInv ==
  (\A v \in Viewers : viewer[v] = "away") /\ status = "running" /\ lines <= LogChCap
    => Len(logCh) = lines

(* For a browser that follows the job alone, a line is shown or waiting,   *)
(* and what its request still has to throw away is there and is shown.     *)
Follows(v) ==
  /\ \A n \in 1..Sent : Shown(v, n) \/ (viewer[v] = "reading" /\ Waiting(n))
  /\ viewer[v] = "reading" =>
       owed[v] <= Len(logCh) /\ \A i \in 1..owed[v] : Shown(v, logCh[i])

FollowInv ==
  \A v \in Viewers :
    Alone(v) /\ Sent <= LogChCap /\ viewer[v] \in {"reading", "told"} => Follows(v)

IInv == TypeOK /\ ClosingInv /\ ChannelInv /\ ShownInv /\ BehindInv /\ InOrder
          /\ UnreadInv /\ FollowInv

-----------------------------------------------------------------------------
(* What the operations do to the sequences.                                *)

LEMMA AppendLogEffect ==
  ASSUME TypeOK, AppendLog
  PROVE  /\ lines < MaxLines /\ lines' = lines + 1
         /\ \/ logCh' = logCh /\ (status # "running" \/ Len(logCh) >= LogChCap)
            \/ /\ status = "running" /\ Len(logCh) < LogChCap
               /\ logCh' \in Seq(1..MaxLines) /\ Len(logCh') = Len(logCh) + 1
               /\ \A i \in 1..Len(logCh) : logCh'[i] = logCh[i]
               /\ logCh'[Len(logCh) + 1] = lines + 1
         /\ UNCHANGED <<status, closed, atFinish, viewer, snap, owed, shown, told>>
<1>1. lines + 1 \in 1..MaxLines
  BY JobLogAssumption DEF TypeOK, AppendLog
<1>2. logCh \in Seq(1..MaxLines)
  BY DEF TypeOK
<1> DEFINE new == Append(logCh, lines + 1)
<1>3. /\ new \in Seq(1..MaxLines) /\ Len(new) = Len(logCh) + 1
      /\ \A i \in 1..Len(logCh) : new[i] = logCh[i]
      /\ new[Len(logCh) + 1] = lines + 1
  BY <1>1, <1>2, AppendProperties
<1>4. logCh' = (IF status = "running" /\ Len(logCh) < LogChCap THEN new ELSE logCh)
  BY DEF AppendLog
<1> HIDE DEF new
<1>5. Len(logCh) \in Nat
  BY <1>2, LenProperties
<1>6. CASE status = "running" /\ Len(logCh) < LogChCap
  BY <1>3, <1>4, <1>6 DEF AppendLog, viewVars
<1>7. CASE ~(status = "running" /\ Len(logCh) < LogChCap)
  BY <1>4, <1>5, <1>7, JobLogAssumption DEF AppendLog, viewVars
<1> QED
  BY <1>6, <1>7

LEMMA TakeEffect ==
  ASSUME TypeOK, NEW u \in Viewers, Drain(u) \/ Receive(u)
  PROVE  /\ Len(logCh) \in Nat /\ Len(logCh) > 0 /\ logCh[1] \in 1..MaxLines
         /\ Head(logCh) = logCh[1]
         /\ logCh' \in Seq(1..MaxLines) /\ Len(logCh') = Len(logCh) - 1
         /\ \A i \in 1..Len(logCh') : i + 1 \in 1..Len(logCh) /\ logCh'[i] = logCh[i + 1]
<1>1. logCh \in Seq(1..MaxLines) /\ logCh # <<>> /\ logCh' = Tail(logCh)
  BY DEF TypeOK, Drain, Receive
<1>2. Len(logCh) \in Nat /\ Len(logCh) > 0
  BY <1>1, EmptySeq
<1>3. logCh[1] \in 1..MaxLines
  <2>1. 1 \in 1..Len(logCh)
    BY <1>2
  <2> QED
    BY <1>1, <2>1, ElementOfSeq
<1>5. Head(logCh) = logCh[1]
  BY <1>1, <1>2
<1>4. /\ Tail(logCh) \in Seq(1..MaxLines) /\ Len(Tail(logCh)) = Len(logCh) - 1
      /\ \A i \in 1..Len(Tail(logCh)) : Tail(logCh)[i] = logCh[i + 1]
  BY <1>1, HeadTailProperties
<1> QED
  BY <1>1, <1>2, <1>3, <1>4, <1>5

LEMMA ReceiveEffect ==
  ASSUME TypeOK, NEW u \in Viewers, Receive(u)
  PROVE  /\ Len(shown[u]) \in Nat
         /\ shown' \in [Viewers -> Seq(1..MaxLines)]
         /\ Len(shown'[u]) = Len(shown[u]) + 1
         /\ \A k \in 1..Len(shown[u]) : shown'[u][k] = shown[u][k]
         /\ shown'[u][Len(shown[u]) + 1] = logCh[1]
         /\ \A w \in Viewers : w # u => shown'[w] = shown[w]
<1>1. shown[u] \in Seq(1..MaxLines) /\ logCh[1] \in 1..MaxLines /\ Head(logCh) = logCh[1]
  BY TakeEffect DEF TypeOK
<1> DEFINE new == Append(shown[u], logCh[1])
<1>2. /\ new \in Seq(1..MaxLines) /\ Len(new) = Len(shown[u]) + 1
      /\ \A k \in 1..Len(shown[u]) : new[k] = shown[u][k]
      /\ new[Len(shown[u]) + 1] = logCh[1]
  BY <1>1, AppendProperties
<1>3. shown' = [shown EXCEPT ![u] = new]
  BY <1>1 DEF Receive
<1> HIDE DEF new
<1>4. shown'[u] = new /\ \A w \in Viewers : w # u => shown'[w] = shown[w]
  BY <1>3 DEF TypeOK
<1>5. shown' \in [Viewers -> Seq(1..MaxLines)]
  BY <1>2, <1>3 DEF TypeOK
<1>6. Len(shown[u]) \in Nat
  BY <1>1, LenProperties
<1> QED
  BY <1>2, <1>4, <1>5, <1>6

LEMMA ConnectEffect ==
  ASSUME TypeOK, NEW u \in Viewers, Connect(u)
  PROVE  /\ shown' \in [Viewers -> Seq(1..MaxLines)]
         /\ Len(shown'[u]) = lines /\ \A k \in 1..lines : shown'[u][k] = k
         /\ \A w \in Viewers : w # u => shown'[w] = shown[w]
<1>1. Logged \in Seq(1..MaxLines) /\ Len(Logged) = lines /\ \A k \in 1..lines : Logged[k] = k
  BY JobLogAssumption DEF TypeOK, Logged
<1>2. shown' = [shown EXCEPT ![u] = Logged]
  BY DEF Connect
<1>3. shown'[u] = Logged /\ \A w \in Viewers : w # u => shown'[w] = shown[w]
  BY <1>2 DEF TypeOK
<1>4. shown' \in [Viewers -> Seq(1..MaxLines)]
  BY <1>1, <1>2 DEF TypeOK
<1> QED
  BY <1>1, <1>3, <1>4

-----------------------------------------------------------------------------
(* The inductive invariant, one conjunct at a time.                        *)

LEMMA InitIInv == Init => IInv
<1> SUFFICES ASSUME Init PROVE IInv
  OBVIOUS
<1>1. TypeOK
  <2>1. logCh \in Seq(1..MaxLines) /\ Len(logCh) <= LogChCap
    BY JobLogAssumption DEF Init
  <2>2. shown \in [Viewers -> Seq(1..MaxLines)]
    BY EmptySeq DEF Init
  <2>3. lines \in 0..MaxLines /\ atFinish \in 0..MaxLines
    BY JobLogAssumption DEF Init
  <2>4. snap \in [Viewers -> 0..MaxLines] /\ owed \in [Viewers -> Nat]
    <3>1. 0 \in 0..MaxLines /\ 0 \in Nat
      BY JobLogAssumption
    <3> QED
      BY <3>1 DEF Init
  <2> QED
    BY <2>1, <2>2, <2>3, <2>4 DEF Init, TypeOK, Statuses
<1>2. ClosingInv /\ ChannelInv /\ ShownInv /\ BehindInv /\ UnreadInv /\ FollowInv
  BY DEF Init, ShownInv, ClosingInv, ToldFinal, ChannelInv, Increasing, BehindInv, UnreadInv, FollowInv
<1>3. InOrder
  BY DEF Init, InOrder, Increasing
<1> QED
  BY <1>1, <1>2, <1>3 DEF IInv

LEMMA TypeStep == IInv /\ [Next]_vars => TypeOK'
<1> SUFFICES ASSUME TypeOK, IInv, [Next]_vars PROVE TypeOK'
  BY DEF IInv
<1> USE JobLogAssumption DEF TypeOK, Statuses, jobVars, viewVars
<1>1. CASE AppendLog
  <2>1. logCh' \in Seq(1..MaxLines) /\ Len(logCh') <= LogChCap /\ lines' \in 0..MaxLines
    <3>1. logCh \in Seq(1..MaxLines) /\ Len(logCh) \in Nat /\ Len(logCh) <= LogChCap
      BY LenProperties
    <3>2. lines \in 0..MaxLines
      OBVIOUS
    <3> HIDE DEF TypeOK
    <3> QED
      BY <1>1, <3>1, <3>2, AppendLogEffect
  <2> QED
    BY <1>1, <2>1 DEF AppendLog
<1>2. CASE Finish
  BY <1>2 DEF Finish
<1>3. ASSUME NEW u \in Viewers, Connect(u) PROVE TypeOK'
  <2>1. shown' \in [Viewers -> Seq(1..MaxLines)]
    BY <1>3, ConnectEffect
  <2>2. owed' \in [Viewers -> Nat] /\ snap' \in [Viewers -> 0..MaxLines]
    BY <1>3 DEF Connect
  <2>3. viewer' \in [Viewers -> {"away", "reading", "told", "gone"}]
        /\ told' \in [Viewers -> Statuses \cup {"none"}]
    BY <1>3 DEF Connect
  <2> QED
    BY <1>3, <2>1, <2>2, <2>3 DEF Connect
<1>4. ASSUME NEW u \in Viewers, Drain(u) PROVE TypeOK'
  <2>1. logCh' \in Seq(1..MaxLines) /\ Len(logCh') <= LogChCap
    <3>1. Len(logCh) <= LogChCap
      OBVIOUS
    <3> HIDE DEF TypeOK
    <3> QED
      BY <1>4, <3>1, TakeEffect
  <2> QED
    BY <1>4, <2>1 DEF Drain
<1>5. ASSUME NEW u \in Viewers, Receive(u) PROVE TypeOK'
  <2>1. logCh' \in Seq(1..MaxLines) /\ Len(logCh') <= LogChCap
    <3>1. Len(logCh) <= LogChCap
      OBVIOUS
    <3> HIDE DEF TypeOK
    <3> QED
      BY <1>5, <3>1, TakeEffect
  <2>2. shown' \in [Viewers -> Seq(1..MaxLines)]
    BY <1>5, ReceiveEffect
  <2> QED
    BY <1>5, <2>1, <2>2 DEF Receive
<1>6. ASSUME NEW u \in Viewers, SeeClosed(u) PROVE TypeOK'
  BY <1>6 DEF SeeClosed
<1>7. ASSUME NEW u \in Viewers, Disconnect(u) PROVE TypeOK'
  BY <1>7 DEF Disconnect
<1>8. CASE UNCHANGED vars
  BY <1>8 DEF vars
<1> QED
  BY <1>1, <1>2, <1>3, <1>4, <1>5, <1>6, <1>7, <1>8 DEF Next, View

LEMMA ClosingStep == IInv /\ [Next]_vars => ClosingInv'
<1> SUFFICES ASSUME IInv, [Next]_vars PROVE ClosingInv'
  OBVIOUS
<1> USE JobLogAssumption DEF IInv, TypeOK, Statuses, ClosingInv, ToldFinal, jobVars, viewVars
<1>1. CASE AppendLog
  BY <1>1 DEF AppendLog
<1>2. CASE Finish
  BY <1>2 DEF Finish
<1>3. ASSUME NEW u \in Viewers, Connect(u) PROVE ClosingInv'
  BY <1>3 DEF Connect
<1>4. ASSUME NEW u \in Viewers, Drain(u) \/ Receive(u) PROVE ClosingInv'
  BY <1>4 DEF Drain, Receive
<1>5. ASSUME NEW u \in Viewers, SeeClosed(u) PROVE ClosingInv'
  BY <1>5 DEF SeeClosed
<1>7. ASSUME NEW u \in Viewers, Disconnect(u) PROVE ClosingInv'
  BY <1>7 DEF Disconnect
<1>6. CASE UNCHANGED vars
  BY <1>6 DEF vars
<1> QED
  BY <1>1, <1>2, <1>3, <1>4, <1>5, <1>6, <1>7 DEF Next, View

LEMMA ChannelStep == IInv /\ [Next]_vars => ChannelInv'
<1> SUFFICES ASSUME IInv, [Next]_vars PROVE ChannelInv'
  OBVIOUS
<1>0. /\ TypeOK /\ lines \in Nat /\ Len(logCh) \in Nat
      /\ \A i \in 1..Len(logCh) : logCh[i] \in Nat
  BY LenProperties, ElementOfSeq, JobLogAssumption DEF IInv, TypeOK
<1>1. CASE AppendLog
  BY <1>0, <1>1, AppendLogEffect DEF IInv, ChannelInv, Increasing
<1>2. CASE UNCHANGED <<logCh, lines>>
  BY <1>2 DEF IInv, ChannelInv, Increasing
<1>3. ASSUME NEW u \in Viewers, Drain(u) \/ Receive(u) PROVE ChannelInv'
  <2>1. lines' = lines
    BY <1>3 DEF Drain, Receive
  <2> QED
    BY <1>0, <1>3, <2>1, TakeEffect DEF IInv, ChannelInv, Increasing
<1> QED
  BY <1>1, <1>2, <1>3
     DEF Next, View, Finish, Connect, SeeClosed, Disconnect, jobVars, viewVars, vars

LEMMA BehindStep == IInv /\ [Next]_vars => BehindInv'
<1> SUFFICES ASSUME IInv, [Next]_vars, NEW v \in Viewers, viewer'[v] = "reading",
                    NEW i \in 1..Len(logCh'), i > owed'[v], NEW k \in 1..Len(shown'[v])
             PROVE  shown'[v][k] < logCh'[i]
  BY DEF BehindInv
<1>0. /\ TypeOK /\ lines \in Nat /\ Len(logCh) \in Nat /\ owed[v] \in Nat
      /\ \A j \in 1..Len(logCh) : logCh[j] \in Nat /\ j <= logCh[j] /\ logCh[j] <= lines
      /\ Increasing(logCh) /\ BehindInv
      /\ shown[v] \in Seq(1..MaxLines) /\ Len(shown[v]) \in Nat
      /\ \A j \in 1..Len(shown[v]) : shown[v][j] \in 1..MaxLines /\ shown[v][j] <= lines
      /\ Len(shown'[v]) \in Nat
  <2>1. TypeOK /\ TypeOK'
    BY TypeStep DEF IInv
  <2>2. /\ lines \in Nat /\ owed[v] \in Nat /\ logCh \in Seq(1..MaxLines)
        /\ shown[v] \in Seq(1..MaxLines) /\ shown'[v] \in Seq(1..MaxLines)
    BY <2>1, JobLogAssumption DEF TypeOK
  <2>3. Len(logCh) \in Nat /\ Len(shown[v]) \in Nat /\ Len(shown'[v]) \in Nat
    BY <2>2, LenProperties
  <2>4. /\ \A j \in 1..Len(logCh) : logCh[j] \in 1..MaxLines
        /\ \A j \in 1..Len(shown[v]) : shown[v][j] \in 1..MaxLines
    BY <2>2, ElementOfSeq
  <2> QED
    BY <2>1, <2>2, <2>3, <2>4 DEF IInv, ChannelInv, ShownInv
<1>1. CASE AppendLog
  <2>1. /\ viewer' = viewer /\ owed' = owed /\ shown' = shown
        /\ k \in 1..Len(shown[v]) /\ shown[v][k] <= lines
    BY <1>0, <1>1, AppendLogEffect
  <2>2. CASE i \in 1..Len(logCh) /\ logCh'[i] = logCh[i]
    BY <1>0, <2>1, <2>2 DEF BehindInv
  <2>3. CASE logCh'[i] = lines + 1
    BY <1>0, <2>1, <2>3
  <2> QED
    BY <1>0, <1>1, <2>2, <2>3, AppendLogEffect
<1>2. CASE UNCHANGED <<logCh, viewer, owed, shown>>
  BY <1>0, <1>2 DEF BehindInv
<1>3. ASSUME NEW u \in Viewers, Connect(u) PROVE shown'[v][k] < logCh'[i]
  <2>1. logCh' = logCh /\ (u = v => owed'[v] = lines) /\ (u # v => viewer'[v] = viewer[v] /\ owed'[v] = owed[v])
    BY <1>0, <1>3 DEF Connect, TypeOK, jobVars
  <2>2. CASE u = v
    BY <1>0, <2>1, <2>2
  <2>3. CASE u # v
    BY <1>0, <1>3, <2>1, <2>3, ConnectEffect DEF BehindInv
  <2> QED
    BY <2>2, <2>3
<1>4. ASSUME NEW u \in Viewers, Drain(u) PROVE shown'[v][k] < logCh'[i]
  <2>1. viewer' = viewer /\ shown' = shown /\ owed'[v] \in {owed[v], owed[v] - 1}
    BY <1>0, <1>4 DEF Drain, TypeOK
  <2>2. i + 1 \in 1..Len(logCh) /\ logCh'[i] = logCh[i + 1] /\ i + 1 > owed[v]
    BY <1>0, <1>4, <2>1, TakeEffect
  <2> QED
    BY <1>0, <2>1, <2>2 DEF BehindInv
<1>5. ASSUME NEW u \in Viewers, Receive(u) PROVE shown'[v][k] < logCh'[i]
  <2>1. viewer' = viewer /\ owed' = owed /\ owed[u] = 0
    BY <1>5 DEF Receive
  <2>2. i + 1 \in 1..Len(logCh) /\ logCh'[i] = logCh[i + 1] /\ i + 1 > owed[v]
    BY <1>0, <1>5, <2>1, TakeEffect
  <2>3. CASE k \in 1..Len(shown[v]) /\ shown'[v][k] = shown[v][k]
    BY <1>0, <2>1, <2>2, <2>3 DEF BehindInv
  <2>4. CASE shown'[v][k] = logCh[1]
    <3>1. 1 \in 1..Len(logCh)
      BY <1>0, <2>2
    <3>2. i \in Nat /\ 1 < i + 1
      BY <1>0, <1>5, TakeEffect
    <3> QED
      BY <1>0, <2>2, <2>4, <3>1, <3>2 DEF Increasing
  <2>5. CASE u = v
    <3>1. k \in 1..(Len(shown[v]) + 1)
      BY <1>0, <1>5, <2>5, ReceiveEffect
    <3> QED
      BY <1>0, <1>5, <2>3, <2>4, <2>5, <3>1, ReceiveEffect
  <2>6. CASE u # v
    BY <1>0, <1>5, <2>3, <2>6, ReceiveEffect
  <2> QED
    BY <2>5, <2>6
<1>6. ASSUME NEW u \in Viewers, SeeClosed(u) \/ Disconnect(u) PROVE shown'[v][k] < logCh'[i]
  <2>1. logCh' = logCh /\ owed' = owed /\ shown' = shown /\ viewer[v] = "reading"
    BY <1>0, <1>6 DEF SeeClosed, Disconnect, TypeOK, jobVars
  <2> QED
    BY <1>0, <2>1 DEF BehindInv
<1> QED
  BY <1>1, <1>2, <1>3, <1>4, <1>5, <1>6 DEF Next, View, Finish, viewVars, vars

LEMMA OrderStep == IInv /\ [Next]_vars => InOrder'
<1> SUFFICES ASSUME IInv, [Next]_vars, NEW v \in Viewers PROVE Increasing(shown'[v])
  BY DEF InOrder, Increasing
<1>0. TypeOK /\ Increasing(shown[v]) /\ BehindInv
  BY DEF IInv, InOrder
<1>1. CASE UNCHANGED shown
  BY <1>0, <1>1 DEF Increasing
<1>2. ASSUME NEW u \in Viewers, Connect(u) PROVE Increasing(shown'[v])
  BY <1>0, <1>2, ConnectEffect DEF Increasing, TypeOK
<1>3. ASSUME NEW u \in Viewers, Receive(u) PROVE Increasing(shown'[v])
  <2>1. CASE u = v
    <3>1. \A k \in 1..Len(shown[v]) : shown[v][k] < logCh[1]
      <4>1. viewer[v] = "reading" /\ owed[v] = 0 /\ 1 \in 1..Len(logCh)
        BY <1>0, <1>3, <2>1, TakeEffect DEF Receive
      <4> QED
        BY <1>0, <4>1 DEF BehindInv
    <3> QED
      BY <1>0, <1>3, <2>1, <3>1, ReceiveEffect DEF Increasing
  <2>2. CASE u # v
    BY <1>0, <1>3, <2>2, ReceiveEffect DEF Increasing
  <2> QED
    BY <2>1, <2>2
<1> QED
  BY <1>1, <1>2, <1>3
     DEF Next, View, AppendLog, Finish, Drain, SeeClosed, Disconnect, viewVars, vars

LEMMA ShownStep == IInv /\ [Next]_vars => ShownInv'
<1> SUFFICES ASSUME IInv, [Next]_vars, NEW v \in Viewers, NEW k \in 1..Len(shown'[v])
             PROVE  shown'[v][k] <= lines'
  BY DEF ShownInv
<1>0. TypeOK /\ lines \in Nat /\ ShownInv /\ \A j \in 1..Len(logCh) : logCh[j] <= lines
  BY JobLogAssumption DEF IInv, TypeOK, ChannelInv
<1>1. CASE AppendLog
  <2>1. /\ lines' = lines + 1 /\ shown' = shown /\ shown[v][k] <= lines
        /\ shown[v] \in Seq(1..MaxLines) /\ k \in 1..Len(shown[v])
    BY <1>0, <1>1, AppendLogEffect DEF ShownInv, TypeOK
  <2>2. shown[v][k] \in 1..MaxLines
    BY <2>1, ElementOfSeq
  <2> QED
    BY <1>0, <2>1, <2>2
<1>2. CASE UNCHANGED <<lines, shown>>
  BY <1>0, <1>2 DEF ShownInv
<1>3. ASSUME NEW u \in Viewers, Connect(u) PROVE shown'[v][k] <= lines'
  <2>1. lines' = lines
    BY <1>3 DEF Connect, jobVars
  <2>2. CASE u = v
    BY <1>0, <1>3, <2>1, <2>2, ConnectEffect
  <2>3. CASE u # v
    BY <1>0, <1>3, <2>1, <2>3, ConnectEffect DEF ShownInv
  <2> QED
    BY <2>2, <2>3
<1>4. ASSUME NEW u \in Viewers, Receive(u) PROVE shown'[v][k] <= lines'
  <2>1. lines' = lines /\ logCh[1] <= lines
    BY <1>0, <1>4, TakeEffect DEF Receive
  <2>2. CASE u = v
    <3>1. Len(shown[v]) \in Nat /\ k \in 1..(Len(shown[v]) + 1)
      BY <1>0, <1>4, <2>2, ReceiveEffect
    <3> QED
      BY <1>0, <1>4, <2>1, <2>2, <3>1, ReceiveEffect DEF ShownInv
  <2>3. CASE u # v
    BY <1>0, <1>4, <2>1, <2>3, ReceiveEffect DEF ShownInv
  <2> QED
    BY <2>2, <2>3
<1> QED
  BY <1>1, <1>2, <1>3, <1>4
     DEF Next, View, Finish, Drain, SeeClosed, Disconnect, jobVars, viewVars, vars

-----------------------------------------------------------------------------
(* A browser that follows the job alone.                                   *)

\* Sent and what is shown stay as they are, and nobody new connects.
LEMMA AloneBefore ==
  ASSUME TypeOK, NEW u \in Viewers, NEW v \in Viewers, Alone(v)',
         Drain(u) \/ Receive(u) \/ SeeClosed(u) \/ Disconnect(u)
  PROVE  u = v /\ Alone(v) /\ Sent' = Sent
<1>1. viewer[u] = "reading" /\ Sent' = Sent
  BY DEF Drain, Receive, SeeClosed, Disconnect, Sent, jobVars
<1>2. viewer'[u] # "away" /\ \A w \in Viewers \ {u} : viewer'[w] = viewer[w]
  BY <1>1 DEF Drain, Receive, SeeClosed, Disconnect, TypeOK
<1> QED
  BY <1>1, <1>2 DEF Alone

LEMMA UnreadStep == IInv /\ [Next]_vars => UnreadInv'
<1> SUFFICES ASSUME IInv, [Next]_vars, \A v \in Viewers : viewer'[v] = "away",
                    status' = "running", lines' <= LogChCap
             PROVE  Len(logCh') = lines'
  BY DEF UnreadInv
<1>0. TypeOK /\ UnreadInv /\ lines \in Nat
  BY JobLogAssumption DEF IInv, TypeOK
<1>1. CASE AppendLog
  <2>1. Len(logCh) = lines
    BY <1>0, <1>1, AppendLogEffect, JobLogAssumption DEF UnreadInv
  <2> QED
    BY <1>0, <1>1, <2>1, AppendLogEffect, JobLogAssumption
<1>2. CASE Finish
  BY <1>2 DEF Finish
<1>3. ASSUME NEW u \in Viewers, Connect(u) PROVE FALSE
  <2>1. viewer'[u] # "away"
    BY <1>0, <1>3 DEF Connect, TypeOK
  <2> QED
    BY <2>1
<1>4. ASSUME NEW u \in Viewers, View(u) \/ Disconnect(u) PROVE FALSE
  <2>1. viewer'[u] # "away"
    BY <1>0, <1>4 DEF View, Drain, Receive, SeeClosed, Disconnect, TypeOK
  <2> QED
    BY <2>1
<1>5. CASE UNCHANGED vars
  BY <1>0, <1>5 DEF UnreadInv, vars
<1> QED
  BY <1>1, <1>2, <1>3, <1>4, <1>5 DEF Next

LEMMA FollowStep == IInv /\ [Next]_vars => FollowInv'
<1> SUFFICES ASSUME IInv, [Next]_vars, NEW v \in Viewers,
                    Alone(v)', Sent' <= LogChCap, viewer'[v] \in {"reading", "told"}
             PROVE  Follows(v)'
  BY DEF FollowInv
<1>0. /\ TypeOK /\ FollowInv /\ ClosingInv
      /\ lines \in Nat /\ atFinish \in Nat /\ Len(logCh) \in Nat /\ owed[v] \in Nat
      /\ \A j \in 1..Len(logCh) : logCh[j] \in 1..MaxLines /\ j <= logCh[j] /\ logCh[j] <= lines
      /\ shown[v] \in Seq(1..MaxLines) /\ Len(shown[v]) \in Nat
  <2>1. logCh \in Seq(1..MaxLines) /\ lines \in Nat /\ atFinish \in Nat /\ owed[v] \in Nat
        /\ shown[v] \in Seq(1..MaxLines)
    BY JobLogAssumption DEF IInv, TypeOK
  <2> QED
    BY <2>1, LenProperties, ElementOfSeq DEF IInv, ChannelInv
<1>1. CASE AppendLog
  <2>1. /\ viewer' = viewer /\ owed' = owed /\ shown' = shown /\ status' = status
        /\ atFinish' = atFinish /\ lines' = lines + 1
    BY <1>0, <1>1, AppendLogEffect
  <2>2. Sent <= LogChCap /\ Alone(v) /\ viewer[v] \in {"reading", "told"}
    BY <1>0, <2>1, JobLogAssumption DEF Sent, Alone
  <2>3. Follows(v)
    BY <1>0, <2>2 DEF FollowInv
  <2>4. CASE status # "running"
    <3>1. logCh' = logCh /\ Sent' = Sent
      BY <1>0, <1>1, <2>1, <2>4, AppendLogEffect DEF Sent
    <3> QED
      BY <2>1, <2>3, <3>1 DEF Follows, Shown, Waiting
  <2>5. CASE status = "running"
    <3>1. Len(logCh) <= lines
      <4>1. CASE Len(logCh) = 0
        BY <1>0, <4>1
      <4>2. CASE Len(logCh) > 0
        <5>1. Len(logCh) \in 1..Len(logCh)
          BY <1>0, <4>2
        <5>2. Len(logCh) <= logCh[Len(logCh)] /\ logCh[Len(logCh)] <= lines
          BY <1>0, <5>1
        <5>3. logCh[Len(logCh)] \in 1..MaxLines
          BY <1>0, <5>1
        <5> QED
          BY <1>0, <5>2, <5>3
      <4> QED
        BY <1>0, <4>1, <4>2
    <3>2. Len(logCh) < LogChCap /\ Sent' = lines + 1 /\ Sent = lines
      BY <1>0, <2>1, <2>5, <3>1, JobLogAssumption DEF Sent
    <3>3. /\ Len(logCh') = Len(logCh) + 1 /\ logCh'[Len(logCh) + 1] = lines + 1
          /\ \A i \in 1..Len(logCh) : logCh'[i] = logCh[i]
      BY <1>0, <1>1, <2>5, <3>2, AppendLogEffect, JobLogAssumption
    <3>4. viewer[v] = "reading"
      BY <1>0, <2>2, <2>5 DEF ClosingInv
    <3>5. ASSUME NEW n \in 1..Sent' PROVE Shown(v, n)' \/ Waiting(n)'
      <4>1. CASE n = lines + 1
        BY <1>0, <3>3, <4>1 DEF Waiting
      <4>2. CASE n \in 1..Sent
        BY <1>0, <2>1, <2>3, <3>3, <4>2 DEF Follows, Shown, Waiting
      <4> QED
        BY <1>0, <3>2, <4>1, <4>2
    <3>6. owed'[v] <= Len(logCh') /\ \A i \in 1..owed'[v] : Shown(v, logCh[i])'
      BY <1>0, <2>1, <2>3, <3>3, <3>4 DEF Follows, Shown
    <3> QED
      BY <2>1, <3>4, <3>5, <3>6 DEF Follows
  <2> QED
    BY <2>4, <2>5
<1>2. CASE Finish
  <2>1. UNCHANGED <<lines, logCh, viewer, snap, owed, shown, told>> /\ Sent' = lines /\ Sent = lines
    BY <1>2 DEF Finish, viewVars, Sent
  <2>2. Follows(v)
    BY <1>0, <2>1 DEF FollowInv, Alone
  <2> QED
    BY <2>1, <2>2 DEF Follows, Shown, Waiting
<1>3. ASSUME NEW u \in Viewers, Connect(u) PROVE Follows(v)'
  <2>1. u = v /\ Alone(v) /\ viewer[v] = "away"
    <3>1. viewer[u] = "away" /\ viewer'[u] # "away"
          /\ \A w \in Viewers \ {u} : viewer'[w] = viewer[w]
      BY <1>0, <1>3 DEF Connect, TypeOK
    <3> QED
      BY <3>1 DEF Alone
  <2>2. UNCHANGED <<status, lines, logCh, closed, atFinish>> /\ Sent' = Sent /\ Sent <= lines
    BY <1>0, <1>3 DEF Connect, jobVars, Sent, ClosingInv, TypeOK, Statuses
  <2>3. \A n \in 1..lines : Shown(v, n)'
    BY <1>0, <1>3, <2>1, ConnectEffect DEF Shown
  <2>4. \A n \in 1..Sent' : Shown(v, n)'
    BY <1>0, <2>2, <2>3 DEF Sent
  <2>5. ASSUME viewer'[v] = "reading"
        PROVE  owed'[v] <= Len(logCh') /\ \A i \in 1..owed'[v] : Shown(v, logCh[i])'
    <3>1. status = "running" /\ owed'[v] = lines
      BY <1>0, <1>3, <2>1, <2>5 DEF Connect, TypeOK
    <3>2. Len(logCh) = lines
      BY <2>1, <2>2, <3>1 DEF IInv, UnreadInv, Alone, Sent
    <3>3. \A i \in 1..Len(logCh) : logCh[i] \in 1..lines
      BY <1>0
    <3> QED
      BY <1>0, <2>2, <2>3, <3>1, <3>2, <3>3
  <2> QED
    BY <2>4, <2>5 DEF Follows
<1>4. ASSUME NEW u \in Viewers, Drain(u) PROVE Follows(v)'
  <2>1. u = v /\ Alone(v) /\ Sent' = Sent
    BY <1>0, <1>4, AloneBefore
  <2>2. /\ viewer' = viewer /\ shown' = shown /\ viewer[v] = "reading"
        /\ owed[v] > 0 /\ owed'[v] = owed[v] - 1
    BY <1>0, <1>4, <2>1 DEF Drain, TypeOK
  <2>3. Follows(v)
    BY <1>0, <2>1, <2>2 DEF FollowInv
  <2>4. /\ Len(logCh') = Len(logCh) - 1
        /\ \A i \in 1..Len(logCh') : i + 1 \in 1..Len(logCh) /\ logCh'[i] = logCh[i + 1]
    BY <1>0, <1>4, TakeEffect
  <2>5. ASSUME NEW n \in 1..Sent' PROVE Shown(v, n)' \/ Waiting(n)'
    <3>1. CASE Shown(v, n)
      BY <2>2, <3>1 DEF Shown
    <3>2. ASSUME NEW i \in 1..Len(logCh), logCh[i] = n PROVE Shown(v, n)' \/ Waiting(n)'
      <4>1. CASE i = 1
        <5>1. 1 \in 1..owed[v]
          BY <1>0, <2>2
        <5>2. Shown(v, logCh[1])
          BY <2>2, <2>3, <5>1 DEF Follows
        <5> QED
          BY <2>2, <3>2, <4>1, <5>2 DEF Shown
      <4>2. CASE i > 1
        <5>1. i - 1 \in 1..Len(logCh') /\ logCh'[i - 1] = n
          BY <1>0, <2>4, <3>2, <4>2
        <5> QED
          BY <5>1 DEF Waiting
      <4> QED
        BY <4>1, <4>2
    <3> QED
      BY <2>1, <2>3, <3>1, <3>2 DEF Follows, Waiting
  <2>6. owed'[v] <= Len(logCh') /\ \A i \in 1..owed'[v] : Shown(v, logCh[i])'
    <3>1. owed[v] <= Len(logCh) /\ \A i \in 1..owed[v] : Shown(v, logCh[i])
      BY <2>2, <2>3 DEF Follows
    <3>2. owed'[v] <= Len(logCh')
      BY <1>0, <2>2, <2>4, <3>1
    <3>3. ASSUME NEW i \in 1..owed'[v] PROVE Shown(v, logCh[i])'
      <4>1. i + 1 \in 1..owed[v] /\ logCh'[i] = logCh[i + 1]
        BY <1>0, <2>2, <2>4, <3>2
      <4> QED
        BY <2>2, <3>1, <4>1 DEF Shown
    <3> QED
      BY <3>2, <3>3
  <2> QED
    BY <2>2, <2>5, <2>6 DEF Follows
<1>5. ASSUME NEW u \in Viewers, Receive(u) PROVE Follows(v)'
  <2>1. u = v /\ Alone(v) /\ Sent' = Sent
    BY <1>0, <1>5, AloneBefore
  <2>2. viewer' = viewer /\ viewer[v] = "reading" /\ owed[v] = 0 /\ owed'[v] = 0
    BY <1>5, <2>1 DEF Receive
  <2>3. Follows(v)
    BY <1>0, <2>1, <2>2 DEF FollowInv
  <2>4. /\ Len(logCh') = Len(logCh) - 1
        /\ \A i \in 1..Len(logCh') : i + 1 \in 1..Len(logCh) /\ logCh'[i] = logCh[i + 1]
    BY <1>0, <1>5, TakeEffect
  <2>5. /\ Len(shown'[v]) = Len(shown[v]) + 1
        /\ \A k \in 1..Len(shown[v]) : shown'[v][k] = shown[v][k]
        /\ shown'[v][Len(shown[v]) + 1] = logCh[1]
    BY <1>0, <1>5, <2>1, ReceiveEffect
  <2>6. ASSUME NEW n \in 1..Sent' PROVE Shown(v, n)' \/ Waiting(n)'
    <3>1. CASE Shown(v, n)
      <4>1. PICK k \in 1..Len(shown[v]) : shown[v][k] = n
        BY <3>1 DEF Shown
      <4>2. k \in 1..Len(shown'[v]) /\ shown'[v][k] = n
        BY <1>0, <2>5, <4>1
      <4> QED
        BY <4>2 DEF Shown
    <3>2. ASSUME NEW i \in 1..Len(logCh), logCh[i] = n PROVE Shown(v, n)' \/ Waiting(n)'
      <4>1. CASE i = 1
        <5>1. Len(shown[v]) + 1 \in 1..Len(shown'[v])
          BY <1>0, <2>5
        <5> QED
          BY <2>5, <3>2, <4>1, <5>1 DEF Shown
      <4>2. CASE i > 1
        <5>1. i - 1 \in 1..Len(logCh') /\ logCh'[i - 1] = n
          BY <1>0, <2>4, <3>2, <4>2
        <5> QED
          BY <5>1 DEF Waiting
      <4> QED
        BY <4>1, <4>2
    <3> QED
      BY <2>1, <2>3, <3>1, <3>2 DEF Follows, Waiting
  <2> QED
    BY <1>0, <1>5, <2>2, <2>4, <2>6, TakeEffect DEF Follows
<1>6. ASSUME NEW u \in Viewers, SeeClosed(u) \/ Disconnect(u) PROVE Follows(v)'
  <2>1. u = v /\ Alone(v) /\ Sent' = Sent
    BY <1>0, <1>6, AloneBefore
  <2>2. SeeClosed(v) /\ viewer[v] = "reading" /\ viewer'[v] = "told"
        /\ logCh = <<>> /\ logCh' = logCh /\ shown' = shown
    BY <1>0, <1>6, <2>1 DEF SeeClosed, Disconnect, TypeOK, jobVars
  <2>3. Follows(v)
    BY <1>0, <2>1, <2>2 DEF FollowInv
  <2>4. \A n \in 1..Sent : Shown(v, n)
    BY <2>2, <2>3 DEF Follows, Waiting
  <2> QED
    BY <2>1, <2>2, <2>4 DEF Follows, Shown
<1>7. CASE UNCHANGED vars
  <2>1. Alone(v) /\ Sent' = Sent /\ viewer' = viewer
    BY <1>7 DEF Alone, Sent, vars
  <2>2. Follows(v)
    BY <1>0, <2>1 DEF FollowInv
  <2> QED
    BY <1>7, <2>1, <2>2 DEF Follows, Shown, Waiting, vars
<1> QED
  BY <1>1, <1>2, <1>3, <1>4, <1>5, <1>6, <1>7 DEF Next, View

LEMMA NextIInv == IInv /\ [Next]_vars => IInv'
BY TypeStep, ClosingStep, ChannelStep, ShownStep, BehindStep, OrderStep, UnreadStep, FollowStep
   DEF IInv

-----------------------------------------------------------------------------
(* The theorems.                                                           *)

(* The inductive invariant holds in every reachable state.                 *)
THEOREM Invariance == Spec => []IInv
BY InitIInv, NextIInv, PTL DEF Spec

(* Every variable keeps its type; the channel keeps its capacity.          *)
THEOREM TypeCorrect == Spec => []TypeOK
<1>1. IInv => TypeOK
  BY DEF IInv
<1> QED
  BY <1>1, Invariance, PTL

(* apiBackupStream shows no browser a line twice or out of order, for any  *)
(* number of browsers, any capacity of the channel and any log.            *)
THEOREM Ordered == Spec => []InOrder
<1>1. IInv => InOrder
  BY DEF IInv
<1> QED
  BY <1>1, Invariance, PTL

(* Every stream ends with the status that finish gave the job.             *)
THEOREM Final == Spec => []ToldFinal
<1>1. IInv => ToldFinal
  BY DEF IInv, ClosingInv
<1> QED
  BY <1>1, Invariance, PTL

(* A browser that follows a job alone misses none of its lines.            *)
THEOREM Complete == Spec => []SoleViewerSeesAll
<1>1. IInv => SoleViewerSeesAll
  BY JobLogAssumption
     DEF IInv, TypeOK, ClosingInv, FollowInv, Follows, SoleViewerSeesAll, Alone, Sent, Shown
<1> QED
  BY <1>1, Invariance, PTL

(* appendLog never sends on the channel after finish has closed it.        *)
THEOREM NoPanic == Spec => NoSendAfterClose
<1>1. IInv /\ [Next]_vars => (closed => Len(logCh') <= Len(logCh))
  <2> SUFFICES ASSUME IInv, [Next]_vars, closed PROVE Len(logCh') <= Len(logCh)
    OBVIOUS
  <2>0. TypeOK /\ status # "running" /\ Len(logCh) \in Nat
    BY LenProperties DEF IInv, TypeOK, ClosingInv
  <2>1. CASE AppendLog
    BY <2>0, <2>1, AppendLogEffect
  <2>2. ASSUME NEW u \in Viewers, Drain(u) \/ Receive(u) PROVE Len(logCh') <= Len(logCh)
    BY <2>0, <2>2, TakeEffect
  <2>3. CASE UNCHANGED logCh
    BY <2>0, <2>3
  <2> QED
    BY <2>1, <2>2, <2>3
       DEF Next, View, Finish, Connect, SeeClosed, Disconnect, jobVars, viewVars, vars
<1>2. IInv /\ [Next]_vars => [closed => Len(logCh') <= Len(logCh)]_vars
  BY <1>1
<1> QED
  BY <1>2, Invariance, PTL DEF Spec, NoSendAfterClose

-----------------------------------------------------------------------------
(* The refinement: what a browser sees of the job keeps StreamContract.    *)

cVars == <<status, lines, shown, told>>

(* A step of one request that sends its browser the lines new.             *)
LEMMA Sends ==
  ASSUME TypeOK, NEW u \in Viewers, told[u] = "none", UNCHANGED <<status, lines>>,
         shown' \in [Viewers -> Seq(1..MaxLines)],
         \A w \in Viewers : w # u => shown'[w] = shown[w],
         Contract!Continues(shown[u], shown'[u]),
         UNCHANGED told \/ (status # "running" /\ told' = [told EXCEPT ![u] = status])
  PROVE  Contract!CNext
<1>1. shown' = [shown EXCEPT ![u] = shown'[u]]
  BY DEF TypeOK
<1> QED
  BY <1>1 DEF Contract!CNext, Contract!Send

LEMMA ContractStep == IInv /\ IInv' /\ [Next]_vars => [Contract!CNext]_cVars
<1> SUFFICES ASSUME IInv, IInv', [Next]_vars PROVE [Contract!CNext]_cVars
  OBVIOUS
<1>0. TypeOK /\ TypeOK' /\ shown \in [Viewers -> Seq(1..MaxLines)] /\ lines \in Nat
  BY JobLogAssumption DEF IInv, TypeOK
<1>1. CASE AppendLog
  BY <1>0, <1>1, AppendLogEffect DEF Contract!CNext, Contract!Log
<1>2. CASE Finish
  BY <1>2 DEF Finish, viewVars, Contract!CNext, Contract!End
<1>3. ASSUME NEW u \in Viewers, Connect(u) PROVE [Contract!CNext]_cVars
  <2>1. told[u] = "none" /\ shown[u] = <<>> /\ UNCHANGED <<status, lines>>
    BY <1>3 DEF IInv, ClosingInv, Connect, jobVars
  <2>2. /\ shown' \in [Viewers -> Seq(1..MaxLines)]
        /\ Len(shown'[u]) = lines /\ \A k \in 1..lines : shown'[u][k] = k
        /\ \A w \in Viewers : w # u => shown'[w] = shown[w]
    BY <1>0, <1>3, ConnectEffect
  <2>3. Contract!Continues(shown[u], shown'[u])
    BY <1>0, <2>1, <2>2 DEF Contract!Continues
  <2>4. UNCHANGED told \/ (status # "running" /\ told' = [told EXCEPT ![u] = status])
    BY <1>3 DEF Connect
  <2> QED BY <1>0, <2>1, <2>2, <2>3, <2>4, Sends
<1>4. ASSUME NEW u \in Viewers, Drain(u) PROVE [Contract!CNext]_cVars
  BY <1>4 DEF Drain, cVars
<1>5. ASSUME NEW u \in Viewers, Receive(u) PROVE [Contract!CNext]_cVars
  <2>1. told[u] = "none" /\ viewer[u] = "reading" /\ owed[u] = 0 /\ UNCHANGED <<status, lines, told>>
    BY <1>5 DEF IInv, ClosingInv, Receive
  <2>2. /\ Len(shown[u]) \in Nat
        /\ shown' \in [Viewers -> Seq(1..MaxLines)]
        /\ Len(shown'[u]) = Len(shown[u]) + 1
        /\ \A k \in 1..Len(shown[u]) : shown'[u][k] = shown[u][k]
        /\ shown'[u][Len(shown[u]) + 1] = logCh[1]
        /\ \A w \in Viewers : w # u => shown'[w] = shown[w]
    BY <1>0, <1>5, ReceiveEffect
  <2>3. Len(logCh) \in Nat /\ Len(logCh) > 0 /\ logCh[1] \in 1..MaxLines
    BY <1>0, <1>5, TakeEffect
  <2>4. logCh[1] \in 1..lines /\ \A k \in 1..Len(shown[u]) : shown[u][k] < logCh[1]
    BY <1>0, <2>1, <2>3 DEF IInv, ChannelInv, BehindInv
  <2>5. Contract!Continues(shown[u], shown'[u])
    BY <2>2, <2>4 DEF Contract!Continues
  <2> QED BY <1>0, <2>1, <2>2, <2>5, Sends
<1>6. ASSUME NEW u \in Viewers, SeeClosed(u) PROVE [Contract!CNext]_cVars
  <2>1. told[u] = "none" /\ status # "running" /\ UNCHANGED <<status, lines, shown>>
        /\ told' = [told EXCEPT ![u] = status]
    BY <1>6 DEF IInv, ClosingInv, SeeClosed, jobVars
  <2>2. Contract!Continues(shown[u], shown'[u])
    <3>1. Len(shown[u]) \in Nat
      BY <1>0, LenProperties
    <3> QED BY <2>1, <3>1 DEF Contract!Continues
  <2> QED BY <1>0, <2>1, <2>2, Sends
<1>7. ASSUME NEW u \in Viewers, Disconnect(u) PROVE [Contract!CNext]_cVars
  BY <1>7 DEF Disconnect, jobVars, cVars
<1>8. CASE UNCHANGED vars
  BY <1>8 DEF vars, cVars
<1> QED
  BY <1>1, <1>2, <1>3, <1>4, <1>5, <1>6, <1>7, <1>8 DEF Next, View

(* apiBackupStream keeps the contract of a stream, however many browsers   *)
(* share the channel and whatever it drops.                                *)
THEOREM Implements == Spec => KeepsStream
<1>1. Init => Contract!CInit
  BY DEF Init, Contract!CInit
<1>2. Spec => [][Contract!CNext]_cVars
  BY ContractStep, Invariance, PTL DEF Spec
<1> QED
  BY <1>1, <1>2, PTL DEF Spec, KeepsStream, Contract!CSpec, cVars

-----------------------------------------------------------------------------
(* What a lone browser's request throws away.                              *)

(* While it drains, a request has sent the lines of its snapshot only.     *)
DrainInv ==
  \A v \in Viewers :
    /\ viewer[v] = "away" => owed[v] = 0
    /\ viewer[v] = "reading" /\ owed[v] > 0 =>
         \A k \in 1..Len(shown[v]) : shown[v][k] <= snap[v]

LEMMA DrainStep == IInv /\ DrainInv /\ [Next]_vars => DrainInv'
<1> SUFFICES ASSUME IInv, DrainInv, [Next]_vars, NEW v \in Viewers
             PROVE  /\ viewer'[v] = "away" => owed'[v] = 0
                    /\ viewer'[v] = "reading" /\ owed'[v] > 0 =>
                         \A k \in 1..Len(shown'[v]) : shown'[v][k] <= snap'[v]
  BY DEF DrainInv
<1>0. TypeOK
  BY DEF IInv
<1>1. CASE UNCHANGED <<viewer, snap, owed, shown>>
  BY <1>1 DEF DrainInv
<1>2. ASSUME NEW u \in Viewers, Connect(u)
      PROVE  /\ viewer'[v] = "away" => owed'[v] = 0
             /\ viewer'[v] = "reading" /\ owed'[v] > 0 =>
                  \A k \in 1..Len(shown'[v]) : shown'[v][k] <= snap'[v]
  <2>1. CASE u = v
    <3>1. Len(shown'[v]) = lines /\ (\A k \in 1..lines : shown'[v][k] = k) /\ snap'[v] = lines
          /\ viewer'[v] # "away"
      BY <1>0, <1>2, <2>1, ConnectEffect DEF Connect, TypeOK
    <3> QED BY <1>0, <3>1, JobLogAssumption DEF TypeOK
  <2>2. CASE u # v
    <3>1. viewer'[v] = viewer[v] /\ owed'[v] = owed[v] /\ snap'[v] = snap[v] /\ shown'[v] = shown[v]
      BY <1>0, <1>2, <2>2 DEF Connect, TypeOK
    <3> QED BY <3>1 DEF DrainInv
  <2> QED BY <2>1, <2>2
<1>3. ASSUME NEW u \in Viewers, Drain(u)
      PROVE  /\ viewer'[v] = "away" => owed'[v] = 0
             /\ viewer'[v] = "reading" /\ owed'[v] > 0 =>
                  \A k \in 1..Len(shown'[v]) : shown'[v][k] <= snap'[v]
  <2>1. viewer[u] = "reading" /\ owed[u] > 0 /\ UNCHANGED <<viewer, snap, shown>>
        /\ owed' = [owed EXCEPT ![u] = @ - 1]
    BY <1>3 DEF Drain
  <2>2. viewer[v] = "reading" /\ owed'[v] > 0 => owed[v] > 0
    BY <1>0, <2>1 DEF TypeOK
  <2>3. viewer[v] = "away" => owed'[v] = owed[v]
    BY <1>0, <2>1 DEF TypeOK
  <2> QED BY <2>1, <2>2, <2>3 DEF DrainInv
<1>4. ASSUME NEW u \in Viewers, Receive(u)
      PROVE  /\ viewer'[v] = "away" => owed'[v] = 0
             /\ viewer'[v] = "reading" /\ owed'[v] > 0 =>
                  \A k \in 1..Len(shown'[v]) : shown'[v][k] <= snap'[v]
  <2>1. owed[u] = 0 /\ UNCHANGED <<viewer, snap, owed>> /\ (u # v => shown'[v] = shown[v])
    BY <1>0, <1>4 DEF Receive, TypeOK
  <2>2. owed[v] > 0 => u # v
    BY <2>1
  <2> QED BY <2>1, <2>2 DEF DrainInv
<1>5. ASSUME NEW u \in Viewers, SeeClosed(u) \/ Disconnect(u)
      PROVE  /\ viewer'[v] = "away" => owed'[v] = 0
             /\ viewer'[v] = "reading" /\ owed'[v] > 0 =>
                  \A k \in 1..Len(shown'[v]) : shown'[v][k] <= snap'[v]
  <2>1. UNCHANGED <<snap, owed, shown>> /\ (viewer'[v] = viewer[v] \/ viewer'[v] \in {"told", "gone"})
    BY <1>0, <1>5 DEF SeeClosed, Disconnect, TypeOK
  <2> QED BY <2>1 DEF DrainInv
<1> QED
  BY <1>1, <1>2, <1>3, <1>4, <1>5 DEF Next, View, AppendLog, Finish, viewVars, vars

(* A request throws away only lines it has sent while its browser is alone *)
(* on the job and the channel cannot have been full: the comment in        *)
(* apiBackupStream is right until a second browser comes.                  *)
THEOREM LoneDrain == Spec => LoneDrainsShown
<1> DEFINE Safe == \A v \in Viewers :
             /\ owed'[v] < owed[v] /\ lines <= LogChCap
             /\ \A w \in Viewers \ {v} : viewer[w] = "away"
             => Head(logCh) <= snap[v]
<1>1. IInv /\ DrainInv /\ [Next]_vars => Safe
  <2> SUFFICES ASSUME IInv, DrainInv, [Next]_vars, NEW v \in Viewers,
                      owed'[v] < owed[v], lines <= LogChCap, Alone(v)
               PROVE  Head(logCh) <= snap[v]
    BY DEF Alone
  <2>0. TypeOK /\ owed[v] \in Nat /\ owed'[v] # owed[v]
    BY DEF IInv, TypeOK
  <2>1. Drain(v)
    <3>1. ASSUME NEW u \in Viewers, Connect(u) PROVE FALSE
      <4>1. owed' = [owed EXCEPT ![u] = lines] \/ owed' = owed
        BY <3>1 DEF Connect
      <4>2. u = v /\ owed'[v] = lines /\ viewer[v] = "away"
        BY <2>0, <3>1, <4>1 DEF Connect, TypeOK
      <4> QED BY <2>0, <4>2, JobLogAssumption DEF DrainInv, TypeOK
    <3>2. ASSUME NEW u \in Viewers, Drain(u) PROVE u = v
      BY <2>0, <3>2 DEF Drain, TypeOK
    <3> QED
      BY <2>0, <3>1, <3>2 DEF Next, View, AppendLog, Finish, Receive, SeeClosed, Disconnect,
         viewVars, vars
  <2>2. viewer[v] = "reading" /\ owed[v] > 0
    BY <2>1 DEF Drain
  <2>3. Sent <= LogChCap
    BY <2>0, JobLogAssumption DEF IInv, ClosingInv, Sent, TypeOK
  <2>4. Shown(v, logCh[1]) /\ Head(logCh) = logCh[1]
    <3>1. Follows(v)
      BY <2>2, <2>3 DEF IInv, FollowInv
    <3>2. 1 \in 1..owed[v]
      BY <2>0, <2>2
    <3> QED BY <2>0, <2>1, <2>2, <3>1, <3>2, TakeEffect DEF Follows
  <2> QED BY <2>2, <2>4 DEF DrainInv, Shown
<1>2. Init => DrainInv
  BY DEF Init, DrainInv
<1> HIDE DEF Safe
<1>3. Spec => [][Safe]_vars
  BY <1>1, <1>2, DrainStep, Invariance, PTL DEF Spec
<1> QED BY <1>3 DEF LoneDrainsShown, Safe

-----------------------------------------------------------------------------
(* The end of a stream.                                                    *)

(* Once the job has finished nobody waits for anything but the scheduler,  *)
(* and for a number of steps that the others can only make smaller.        *)
THEOREM Ending == Spec => WindsDown
<1> DEFINE Down == \A v \in Viewers : closed /\ viewer[v] = "reading" =>
             /\ CanView(v)
             /\ StreamLeft(v) \in 1..(LogChCap + 1)
             /\ StreamLeft(v)' <= StreamLeft(v)
             /\ View(v) => StreamLeft(v)' < StreamLeft(v)
<1>1. IInv /\ [Next]_vars => Down
  <2> SUFFICES ASSUME IInv, [Next]_vars, NEW v \in Viewers, closed, viewer[v] = "reading"
               PROVE  /\ CanView(v)
                      /\ StreamLeft(v) \in 1..(LogChCap + 1)
                      /\ StreamLeft(v)' <= StreamLeft(v)
                      /\ View(v) => StreamLeft(v)' < StreamLeft(v)
    OBVIOUS
  <2>0. TypeOK /\ status # "running" /\ Len(logCh) \in Nat /\ Len(logCh) <= LogChCap
        /\ owed[v] \in Nat
    BY LenProperties DEF IInv, TypeOK, ClosingInv
  <2>1. StreamLeft(v) = Len(logCh) + 1 /\ StreamLeft(v) \in 1..(LogChCap + 1)
    BY <2>0, JobLogAssumption DEF StreamLeft
  <2>2. CanView(v)
    BY <2>0 DEF CanView
  <2>3. /\ StreamLeft(v)' = Len(logCh') + (IF viewer'[v] = "reading" THEN 1 ELSE 0)
    BY DEF StreamLeft
  <2>4. ASSUME NEW u \in Viewers, Drain(u) \/ Receive(u) PROVE StreamLeft(v)' < StreamLeft(v)
    <3>1. Len(logCh') = Len(logCh) - 1 /\ viewer' = viewer
      BY <2>0, <2>4, TakeEffect DEF Drain, Receive
    <3> QED BY <2>0, <2>1, <2>3, <3>1
  <2>5. SeeClosed(v) => StreamLeft(v)' < StreamLeft(v)
    BY <2>0, <2>1, <2>3 DEF SeeClosed, jobVars, TypeOK
  <2>6. View(v) => StreamLeft(v)' < StreamLeft(v)
    BY <2>4, <2>5 DEF View
  <2>7. Len(logCh') <= Len(logCh) /\ Len(logCh') \in Nat
    <3>1. CASE UNCHANGED logCh
      BY <2>0, <3>1
    <3>2. CASE AppendLog
      BY <2>0, <3>2 DEF AppendLog
    <3>3. ASSUME NEW u \in Viewers, Drain(u) \/ Receive(u)
          PROVE  Len(logCh') <= Len(logCh) /\ Len(logCh') \in Nat
      BY <2>0, <3>3, TakeEffect
    <3> QED
      BY <3>1, <3>2, <3>3
         DEF Next, View, Finish, Connect, SeeClosed, Disconnect, jobVars, viewVars, vars
  <2>8. StreamLeft(v)' <= StreamLeft(v)
    BY <2>0, <2>1, <2>3, <2>7
  <2> QED BY <2>1, <2>2, <2>6, <2>8
<1> HIDE DEF Down
<1>2. Spec => [][Down]_vars
  BY <1>1, Invariance, PTL DEF Spec
<1> QED BY <1>2 DEF WindsDown, Down

=============================================================================
