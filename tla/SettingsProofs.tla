--------------------------- MODULE SettingsProofs ---------------------------
(***************************************************************************)
(* Proofs about module Settings: the type invariant for any number of      *)
(* requests at once, and, if requests come one at a time, that saved       *)
(* settings survive a restart, that the scheduler finds them complete      *)
(* after it, and that an encryption key is not lost.                       *)
(***************************************************************************)
EXTENDS Settings, TLAPS

-----------------------------------------------------------------------------
(* What the form and the file are turned into.                             *)

(* loadSettings yields settings with a prefix.                             *)
LEMMA MergedType ==
  ASSUME NEW e \in Settings, NEW d \in Settings
  PROVE  Merged(e, d) \in Settings /\ Merged(e, d)["prefix"] # Blank
BY SettingsAssumption DEF Merged, Settings, Fields, Values

(* A field that is not empty in the file is taken from it.                 *)
LEMMA MergedFile ==
  ASSUME NEW e \in Settings, NEW d \in Settings, NEW f \in Fields, d[f] # Blank
  PROVE  Merged(e, d)[f] = d[f]
BY DEF Merged

(* apiSaveSettings makes settings with a prefix, and never empties the key.*)
LEMMA SubmittedType ==
  ASSUME NEW form \in Forms, cfg \in Settings
  PROVE  /\ Submitted(form) \in Settings /\ Submitted(form)["prefix"] # Blank
         /\ cfg["key"] # Blank => Submitted(form)["key"] # Blank
BY SettingsAssumption DEF Submitted, Settings, Fields, Values, Forms, Texts

LEMMA EmptyType == Empty \in Settings
BY DEF Empty, Settings, Fields, Values

-----------------------------------------------------------------------------
(* Types.                                                                  *)

\* The settings a request has applied have a prefix when they become cfg.
PrefixInv == \A w \in Savers : pc[w] = "update" => copy[w]["prefix"] # Blank

TypeInv == TypeOK /\ PrefixInv

LEMMA InitType == Init => TypeInv
<1> SUFFICES ASSUME Init PROVE TypeInv
  OBVIOUS
<1>1. env \in Settings
  BY DEF Init, Settings, Fields, Values, Texts
<1>2. cfg \in Settings /\ cfg["prefix"] # Blank
  BY <1>1, EmptyType, MergedType DEF Init
<1> QED
  BY <1>1, <1>2, EmptyType DEF Init, TypeInv, TypeOK, PrefixInv

LEMMA NextType == TypeInv /\ [Next]_vars => TypeInv'
<1> SUFFICES ASSUME TypeInv, [Next]_vars PROVE TypeInv'
  OBVIOUS
<1> USE DEF TypeInv, TypeOK, PrefixInv
<1>1. ASSUME NEW w \in Savers, NEW form \in Forms, Lock(w, form) PROVE TypeInv'
  BY <1>1, SubmittedType DEF Lock, Goto
<1>2. ASSUME NEW w \in Savers, Unlock(w) PROVE TypeInv'
  BY <1>2 DEF Unlock, Goto
<1>3. ASSUME NEW w \in Savers, Marshal(w) PROVE TypeInv'
  BY <1>3 DEF Marshal, Goto
<1>4. ASSUME NEW w \in Savers, Truncate(w) PROVE TypeInv'
  BY <1>4, EmptyType DEF Truncate, Goto
<1>5. ASSUME NEW w \in Savers, Write(w) PROVE TypeInv'
  BY <1>5, EmptyType DEF Write, Goto
<1>6. ASSUME NEW w \in Savers, WriteFails(w) PROVE TypeInv'
  BY <1>6, EmptyType DEF WriteFails, Goto
<1>7. ASSUME NEW w \in Savers, HasToken(w) PROVE TypeInv'
  BY <1>7, EmptyType DEF HasToken, Goto
<1>8. ASSUME NEW w \in Savers, Reconnect(w) PROVE TypeInv'
  <2>1. NewClient(copy[w]["folder"], "background") \in Clients
    BY DEF NewClient, Clients, Settings, Fields
  <2> QED
    BY <1>8, <2>1, EmptyType DEF Reconnect, Goto
<1>9. ASSUME NEW w \in Savers, Asks(w) PROVE TypeInv'
  BY <1>9 DEF Asks, Goto
<1>10. CASE Exchange \/ TruncateToken \/ EncodeToken \/ ExchangeFails
  BY <1>10 DEF Exchange, TruncateToken, EncodeToken, ExchangeFails, saveVars
<1>11. CASE Callback
  <2>1. ASSUME NEW f \in SeenFolders PROVE NewClient(f, "request") \in Clients
    BY <2>1 DEF SeenFolders, NewClient, Clients, Settings, Fields
  <2> QED
    BY <1>11, <2>1 DEF Callback, saveVars
<1>12. CASE Expire
  BY <1>12 DEF Expire, saveVars, Clients
<1>13. CASE Refresh
  BY <1>13 DEF Refresh, saveVars, Clients
<1>14. CASE Restart
  <2>1. Merged(env, disk) \in Settings /\ Merged(env, disk)["prefix"] # Blank
    BY MergedType
  <2>2. NewClient(Merged(env, disk)["folder"], "main") \in Clients
    BY <2>1 DEF NewClient, Clients, Settings, Fields
  <2> QED
    BY <1>14, <2>1, <2>2, EmptyType DEF Restart
<1>15. CASE UNCHANGED vars
  BY <1>15 DEF vars
<1> QED
  BY <1>1, <1>2, <1>3, <1>4, <1>5, <1>6, <1>7, <1>8, <1>9, <1>10, <1>11, <1>12, <1>13, <1>14,
     <1>15 DEF Next, Saving

LEMMA TypeInvariance == Spec => []TypeInv
BY InitType, NextType, PTL DEF Spec

(* Every variable keeps its type, and the settings in force, which         *)
(* loadSettings and apiSaveSettings make, always have a prefix.            *)
THEOREM TypeCorrect == Spec => []TypeOK
<1>1. TypeInv => TypeOK
  BY DEF TypeInv
<1> QED
  BY <1>1, TypeInvariance, PTL

-----------------------------------------------------------------------------
(* What is saved.                                                          *)

\* Requests to /api/settings/save come one at a time.
OneRequest == \A v, w \in Savers : v = w

\* What a request is about to write is what is in force, and what it is
\* about to put in force has a key if there was one.
BufferInv == \A w \in Savers : pc[w] \in {"truncate", "write"} => buf[w] = cfg
KeyInv    == \A w \in Savers : pc[w] = "update" /\ cfg["key"] # Blank => copy[w]["key"] # Blank

SaveInv == SurvivesRestart /\ BufferInv /\ KeyInv

LEMMA InitSave == Init => SaveInv
BY DEF Init, SaveInv, SurvivesRestart, BufferInv, KeyInv

\* A step that leaves settings, file and requests alone.
LEMMA FrameSave ==
  SaveInv /\ UNCHANGED <<env, cfg, disk, saveVars>> => SaveInv'
<1> SUFFICES ASSUME SaveInv, UNCHANGED <<env, cfg, disk, saveVars>> PROVE SaveInv'
  OBVIOUS
<1>1. UNCHANGED <<env, cfg, disk, pc, copy, buf, unsaved>>
  BY DEF saveVars
<1> QED
  BY <1>1 DEF SaveInv, SurvivesRestart, Saved, Merged, BufferInv, KeyInv

\* A step of a request after it has written the file.
LEMMA ConnectSave ==
  ASSUME NEW w \in Savers, TypeInv, SaveInv, HasToken(w) \/ Reconnect(w) \/ Asks(w)
  PROVE  SaveInv'
<1>1. /\ UNCHANGED <<env, cfg, disk, buf, unsaved>>
      /\ pc[w] \notin {"marshal", "truncate", "write"}
      /\ \E l \in {"new", "off", "asks"} : pc' = [pc EXCEPT ![w] = l]
      /\ \A v \in Savers \ {w} : copy'[v] = copy[v]
  BY DEF HasToken, Reconnect, Asks, Goto, TypeInv, TypeOK
<1>2. /\ pc'[w] \notin {"update", "marshal", "truncate", "write"}
      /\ \A v \in Savers \ {w} : pc'[v] = pc[v]
  BY <1>1 DEF TypeInv, TypeOK
<1>3. Saved' => Saved
  BY <1>1, <1>2 DEF Saved
<1>4. SurvivesRestart'
  BY <1>1, <1>3 DEF SaveInv, SurvivesRestart, Merged
<1>5. BufferInv' /\ KeyInv'
  BY <1>1, <1>2 DEF SaveInv, BufferInv, KeyInv
<1> QED
  BY <1>4, <1>5 DEF SaveInv

LEMMA NextSave == OneRequest /\ TypeInv /\ SaveInv /\ [Next]_vars => SaveInv'
<1> SUFFICES ASSUME OneRequest, TypeInv, SaveInv, [Next]_vars PROVE SaveInv'
  OBVIOUS
<1>1. ASSUME NEW w \in Savers, NEW form \in Forms, Lock(w, form) PROVE SaveInv'
  <2>1. cfg["key"] # Blank => Submitted(form)["key"] # Blank
    BY SubmittedType DEF TypeInv, TypeOK
  <2>2. /\ pc[w] = "off" /\ pc' = [pc EXCEPT ![w] = "update"]
        /\ copy' = [copy EXCEPT ![w] = Submitted(form)]
        /\ UNCHANGED <<env, cfg, disk, buf, unsaved>>
    BY <1>1 DEF Lock, Goto
  <2>3. Saved' => Saved
    BY <2>2 DEF Saved, TypeInv, TypeOK
  <2>4. SurvivesRestart'
    BY <2>2, <2>3 DEF SaveInv, SurvivesRestart, Merged
  <2>5. BufferInv' /\ KeyInv'
    BY <2>1, <2>2 DEF SaveInv, BufferInv, KeyInv, TypeInv, TypeOK
  <2> QED
    BY <2>4, <2>5 DEF SaveInv
<1>2. ASSUME NEW w \in Savers, Unlock(w) PROVE SaveInv'
  BY <1>2 DEF Unlock, Goto, OneRequest, SaveInv, SurvivesRestart, Saved, BufferInv, KeyInv,
     TypeInv, TypeOK
<1>3. ASSUME NEW w \in Savers, Marshal(w) PROVE SaveInv'
  BY <1>3 DEF Marshal, Goto, OneRequest, SaveInv, SurvivesRestart, Saved, BufferInv, KeyInv,
     TypeInv, TypeOK
<1>4. ASSUME NEW w \in Savers, Truncate(w) PROVE SaveInv'
  BY <1>4 DEF Truncate, Goto, OneRequest, SaveInv, SurvivesRestart, Saved, BufferInv, KeyInv,
     TypeInv, TypeOK
<1>5. ASSUME NEW w \in Savers, Write(w) PROVE SaveInv'
  <2>1. disk' = cfg /\ UNCHANGED <<env, cfg>>
    BY <1>5 DEF Write, SaveInv, BufferInv
  <2>2. \A f \in Fields : cfg[f] # Blank => Merged(env, cfg)[f] = cfg[f]
    BY MergedFile DEF TypeInv, TypeOK
  <2>3. SurvivesRestart'
    BY <2>1, <2>2 DEF SurvivesRestart, Merged
  <2>4. BufferInv' /\ KeyInv'
    BY <1>5 DEF Write, Goto, OneRequest, BufferInv, KeyInv, TypeInv, TypeOK
  <2> QED
    BY <2>3, <2>4 DEF SaveInv
<1>6. ASSUME NEW w \in Savers, WriteFails(w) PROVE SaveInv'
  BY <1>6 DEF WriteFails, Goto, OneRequest, SaveInv, SurvivesRestart, Saved, BufferInv, KeyInv,
     TypeInv, TypeOK
<1>7. ASSUME NEW w \in Savers, HasToken(w) \/ Reconnect(w) \/ Asks(w) PROVE SaveInv'
  BY <1>7, ConnectSave
<1>8. CASE Exchange \/ TruncateToken \/ EncodeToken \/ ExchangeFails \/ Callback \/ Expire \/ Refresh
  BY <1>8, FrameSave DEF Exchange, TruncateToken, EncodeToken, ExchangeFails, Callback, Expire,
     Refresh
<1>9. CASE Restart
  BY <1>9 DEF Restart, SaveInv, SurvivesRestart, Merged, BufferInv, KeyInv
<1>10. CASE UNCHANGED vars
  BY <1>10, FrameSave DEF vars, saveVars
<1> QED
  BY <1>1, <1>2, <1>3, <1>4, <1>5, <1>6, <1>7, <1>8, <1>9, <1>10 DEF Next, Saving

(* If requests come one at a time, the file agrees with the settings in    *)
(* force whenever no save is under way or has failed, the buffer of a      *)
(* request with them, and no request is about to drop the key.             *)
THEOREM Invariance == OneRequest /\ Spec => [](TypeInv /\ SaveInv)
<1>1. Init => TypeInv /\ SaveInv
  BY InitType, InitSave
<1>2. ASSUME OneRequest PROVE TypeInv /\ SaveInv /\ [Next]_vars => (TypeInv /\ SaveInv)'
  BY <1>2, NextType, NextSave
<1>3. ASSUME OneRequest PROVE Spec => [](TypeInv /\ SaveInv)
  BY <1>1, <1>2, <1>3, PTL DEF Spec
<1> QED
  BY <1>3

(* A restart brings back every setting that is not empty, once a save has  *)
(* ended well (apiSaveSettings, saveSettings and loadSettings together).   *)
THEOREM Restored ==
  ASSUME OneRequest
  PROVE  Spec => []SurvivesRestart
<1>1. TypeInv /\ SaveInv => SurvivesRestart
  BY DEF SaveInv
<1> QED
  BY <1>1, Invariance, PTL

(* Settings that toBackupConfig accepts are accepted after a restart.      *)
THEOREM Accepted ==
  ASSUME OneRequest
  PROVE  Spec => []StaysAccepted
<1>1. TypeInv /\ SaveInv => StaysAccepted
  BY SettingsAssumption DEF SaveInv, SurvivesRestart, StaysAccepted, Accepts, Fields
<1> QED
  BY <1>1, Invariance, PTL

(* Neither a form nor a restart takes away a key that has been saved.      *)
THEOREM KeyStays ==
  ASSUME OneRequest
  PROVE  Spec => KeyKept
<1>1. TypeInv /\ SaveInv /\ [Next]_vars => [Saved /\ cfg["key"] # Blank => cfg'["key"] # Blank]_vars
  <2> SUFFICES ASSUME TypeInv, SaveInv, Next, Saved, cfg["key"] # Blank
               PROVE  cfg'["key"] # Blank
    OBVIOUS
  <2>1. ASSUME NEW w \in Savers, Unlock(w) PROVE cfg'["key"] # Blank
    BY <2>1 DEF Unlock, SaveInv, KeyInv
  <2>2. CASE Restart
    BY <2>2 DEF Restart, SaveInv, SurvivesRestart, Fields
  <2>3. ASSUME NEW w \in Savers, NEW form \in Forms, Lock(w, form) PROVE cfg' = cfg
    BY <2>3 DEF Lock
  <2>4. ASSUME NEW w \in Savers, Marshal(w) \/ Truncate(w) \/ Write(w) \/ WriteFails(w)
                                 \/ HasToken(w) \/ Reconnect(w) \/ Asks(w)
        PROVE  cfg' = cfg
    BY <2>4 DEF Marshal, Truncate, Write, WriteFails, HasToken, Reconnect, Asks
  <2>5. CASE Exchange \/ TruncateToken \/ EncodeToken \/ ExchangeFails \/ Callback \/ Expire
             \/ Refresh
    BY <2>5 DEF Exchange, TruncateToken, EncodeToken, ExchangeFails, Callback, Expire, Refresh
  <2> QED
    BY <2>1, <2>2, <2>3, <2>4, <2>5 DEF Next, Saving
<1> QED
  BY <1>1, Invariance, PTL DEF Spec, KeyKept

=============================================================================
