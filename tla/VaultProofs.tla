----------------------------- MODULE VaultProofs -----------------------------
(***************************************************************************)
(* Theorems about module Vault, for any number of runs on the folder, any  *)
(* files in it and any clock.                                              *)
(*                                                                         *)
(* VSpec implements Spec of module Retention, so what RetentionProofs      *)
(* proves of clean-ups holds of the clean-ups of runs.  That the last      *)
(* whole backup stays is proved, for every RETENTION_DAYS, from a stronger *)
(* statement, SafeInv: if every clean-up that has begun spares the backup  *)
(* of its own run, some whole file is not expired for any of them.         *)
(***************************************************************************)
EXTENDS Vault, RetentionProofs

-----------------------------------------------------------------------------
(* The clean-ups of the runs are those of Retention.                       *)

LEMMA RunsAreFiles == Cleaners = Late /\ Cleaners \subseteq Files
BY VaultAssumption, RetentionAssumption

LEMMA StepIsRetention == [VNext]_allVars => [Next]_vars
<1> SUFFICES ASSUME VNext PROVE Next \/ UNCHANGED vars
  BY DEF allVars
<1>1. ASSUME NEW r \in Cleaners, Store(r) PROVE Next
  BY <1>1, RunsAreFiles DEF Store, Next
<1>2. ASSUME NEW r \in Cleaners, Begin(r) \/ Clean(r) PROVE Next
  BY <1>2 DEF Begin, Clean, Next, Work
<1>3. ASSUME NEW r \in Cleaners, Fail(r) \/ Kill(r) PROVE UNCHANGED vars
  BY <1>3 DEF Fail, Kill
<1> QED BY <1>1, <1>2, <1>3 DEF VNext, Next

\* Runs on one folder clean up as RetentionProofs supposes: its theorems hold
\* of every VSpec.
THEOREM IsRetention == VSpec => Spec
<1>1. VInit => Init
  BY DEF VInit
<1> QED BY <1>1, StepIsRetention, PTL DEF VSpec, Spec

-----------------------------------------------------------------------------
(* The invariant.                                                          *)

Phases == {"dump", "wait", "clean", "err", "killed"}

VaultTypeOK == phase \in [Cleaners -> Phases] /\ whole \in [Files -> BOOLEAN]

\* A run has cleaned up nothing before its file is there and whole.
PhaseInv ==
  \A r \in Cleaners :
    /\ phase[r] \in {"wait", "clean", "killed"} => r \notin fresh
    /\ phase[r] \in {"dump", "wait", "err"} => stage[r] = "idle"
    /\ stage[r] # "idle" => whole[r]
    /\ stage[r] = "idle" => removed[r] = {} /\ kept[r] = {}

Cleaning(c) == stage[c] # "idle"

\* What was in the folder and is no more has been expired for a clean-up.
GoneInv ==
  \A f \in Files \ (fresh \cup folder) : \E c \in Cleaners : Cleaning(c) /\ Expired(c, f)

\* Then some whole file is safe from all clean-ups.
Safe(f) == whole[f] /\ \A c \in Cleaners : Cleaning(c) => ~Expired(c, f)
SafeInv == (\E c \in Cleaners : Cleaning(c)) => \E f \in folder : Safe(f)

VInv == BaseInv /\ VaultTypeOK /\ PhaseInv
KeepInv == VInv /\ GoneInv /\ (OwnInv => SafeInv)

LEMMA VInvInit == VInit => VInv
<1> SUFFICES ASSUME VInit PROVE VInv
  OBVIOUS
<1>1. BaseInv
  BY BaseInit DEF VInit
<1>2. VaultTypeOK /\ PhaseInv
  BY DEF VInit, Init, VaultTypeOK, Phases, PhaseInv
<1> QED BY <1>1, <1>2 DEF VInv

LEMMA VInvStep == VInv /\ [VNext]_allVars => VInv'
<1> SUFFICES ASSUME VInv, [VNext]_allVars PROVE VaultTypeOK' /\ PhaseInv'
  BY StepIsRetention, TypeStep, CountStep DEF VInv, BaseInv
<1>0. TypeOK /\ VaultTypeOK /\ PhaseInv /\ Cleaners \subseteq Files
  BY RunsAreFiles DEF VInv, BaseInv
<1> USE DEF VaultTypeOK, Phases, PhaseInv, TypeOK, Goto
<1>1. ASSUME NEW r \in Cleaners, Store(r) PROVE VaultTypeOK' /\ PhaseInv'
  BY <1>0, <1>1 DEF Store, UploadFile
<1>2. ASSUME NEW r \in Cleaners, Fail(r) PROVE VaultTypeOK' /\ PhaseInv'
  BY <1>0, <1>2 DEF Fail, vars, driveVars
<1>3. ASSUME NEW r \in Cleaners, Begin(r) PROVE VaultTypeOK' /\ PhaseInv'
  BY <1>0, <1>3 DEF Begin, Start, driveVars
<1>4. ASSUME NEW r \in Cleaners, Clean(r) PROVE VaultTypeOK' /\ PhaseInv'
  BY <1>0, <1>4 DEF Clean, ListPage, ListFails, NextPage, Skip, Delete, DeleteFails,
                    driveVars, vaultVars
<1>5. ASSUME NEW r \in Cleaners, Kill(r) PROVE VaultTypeOK' /\ PhaseInv'
  BY <1>0, <1>5 DEF Kill, vars, driveVars
<1>6. CASE Tick /\ UNCHANGED vaultVars
  BY <1>0, <1>6 DEF Tick, driveVars, vaultVars
<1>7. CASE UNCHANGED allVars
  BY <1>0, <1>7 DEF allVars, vars, driveVars, vaultVars
<1> QED BY <1>1, <1>2, <1>3, <1>4, <1>5, <1>6, <1>7 DEF VNext

\* Runs go through their phases in order, and clean up only with a whole file.
THEOREM VInvariance == VSpec => []VInv
BY VInvInit, VInvStep, PTL DEF VSpec

-----------------------------------------------------------------------------
(* The last whole backup stays.                                            *)

\* Steps that begin no clean-up and add or change no file.
LEMMA NoNews ==
  ASSUME KeepInv,
         UNCHANGED <<born, fresh, cutoff, whole>>,
         \A c \in Cleaners : Cleaning(c)' <=> Cleaning(c),
         folder' \subseteq folder,
         \A f \in folder \ folder' : \E c \in Cleaners : Cleaning(c) /\ Expired(c, f)
  PROVE  GoneInv' /\ (OwnInv' => SafeInv')
<1>1. \A c \in Cleaners, f \in Files : Expired(c, f)' <=> Expired(c, f)
  BY DEF Expired
<1>2. folder \subseteq Files
  BY DEF KeepInv, VInv, BaseInv, TypeOK
<1>3. OwnInv' => OwnInv
  BY DEF OwnInv, SparesOwn, Cleaning
<1>4. GoneInv'
  BY <1>1, <1>2 DEF KeepInv, GoneInv
<1>5. \A f \in folder : Safe(f) => f \in folder' /\ Safe(f)'
  BY <1>1, <1>2 DEF Safe
<1>6. OwnInv' => SafeInv'
  BY <1>3, <1>5 DEF KeepInv, SafeInv
<1> QED BY <1>4, <1>6

LEMMA StoreKeeps ==
  ASSUME KeepInv, NEW r \in Cleaners, Store(r)
  PROVE  GoneInv' /\ (OwnInv' => SafeInv')
<1>1. /\ r \in fresh /\ fresh' = fresh \ {r} /\ folder' = folder \cup {r}
      /\ born' = [born EXCEPT ![r] = now] /\ UNCHANGED <<now, stage, cutoff>>
  BY DEF Store, UploadFile
<1>2. PICK w \in BOOLEAN : whole' = [whole EXCEPT ![r] = w]
  BY DEF Store
<1>3. /\ born \in [Files -> Int] /\ whole \in [Files -> BOOLEAN] /\ folder \subseteq Files
      /\ r \notin folder /\ r \in Files
  BY <1>1, RunsAreFiles DEF KeepInv, VInv, BaseInv, TypeOK, FreshInv, VaultTypeOK
<1>4. \A f \in Files \ {r} : born'[f] = born[f] /\ whole'[f] = whole[f]
  BY <1>1, <1>2, <1>3
<1>5. \A c \in Cleaners : (Cleaning(c)' <=> Cleaning(c)) /\ (Cleaning(c) => c # r)
  BY <1>1 DEF KeepInv, VInv, PhaseInv, Cleaning, Store
<1>6. \A c \in Cleaners, f \in Files \ {r} : Expired(c, f)' <=> Expired(c, f)
  BY <1>1, <1>4 DEF Expired
<1>7. OwnInv' => OwnInv
  BY <1>1, <1>4, <1>5, RunsAreFiles DEF OwnInv, SparesOwn, Cleaning
<1>8. GoneInv'
  BY <1>1, <1>5, <1>6 DEF KeepInv, GoneInv
<1>9. \A f \in folder : Safe(f) => Safe(f)'
  BY <1>3, <1>4, <1>5, <1>6 DEF Safe
<1>10. OwnInv' => SafeInv'
  BY <1>1, <1>5, <1>7, <1>9 DEF KeepInv, SafeInv
<1> QED BY <1>8, <1>10

\* If a clean-up that begins spares the file of its run, and that file has gone
\* or is about to go, a younger whole one is safe.
LEMMA BeginKeeps ==
  ASSUME KeepInv, NEW q \in Cleaners, Begin(q)
  PROVE  GoneInv' /\ (OwnInv' => SafeInv')
<1>1. /\ TypeOK /\ q \in Files /\ folder \subseteq Files
      /\ whole[q] /\ q \notin fresh /\ stage[q] = "idle"
  BY RunsAreFiles DEF KeepInv, VInv, BaseInv, PhaseInv, Begin, TypeOK
<1>2. /\ stage' = [stage EXCEPT ![q] = "list"]
      /\ cutoff' = [cutoff EXCEPT ![q] = now + Wrap(-MaxAge)]
      /\ UNCHANGED <<now, folder, born, fresh, whole>>
  BY DEF Begin, Start, driveVars
<1>3. now \in Int /\ born \in [Files -> Int] /\ cutoff \in [Cleaners -> Int]
  BY <1>1 DEF TypeOK
<1>4. cutoff'[q] \in Int
  BY <1>2, <1>3, TimesInt, WrapInt DEF MaxAge
<1>5. \A c \in Cleaners \ {q} :
        /\ Cleaning(c)' <=> Cleaning(c)
        /\ cutoff'[c] = cutoff[c]
        /\ \A f \in Files : Expired(c, f)' <=> Expired(c, f)
  BY <1>2, <1>3, <1>1 DEF Cleaning, Expired, TypeOK
<1>6. ~Cleaning(q) /\ Cleaning(q)'
  BY <1>1, <1>2 DEF Cleaning, TypeOK
<1>7. ASSUME OwnInv' PROVE OwnInv /\ cutoff'[q] <= born[q]
  BY <1>2, <1>5, <1>6, <1>7 DEF OwnInv, SparesOwn, Cleaning
<1>8. GoneInv'
  BY <1>2, <1>5, <1>6 DEF KeepInv, GoneInv
<1>9. ASSUME OwnInv' PROVE SafeInv'
  <2>0. OwnInv /\ cutoff'[q] <= born[q]
    BY <1>7, <1>9
  <2>1. CASE \E p \in Cleaners : Cleaning(p) /\ Expired(p, q)
    <3>1. PICK p \in Cleaners : Cleaning(p) /\ Expired(p, q)
      BY <2>1
    <3>2. PICK f \in folder : Safe(f)
      BY <2>0, <3>1 DEF KeepInv, SafeInv
    <3>3. ~Expired(q, f)'
      <4>1. CASE f \in Undated
        BY <4>1 DEF Expired
      <4>2. CASE f \notin Undated
        <5>1. born[f] \in Int /\ born[q] \in Int /\ cutoff[p] \in Int
          BY <1>1, <1>3
        <5>2. cutoff[p] <= born[f] /\ born[q] < cutoff[p]
          BY <3>1, <3>2, <4>2, <5>1 DEF Safe, Expired
        <5>3. ~(born[f] < cutoff'[q])
          BY <1>4, <2>0, <5>1, <5>2
        <5> QED BY <5>3, <1>2 DEF Expired
      <4> QED BY <4>1, <4>2
    <3>4. Safe(f)'
      BY <1>1, <1>2, <1>5, <3>2, <3>3 DEF Safe
    <3> QED BY <3>4, <1>2 DEF SafeInv
  <2>2. CASE \A p \in Cleaners : Cleaning(p) => ~Expired(p, q)
    <3>1. q \in folder
      BY <1>1, <2>2 DEF KeepInv, GoneInv
    <3>2. ~Expired(q, q)'
      <4>1. born[q] \in Int
        BY <1>1, <1>3
      <4> QED BY <1>2, <1>4, <2>0, <4>1 DEF Expired
    <3>3. Safe(q)'
      BY <1>1, <1>2, <1>5, <2>2, <3>2 DEF Safe
    <3> QED BY <3>1, <3>3, <1>2 DEF SafeInv
  <2> QED BY <2>1, <2>2
<1> QED BY <1>8, <1>9

LEMMA KeepInit == VInit => KeepInv
<1> SUFFICES ASSUME VInit PROVE GoneInv /\ (OwnInv => SafeInv)
  BY VInvInit DEF KeepInv
<1> QED BY DEF VInit, Init, OwnInv, GoneInv, SafeInv, Cleaning

LEMMA KeepStep == KeepInv /\ [VNext]_allVars => KeepInv'
<1> SUFFICES ASSUME KeepInv, [VNext]_allVars PROVE GoneInv' /\ (OwnInv' => SafeInv')
  BY VInvStep DEF KeepInv
<1>0. TypeOK
  BY DEF KeepInv, VInv, BaseInv
<1>1. ASSUME NEW r \in Cleaners, Store(r) PROVE GoneInv' /\ (OwnInv' => SafeInv')
  BY <1>1, StoreKeeps
<1>2. ASSUME NEW r \in Cleaners, Begin(r) PROVE GoneInv' /\ (OwnInv' => SafeInv')
  BY <1>2, BeginKeeps
<1>3. ASSUME NEW r \in Cleaners, Clean(r) PROVE GoneInv' /\ (OwnInv' => SafeInv')
  <2>1. /\ UNCHANGED <<born, fresh, cutoff, whole>> /\ folder' \subseteq folder
        /\ \A c \in Cleaners : Cleaning(c)' <=> Cleaning(c)
    BY <1>0, <1>3 DEF Clean, ListPage, ListFails, NextPage, Skip, Delete, DeleteFails,
                      driveVars, vaultVars, Cleaning, TypeOK
  <2>2. [Next]_vars
    BY StepIsRetention
  <2>3. \A f \in folder \ folder' : \E c \in Cleaners : Cleaning(c) /\ Expired(c, f)
    BY <1>0, <2>2, OnlyExpiredLeave DEF Cleaning
  <2> QED BY <2>1, <2>3, NoNews
<1>4. CASE (\E r \in Cleaners : Fail(r) \/ Kill(r)) \/ (Tick /\ UNCHANGED vaultVars)
             \/ UNCHANGED allVars
  <2>1. UNCHANGED <<born, fresh, cutoff, whole, folder, stage>>
    BY <1>4 DEF Fail, Kill, Tick, vars, driveVars, vaultVars, allVars
  <2>2. \A c \in Cleaners : Cleaning(c)' <=> Cleaning(c)
    BY <2>1 DEF Cleaning
  <2> QED BY <2>1, <2>2, NoNews
<1> QED BY <1>1, <1>2, <1>3, <1>4 DEF VNext

\* As long as every clean-up spares the backup of its own run, some whole file
\* is safe from all of them, as soon as there is one.
THEOREM KeepInvariance == VSpec => []KeepInv
BY KeepInit, KeepStep, PTL DEF VSpec

LEMMA KeptByStep ==
  ASSUME KeepInv, KeepInv', [VNext]_allVars, OwnInv, NEW g \in folder \cap Wholes
  PROVE  folder' \cap Wholes' # {}
<1>0. TypeOK /\ TypeOK' /\ folder' \subseteq Files
  BY DEF KeepInv, VInv, BaseInv, TypeOK
<1>1. CASE \E r \in Cleaners : Begin(r)
  BY <1>1 DEF Begin, Start, driveVars, Wholes
<1>2. CASE (\E c \in Cleaners : Cleaning(c)') /\ ~(\E r \in Cleaners : Begin(r))
  <2>1. OwnInv'
    <3>1. ASSUME NEW r \in Cleaners, Store(r) PROVE OwnInv'
      <4>1. stage[r] = "idle" /\ stage' = stage /\ cutoff' = cutoff
        BY <3>1 DEF Store, UploadFile, KeepInv, VInv, PhaseInv
      <4>2. \A c \in Cleaners \ {r} : born'[c] = born[c]
        BY <1>0, <3>1, RunsAreFiles DEF Store, UploadFile, TypeOK
      <4> QED BY <4>1, <4>2 DEF OwnInv, SparesOwn
    <3>2. ASSUME NEW r \in Cleaners, Clean(r) PROVE OwnInv'
      BY <1>0, <3>2 DEF Clean, ListPage, ListFails, NextPage, Skip, Delete, DeleteFails,
                        driveVars, vaultVars, OwnInv, SparesOwn, TypeOK
    <3>3. CASE (\E r \in Cleaners : Fail(r) \/ Kill(r)) \/ (Tick /\ UNCHANGED vaultVars)
               \/ UNCHANGED allVars
      BY <3>3 DEF Fail, Kill, Tick, vars, driveVars, vaultVars, allVars, OwnInv, SparesOwn
    <3> QED BY <1>2, <3>1, <3>2, <3>3 DEF VNext
  <2>2. PICK f \in folder' : Safe(f)'
    BY <1>2, <2>1 DEF KeepInv, SafeInv
  <2> QED BY <2>2, <1>0 DEF Safe, Wholes
<1>3. CASE \A c \in Cleaners : ~Cleaning(c)'
  <2>1. g \in folder'
    <3> SUFFICES ASSUME g \notin folder' PROVE FALSE
      OBVIOUS
    <3>1. g \in Files \ (fresh \cup folder')
      BY <1>0 DEF KeepInv, VInv, BaseInv, TypeOK, FreshInv
    <3>2. fresh' \subseteq fresh
      BY StepIsRetention, <1>0 DEF Next, Work, Start, ListPage, ListFails, NextPage, Skip,
           Delete, DeleteFails, UploadFile, Tick, vars, driveVars
    <3>3. \E c \in Cleaners : Cleaning(c)' /\ Expired(c, g)'
      BY <3>1, <3>2 DEF KeepInv, GoneInv
    <3> QED BY <3>3, <1>3
  <2>2. whole'[g] = whole[g]
    <3>1. ASSUME NEW r \in Cleaners, Store(r) PROVE whole'[g] = whole[g]
      <4>1. r \in fresh /\ g \notin fresh
        BY <3>1 DEF Store, UploadFile, KeepInv, VInv, BaseInv, FreshInv
      <4> QED BY <3>1, <4>1 DEF Store, KeepInv, VInv, VaultTypeOK, Wholes
    <3>2. ASSUME \A r \in Cleaners : ~Store(r) PROVE whole' = whole
      BY <3>2 DEF VNext, Fail, Begin, Clean, Kill, vaultVars, allVars
    <3> QED BY <3>1, <3>2
  <2> QED BY <2>1, <2>2 DEF Wholes
<1> QED BY <1>1, <1>2, <1>3

\* For every RETENTION_DAYS, one that is 0, negative or wraps around included:
\* clean-ups of any number of runs, failed and killed ones among them, delete
\* the last whole backup of the folder only if one of them has begun for
\* which the backup of its own run was expired already.
THEOREM LastStays == VSpec => NeverTheLast
<1>1. KeepInv /\ KeepInv' /\ [VNext]_allVars =>
        [OwnInv /\ folder \cap Wholes # {} => folder' \cap Wholes' # {}]_allVars
  BY KeptByStep DEF OwnInv
<1> QED BY <1>1, KeepInvariance, PTL DEF VSpec, NeverTheLast

\* What the environment has to do for that: pg_dump exits, after the end of its
\* output, before the retention period is over.  Under RETENTION_DAYS=0 this
\* leaves no time at all, and no real run keeps it.
PromptExits ==
  [][\A r \in Cleaners : Begin(r) => now - born[r] <= RetentionDays * DayLen]_allVars

LEMMA PromptStep ==
  ASSUME NoOverflow, KeepInv, OwnInv, [VNext]_allVars,
         \A r \in Cleaners : Begin(r) => now - born[r] <= RetentionDays * DayLen
  PROVE  OwnInv'
<1> DEFINE d == RetentionDays * DayLen
<1>0. TypeOK /\ PhaseInv /\ d \in Int /\ Wrap(-MaxAge) = -d
  BY TimesInt, MaxAgeExact DEF KeepInv, VInv, BaseInv
<1>1. ASSUME NEW q \in Cleaners, Begin(q) PROVE OwnInv'
  <2>1. /\ stage' = [stage EXCEPT ![q] = "list"]
        /\ cutoff' = [cutoff EXCEPT ![q] = now + Wrap(-MaxAge)] /\ born' = born
    BY <1>1 DEF Begin, Start, driveVars
  <2>2. now \in Int /\ born[q] \in Int /\ cutoff'[q] = now + (-d)
    BY <1>0, <2>1, RunsAreFiles DEF TypeOK
  <2>3. now - born[q] <= d
    BY <1>1
  <2> HIDE DEF d
  <2>4. cutoff'[q] <= born'[q]
    BY <1>0, <2>1, <2>2, <2>3
  <2>5. \A c \in Cleaners \ {q} : stage'[c] = stage[c] /\ cutoff'[c] = cutoff[c]
    BY <1>0, <2>1 DEF TypeOK
  <2> QED BY <2>1, <2>4, <2>5 DEF OwnInv, SparesOwn
<1>2. ASSUME NEW r \in Cleaners, Store(r) PROVE OwnInv'
  <2>1. stage[r] = "idle" /\ stage' = stage /\ cutoff' = cutoff
    BY <1>0, <1>2 DEF Store, UploadFile, PhaseInv
  <2>2. \A c \in Cleaners \ {r} : born'[c] = born[c]
    BY <1>0, <1>2, RunsAreFiles DEF Store, UploadFile, TypeOK
  <2> QED BY <2>1, <2>2 DEF OwnInv, SparesOwn
<1>3. ASSUME NEW r \in Cleaners, Clean(r) PROVE OwnInv'
  BY <1>0, <1>3 DEF Clean, ListPage, ListFails, NextPage, Skip, Delete, DeleteFails,
                    driveVars, vaultVars, OwnInv, SparesOwn, TypeOK
<1>4. CASE (\E r \in Cleaners : Fail(r) \/ Kill(r)) \/ (Tick /\ UNCHANGED vaultVars)
           \/ UNCHANGED allVars
  BY <1>4 DEF Fail, Kill, Tick, vars, driveVars, vaultVars, allVars, OwnInv, SparesOwn
<1> QED BY <1>1, <1>2, <1>3, <1>4 DEF VNext

\* If the period is not negative and fits into a Duration, and every pg_dump
\* exits within it, the last whole backup of the folder stays.
THEOREM PromptRunsKeep ==
  ASSUME NoOverflow
  PROVE  VSpec /\ PromptExits =>
           [][folder \cap Wholes # {} => folder' \cap Wholes' # {}]_allVars
<1>1. VInit => OwnInv
  BY DEF VInit, Init, OwnInv, SparesOwn
<1>2. KeepInv /\ OwnInv /\ [VNext]_allVars
      /\ [\A r \in Cleaners : Begin(r) => now - born[r] <= RetentionDays * DayLen]_allVars
      => OwnInv'
  <2>1. UNCHANGED allVars /\ OwnInv => OwnInv'
    BY DEF allVars, vars, driveVars, OwnInv, SparesOwn
  <2> QED BY <2>1, PromptStep
<1>3. OwnInv /\ [OwnInv /\ folder \cap Wholes # {} => folder' \cap Wholes' # {}]_allVars
      => [folder \cap Wholes # {} => folder' \cap Wholes' # {}]_allVars
  BY DEF OwnInv
<1> QED BY <1>1, <1>2, <1>3, KeepInvariance, LastStays, PTL DEF VSpec, PromptExits, NeverTheLast

-----------------------------------------------------------------------------
(* Every run keeps its contract.                                           *)

LEMMA ContractStep ==
  ASSUME VInv, [VNext]_allVars, NEW s \in Cleaners
  PROVE  [Run(s)!CNext]_(Run(s)!cvars)
<1> USE DEF Run!CNext, Run!cvars, Run!Store, Run!Purge, Run!Succeed, Run!Fail
<1>0. /\ TypeOK /\ VaultTypeOK /\ PhaseInv /\ Cleaners \subseteq Files
  BY RunsAreFiles DEF VInv, BaseInv
<1> DEFINE Still == UNCHANGED <<Outcome(s), Left(s), removed[s] \cup kept[s] # {}>>
<1> SUFFICES Run(s)!CNext \/ Still
  OBVIOUS
<1>1. ASSUME NEW r \in Cleaners, Store(r), r # s PROVE Still
  BY <1>0, <1>1 DEF Store, UploadFile, Goto, Outcome, Ended, Left, VaultTypeOK
<1>2. CASE Store(s)
  BY <1>0, <1>2 DEF Store, UploadFile, Goto, Outcome, Ended, Left, VaultTypeOK, PhaseInv
<1>3. ASSUME NEW r \in Cleaners, Fail(r) \/ Kill(r), r # s PROVE Still
  BY <1>0, <1>3 DEF Fail, Kill, vars, driveVars, Goto, Outcome, Ended, Left, VaultTypeOK
<1>4. CASE Fail(s)
  BY <1>0, <1>4 DEF Fail, vars, driveVars, Goto, Outcome, Ended, Left, VaultTypeOK, PhaseInv
<1>5. CASE Kill(s)
  BY <1>0, <1>5 DEF Kill, vars, driveVars, Goto, Outcome, Ended, Left, VaultTypeOK
<1>6. ASSUME NEW r \in Cleaners, Begin(r) PROVE Still
  BY <1>0, <1>6 DEF Begin, Start, driveVars, Goto, Outcome, Ended, Left, VaultTypeOK, TypeOK
<1>7. ASSUME NEW r \in Cleaners, Clean(r), r # s PROVE Still
  BY <1>0, <1>7 DEF Clean, ListPage, ListFails, NextPage, Skip, Delete, DeleteFails,
                    driveVars, vaultVars, Outcome, Ended, Left, TypeOK
<1>8. CASE Clean(s)
  BY <1>0, <1>8 DEF Clean, ListPage, ListFails, NextPage, Skip, Delete, DeleteFails,
                    driveVars, vaultVars, Outcome, Ended, Left, TypeOK, PhaseInv
<1>9. CASE (Tick /\ UNCHANGED vaultVars) \/ UNCHANGED allVars
  BY <1>9 DEF Tick, vars, driveVars, vaultVars, allVars, Outcome, Ended, Left
<1> QED BY <1>1, <1>2, <1>3, <1>4, <1>5, <1>6, <1>7, <1>8, <1>9 DEF VNext

\* Every run, whatever the others do, keeps the contract of a backup run.
THEOREM Contracts == VSpec => KeepContracts
<1>1. VInit => \A r \in Cleaners : Run(r)!CInit
  BY RunsAreFiles DEF VInit, Init, Run!CInit, Outcome, Ended, Left
<1>2. VInv /\ [VNext]_allVars => [\A r \in Cleaners : [Run(r)!CNext]_(Run(r)!cvars)]_allVars
  BY ContractStep
<1> QED BY <1>1, <1>2, VInvariance, PTL DEF VSpec, KeepContracts

(* The clean-up of a run ends within a bounded number of its own steps,    *)
(* whatever other runs upload and delete.                                  *)
THEOREM CleanupsEnding == ASSUME IsFiniteSet(Files) PROVE VSpec => CleanupShrinks
<1>1. Spec => CleanupShrinks
  BY Ending
<1> QED BY <1>1, IsRetention, PTL

=============================================================================
