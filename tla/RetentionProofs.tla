--------------------------- MODULE RetentionProofs ---------------------------
(***************************************************************************)
(* Theorems about module Retention, for every folder, every number of      *)
(* concurrent clean-ups, every page size and every clock.                  *)
(*                                                                         *)
(* BaseInv says where files can be; it needs nothing of RETENTION_DAYS.    *)
(* CutInv relates the cutoff of a clean-up to the clock and needs the      *)
(* period to fit into a time.Duration; SweepInv says which expired files a *)
(* clean-up has still to come to, and uses CutInv for the files uploaded   *)
(* meanwhile, which must not be expired.                                   *)
(***************************************************************************)
EXTENDS Retention, FiniteSetTheorems, TLAPS

USE RetentionAssumption

-----------------------------------------------------------------------------
(* Where files can be.                                                     *)

\* A file that is not uploaded yet is in no folder and on no page.
FreshInv == fresh \cap folder = {} /\ \A c \in Cleaners : fresh \cap listed[c] = {}

BaseInv == TypeOK /\ FreshInv /\ CountsEachOnce

LEMMA TimesInt == RetentionDays * DayLen \in Int
BY RetentionAssumption

LEMMA WrapInt == \A x \in Int : Wrap(x) \in Int
BY DEF Wrap

\* What the initial state gives.
LEMMA BaseInit == Init => BaseInv
<1> SUFFICES ASSUME Init PROVE BaseInv
  OBVIOUS
<1>1. TypeOK
  BY DEF Init, TypeOK
<1>2. FreshInv /\ CountsEachOnce
  BY DEF Init, FreshInv, CountsEachOnce
<1> QED BY <1>1, <1>2 DEF BaseInv

\* One step of the specification keeps the types.
LEMMA TypeStep == BaseInv /\ [Next]_vars => TypeOK'
<1> SUFFICES ASSUME TypeOK, [Next]_vars PROVE TypeOK'
  BY DEF BaseInv
<1>1. ASSUME NEW c \in Cleaners, Start(c) PROVE TypeOK'
  <2>1. now + Wrap(-MaxAge) \in Int
    BY TimesInt, WrapInt DEF MaxAge, TypeOK
  <2> QED BY <1>1, <2>1 DEF TypeOK, Start, driveVars
<1>2. ASSUME NEW c \in Cleaners, ListPage(c) PROVE TypeOK'
  BY <1>2 DEF TypeOK, ListPage, driveVars
<1>3. ASSUME NEW c \in Cleaners, ListFails(c) PROVE TypeOK'
  BY <1>3 DEF TypeOK, ListFails, driveVars
<1>4. ASSUME NEW c \in Cleaners, NextPage(c) PROVE TypeOK'
  BY <1>4 DEF TypeOK, NextPage, driveVars
<1>5. ASSUME NEW c \in Cleaners, NEW f \in Files, Skip(c, f) PROVE TypeOK'
  BY <1>5 DEF TypeOK, Skip, driveVars
<1>6. ASSUME NEW c \in Cleaners, NEW f \in Files, Delete(c, f) PROVE TypeOK'
  BY <1>6 DEF TypeOK, Delete
<1>7. ASSUME NEW c \in Cleaners, NEW f \in Files, DeleteFails(c, f) PROVE TypeOK'
  BY <1>7 DEF TypeOK, DeleteFails
<1>8. ASSUME NEW f \in Files, UploadFile(f) PROVE TypeOK'
  BY <1>8 DEF TypeOK, UploadFile
<1>9. CASE Tick
  BY <1>9 DEF TypeOK, Tick, driveVars
<1>10. CASE UNCHANGED vars
  BY <1>10 DEF TypeOK, vars, driveVars
<1> QED BY <1>1, <1>2, <1>3, <1>4, <1>5, <1>6, <1>7, <1>8, <1>9, <1>10 DEF Next, Work

\* One step keeps files that are not uploaded apart, and counts no file twice.
LEMMA CountStep == BaseInv /\ [Next]_vars => FreshInv' /\ CountsEachOnce'
<1> SUFFICES ASSUME TypeOK, FreshInv, CountsEachOnce, [Next]_vars
             PROVE FreshInv' /\ CountsEachOnce'
  BY DEF BaseInv
<1> USE DEF TypeOK, FreshInv, CountsEachOnce
<1>1. ASSUME NEW c \in Cleaners, Start(c) PROVE FreshInv' /\ CountsEachOnce'
  BY <1>1 DEF Start, driveVars
<1>2. ASSUME NEW c \in Cleaners, ListPage(c) PROVE FreshInv' /\ CountsEachOnce'
  BY <1>2 DEF ListPage, driveVars
<1>3. ASSUME NEW c \in Cleaners, ListFails(c) PROVE FreshInv' /\ CountsEachOnce'
  BY <1>3 DEF ListFails, driveVars
<1>4. ASSUME NEW c \in Cleaners, NextPage(c) PROVE FreshInv' /\ CountsEachOnce'
  BY <1>4 DEF NextPage, driveVars
<1>5. ASSUME NEW c \in Cleaners, NEW f \in Files, Skip(c, f)
      PROVE FreshInv' /\ CountsEachOnce'
  BY <1>5 DEF Skip, driveVars
<1>6. ASSUME NEW c \in Cleaners, NEW f \in Files, Delete(c, f)
      PROVE FreshInv' /\ CountsEachOnce'
  BY <1>6 DEF Delete
<1>7. ASSUME NEW c \in Cleaners, NEW f \in Files, DeleteFails(c, f)
      PROVE FreshInv' /\ CountsEachOnce'
  BY <1>7 DEF DeleteFails
<1>8. ASSUME NEW f \in Files, UploadFile(f) PROVE FreshInv' /\ CountsEachOnce'
  BY <1>8 DEF UploadFile
<1>9. CASE Tick
  BY <1>9 DEF Tick, driveVars
<1>10. CASE UNCHANGED vars
  BY <1>10 DEF vars, driveVars
<1> QED BY <1>1, <1>2, <1>3, <1>4, <1>5, <1>6, <1>7, <1>8, <1>9, <1>10 DEF Next, Work

\* BaseInv holds in every reachable state, whatever the retention period.
THEOREM BaseInvariance == Spec => []BaseInv
<1>1. Init => BaseInv
  BY BaseInit
<1>2. BaseInv /\ [Next]_vars => BaseInv'
  BY TypeStep, CountStep DEF BaseInv
<1> QED BY <1>1, <1>2, PTL DEF Spec

\* Every variable has its type and a clean-up deletes only what it listed.
THEOREM TypeCorrect == Spec => []TypeOK
<1>1. BaseInv => TypeOK
  BY DEF BaseInv
<1> QED BY <1>1, BaseInvariance, PTL

\* Concurrent clean-ups count a removed backup once, and only when it is gone.
THEOREM Counting == Spec => []CountsEachOnce
<1>1. BaseInv => CountsEachOnce
  BY DEF BaseInv
<1> QED BY <1>1, BaseInvariance, PTL

-----------------------------------------------------------------------------
(* The cutoff.                                                             *)

\* A clean-up's cutoff is at least RETENTION_DAYS in the past.
CutInv ==
  \A c \in Cleaners : stage[c] # "idle" => cutoff[c] + RetentionDays * DayLen <= now

\* Within its range, a Duration computed from days is that many days.
LEMMA MaxAgeExact == NoOverflow => Wrap(-MaxAge) = -(RetentionDays * DayLen)
<1> SUFFICES ASSUME NoOverflow PROVE Wrap(-MaxAge) = -(RetentionDays * DayLen)
  OBVIOUS
<1> DEFINE d == RetentionDays * DayLen
<1>1. d \in Int /\ 0 <= d /\ d < HalfRange
  <2>1. RetentionDays \in Nat /\ DayLen \in Nat
    BY DEF NoOverflow
  <2>2. RetentionDays * DayLen \in Nat
    BY <2>1
  <2> QED BY <2>2 DEF NoOverflow
<1> HIDE DEF d
<1>2. \A x \in Int : -HalfRange <= x /\ x < HalfRange => Wrap(x) = x
  BY DEF Wrap
<1>3. Wrap(d) = d /\ Wrap(-d) = -d
  BY <1>1, <1>2
<1> QED BY <1>3 DEF MaxAge, d

\* One step keeps every cutoff behind the clock.
LEMMA CutStep ==
  ASSUME NoOverflow
  PROVE  BaseInv /\ CutInv /\ [Next]_vars => CutInv'
<1> DEFINE d == RetentionDays * DayLen
<1>0. d \in Int
  BY TimesInt
<1>00. Wrap(-MaxAge) = -d
  BY MaxAgeExact
<1> HIDE DEF d
<1> SUFFICES ASSUME TypeOK, CutInv, [Next]_vars PROVE CutInv'
  BY DEF BaseInv
<1>a. \A c \in Cleaners : stage[c] # "idle" => cutoff[c] + d <= now
  BY DEF CutInv, d
<1>b. SUFFICES \A c \in Cleaners : stage'[c] # "idle" => cutoff'[c] + d <= now'
  BY DEF CutInv, d
<1>c. now \in Int /\ cutoff \in [Cleaners -> Int]
      /\ stage \in [Cleaners -> {"idle", "list", "delete", "done", "failed"}]
  BY DEF TypeOK
<1>1. ASSUME NEW c \in Cleaners, Start(c)
      PROVE \A k \in Cleaners : stage'[k] # "idle" => cutoff'[k] + d <= now'
  BY <1>1, <1>0, <1>00, <1>a, <1>c DEF Start
<1>2. CASE now' \in Int /\ now' >= now /\ cutoff' = cutoff
           /\ \A k \in Cleaners : stage'[k] # "idle" => stage[k] # "idle"
  BY <1>2, <1>0, <1>a, <1>c
<1>3. ASSUME NEW c \in Cleaners,
             ListPage(c) \/ ListFails(c) \/ NextPage(c)
               \/ \E f \in Files : Skip(c, f) \/ Delete(c, f) \/ DeleteFails(c, f)
      PROVE now' = now /\ cutoff' = cutoff
            /\ \A k \in Cleaners : stage'[k] # "idle" => stage[k] # "idle"
  BY <1>3, <1>c DEF ListPage, ListFails, NextPage, Skip, Delete, DeleteFails
<1>4. ASSUME (\E f \in Files : UploadFile(f)) \/ Tick \/ UNCHANGED vars
      PROVE now' \in Int /\ now' >= now /\ cutoff' = cutoff
            /\ \A k \in Cleaners : stage'[k] # "idle" => stage[k] # "idle"
  BY <1>4, <1>c DEF UploadFile, Tick, vars
<1> QED BY <1>1, <1>2, <1>3, <1>4, <1>c DEF Next, Work

\* CutInv holds in every reachable state.
THEOREM CutInvariance == ASSUME NoOverflow PROVE Spec => []CutInv
<1>1. Init => CutInv
  BY DEF Init, CutInv
<1>2. BaseInv /\ CutInv /\ [Next]_vars => CutInv'
  BY CutStep
<1> QED BY <1>1, <1>2, BaseInvariance, PTL DEF Spec

\* A step takes at most one file out of the folder, and only an expired one.
LEMMA OnlyExpiredLeave ==
  ASSUME TypeOK, [Next]_vars, NEW f \in folder \ folder'
  PROVE  \E c \in Cleaners : stage[c] = "delete" /\ f \in page[c] /\ Expired(c, f)
<1>1. ASSUME NEW c \in Cleaners, NEW g \in Files, Delete(c, g) \/ DeleteFails(c, g)
      PROVE  stage[c] = "delete" /\ f \in page[c] /\ Expired(c, f)
  BY <1>1 DEF Delete, DeleteFails
<1>2. ASSUME NEW c \in Cleaners, Start(c) \/ ListPage(c) \/ ListFails(c) \/ NextPage(c)
                                   \/ \E g \in Files : Skip(c, g)
      PROVE  folder' = folder
  BY <1>2 DEF Start, ListPage, ListFails, NextPage, Skip, driveVars
<1>3. (\E g \in Files : UploadFile(g)) \/ Tick \/ UNCHANGED vars => folder \subseteq folder'
  BY DEF UploadFile, Tick, vars, driveVars
<1> QED BY <1>1, <1>2, <1>3 DEF Next, Work

\* While the retention period fits into a time.Duration, whatever leaves the
\* folder is a dated backup with the prefix, older than RETENTION_DAYS days.
THEOREM YoungKept == ASSUME NoOverflow PROVE Spec => KeepsYoung
<1>1. BaseInv /\ CutInv /\ [Next]_vars =>
        [\A f \in folder \ folder' :
           /\ f \in Mine \ Undated
           /\ now - born[f] > RetentionDays * DayLen]_vars
  <2> SUFFICES ASSUME BaseInv, CutInv, [Next]_vars, NEW f \in folder \ folder'
               PROVE f \in Mine \ Undated /\ now - born[f] > RetentionDays * DayLen
    OBVIOUS
  <2>1. TypeOK
    BY DEF BaseInv
  <2>2. PICK c \in Cleaners : stage[c] = "delete" /\ f \in page[c] /\ Expired(c, f)
    BY <2>1, OnlyExpiredLeave
  <2>3. f \in Mine \ Undated
    BY <2>1, <2>2 DEF TypeOK, Expired
  <2>4. now \in Int /\ born[f] \in Int /\ cutoff[c] \in Int
    BY <2>1 DEF TypeOK
  <2>5. cutoff[c] + RetentionDays * DayLen <= now /\ born[f] < cutoff[c]
    BY <2>2 DEF CutInv, Expired
  <2> QED BY <2>3, <2>4, <2>5, TimesInt
<1> QED BY <1>1, BaseInvariance, CutInvariance, PTL DEF Spec, KeepsYoung

-----------------------------------------------------------------------------
(* What a clean-up has still to come to.                                   *)

\* Before the last page, an expired file is on the current page, on none yet,
\* or its deletion has failed; after it, no expired file is on none.
SweepInv ==
  \A c \in Cleaners :
    /\ stage[c] # "delete" => page[c] = {}
    /\ stage[c] = "idle" => listed[c] = {}
    /\ stage[c] = "done" => ~more[c]
    /\ stage[c] # "idle" => \A f \in folder \cap Mine :
         Expired(c, f) => f \in kept[c] \cup page[c] \/ f \notin listed[c]
    /\ stage[c] \in {"delete", "done"} /\ ~more[c] => \A f \in folder \cap Mine :
         Expired(c, f) => f \in listed[c]

\* An upload concerns a file that is on no page and that nobody takes for expired.
LEMMA UploadUnexpired ==
  ASSUME NoOverflow, BaseInv, CutInv, NEW g \in Files, UploadFile(g)
  PROVE  \A c \in Cleaners, f \in Files :
           stage[c] # "idle" /\ f \in folder' /\ Expired(c, f)' => f \in folder /\ Expired(c, f)
<1> SUFFICES ASSUME NEW c \in Cleaners, NEW f \in Files,
                    stage[c] # "idle", f \in folder', Expired(c, f)'
             PROVE  f \in folder /\ Expired(c, f)
  OBVIOUS
<1>1. TypeOK /\ folder' = folder \cup {g} /\ cutoff' = cutoff
      /\ born' = [born EXCEPT ![g] = now]
  BY DEF BaseInv, UploadFile
<1>2. RetentionDays * DayLen \in Nat
  BY DEF NoOverflow
<1>3. cutoff[c] <= now
  <2>1. cutoff[c] \in Int /\ now \in Int
    BY <1>1 DEF TypeOK
  <2> QED BY <2>1, <1>2 DEF CutInv
<1>4. f # g
  <2> SUFFICES ASSUME f = g PROVE FALSE
    OBVIOUS
  <2>1. born'[f] = now /\ now \in Int /\ cutoff[c] \in Int
    BY <1>1 DEF TypeOK
  <2> QED BY <2>1, <1>1, <1>3 DEF Expired
<1> QED BY <1>1, <1>4 DEF Expired, TypeOK

\* One step keeps track of what is left to come to.
LEMMA SweepStep ==
  ASSUME NoOverflow
  PROVE  BaseInv /\ CutInv /\ SweepInv /\ [Next]_vars => SweepInv'
<1> SUFFICES ASSUME BaseInv, CutInv, SweepInv, [Next]_vars PROVE SweepInv'
  OBVIOUS
<1>0. TypeOK /\ FreshInv
  BY DEF BaseInv
<1>1. ASSUME NEW c \in Cleaners, Start(c) PROVE SweepInv'
  BY <1>0, <1>1 DEF Start, SweepInv, TypeOK, Expired, driveVars
<1>2. ASSUME NEW c \in Cleaners, ListPage(c) PROVE SweepInv'
  <2>1. PICK P \in SUBSET ((folder \cap Mine) \ listed[c]) :
          /\ page' = [page EXCEPT ![c] = P]
          /\ listed' = [listed EXCEPT ![c] = @ \cup P]
          /\ more' = [more EXCEPT ![c] = (P # (folder \cap Mine) \ listed[c])]
    BY <1>2 DEF ListPage
  <2>2. stage[c] = "list" /\ stage' = [stage EXCEPT ![c] = "delete"]
        /\ folder' = folder /\ born' = born /\ cutoff' = cutoff /\ kept' = kept
    BY <1>2 DEF ListPage, driveVars
  <2>3. \A k \in Cleaners, f \in Files : Expired(k, f)' <=> Expired(k, f)
    BY <2>2 DEF Expired
  <2>4. page'[c] = P /\ listed'[c] = listed[c] \cup P
        /\ more'[c] = (P # (folder \cap Mine) \ listed[c]) /\ stage'[c] = "delete"
    BY <2>1, <2>2, <1>0 DEF TypeOK
  <2>5. \A k \in Cleaners \ {c} : page'[k] = page[k] /\ listed'[k] = listed[k]
                                  /\ more'[k] = more[k] /\ stage'[k] = stage[k]
    BY <2>1, <2>2, <1>0 DEF TypeOK
  <2>6. Mine \subseteq Files
    OBVIOUS
  <2> QED BY <2>2, <2>3, <2>4, <2>5, <2>6 DEF SweepInv
<1>3. ASSUME NEW c \in Cleaners, ListFails(c) PROVE SweepInv'
  BY <1>0, <1>3 DEF ListFails, SweepInv, TypeOK, Expired, driveVars
<1>4. ASSUME NEW c \in Cleaners, NextPage(c) PROVE SweepInv'
  BY <1>0, <1>4 DEF NextPage, SweepInv, TypeOK, Expired, driveVars
<1>5. ASSUME NEW c \in Cleaners, NEW f \in Files, Skip(c, f) PROVE SweepInv'
  BY <1>0, <1>5 DEF Skip, SweepInv, TypeOK, Expired, driveVars
<1>6. ASSUME NEW c \in Cleaners, NEW f \in Files, Delete(c, f) PROVE SweepInv'
  BY <1>0, <1>6 DEF Delete, SweepInv, TypeOK, Expired
<1>7. ASSUME NEW c \in Cleaners, NEW f \in Files, DeleteFails(c, f) PROVE SweepInv'
  BY <1>0, <1>7 DEF DeleteFails, SweepInv, TypeOK, Expired
<1>8. ASSUME NEW g \in Files, UploadFile(g) PROVE SweepInv'
  <2>1. UNCHANGED <<stage, listed, page, more, kept>>
    BY <1>8 DEF UploadFile
  <2>2. \A c \in Cleaners, f \in Files :
          stage[c] # "idle" /\ f \in folder' /\ Expired(c, f)' => f \in folder /\ Expired(c, f)
    BY <1>8, UploadUnexpired
  <2>3. Mine \subseteq Files
    OBVIOUS
  <2> QED BY <2>1, <2>2, <2>3 DEF SweepInv
<1>9. CASE Tick
  BY <1>9 DEF Tick, SweepInv, Expired, driveVars
<1>10. CASE UNCHANGED vars
  BY <1>10 DEF vars, SweepInv, Expired
<1> QED BY <1>1, <1>2, <1>3, <1>4, <1>5, <1>6, <1>7, <1>8, <1>9, <1>10 DEF Next, Work

\* While the retention period fits into a time.Duration, a clean-up that has
\* ended without an error has left no expired backup but those whose deletion
\* failed, however Drive cut its listing into pages.
THEOREM Thoroughness == ASSUME NoOverflow PROVE Spec => []Thorough
<1>1. Init => SweepInv
  BY DEF Init, SweepInv
<1>2. BaseInv /\ CutInv /\ SweepInv /\ [Next]_vars => SweepInv'
  BY SweepStep
<1>3. SweepInv => Thorough
  BY DEF SweepInv, Thorough
<1> QED BY <1>1, <1>2, <1>3, BaseInvariance, CutInvariance, PTL DEF Spec

-----------------------------------------------------------------------------
(* How long a clean-up takes.                                              *)

\* A page is there only while it is dealt with.
PageInv == \A c \in Cleaners : stage[c] \in {"idle", "list"} => page[c] = {}

LEMMA PageStep == TypeOK /\ PageInv /\ [Next]_vars => PageInv'
<1> SUFFICES ASSUME TypeOK, PageInv, [Next]_vars PROVE PageInv'
  OBVIOUS
<1> USE DEF TypeOK, PageInv
<1>1. ASSUME NEW c \in Cleaners, Start(c) \/ ListFails(c) \/ NextPage(c) \/ ListPage(c) PROVE PageInv'
  BY <1>1 DEF Start, ListFails, NextPage, ListPage
<1>2. ASSUME NEW c \in Cleaners, NEW f \in Files, Skip(c, f) \/ Delete(c, f) \/ DeleteFails(c, f)
      PROVE PageInv'
  BY <1>2 DEF Skip, Delete, DeleteFails
<1>3. CASE UNCHANGED <<stage, page>>
  BY <1>3
<1> QED BY <1>1, <1>2, <1>3 DEF Next, Work, UploadFile, Tick, vars

\* The sizes that CleanupLeft adds up.
LEMMA Sizes ==
  ASSUME IsFiniteSet(Files), TypeOK, NEW c \in Cleaners
  PROVE  /\ IsFiniteSet(Files \ listed[c]) /\ IsFiniteSet(page[c])
         /\ Cardinality(Files) \in Nat
         /\ Cardinality(Files \ listed[c]) \in Nat /\ Cardinality(page[c]) \in Nat
         /\ Cardinality(Files \ listed[c]) + Cardinality(page[c]) <= Cardinality(Files)
<1>1. page[c] \subseteq listed[c] /\ listed[c] \subseteq Files
  BY DEF TypeOK
<1> DEFINE U == Files \ listed[c]
<1>2. IsFiniteSet(U) /\ IsFiniteSet(page[c]) /\ IsFiniteSet(U \cup page[c])
  <2>1. U \in SUBSET Files /\ page[c] \in SUBSET Files /\ (U \cup page[c]) \in SUBSET Files
    BY <1>1
  <2> QED BY <2>1, FS_Subset
<1>3. Cardinality(U \cup page[c]) = Cardinality(U) + Cardinality(page[c])
  <2>1. U \cap page[c] = {}
    BY <1>1
  <2>2. Cardinality(U \cup page[c]) = Cardinality(U) + Cardinality(page[c]) - Cardinality(U \cap page[c])
    BY <1>2, FS_Union
  <2>3. Cardinality(U) \in Nat /\ Cardinality(page[c]) \in Nat /\ Cardinality(U \cap page[c]) = 0
    BY <1>2, <2>1, FS_CardinalityType, FS_EmptySet
  <2> QED BY <2>2, <2>3
<1>4. Cardinality(U \cup page[c]) <= Cardinality(Files)
  <2>1. (U \cup page[c]) \in SUBSET Files
    BY <1>1
  <2> QED BY <2>1, FS_Subset
<1>5. Cardinality(U) \in Nat /\ Cardinality(page[c]) \in Nat /\ Cardinality(Files) \in Nat
  BY <1>2, FS_CardinalityType
<1> QED BY <1>2, <1>3, <1>4, <1>5

\* A page takes its files from those not listed yet.
LEMMA PageCounts ==
  ASSUME IsFiniteSet(Files), TypeOK, PageInv, NEW c \in Cleaners, ListPage(c)
  PROVE  CleanupLeft(c)' < CleanupLeft(c)
<1> DEFINE rest == (folder \cap Mine) \ listed[c]
           U == Files \ listed[c]
<1>1. PICK P \in SUBSET rest :
        /\ P # {} \/ rest = {}
        /\ page' = [page EXCEPT ![c] = P]
        /\ listed' = [listed EXCEPT ![c] = @ \cup P]
        /\ more' = [more EXCEPT ![c] = (P # rest)]
  BY DEF ListPage
<1>2. stage[c] = "list" /\ stage' = [stage EXCEPT ![c] = "delete"]
  BY DEF ListPage
<1>3. page'[c] = P /\ Files \ listed'[c] = U \ P /\ P \subseteq U
  BY <1>1 DEF TypeOK
<1>4. page[c] = {} /\ Cardinality(page[c]) = 0
  BY <1>2, FS_EmptySet DEF PageInv
<1>5. IsFiniteSet(U) /\ IsFiniteSet(P) /\ Cardinality(U) \in Nat /\ Cardinality(P) \in Nat
  <2>1. IsFiniteSet(U)
    BY Sizes
  <2>2. P \in SUBSET U
    BY <1>3
  <2> QED BY <2>1, <2>2, FS_Subset, FS_CardinalityType
<1>6. Cardinality(U \ P) = Cardinality(U) - Cardinality(P)
  <2>1. U \cap P = P
    BY <1>3
  <2> QED BY <2>1, <1>5, FS_Difference
<1>7. StageLeft(c) = 2 /\ StageLeft(c)' = (IF more'[c] THEN 3 ELSE 1)
  BY <1>2 DEF StageLeft, TypeOK
<1> DEFINE u == Cardinality(U)
           n == Cardinality(P)
<1>8. /\ CleanupLeft(c) = 3 * u + 0 + 2
      /\ CleanupLeft(c)' = 3 * (u - n) + n + StageLeft(c)'
  <2>1. Cardinality(page'[c]) = n /\ Cardinality(Files \ listed'[c]) = u - n
    BY <1>3, <1>6
  <2> HIDE DEF U, u, n
  <2>2. CleanupLeft(c)' = 3 * (u - n) + n + StageLeft(c)'
    BY <2>1 DEF CleanupLeft
  <2> QED BY <2>2, <1>4, <1>7 DEF CleanupLeft, U, u
<1>9. n = 0 => ~more'[c]
  <2>1. n = 0 => P = {}
    BY <1>5, FS_EmptySet
  <2> QED BY <2>1, <1>1 DEF TypeOK
<1>10. u \in Nat /\ n \in Nat
  BY <1>5
<1> HIDE DEF U, u, n, rest
<1>11. CASE n = 0
  BY <1>7, <1>8, <1>9, <1>10, <1>11
<1>12. CASE n # 0
  <2>1. StageLeft(c)' \in {1, 3} /\ n >= 1
    BY <1>7, <1>10, <1>12
  <2> QED BY <2>1, <1>8, <1>10
<1> QED BY <1>11, <1>12

\* Every other step of a clean-up makes what is left smaller as well.
LEMMA WorkCounts ==
  ASSUME IsFiniteSet(Files), TypeOK, PageInv, NEW c \in Cleaners, Work(c)
  PROVE  CleanupLeft(c)' < CleanupLeft(c)
<1> DEFINE U == Cardinality(Files \ listed[c])
           G == Cardinality(page[c])
<1>0. U \in Nat /\ G \in Nat /\ IsFiniteSet(page[c])
  BY Sizes
<1>1. CASE ListPage(c)
  BY <1>1, PageCounts
<1>2. CASE Start(c) \/ ListFails(c) \/ NextPage(c)
  <2>1. listed' = listed /\ page' = page /\ more' = more
    BY <1>2 DEF Start, ListFails, NextPage
  <2>2. StageLeft(c)' < StageLeft(c) /\ StageLeft(c) \in Nat /\ StageLeft(c)' \in Nat
    <3>1. CASE Start(c)
      BY <3>1 DEF Start, StageLeft, TypeOK
    <3>2. CASE ListFails(c)
      BY <3>2 DEF ListFails, StageLeft, TypeOK
    <3>3. CASE NextPage(c)
      <4>1. more[c] \in BOOLEAN /\ stage[c] = "delete"
            /\ stage'[c] = (IF more[c] THEN "list" ELSE "done")
        BY <3>3 DEF NextPage, TypeOK
      <4>2. CASE more[c]
        BY <4>1, <4>2, <2>1 DEF StageLeft
      <4>3. CASE ~more[c]
        BY <4>1, <4>3, <2>1 DEF StageLeft
      <4> QED BY <4>2, <4>3
    <3> QED BY <1>2, <3>1, <3>2, <3>3
  <2>3. CleanupLeft(c) = 3 * U + G + StageLeft(c) /\ CleanupLeft(c)' = 3 * U + G + StageLeft(c)'
    BY <2>1 DEF CleanupLeft
  <2> HIDE DEF U, G
  <2> QED BY <2>2, <2>3, <1>0
<1>3. ASSUME NEW f \in Files, Skip(c, f) \/ Delete(c, f) \/ DeleteFails(c, f)
      PROVE  CleanupLeft(c)' < CleanupLeft(c)
  <2>1. /\ f \in page[c] /\ page' = [page EXCEPT ![c] = @ \ {f}] /\ UNCHANGED <<listed, stage, more>>
        /\ stage[c] = "delete"
    BY <1>3 DEF Skip, Delete, DeleteFails
  <2>2. page'[c] = page[c] \ {f}
    BY <2>1 DEF TypeOK
  <2>3. Cardinality(page'[c]) = G - 1
    BY <2>1, <2>2, <1>0, FS_RemoveElement
  <2>4. StageLeft(c)' = StageLeft(c) /\ StageLeft(c) \in {1, 3}
    BY <2>1 DEF StageLeft
  <2>5. CleanupLeft(c) = 3 * U + G + StageLeft(c)
        /\ CleanupLeft(c)' = 3 * U + (G - 1) + StageLeft(c)
    BY <2>1, <2>3, <2>4 DEF CleanupLeft
  <2> HIDE DEF U, G
  <2> QED BY <2>4, <2>5, <1>0
<1> QED BY <1>1, <1>2, <1>3 DEF Work

\* What others do leaves a clean-up what it has to do.
LEMMA OthersCount ==
  ASSUME TypeOK, [Next]_vars, NEW c \in Cleaners, ~Work(c)
  PROVE  CleanupLeft(c)' = CleanupLeft(c)
<1>1. stage'[c] = stage[c] /\ listed'[c] = listed[c] /\ page'[c] = page[c] /\ more'[c] = more[c]
  <2>1. ASSUME NEW d \in Cleaners, Work(d), d # c
        PROVE  stage'[c] = stage[c] /\ listed'[c] = listed[c] /\ page'[c] = page[c] /\ more'[c] = more[c]
    BY <2>1 DEF Work, Start, ListPage, ListFails, NextPage, Skip, Delete, DeleteFails, TypeOK
  <2>2. CASE UNCHANGED <<stage, listed, page, more>>
    BY <2>2
  <2> QED BY <2>1, <2>2 DEF Next, UploadFile, Tick, vars
<1> QED BY <1>1 DEF CleanupLeft, StageLeft

(* However many files the folder has, a clean-up ends after a bounded      *)
(* number of steps of its own, which no upload and no other clean-up adds  *)
(* to.                                                                     *)
THEOREM Ending == ASSUME IsFiniteSet(Files) PROVE Spec => CleanupShrinks
<1> DEFINE Shrink == \A c \in Cleaners :
             /\ CleanupLeft(c) \in 0..(3 * Cardinality(Files) + 3)
             /\ Work(c) => CleanupLeft(c)' < CleanupLeft(c)
             /\ ~Work(c) => CleanupLeft(c)' = CleanupLeft(c)
<1>1. TypeOK /\ PageInv /\ [Next]_vars => Shrink
  <2> SUFFICES ASSUME TypeOK, PageInv, [Next]_vars, NEW c \in Cleaners
               PROVE  /\ CleanupLeft(c) \in 0..(3 * Cardinality(Files) + 3)
                      /\ Work(c) => CleanupLeft(c)' < CleanupLeft(c)
                      /\ ~Work(c) => CleanupLeft(c)' = CleanupLeft(c)
    OBVIOUS
  <2>1. StageLeft(c) \in 0..3
    <3>1. more[c] \in BOOLEAN /\ stage[c] \in {"idle", "list", "delete", "done", "failed"}
      BY DEF TypeOK
    <3> QED BY <3>1 DEF StageLeft
  <2>2. CleanupLeft(c) \in 0..(3 * Cardinality(Files) + 3)
    <3> DEFINE U == Cardinality(Files \ listed[c])
               G == Cardinality(page[c])
               N == Cardinality(Files)
    <3>1. U \in Nat /\ G \in Nat /\ N \in Nat /\ U + G <= N
      BY Sizes
    <3>2. CleanupLeft(c) = 3 * U + G + StageLeft(c)
      BY DEF CleanupLeft
    <3> HIDE DEF U, G, N
    <3>3. CleanupLeft(c) \in 0..(3 * N + 3)
      BY <2>1, <3>1, <3>2
    <3> QED BY <3>3 DEF N
  <2>3. Work(c) => CleanupLeft(c)' < CleanupLeft(c)
    BY WorkCounts
  <2>4. ~Work(c) => CleanupLeft(c)' = CleanupLeft(c)
    BY OthersCount
  <2> QED BY <2>2, <2>3, <2>4
<1>2. Init => PageInv
  BY DEF Init, PageInv
<1> HIDE DEF Shrink
<1>3. Spec => [][Shrink]_vars
  BY <1>1, <1>2, PageStep, TypeCorrect, PTL DEF Spec
<1> QED BY <1>3 DEF CleanupShrinks, Shrink

=============================================================================
