------------------------------ MODULE Retention ------------------------------
(***************************************************************************)
(* The retention clean-up (uploader.DeleteOlderThan, called by             *)
(* RunWithLogger with a maximum age computed from RETENTION_DAYS), run by  *)
(* several processes on one Drive folder: cron may start cmd/backup while  *)
(* the web server runs a backup of its own, and time goes on and backups   *)
(* are uploaded meanwhile.                                                 *)
(*                                                                         *)
(* A clean-up fixes its cutoff, then asks for the folder page by page and  *)
(* deletes the expired files of a page before it asks for the next one.    *)
(* Drive may refuse a request, and the answer to a deletion may be lost    *)
(* after the file has gone.  A file listed by two clean-ups is deleted by  *)
(* one of them; the other gets an error.  The page token is taken to keep  *)
(* its place when files of earlier pages are deleted.                      *)
(*                                                                         *)
(* Times and durations are integers; a time.Duration wraps at HalfRange,   *)
(* which stands for 2^63 nanoseconds.  time.Time does not wrap.            *)
(*                                                                         *)
(* A definition marked "Fault" is not part of the specification: put in    *)
(* the place of the definition that follows it, it breaks a property.      *)
(***************************************************************************)
EXTENDS Integers, FiniteSets

CONSTANTS
  Files,          \* everything that is ever in the Drive folder
  Late,           \* of these, what is uploaded while we look
  Mine,           \* files whose name contains the backup prefix
  Undated,        \* files whose createdTime does not parse
  Cleaners,       \* runs of DeleteOlderThan
  RetentionDays,  \* RETENTION_DAYS, any integer that strconv.Atoi accepts
  DayLen,         \* 24 hours
  HalfRange,      \* a Duration d satisfies -HalfRange <= d < HalfRange
  PageSize,       \* files in a page of the listing (100)
  Today,          \* the time at which we start to look
  LastTime        \* bound on the clock

ASSUME RetentionAssumption ==
  /\ Late \subseteq Files /\ Mine \subseteq Files /\ Undated \subseteq Files
  /\ RetentionDays \in Int
  /\ DayLen \in Nat \ {0} /\ HalfRange \in Nat \ {0}
  /\ PageSize \in Nat \ {0}
  /\ Today \in Nat /\ LastTime \in Nat

VARIABLES
  now,      \* the clock
  folder,   \* files in the folder that are not in the trash
  born,     \* createdTime of each file
  fresh,    \* files not uploaded yet
  stage,    \* each clean-up: "idle", "list", "delete", "done", "failed"
  cutoff,   \* files created before this time are expired
  listed,   \* files on the pages it has received
  page,     \* files of the current page it has not dealt with
  more,     \* did the current page come with a nextPageToken?
  removed,  \* files it counts in "deleted"
  kept      \* expired files whose deletion it saw fail

driveVars == <<folder, born, fresh>>
vars == <<now, folder, born, fresh, stage, cutoff, listed, page, more, removed, kept>>

\* The value of an int64 after two's complement wrap-around.
Wrap(x) == ((x + HalfRange) % (2 * HalfRange)) - HalfRange

\* time.Duration(cfg.RetentionDays) * 24 * time.Hour
MaxAge == Wrap(RetentionDays * DayLen)

\* The retention period is not negative and fits into a time.Duration; the
\* code does not look at it (config.Load takes any integer).
NoOverflow == RetentionDays >= 0 /\ RetentionDays * DayLen < HalfRange

Init ==
  /\ now = Today
  /\ folder = Files \ Late /\ fresh = Late
  /\ born \in [Files -> 0..Today] /\ \A f \in fresh : born[f] = Today
  /\ stage = [c \in Cleaners |-> "idle"]
  /\ cutoff = [c \in Cleaners |-> 0]
  /\ listed = [c \in Cleaners |-> {}]
  /\ page = [c \in Cleaners |-> {}]
  /\ more = [c \in Cleaners |-> TRUE]
  /\ removed = [c \in Cleaners |-> {}]
  /\ kept = [c \in Cleaners |-> {}]

-----------------------------------------------------------------------------

\* Fault: the cutoff is taken on the wrong side of now.
StartAhead(c) ==
  /\ stage[c] = "idle"
  /\ stage' = [stage EXCEPT ![c] = "list"]
  /\ cutoff' = [cutoff EXCEPT ![c] = now + MaxAge]
  /\ UNCHANGED <<now, driveVars, listed, page, more, removed, kept>>

\* cutoff := time.Now().Add(-maxAge)
Start(c) ==
  /\ stage[c] = "idle"
  /\ stage' = [stage EXCEPT ![c] = "list"]
  /\ cutoff' = [cutoff EXCEPT ![c] = now + Wrap(-MaxAge)]
  /\ UNCHANGED <<now, driveVars, listed, page, more, removed, kept>>

\* A page of the files that match the query and were on no page before; the
\* one without a nextPageToken has all that are left.
ListPage(c) ==
  LET rest == (folder \cap Mine) \ listed[c] IN
  /\ stage[c] = "list"
  /\ \E P \in SUBSET rest :
       /\ Cardinality(P) <= PageSize
       /\ P # {} \/ rest = {}
       /\ page' = [page EXCEPT ![c] = P]
       /\ listed' = [listed EXCEPT ![c] = @ \cup P]
       /\ more' = [more EXCEPT ![c] = (P # rest)]
  /\ stage' = [stage EXCEPT ![c] = "delete"]
  /\ UNCHANGED <<now, driveVars, cutoff, removed, kept>>

\* The request fails, or the context has been cancelled.
ListFails(c) ==
  /\ stage[c] = "list"
  /\ stage' = [stage EXCEPT ![c] = "failed"]
  /\ UNCHANGED <<now, driveVars, cutoff, listed, page, more, removed, kept>>

Expired(c, f) == f \notin Undated /\ born[f] < cutoff[c]

Skip(c, f) ==
  /\ stage[c] = "delete" /\ f \in page[c] /\ ~Expired(c, f)
  /\ page' = [page EXCEPT ![c] = @ \ {f}]
  /\ UNCHANGED <<now, driveVars, stage, cutoff, listed, more, removed, kept>>

Delete(c, f) ==
  /\ stage[c] = "delete" /\ f \in page[c] /\ Expired(c, f)
  /\ f \in folder
  /\ folder' = folder \ {f}
  /\ removed' = [removed EXCEPT ![c] = @ \cup {f}]
  /\ page' = [page EXCEPT ![c] = @ \ {f}]
  /\ UNCHANGED <<now, born, fresh, stage, cutoff, listed, more, kept>>

\* Fault: deleted++ comes before the error is looked at.
DeleteFailsCounted(c, f) ==
  /\ stage[c] = "delete" /\ f \in page[c] /\ Expired(c, f)
  /\ folder' \in {folder, folder \ {f}}
  /\ kept' = [kept EXCEPT ![c] = @ \cup {f}]
  /\ removed' = [removed EXCEPT ![c] = @ \cup {f}]
  /\ page' = [page EXCEPT ![c] = @ \ {f}]
  /\ UNCHANGED <<now, born, fresh, stage, cutoff, listed, more>>

\* The request is refused, or the file is there no more, or only the answer
\* is lost: the loop goes on with the next file.
DeleteFails(c, f) ==
  /\ stage[c] = "delete" /\ f \in page[c] /\ Expired(c, f)
  /\ folder' \in {folder, folder \ {f}}
  /\ kept' = [kept EXCEPT ![c] = @ \cup {f}]
  /\ page' = [page EXCEPT ![c] = @ \ {f}]
  /\ UNCHANGED <<now, born, fresh, stage, cutoff, listed, more, removed>>

\* Fault: the nextPageToken is ignored.
NextPageNever(c) ==
  /\ stage[c] = "delete" /\ page[c] = {}
  /\ stage' = [stage EXCEPT ![c] = "done"]
  /\ UNCHANGED <<now, driveVars, cutoff, listed, page, more, removed, kept>>

\* Fault: the request for the next page is made without the token, so that
\* the listing starts again.
NextPageRestarts(c) ==
  /\ stage[c] = "delete" /\ page[c] = {}
  /\ stage' = [stage EXCEPT ![c] = IF more[c] THEN "list" ELSE "done"]
  /\ listed' = [listed EXCEPT ![c] = {}]
  /\ UNCHANGED <<now, driveVars, cutoff, page, more, removed, kept>>

NextPage(c) ==
  /\ stage[c] = "delete" /\ page[c] = {}
  /\ stage' = [stage EXCEPT ![c] = IF more[c] THEN "list" ELSE "done"]
  /\ UNCHANGED <<now, driveVars, cutoff, listed, page, more, removed, kept>>

-----------------------------------------------------------------------------

\* A backup run, of this program or another, uploads a file.
UploadFile(f) ==
  /\ f \in fresh
  /\ fresh' = fresh \ {f}
  /\ folder' = folder \cup {f}
  /\ born' = [born EXCEPT ![f] = now]
  /\ UNCHANGED <<now, stage, cutoff, listed, page, more, removed, kept>>

Tick ==
  /\ now < LastTime
  /\ now' = now + 1
  /\ UNCHANGED <<driveVars, stage, cutoff, listed, page, more, removed, kept>>

Work(c) ==
  \/ Start(c) \/ ListPage(c) \/ ListFails(c) \/ NextPage(c)
  \/ \E f \in Files : Skip(c, f) \/ Delete(c, f) \/ DeleteFails(c, f)

Next ==
  \/ \E c \in Cleaners : Work(c)
  \/ \E f \in Files : UploadFile(f)
  \/ Tick

Spec == Init /\ [][Next]_vars

-----------------------------------------------------------------------------
(* Every variable has its type; what a clean-up still has to look at, has  *)
(* deleted or has failed to delete was on a page of its listing.           *)
TypeOK ==
  /\ now \in Int /\ folder \subseteq Files /\ fresh \subseteq Late
  /\ born \in [Files -> Int]
  /\ stage \in [Cleaners -> {"idle", "list", "delete", "done", "failed"}]
  /\ cutoff \in [Cleaners -> Int] /\ more \in [Cleaners -> BOOLEAN]
  /\ listed \in [Cleaners -> SUBSET Mine]
  /\ page \in [Cleaners -> SUBSET Mine]
  /\ removed \in [Cleaners -> SUBSET Mine]
  /\ kept \in [Cleaners -> SUBSET Mine]
  /\ \A c \in Cleaners : page[c] \cup removed[c] \cup kept[c] \subseteq listed[c]

(* Whoever deletes it and however long after the cutoff was fixed, a file  *)
(* that leaves the folder carries the prefix, has a creation time, and was *)
(* created more than RETENTION_DAYS days ago.                              *)
KeepsYoung ==
  [][\A f \in folder \ folder' :
       /\ f \in Mine \ Undated
       /\ now - born[f] > RetentionDays * DayLen]_vars

(* The number of removed backups that clean-ups report counts every file   *)
(* once, also when several of them find it expired, and only files that    *)
(* have really gone.                                                       *)
CountsEachOnce ==
  \A c \in Cleaners :
    /\ removed[c] \cap folder = {}
    /\ \A d \in Cleaners \ {c} : removed[c] \cap removed[d] = {}

(* When a clean-up has ended without an error, every file that was expired *)
(* when it began is gone, except those whose deletion it logged as failed, *)
(* however many pages the listing had.                                     *)
Thorough ==
  \A c \in Cleaners : stage[c] = "done" =>
    \A f \in folder \cap Mine : Expired(c, f) => f \in kept[c]

(* A clean-up ends within 3 * |Files| + 3 steps of its own, whatever is    *)
(* uploaded or deleted by others meanwhile: the page tokens lead forward,  *)
(* and no file is looked at twice.  With fairness this is CleanupsEnd.     *)
StageLeft(c) ==
  CASE stage[c] = "idle"   -> 3
    [] stage[c] = "list"   -> 2
    [] stage[c] = "delete" -> IF more[c] THEN 3 ELSE 1
    [] OTHER               -> 0

CleanupLeft(c) == 3 * Cardinality(Files \ listed[c]) + Cardinality(page[c]) + StageLeft(c)

CleanupShrinks ==
  [][\A c \in Cleaners :
       /\ CleanupLeft(c) \in 0..(3 * Cardinality(Files) + 3)
       /\ Work(c) => CleanupLeft(c)' < CleanupLeft(c)
       /\ ~Work(c) => CleanupLeft(c)' = CleanupLeft(c)]_vars

=============================================================================
