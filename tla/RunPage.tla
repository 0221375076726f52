------------------------------ MODULE RunPage ------------------------------
(***************************************************************************)
(* The page that starts a backup and shows its log (the script of the      *)
(* "run" template of cmd/web/main.go), composed with the job table.        *)
(*                                                                         *)
(* When it opens, the page asks /api/backup/status whether a job is        *)
(* running; a click posts to /api/backup/run; both answers may open the    *)
(* stream, in any order and long after the server has given them.  The     *)
(* Cancel button is shown when the other one is disabled, so a page may    *)
(* have several posts under way.  A closed EventSource gets no events.     *)
(*                                                                         *)
(* The stream is what module JobLog promises of it: it follows the job     *)
(* that is active when the request arrives, and ends with its final        *)
(* status.  There is such a job: the page opens no stream before it has    *)
(* been told of one, and the server never forgets its last job.            *)
(*                                                                         *)
(* A definition marked "Fault" is not part of the specification: put in    *)
(* the place of the definition that follows it, it breaks a property.      *)
(***************************************************************************)
EXTENDS Jobs

CONSTANTS
  Pages,      \* browser windows that may show the page
  MaxPosts    \* bound on the posts of a page under way at once

ASSUME RunPageAssumption == MaxPosts \in Nat

VARIABLES
  asked,      \* status request: "off", "sent", or "running", its answer
  posts,      \* the posts: [at, job]; the job is that of the answer
  disabled,   \* is the button disabled, and Cancel shown?
  es,         \* the EventSource: "null", "connecting" or "open"
  followed,   \* the job whose log it gets, 0 if it is not open
  announced   \* the job of the last "Job #... started", 0 before

pageVars == <<asked, posts, disabled, es, followed, announced>>
allVars == <<vars, pageVars>>

NoPost == [at |-> "off", job |-> 0]
NoPosts == [n \in 1..MaxPosts |-> NoPost]

PInit ==
  /\ Init
  /\ asked = [p \in Pages |-> "off"] /\ posts = [p \in Pages |-> NoPosts]
  /\ disabled = [p \in Pages |-> FALSE]
  /\ es = [p \in Pages |-> "null"]
  /\ followed = [p \in Pages |-> 0] /\ announced = [p \in Pages |-> 0]

-----------------------------------------------------------------------------
(* The script.                                                             *)

Disable(p) == disabled' = [disabled EXCEPT ![p] = TRUE]
Reset(p)   == disabled' = [disabled EXCEPT ![p] = FALSE]
CloseStream(p) == es' = [es EXCEPT ![p] = "null"] /\ followed' = [followed EXCEPT ![p] = 0]

\* Fault: a stream that is open already is kept.
StreamLogsOnce(p) ==
  IF es[p] = "null"
  THEN es' = [es EXCEPT ![p] = "connecting"] /\ UNCHANGED followed
  ELSE UNCHANGED <<es, followed>>

StreamLogs(p) ==
  es' = [es EXCEPT ![p] = "connecting"] /\ followed' = [followed EXCEPT ![p] = 0]

\* The page is loaded, or loaded again; what was under way is forgotten.
Load(p) ==
  /\ asked' = [asked EXCEPT ![p] = "sent"]
  /\ posts' = [posts EXCEPT ![p] = NoPosts]
  /\ Reset(p) /\ CloseStream(p)
  /\ announced' = [announced EXCEPT ![p] = 0]
  /\ UNCHANGED vars

\* The answer to the status request, if it is "running".
StatusArrives(p) ==
  /\ asked[p] = "running"
  /\ asked' = [asked EXCEPT ![p] = "off"]
  /\ Disable(p) /\ StreamLogs(p)
  /\ UNCHANGED <<vars, posts, announced>>

\* startBackup
Click(p) ==
  /\ ~disabled[p]
  /\ \E n \in 1..MaxPosts :
       /\ posts[p][n].at = "off"
       /\ posts' = [posts EXCEPT ![p][n].at = "sent"]
  /\ Disable(p)
  /\ UNCHANGED <<vars, asked, es, followed, announced>>

PostAnswered(p, n) == posts' = [posts EXCEPT ![p][n] = NoPost]

\* "Job #... started"
PostAccepted(p, n) ==
  /\ posts[p][n].at = "accepted"
  /\ PostAnswered(p, n)
  /\ announced' = [announced EXCEPT ![p] = posts[p][n].job]
  /\ StreamLogs(p)
  /\ UNCHANGED <<vars, asked, disabled>>

\* Fault: the button is left disabled.
PostFailsDisabled(p, n) ==
  /\ posts[p][n].at # "off"
  /\ PostAnswered(p, n)
  /\ UNCHANGED <<vars, asked, disabled, es, followed, announced>>

\* A refusal (one is running, or the settings are incomplete) or no answer.
PostFails(p, n) ==
  /\ posts[p][n].at # "off"
  /\ PostAnswered(p, n)
  /\ Reset(p)
  /\ UNCHANGED <<vars, asked, es, followed, announced>>

\* The event that ends the stream.
Done(p) ==
  /\ es[p] = "open" /\ status[followed[p]] \in Outcomes
  /\ Reset(p) /\ CloseStream(p)
  /\ UNCHANGED <<vars, asked, posts, announced>>

\* onerror
Disconnected(p) ==
  /\ es[p] # "null"
  /\ CloseStream(p) /\ Reset(p)
  /\ UNCHANGED <<vars, asked, posts, announced>>

\* cancelBackup: the job goes on.
CancelBackup(p) ==
  /\ disabled[p]
  /\ CloseStream(p) /\ Reset(p)
  /\ UNCHANGED <<vars, asked, posts, announced>>

-----------------------------------------------------------------------------
(* The requests at the server.                                             *)

\* apiBackupStatus; any other answer, or none, changes nothing in the page.
StatusHandled(p) ==
  /\ asked[p] = "sent"
  /\ \/ Busy /\ asked' = [asked EXCEPT ![p] = "running"]
     \/ asked' = [asked EXCEPT ![p] = "off"]
  /\ UNCHANGED <<vars, posts, disabled, es, followed, announced>>

\* apiRunBackup starts a job; if it refuses to, nothing changes before the
\* answer arrives.
PostStarts(p, n) ==
  /\ posts[p][n].at = "sent"
  /\ \E r \in Runners : StartJob(r)
  /\ posts' = [posts EXCEPT ![p][n] = [at |-> "accepted", job |-> jobSeq']]
  /\ UNCHANGED <<asked, disabled, es, followed, announced>>

\* apiBackupStream
StreamHandled(p) ==
  /\ es[p] = "connecting"
  /\ es' = [es EXCEPT ![p] = "open"]
  /\ followed' = [followed EXCEPT ![p] = activeJob]
  /\ UNCHANGED <<vars, asked, posts, disabled, announced>>

-----------------------------------------------------------------------------

Handling(p) ==
  \/ StatusHandled(p) \/ StreamHandled(p)
  \/ \E n \in 1..MaxPosts : PostStarts(p, n)

Scripting(p) ==
  \/ StatusArrives(p) \/ Done(p)
  \/ \E n \in 1..MaxPosts : PostAccepted(p, n) \/ PostFails(p, n)

PNext ==
  \/ Next /\ UNCHANGED pageVars
  \/ \E p \in Pages :
       Handling(p) \/ Scripting(p) \/ Load(p) \/ Click(p) \/ Disconnected(p) \/ CancelBackup(p)

PSpec == PInit /\ [][PNext]_allVars

(* Requests are answered, or the browser gives up on them, and jobs end    *)
(* (RunReturns of module Pipeline, given a token file).                    *)
PFairSpec ==
  /\ PSpec
  /\ \A p \in Pages : WF_allVars(Handling(p)) /\ WF_allVars(Scripting(p))
  /\ \A r \in Runners : WF_allVars((Finish(r) \/ Report(r)) /\ UNCHANGED pageVars)

-----------------------------------------------------------------------------
Post == [at : {"off", "sent", "accepted"}, job : 0..MaxJobs]

PagesTyped ==
  /\ asked \in [Pages -> {"off", "sent", "running"}]
  /\ posts \in [Pages -> [1..MaxPosts -> Post]]
  /\ disabled \in [Pages -> BOOLEAN]
  /\ es \in [Pages -> {"null", "connecting", "open"}]
  /\ followed \in [Pages -> 0..MaxJobs] /\ announced \in [Pages -> 0..MaxJobs]
  /\ \A p \in Pages : es[p] = "open" <=> followed[p] # 0

(* Every variable has its type, the table keeps to its length, and a page  *)
(* follows a job exactly when its stream is open.                          *)
PagesOK == TypeOK /\ PagesTyped

(* Once the page has said "Job #... started", the log below it is not that *)
(* of an older job, whatever the order in which the answers to the status  *)
(* request and to several posts arrive.                                    *)
FollowsNew == \A p \in Pages : followed[p] # 0 => followed[p] >= announced[p]

(* The button comes back: no job stays "running", and no order of answers, *)
(* refusals, disconnections and clicks on Cancel leaves it disabled.       *)
ButtonComesBack == \A p \in Pages : disabled[p] ~> ~disabled[p]

(* While the button is disabled something that will enable it is still on  *)
(* its way: an answer to a post, a stream that is being opened, or one     *)
(* that follows a job which has ended or which a goroutine is still in.    *)
Awaited(p) ==
  \/ \E n \in 1..MaxPosts : posts[p][n].at # "off"
  \/ es[p] = "connecting"
  \/ es[p] = "open" /\ (\/ status[followed[p]] \in Outcomes
                       \/ \E r \in Runners : pc[r] = "run" /\ mine[r] = followed[p])

ButtonAwaits == \A p \in Pages : disabled[p] => Awaited(p)

(* "Job #... started": the log and the outcome the page goes on to show    *)
(* are those of that job.                                                  *)
FollowsOwn == \A p \in Pages : followed[p] # 0 /\ announced[p] # 0 => followed[p] = announced[p]

(* "Cancelled.": with the button enabled again no backup is running that   *)
(* the page has started.                                                   *)
CancelStops ==
  \A p \in Pages : ~disabled[p] /\ announced[p] # 0 => status[announced[p]] # "running"

=============================================================================
