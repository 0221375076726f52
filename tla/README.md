# A TLA+ model of pgdrive-backup

pgdrive-backup dumps a PostgreSQL database with `pg_dump`, compresses, encrypts
and uploads it to Google Drive in one stream, deletes old backups, and has a web
interface with live logs, a schedule and settings. This directory holds TLA+
modules of the parts that run concurrently or must survive failures, TLC
configurations that check them on small instances, and proofs for TLAPS that
hold for every value of the constants.

Paths below are relative to `src/`; `main.go` without a path is `cmd/web/main.go`.

## 1. Inventory

| Part | State | Operations | Interacts with |
|---|---|---|---|
| Pipeline: `internal/pipeline`, `dumper`, `compressor`, `encryptor`, `cmd/backup` | pg_dump process, OS pipe, two `io.Pipe`s, two goroutines, the upload | `RunWithLogger` and its stages | Drive client; job log (lines); clean-up |
| Clean-up: `uploader.DeleteOlderThan` | cutoff, page token, count | list a page, delete, next page | the Drive folder, other clean-ups |
| Drive client: `uploader` otherwise | token file, folder ID | `New`, `Exchange`, `Upload`, `ListBackups`, `Download` | everything that uses Drive |
| Job log: `JobRun` in `main.go` | `logs`, `logCh`, `Status` | `appendLog`, `finish`, `snapshot`, `apiBackupStream`, `apiBackupStatus` | pipeline goroutines write, HTTP requests read |
| Job table: `app.jobs`, `activeJob`, `jobSeq` | the same | `startJob`, `currentJob`, `allJobs` | POSTs and schedulers compete for it |
| Scheduler: `startSchedulerWithCtx` | `schedule`, `schedule.json`, `schedulerCtx` | the loop, `apiSaveSchedule`, `saveSchedule`, `loadSchedule` | job table, signal handler |
| Settings: `appSettings` | `cfg`, `settings.json`, environment, token file, Drive client | `loadSettings`, `apiSaveSettings`, `handleOAuthCallback` | everything that reads `a.cfg` |
| Configuration: `internal/config` | none | `Load`, `validate` | `cmd/backup` |
| Decryption: `internal/decryptor`, `cmd/decrypt`, downloads of `main.go` | source, pipe, output files | decrypt, select, download, serve | Drive client, what the pipeline has stored |
| Pages, templates, browser script | the script's `EventSource` | render; start, follow, cancel | the HTTP interface |

What is hard in this code:

- **Concurrency.** Four processes of a backup block on each other. Every browser
  reads the one channel of a job. POSTs and schedulers race for the one job.
  Requests change `schedulerCtx` and read `a.cfg` without a lock. Clean-ups of
  several processes work on one folder.
- **Failure.** Any stage may fail at any moment; errors must not look like the end
  of the data. The exit status of `pg_dump` comes after the upload. Answers of
  Drive may be lost. The process may end between any two steps of a save.
- **Ordering.** Upload, wait, clean-up; snapshot, drain, tail; finish, report; copy,
  truncate, write.
- **Time and numbers.** Durations that wrap, intervals that round to zero, times
  copied before they change.

What makes each part correct: success and clean-up only with a whole archive
(pipeline); only expired files go and each is counted once (clean-up); no line twice
or late, every stream ends with the final status (log); one pipeline at a time (job
table); exactly one scheduler while enabled (scheduler); what was saved comes back
(settings); what is reported as restored is exactly what was stored (decryption); a page
that follows the job it announced, or a later one, and gets its button back (script).
`PROJECT.json` lists the hazards one by one, each at its line and with
the properties that cover it, or the reason why none does.

## 2. Modules

Each module models one component, `RunPage` and `Vault` also the composition of their own
with another: one action per step that other processes can see. Definitions marked "Fault" are not part of the specification. Each is a plausible
mistake in the definition that follows it and makes one property fail, which
shows that the property says something about the code.

### `Pipeline` and `BackupContract`

`Pipeline` models one call of `RunWithLogger`. The goroutine of `RunWithLogger` is
`run`, which goes through

    start > encrypt > connect (> authorize) > upload <> send > commit > wait > cleanup
          > closeEnc > closeGz > returned

An error jumps to the deferred `Close` calls that are due at that point. The other
processes are `pg_dump` (`dump`, `made`), which closes its output before it exits or by exiting
(`DumpCloses`, `DumpExits`), the goroutine of `NewGzipReader` (`gz`) and
that of `NewEncryptingReader` (`enc`). Data are pieces `1..Whole` with the IV in
front and the gzip trailer behind; `Archive(Whole)` is the only object that restores
to the whole database. An `io.Pipe` is a slot for one block with a write end (open, eof,
err) and a read end. A goroutine whose slot is full is blocked in `Write`.
gzip holds back what it likes (`gzBuf`). Every stage may fail at every step. `Cancel` is
the signal of `cmd/backup`; jobs of the web server run with a background context,
which is the same model without that step.

`DumpReady`, `GzReady`, `EncReady` and `MainReady` are the guards of the four processes, and
`StepsLeft` counts the steps that they still have to take. `NeverStuck` and `Shrinks`, stated
with them, are liveness without its fairness: something can go on until all is over, and nothing goes
on for ever.

`BackupContract` is what an operator is promised, in four actions. `Pipeline`
implements it under the mapping `outcome <- result`, `vault <- Vault`, `purged <- purged`.

A run that fails may leave an object too. `StoredIsArchive` says that it is then the archive of
a prefix of the dump, trailer included: only an end of file that the upload believes makes an
object, and that comes behind a closed gzip stream. It is where `Restore` starts from.
`ArchiveFormat` has the definitions that both share.

### `Restore`

One command after another of `cmd/decrypt` (local file, `decrypt`, `download`, `both`) or a
download of the web server (`serve`, `serveDecrypted`), under a key that is right, wrong,
malformed or missing. The command is `run`:

    ask > fetch (> raw) (> save) (> out) > iv > header > copy
        > closeDec > closeOut (> closeRaw) > closeSrc > returned

The web server opens its response (`out`) only after the header. The goroutine of
`NewDecryptingReader` is `dec`; it also writes the copy that `io.TeeReader` makes. A wrong key
turns every byte into `Junk`, which only gzip notices. `raw` and `out` survive a command, so
a local decryption reads what an earlier download, complete or not, has left. Every read,
write and open may fail, and the objects on Drive are those that `StoredIsArchive` allows.
The result of a request is what the browser makes of the response.

Closing a file of a command may fail too, and then it may hold only the beginning of what was written
(`CloseOutFails`, `CloseRawFails`). The code logs that, after it has logged the success, and exits with
status 0 (`closeTarget`); the result is then "doubt". The copy and the output of one command are taken to be two
different files: nothing in the code keeps a user from giving one path for both, and the result is
then neither of the two.

`RestoreContract` is what whoever needs the backup relies on, in six actions (`Ask`, `Open`, `Write`,
`Tell`, `Revoke`, `Close`): files are touched only while the source is open and before "ok" has been said, and "ok" is
said only when they hold what was asked for (`Delivered`: the archive's data, the copy, or both). It is
taken back only by telling so (`Revoke`).
`Restore` implements it under `told <- result`, `source <- srcR`, `disk <- files`, `good <- Delivered`.
`RestoredIsArchive` follows the object back to the dump: since it is complete, it is the archive of some
beginning of the dump, and that beginning is what has been written.

### `Retention`

`DeleteOlderThan`, run by several `Cleaners` on one folder. `Start` fixes the cutoff
with the arithmetic of `time.Duration` (`Wrap`), `ListPage` gets a page of at most
`PageSize` files, `Skip`, `Delete` and `DeleteFails` deal with the files of
a page, `NextPage` goes on or ends. `DeleteFails` includes a lost answer: the file
is gone although the caller sees an error. Uploads and the clock go on.

`CleanupLeft` bounds the steps a clean-up still has to take: three for each file it has not been
shown (a page, a deletion, the next page), so uploads and deletions of others do not lengthen it.

### `Vault`

Backup runs on one folder: each run stores its file, which may be a part of a dump, waits for
`pg_dump`, and cleans up with the steps of `Retention`, while others do the same. A run may fail
at every step before its clean-up and be killed in it. `KeepContracts` has one instance of
`BackupContract` per run, so what `Pipeline` implements against an abstract clean-up holds with
the real one. `NeverTheLast` is about all of them: no run looks at what others delete, the
cutoffs differ, and parts count as backups, and yet the last whole backup stays, as long as no
clean-up has begun for which the backup of its own run was expired already (`OwnInv`). The reason is
that a run begins to delete only when its own file is whole. The condition belongs to the property and
not to the model: `Begin` is as the code, however long `pg_dump` takes to exit after its output has been
uploaded. It fails when that is longer than the retention period, and at `RETENTION_DAYS=0`, which
`config.Load` accepts, as soon as a tick passes: such a clean-up deletes every backup, its own included. `OwnInv` as an invariant of `Vault_run.cfg` shows
both, the second with `RetentionDays = 0`.

### `JobLog`

`JobRun` and `apiBackupStream` for any number of `Viewers`. Lines are numbered.
`AppendLog` is `appendLog`, which drops a line when the channel is full; `Connect`
is `snapshot()` with the lines sent from it, `Drain` one turn of the drain loop, `Receive`
one turn of the loop after it, `SeeClosed` the closed channel in either. Lines may
come after `Finish`, from the goroutine of a failed run. What is sent to a
slow browser waits in its connection.

`StreamContract` is what a browser sees: lines of the job, each once, in order, none that was not
logged, and at the end, once, the final status. `JobLog` implements it with its own variables.

### `Jobs`

`startJob` under `jobsMu`, the goroutine of each job (`Finish`, then
`Report` = `updateScheduleLastRun`), and the table cut to `HistoryCap`. The
comment at the head of the module argues why `finish`, which writes the status under
another mutex, can be one step.

`JobsContract` is what users and scheduler rely on: runs begin and end one after the other (`Begin`,
`End`), an outcome is never changed, the history is the newest runs at every moment, and "Last run" is
the outcome of a run that has ended (`Record`; of the newest one it is not always, see
`LastRunIsNewest` below). `Jobs` implements it with `runs` read off the statuses and `working` off the
goroutines.

### `RunPage`

The script of the run page on top of `Jobs`: the status request of a page that loads, the posts
of its button, the `EventSource`, and Cancel, which closes the stream and leaves the job
alone. Answers are steps of their own, so they arrive in any order and after whatever the user
does meanwhile. A stream follows the job that is active when its request is handled, which is
what `apiBackupStream` does, and ends with the final status, which is `ToldFinal` and
`StreamsEnd` of `JobLog`. The badge and the texts are left out.

### `Scheduler`

The schedulers, `apiSaveSchedule` as three steps and the save (`Apply`, `Marshal`,
`Truncate`, `Write`, `Cancel`, `Spawn`), manual backups (`Hands`; the next may start while the last
still saves), the signal handler, and `Restart`, which may cut off every other action. `saveSchedule`
copies under the lock (`Marshal`) and writes outside it (`Truncate`, `Write`); the error of a write that
fails (`SaveFails`) is dropped, so the file stays as it was, empty or a part. Points in time are stored as
the ticks that are left, so the clock needs no bound.

### `Settings`

`loadSettings` is `Merged`, the form `Submitted`, and the save a sequence of steps like
the scheduler's, here with errors. A client remembers the folder and the context it
was made with; `Expire` and `Refresh` are the life of its access token. The token file
is torn between `TruncateToken` and `EncodeToken` of the OAuth callback; `HasToken` and
`Reconnect` read it one after the other, and `Asks` is `uploader.New` waiting at the terminal.
`Accepts` is `toBackupConfig`, with the keys that have 64 characters as `KeyTexts`. Three
fields stand for the eleven: one that can be cleared, the key, and one with a default.

### Composition

| Interface | Where |
|---|---|
| A run ends (`RunReturns`) | assumed by `JobLog`, `Jobs`, `Scheduler` as fairness of `Finish`, `RunEnds` and `ManualEnds` |
| Lines after the end of a job | `GoroutinesEnd` of `Pipeline` is why `JobLog` allows them |
| One job at a time (`OneAtATime`, within `KeepsTable`) | `busy` of `Scheduler` |
| The clean-up of a run | `CleanupDeletes` and `CleanupEnds` of `Pipeline`; in detail `Retention`; `Vault` composes runs and clean-ups |
| What a run leaves on Drive | `StoredIsArchive` of `Pipeline`; the objects of `Restore` |
| The job and its page | `RunPage` extends `Jobs`; of `JobLog` it takes how a stream ends |
| `LastStatus` of the schedule | in `Jobs`, not in `Scheduler` |
| `toBackupConfig` accepts | `configOk` of `Scheduler`, which a restart does not change: `StaysAccepted` of `Settings` |

## 3. Runs

One run per module checks what holds, safety and liveness together; `Vault_run` covers
`Retention` and `Jobs_run` covers `RunPage`, with what they are composed of. The scheduler has
two runs, since its liveness needs the manual backups and its safety the restarts.

| Run | Checks | Bounds |
|---|---|---|
| `Pipeline_run` | types, `NeverStuck`, `WaitAfterDrain`, `Conserved`, `StoredIsArchive`, `KeepsContract`, `RunReturns`, `GoroutinesEnd`, no deadlock | 3 pieces, OS pipe of 2 |
| `JobLog_run` | types, `KeepsStream`, `SoleViewerSeesAll`, `NoSendAfterClose`, `StreamsEnd` | 2 browsers, channel of 2, 4 lines |
| `Restore_run` | types, `RestoredIsArchive`, `CopyIsExact`, `Conserved`, `KeepsContract`, `CommandEnds`, `DecryptorEnds`, no deadlock | 2 pieces, 3 commands |
| `Vault_run` | types, `KeepsYoung`, `CountsEachOnce`, `Thorough`, `NeverTheLast`, `KeepContracts`, `CleanupsEnd` | 2 runs, 1 older file, pages of 1, a period of 1 tick, clock from 0 to 2 |
| `Jobs_run` (module `RunPage`) | types (`PagesOK`), `KeepsTable`, `RunningHeads`, `FollowsNew`, `ButtonComesBack` | 1 page with 2 posts at once, 2 goroutines, table of 2, 3 jobs |
| `Scheduler_safety` | types, `OneScheduler`, `EnabledIsServed` | 1 request at a time, 1 scheduler next to the first, intervals 0 and 1, a signal, 1 restart |
| `Scheduler_live` | `BackupsKeepComing`, `DisabledGoesQuiet` | 1 manual backup at a time, 1 scheduler next to the first, interval 1, failing writes |
| `Settings_run` | types, `SurvivesRestart`, `KeyKept`, no deadlock | 1 value of the environment, 1 of the form, 1 request at a time |

Some properties are proved but in no run, because one of a run says as much or more:
`SuccessIsWhole` and `PurgeNeedsWhole` (`KeepsContract`), `InOrder` and `ToldFinal` (`KeepsStream`),
`OneAtATime` and `NewestFirst` (`KeepsTable`), `SourceFirst` (`KeepsContract` of `Restore`),
`RestoredIsExact` (`RestoredIsArchive`) and `StaysAccepted` (`SurvivesRestart`). The others are the safety halves
of liveness properties that a run checks: `Shrinks`, `CleanupShrinks`, `WindsDown`, `GoesQuiet`,
`ButtonAwaits`, and `NeverStuck` of `Restore`; and `LoneDrainsShown`, what remains true of the comment
that `JobLog_drain` refutes. Each can be checked as a property of the configuration
of its module (for `Retention`, that of `Vault`).

Why the bounds are enough for what they are to show:

- `Pipeline`: three pieces fill the hand-overs of both pipes and the compressor at once
  with the OS pipe still in use, so every stage can be blocked on the next.
- `JobLog`: with four lines and a channel of two, lines are dropped before, between and
  after the snapshots of both browsers.
- `Restore`: two pieces put data into the pipe and behind it when gzip has the header. Three
  commands are a download that is interrupted, a decryption of what it left, and another one.
- `Vault`: an older whole backup and two runs, each of which can expire the file of the other
  and list the same files. Pages of one file give every listing several pages, with uploads
  in between. A file uploaded at the start expires before the clock ends, also before the
  clean-up of its own run if `pg_dump` takes long to exit.
- `Jobs_run`: a table of two is full after two jobs and cut by the third. Other pages and the
  schedulers are the goroutines that start jobs by themselves. With two posts at once an
  answer can be overtaken by another and by that of the status request.
- `Scheduler`: a scheduler in a backup and its successor are alive at once, and either may
  be the one that is replaced next; interval 0 is an enabled schedule without a
  scheduler; the signal and the restart can hit every step. `Spawn` waits for a free
  identity when all are taken, which leaves out behaviours with more schedulers alive
  than identities. For safety `SchedulerProofs` covers any number of them, and any number of manual
  backups at once, and failing writes, which `Scheduler_safety` does without. `Scheduler_live` has failing
  writes and one manual backup at a time: a second adds a writer of the file, at which no running
  scheduler looks, and the job goes to one of them only.
- `Settings`: the environment and the form have a value of their own besides blank and
  default, for each field, so it shows where a setting comes from; one of them is long enough for a key.

The constants that only bound a run are `MaxLines`, `MaxJobs`, `MaxPosts`, `MaxCommands`,
`LastTime` and `MaxRestarts`. Restarts of `Settings` and loads of a page are not bounded.
Deadlock is checked for `Pipeline`, `Restore` and `Settings`; the other systems may really stop, because nobody has to press a button.

### Fairness

Weak fairness only: a goroutine that can run continuously does run.

- `Pipeline`: `DumpWrites` and the exit after the last piece (`pg_dump` goes on while
  there is room), the goroutines, and `Main`. A request to Drive is answered or
  fails. Nothing has to fail, nobody has to answer the authorization prompt, and gzip may hold
  data back until the end of its input. `RunReturns` is therefore stated for a
  run that finds a token file: without one `uploader.New` reads from standard input.
- `JobLog`, `Jobs`, `Scheduler`: a run returns, which is `RunReturns`. In
  `Scheduler` also the clock.
- `RunPage`: in addition requests to the server are answered, or the browser gives up on
  them. Nobody has to click.
- `Restore`: every read and request is answered or fails, and goroutines run; nobody has to
  answer a prompt, so `CommandEnds` begins behind the prompts.
- `Vault`: every request of a clean-up is answered or fails, until its process is killed. A
  run need not get as far as its clean-up.

### Where the code and its documents disagree

Each of these runs ends in a counterexample to something the repository says.

| Run | The repository says | What happens |
|---|---|---|
| `Pipeline_stored` | decrypted output is "suitable for `pg_restore`" (`README.md:161`) | `pg_dump` fails after part of its output is uploaded; the truncated object stays. |
| `JobLog_drain` | "Drain the items already sent via the snapshot" (`main.go:589`) | With two browsers it throws away lines that the browser was never sent. |
| `Scheduler_saved` | "Schedule saved." (`main.go:473`) | A copy made before the change is written after it. |
| `Settings_connected` | "Google Drive connected successfully!" (`main.go:495`) | The client cannot renew its token: its context was the request's. |

Ten more disagreements are stated as definitions that no run checks. To see one, check
it in the configuration named, with the change given.

| Definition | The repository says | What happens | Seen with |
|---|---|---|---|
| `ReaderClosedOnReturn` | "The caller is responsible for closing the reader." (`internal/dumper/dumper.go:13`) | On an error before the wait nobody closes it, and `pg_dump` stays blocked. | `Pipeline_stored.cfg` |
| `LastRunIsNewest` | "Last run:" with its status (`main.go:1329`) | The slot is free before the status is recorded; an older job overwrites a newer. | `Jobs_run.cfg` |
| `NextRunIsShown` | "Next run:" (`main.go:1328`) | A replaced scheduler in a backup overwrites the time with its old interval. | `Scheduler_saved.cfg`, `Intervals = {1, 2}` |
| `EnabledIsServed` | "When enabled, backups run automatically" (`main.go:1313`) | Two requests at once cancel the wrong scheduler. | `Scheduler_saved.cfg`, `Savers = {w1, w2}` |
| `FileWins` | `settings.json` "takes highest precedence" (`main.go:122`) | A cleared field comes back from the environment. | `Settings_run.cfg` |
| `ClientFollows` | "applied immediately" (`main.go:1377`) | The client keeps the old folder if `uploader.New` fails or the folder is cleared. | `Settings_connected.cfg` |
| `NeverAsks` | "so subsequent runs are fully automatic" (`internal/uploader/uploader.go:35`) | The token file is truncated before it is written; a save of the settings that reads it in between waits at the terminal. | `Settings_connected.cfg` |
| `KeepsYoung` | "deletes backups older than N days" (`README.md:22`) | More than 106751 days wrap around; 200000 deletes everything. | `Vault_run.cfg`, `RetentionDays = 5` |
| `ServedIsExact` | "Output is a `pg_dump --format=custom` archive" (`main.go:1227`) | The error of `io.Copy` is dropped (`main.go:818`), and a truncated response ends like a complete one. | `Restore_run.cfg` |
| `FollowsOwn`, `CancelStops` | "Job #... started", "Cancelled." (`main.go:1280`, `main.go:1293`) | The stream is that of a later job if the announced one ends first; Cancel only closes the stream. | `Jobs_run.cfg` |

## 4. Proofs

The proofs hold for all values of the constants that satisfy the `ASSUME` of each
module (sizes and capacities are positive, sets are subsets of what they should be).

**`PipelineProofs`.** The invariant `IInv` ties the phase of `RunWithLogger` to the
goroutines (`PhaseInv`, `DumpInv`, `GzInv`, `EncInv`), the ends of the pipes to the data
(`DriveInv`), and has `TypeOK` and `Conserved`. `SuccessIsWhole` is not inductive: it needs that
end-of-file on the encrypted pipe is only ever set behind all data, which needs the same
of the gzip pipe, which needs that `pg_dump` has exited and its pipe is empty.
With `Conserved` the upload that sees end-of-file has read
`Archive(made)` (lemma `EOFMeansArchive`), and exit status 0 gives `made = Whole`. Proved
from it: `TypeOK`, `SuccessIsWhole`, `PurgeNeedsWhole`, `WaitAfterDrain`, `Conserved`, and
`KeepsContract`, the refinement of `BackupContract`, with one step for each action. `StoredIsArchive`
needs one thing more: once the last request has been sent, what it sends does not change.

`NeverStuck` rests on who waits for whom: a stage that cannot write waits for its reader, one that
cannot read waits for its writer, and the invariant says which ends are open when
(`WaitInv`: which goroutines `Run` has started at each of its phases, and which of its deferred
`Close` calls it has made). A cycle would need a reader that waits for an empty pipe and a writer that
waits for the same pipe to empty (lemma `SomebodyReady`). `Termination` proves `Shrinks`: every step
makes `StepsLeft` smaller, which begins at `6 * Whole + 28`. Each block counts once for every
stage it still has to pass.

**`RestoreProofs`.** `Conserved` says where the bytes of the object are while they are on their
way; beside it the invariant says what each end of the pipe means (end of file only behind an
empty source), that the copy of `both` lags behind the object by what is unread, and
that gzip's verdict is reached only with everything read. Proved for dumps of any length and any
number of commands: types, `RestoredIsExact`, `CopyIsExact`, `Conserved`, `SourceFirst`. `RestoredIsArchive`
needs in addition that every object and every file a command is given is the beginning of some
archive (`CutInv`); a complete one is then the archive of that prefix (lemma `SealedIsArchive`).
`Implements` is the refinement of `RestoreContract`. `Progress` (`NeverStuck`) and `Termination`
(`Shrinks`: `3 * Whole + 20` steps for a command and its goroutine together) are as for the pipeline.

**`JobLogProofs`.** That no line is shown twice rests on counting: the i-th item of the
channel is at least line i (`ChannelInv`), so after as many items as the snapshot has lines
only later lines come (`BehindInv`), whoever took the others. `FollowInv` is the
invariant behind `SoleViewerSeesAll`: for a browser alone on the job every line is shown
or waiting, and what it will throw away is shown. Proved: `TypeOK`, `InOrder`,
`ToldFinal`, `SoleViewerSeesAll`, `NoSendAfterClose`, and `KeepsStream`, the refinement of
`StreamContract`. `LoneDrain` shows that the comment refuted by `JobLog_drain` is right
for a browser alone on a job of at most `LogChCap` lines (`DrainInv`: while it drains, it has
sent its snapshot only). `Ending` proves `WindsDown`: once the job has finished a stream never waits, and
has `LogChCap + 1` steps at most.

**`RetentionProofs`.** `BaseInv` has the types and the counting; `CutInv` relates cutoffs
to the clock; `SweepInv` says which expired files a clean-up has still to come to.
`TypeOK` and `CountsEachOnce` hold without any condition. `KeepsYoung` and
`Thorough` are proved under `NoOverflow` (the period is not negative and fits into a
`time.Duration`), which `config.Load` does not guarantee; the table of section 3 shows
what happens without it. `Ending` proves `CleanupShrinks` for a finite folder, by counting the files that
have been on no page yet.

**`VaultProofs`.** `IsRetention` makes a step of `Vault` a step of `Retention`, so the theorems
above carry over. `NeverTheLast` is not inductive: a clean-up knows its own cutoff only.
The strengthening (`KeepInv`): as long as `OwnInv` holds, there is among the whole files in the folder one
that is expired for no clean-up that has begun. A clean-up that begins restores it with its own
file, which is not older than any cutoff taken so far, and no deletion can touch that file. `LastStays`
holds for every `RETENTION_DAYS`, since a period of 0, a negative one and one that wraps around only make
`OwnInv` fail. `PromptRunsKeep` says when `OwnInv` does hold: under `NoOverflow`, if every `pg_dump` exits within
the retention period after its upload (`PromptExits`), an assumption about the environment that no code
enforces and that says next to nothing at 0 days. `Contracts`, which has no condition, rests on who has deleted what
(`GoneInv`, `OwnInv`). `CleanupsEnding` carries `CleanupShrinks` over.

**`JobsProofs`.** `OneAtATime` alone is not inductive because `startJob` looks only at the active
job; together with `RunningHeads` it is. Proved: `TypeOK`, `OneAtATime`, `RunningHeads`,
`NewestFirst`, and by `IsJobs` the same of `RunPage`. `FollowsNew` rests on `PageInv`: jobs in answers
that are under way, and announced ones, are not newer than the server's active job, which
never goes back. `Implements` is the refinement of `JobsContract`; that the job that ends is the last
one in the sequence is `RunningHeads` with `ActiveInv` (the active job is the newest). `Awaits` is
the safety half of `ButtonComesBack`: a disabled button always has an answer or a stream on its way
(`AwaitInv`), and a stream never follows a job that nobody is in and that has no outcome (`OwnedInv`).

**`SchedulerProofs`.** All of it holds for any number of manual backups at once, with or without
failing writes. `TypeOK`, which says that the job is taken exactly when a goroutine
is in a backup, holds without any condition. `OneScheduler` and `EnabledIsServed` are proved
under `OneTab`: at most one request changes the schedule at a time, because
`schedulerCtx` has no lock; the table of section 3 shows what two do. Neither is inductive:
between `Cancel` and `Spawn` the schedule may be enabled with nobody to serve it, and a
scheduler that still went on then would be orphaned by `Spawn`. `ChangeInv` says what the
request knows at each of its steps: until `Cancel` its `wants` is what the
schedule has, and at `Spawn` nobody goes on. Lemma `CarryOver` has the steps that start no
scheduler and end none that is wanted: all but `Apply`, `Cancel`, `Spawn` and `Restart`.
`OneBackup` (two processes are never in a backup at once) needs no condition. `Quiet` proves `GoesQuiet`,
the safety half of `DisabledGoesQuiet`, also under `OneTab`: by `EnabledIsServed` whoever is left when the
schedule is disabled has been cancelled, so it does not wait for its time, and each of its steps leads down.

**`SettingsProofs`.** `TypeOK` holds for any number of requests at once. `SurvivesRestart`, `StaysAccepted`
and `KeyKept` are proved under `OneRequest`: `saveSettings` writes outside the lock, so the buffer of a
request is what is in force (`BufferInv`) only if no other changes it meanwhile.

Only model-checked: the liveness properties `RunReturns`, `GoroutinesEnd`, `StreamsEnd`, `CleanupsEnd`,
`CommandEnds`, `DecryptorEnds`, `ButtonComesBack`, `BackupsKeepComing` and `DisabledGoesQuiet`, since
fairness is stated with ENABLED, which is out of this prover's reach. Of all but `BackupsKeepComing`
the part that needs no fairness is proved, as said above: for `RunReturns`, `GoroutinesEnd`, `CommandEnds`
and `DecryptorEnds` it is `NeverStuck` with `Shrinks`, and what remains is that the guards in `NeverStuck`
are the enabling conditions. That is `GuardsExact` of `Pipeline` and `Restore`, an invariant TLC can check
but TLAPS cannot; it is in no run, since it is about the formulas and not about the code.

## 5. What is not modelled

- `ListBackups`, `sortBackups`, the prompts and the index of `-select`: they choose an object and
  change no state. That an index means another backup when the list has changed since `-list`
  is therefore not seen, nor that `-input` with `-output <dir>` fails although the usage allows it.
- `config.Load` as a function, and where it differs from `toBackupConfig` (white space, a
  retention period of zero or less).
- That `os.Create` truncates an existing output before key, IV and gzip header are known to be good:
  it is in the model, but nothing promises otherwise.
- Several requests to `/api/settings/save` at once (the proofs and runs have one), and a
  backup that copies `a.cfg` while it changes.
- Ctrl-C in `cmd/decrypt`, which ends the process or, on Drive, is one of the failing reads.
- Templates, formatting, progress messages, request logging, Makefile and Dockerfile.
- Drive itself, beyond answering or failing: page tokens are taken to keep their
  place, `createdTime` and the local clock to be one clock.

## 6. Plan

1. **Selection** and **Configuration**: `sortBackups`, `chooseBackup`, `resolveAction`, `config.Load`,
   `validate` and `toBackupConfig` as operators against a reference definition over bounded
   inputs.
2. **Settings** with several requests at once, and the configuration a run copies from `a.cfg`
   while it changes.
3. **RunPage on JobLog**: the stream of a page with its lines, which are shown twice after a
   reload (once from the status answer, once from the stream).

## 7. Running

    tlc -config Pipeline_run.cfg Pipeline
    tlapm PipelineProofs.tla

A configuration `X_y.cfg` belongs to module `X`, but `Jobs_run.cfg` to `RunPage`.
