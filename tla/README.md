# Verification of the Offline Content Generator

The Offline Content Generator (OCG) renders collections of wiki articles
("books") to files. A MediaWiki extension asks its HTTP frontend to render a
book; the request becomes a job in redis; a backend worker on some host runs a
bundler and a renderer for it as child processes; the extension polls the
status and downloads the file. A collector removes what has become old. All of
it is single-threaded node processes that meet in redis and on the disk, so
the behaviour that matters is in the order of their redis commands, file
operations, timers and deaths. This directory models that behaviour in TLA+,
checks it with TLC, and proves part of it with TLAPS.

Paths below are relative to the repository (`src/lib/...`); `frontend.js`,
`backend.js` and `gc.js` are in `src/lib/threads/`.

## 1. Inventory

| Component | State | Operations | Module |
|---|---|---|---|
| Job status objects (`JobDetails.js`) | one JSON object per collection id | construct, progress, error, finished, deserialise | `JobDetails` |
| Job store (redis via `RedisWrapper.js`) | list of ids, hash id -> status | RPUSH+HSET in one MULTI, BLPOP, HGET, HSET, LLEN, HDEL, HSCAN | `JobStore` |
| Frontend, `render` (`frontend.js:449-629`) | one promise chain per request | checks, cache and lockout, admission, insertion, reply | `Frontend` |
| Frontend, `render_status`, `download_file` (`frontend.js:631-742`) | one promise chain per request, a stream | HGET, stat, stream | `Retrieval` |
| Frontend, `health` and folder sizes (`frontend.js:368-440, 807-876`) | cache path -> promised size | compute, expire, sweep, clear | `FolderSize` |
| Frontend, collection ids (`frontend.js:752-800`) | none | hash a metabook | `CollectionId` |
| Backend workers (`backend.js:122-410, 507-699`) | job in memory, scratch files, child process | fetch, bundle, render, report, clean up, die | `Backend` |
| Child processes (`backend.js:430-476`) | two timers, a promise | error, exit, time limit, kill | `ForkedChild` |
| Status collection (`gc.js:113-204`, `clear-host-cache.js`, `clear-time-range.js`) | an HSCAN in progress | scan, decide, HDEL | `StatusGC` |
| Queue clearing (`clear-queue.js`) | the batch in hand | LRANGE+LTRIM, HGETs, HSETs | `ClearQueue` |
| File collection (`gc.js:206-317`, `backend.js:484-505`) | a traversal in progress, the directories | lstat, readdir, unlink, rmdir; mkdirp, utimes | `FileGC` |
| Coordinator (`mw-ocg-service.js`) | threads, respawn timers | spawn, respawn, shut down | `Coordinator` |
| Redis connection (`RedisWrapper.js:40-95` and the `opened` and `closed` handlers of the threads) | `connected`, the loops it has started | opened, closed, error | `RedisConnection` |
| Configuration, logging, StatsD, CLI, load test | - | - | not modelled: no state the rest reads back |

**Interactions.** A frontend inserts an id and its status in one transaction. A
worker takes the id with BLPOP, reads the status, and from then on writes its
own copy of the object back at each stage; nobody compares before writing.
Nothing stops an id from being queued twice, and two workers of a host that run
the same id share all scratch files. The collector deletes status objects and
files on its own clock, without looking at the queue, and operators run scripts
that delete status objects or empty the queue of a live service. Downloads look
at a status, then at the file it names, then open it. Threads die when redis is
lost or on an unexpected error; the coordinator replaces them. A worker that dies takes
its job with it: nothing looks for such jobs.

**What is hard.** Several requests between a check and an insertion; the same
id with several workers; a status overwritten by a copy read long before;
objects that vanish between a scan and a deletion or between a queue and its
worker; threads and children that end at any point, and messages of a child
that node hands over after its exit; a directory that is emptied while another process fills it; timers against late events; error,
end and ready events of a connection in any order; sizes cached at several
levels and shared as promises. Each is
listed with its line in `PROJECT.json` under `hazards`.

**What makes the components correct.** Every accepted job has a status of its
own and reaches an outcome, unless its worker dies. A status that clients poll
for is always somebody's concern. A finished status names a file. Scratch files
do not outlive jobs. Refused requests are answered, the queue stays bounded.
The coordinator keeps the configured number of threads. Children over their
limit are killed, and only they are. The collector removes old things, not
those in use; a finished status can be downloaded as long as it is there. A
thread works once per connection and notices its loss. Reported sizes are not
older than the cache allows. An identifier tells collections apart.

## 2. Modules

```
JobDetails <- JobStore <- Frontend, Backend <- RenderService <- MCRenderService
                       <- StatusGC, ClearQueue
RenderService, StatusGC, ClearQueue <- MaintainedService <- MCMaintainedService
RenderService --refines--> JobBoard <- MaintainedBoard <--refines-- MaintainedService
FileGC <- Retrieval
Coordinator, ForkedChild, RedisConnection, FolderSize, CollectionId

RenderService     <- RenderServiceProofs      MaintainedBoard <- JobBoardProofs
MaintainedService <- MaintainedServiceProofs  Retrieval       <- RetrievalProofs
RedisConnection   <- RedisConnectionProofs    FolderSize      <- FolderSizeProofs
Coordinator, ForkedChild <- ProcessProofs     CollectionId    <- CollectionIdProofs
```

* **JobDetails** – the status object as a record with the fields that other
  code reads: id, book, writer, state, timestamp, host, location. `book` is
  "full" or "empty": the metabook matters only in that an empty one makes the
  last stage throw. `UpdateProgress`, `UpdateError`, `UpdateFinished`,
  `FromJson` are the code's updates; deserialising nothing yields the default
  object with id 0 (`PhantomId`).
* **JobStore** – `queue`, `status` and `now`. Redis runs one command or one
  MULTI block at a time, so each is atomic.
* **Frontend** – `req[r].pc` is what the promise chain of request `r` waits
  for: `hget`, `llen`, `push`. `HandleRender` is everything before the first
  redis command, `DetermineCachedStatus`, `CanIRender` and `AddRenderJob` what
  follows each reply, `RedisFails` the catch handlers. The answer's code is
  what the code hands to `writeHead`.
* **Backend** – `wpc[w]` is what worker `w` waits for. `item` is the id it
  popped, `details` its in-memory object (after the job, the one that the
  handlers of its children's messages go on to hold), `scratch` the names the job has
  assigned, `files` and `outputs` what is on disk. One action per reply or
  event: `GetNewItemFromQueue`, `NewItemFromQueue`, `RunBundler`,
  `ProcessReceivedMessage`, `BundlerExits`, `RunRenderer`, `RendererExits`,
  `Finish`, `ReportError`, `Cleanup`, `Crash`. `ProcessReceivedMessage` asks, like
  the code, only whether there is a child to hear (`ChildHeard`), not whether its
  job is over.
* **RenderService** – their composition, and four history variables:
  `crashes`, `orphaned` (ids whose worker died before the outcome was
  published, or whose outcome redis refused: `WorkerUnheard`), `reopened` (ids whose outcome,
  or later pending status, a late message has overwritten, until the next
  outcome or request) and `littered` (where workers died). Its safety properties and
  its liveness properties are here.
* **JobBoard** – what clients may rely on, without redis or disks: jobs are
  accepted into a backlog, taken to desks, shown as pending, in progress,
  finished or failed, or given up when the one at the desk disappears or is not heard.
  A worker may repeat a report on the job it cleared off its desk last, until it
  falls silent about it. The actions are `Accept`, `Take`, `Report`, `Settle`,
  `GiveUp`, `Echo` and `Quiet`; the refinement mapping in
  `RenderService` is `backlog <- queue`, `board <-` the state shown by the
  status, `desk <-` the item of a worker that has not settled it, `cleared <-` the
  id in the details a worker holds of a job that is over, `givenUp <- orphaned`, and
  `reopened` as it is.
* **MaintainedBoard** – the job board when others tidy up: a job may be taken off
  the board (`Discard`), a worker that does not find its job there works on a
  phantom (`Mistake`), and a clearer cuts jobs off the backlog, spares those
  that have settled, and writes the others off or abandons them (`CutOff`,
  `Spare`, `WriteOff`, `Abandon`). `MaintainedService` refines it with the
  mapping of `RenderService` and `cut <-` the ids the script has cut off and not
  yet seen settled.
* **StatusGC** – one or more runs of `cleanJobStatusObjects`, for any of its
  callers: the collector thread and `run-garbage-collect` (expired objects),
  `clear-host-cache` and `clear-time-range`, with or without `--force`.
  `scan[c]` holds the keys still to be read and the ones condemned by a value
  read earlier. `HasHscan` chooses between HSCAN and its emulation.
* **ClearQueue** – `clear-queue`, one action per MULTI block; LRANGE lists one
  id more than LTRIM cuts off, as in the script.
* **MaintainedService** – the service with collectors and the script. What a
  script that dies had cut off joins `orphaned`.
* **Coordinator** – threads are counted per type. A death (`ThreadDies`,
  `ToldThreadExits`) leads to `Respawn`: at once, after a timer, or not at all
  during a shutdown. Times are relative, so the clock is unbounded. The history
  variable `began` holds the ages of the last starts of each type, as many as
  there are threads of it.
* **ForkedChild** – the promise of `fork`, its two timers, and a child that may
  do anything. What the parent knows (`connected`, the exit event) lags behind
  what the child does (`channel`, `proc`).
* **FileGC** – the two directories with mtimes, jobs that write there, and
  `cleanDir` with one task per directory entry and one action per system call.
* **Retrieval** – `render_status` and `download_file` composed with `FileGC`:
  `conn[c].pc` is what client `c`'s request waits for. A stream that cannot be
  opened emits an error nobody listens to, which takes the thread down with
  everybody's requests.
* **RedisConnection** – the client library's connection (`link`), the wrapper's
  flag (`connected`), and per thread the loops or timers that `opened` started
  and the jobs in hand. `closed` ends workers and collectors and drains
  frontends; `Respawn` is the coordinator's.
* **FolderSize** – a directory in a directory, its cache, and promises of sizes
  as objects that several requests hold. A size is the time when it was read,
  so that staleness can be stated.
* **CollectionId** – the sequence of lines that is hashed, and a service that
  hands out the document of an equal identifier, until the collector removes its
  status.
* `MC*` modules hold constant values. `ForkedChild`, `FileGC` and `Retrieval`
  need none.
  Definitions marked "Faulty" are plausible slips of the code; no
  specification uses them. Each property is shown to fail when one of them
  takes the place of the right definition.

### How the code was abstracted

* Everything between two asynchronous replies of one chain is one action, since
  a node process runs it without interruption.
* An HSET that a worker issues takes effect at once: commands on one
  connection are executed in order and the next one of the same worker waits
  for it.
* The loss of redis in a worker is `Crash`: `startBackend` stops the thread.
* Redis may refuse a command without losing the connection (it is out of
  memory, say). `RedisFaults` is the set of commands that may fail. A refused
  report of progress is lost (`Report`), or fails the job if it is the
  renderer's first (`RunRenderer`); a refused outcome is only logged, and the
  status stays in progress for ever (`ReportLost`). Lost BLPOP and HGET replies
  of a worker are not told from its death.
* A phantom job fails before `mkdir`, on a path made with the number 0; the
  model lets it go as far as the check of its writer.
* The moves to the post mortem directory are part of `Cleanup`, and rimraf is
  assumed to succeed.
* The handler of a child's messages is never detached (`backend.js:456`), so a
  status message that node delivers after the exit event is handled like any
  other. The model takes such messages until the worker holds the details of
  its next job, a bound of the model: node closes the channel of a child soon
  after its exit. `RunBundler` is the step after which there is a child.
* After the loss of a worker its scratch directory makes `mkdir` fail for the
  next job with that id on that host; the clean-up of that job removes it.
* In `StatusGC` HSCAN returns keys one at a time and none twice. The times that
  `clear-time-range` looks at are not kept: it may condemn any object and pass
  over any, so its runs include those of every other caller.
* In `FileGC` `finished` is about finished statuses. A job that starts again on a
  finished status (its id was queued twice), or that is heard late, goes on to name
  the file of its earlier run; `HandleDownloadFile` looks for it, and nothing is
  promised of the outcome. That the reports of a job reach redis is taken for
  granted here. An id stands for its one rendered file and its one scratch entry,
  all ids share one prefix directory, runs do not overlap, and the collection
  of status objects that begins a run is one step (`StatusGC` has it in
  detail). The post mortem directory is cleaned by the same code and left out.
* In `Retrieval` a file that is open can be read to its end, as unix has it, and
  requests that a dying thread takes down are answered "broken".
* In `RedisConnection` commands that are outstanding when the connection is lost
  fail, and so do commands sent before it is ready (`enable_offline_queue:
  false`). Error events while connected are counted, because each of them
  allows one undetected loss.
* In `FolderSize` two levels stand for a tree of any depth, lstat and the
  continuation are two steps, and a promise is a token, free again when neither
  the cache nor a request holds it. Files themselves are not listed: a change of
  content is a change of the directory's mtime.
* In `CollectionId` SHA-1 is taken to be injective and escaping to work, so the
  identifier is the list of (key, value) lines. Titles, urls and revisions are
  opaque.

## 3. Runs

| Run | Question | Bounds |
|---|---|---|
| `lifecycle` | Does every job have a status, an owner and an outcome while two workers of one host run the same book and one may die? Is every step a step of the job board? | 1 id, 2 workers, 1 host, forced requests, lockout of 1 tick, clock up to 1, queue cap 2, 1 crash, redis may refuse EXEC and HSET |
| `requests` | Is every request answered, with a full queue and failing redis, and how far can racing requests overfill the queue? | 2 concurrent requests of every kind, `MaxQueue` 1 |
| `maintained` | What happens to jobs whose status is deleted, or whose queue is cleared, while they are queued or under way? Is every step a step of the maintained board? | 1 worker, 1 request slot, queue cap 2, 1 run of the most general collector on a redis without HSCAN, 1 run of `clear-queue` with batches of 1 |
| `coordinator` | Are threads lost, doubled, restarted too fast, or never replaced? Does a shutdown end? | 1 gc, 1 frontend, 2 backends, pause of 2 ticks |
| `forked_child` | Are only children over their limit killed and reported so, and do connected ones settle? | limit of 2 ticks |
| `files` | Does the collector take files in use? Do old files go? Can every finished status be downloaded, and is every client answered? | 1 id, 1 client, lifetimes 0/3/2, runs and jobs of at most 1 tick, clock up to 5 |
| `connection` | Can a thread miss the loss or the return of its connection, or work twice? | a worker, a collector, a frontend, 2 error events each |
| `folder_size` | How stale can a reported size be? | 2 concurrent health checks, 3 promises, expiry 1, clock up to 4 |
| `flat_books` | Can a book without chapters be served for another? | books of at most 2 articles, 1 title, url and revision, each possibly absent, 2 writers, 1 document kept |
| `shutdown`, `artifacts`, `collection_id` | Statements of the documentation that the code does not keep | small instances, see section 6 |

**Why the bounds are enough.** Ids interact only through the queue's length
and the workers' time, so one id already shows every conflict between
duplicates; it may be queued twice (`QueueCap`) while both workers run it, which is three
copies of a job. The clock and the lockout of `lifecycle` let a request for a
job that is pending, under way or failed be answered without a new insertion
first and insert it again later. More ids would only add interleavings of independent jobs,
and the proofs cover them. Two request slots are reused for ever, so more than
two requests occur in a behaviour. A second crash adds nothing that a first one
and two workers do not show. The two ticks of `Pause` and `Limit` tell
"at once", "meanwhile" and "when due" apart. In `maintained` one collector run
and one clearing, at any time and interleaved with each other and with a worker
that may meet the same id twice, contain every pairing of a stale decision with
a newer status; the proofs cover any number of each. A thread of `connection`
that sees two error events can lose its connection unnoticed twice, so a loop
may meet its second and third. Two health checks share a promise, take over
each other's half-filled cache, or compute side by side; the third promise is
the one that stays in the cache. In `flat_books` a book of two articles has a
boundary that no line marks, every article may lack each of its fields, and one
document at a time is all that a confusion of two books needs. In `files` the lifetimes are the
smallest that satisfy what the configuration asks for, `JobFileLifetime >
JobLifetime + MaxRunTime + MaxJobTime` and `TempFileLifetime > MaxJobTime`:
with either one less, `CollectsOnlyUnused` fails, and theorem `NamedFilesStay`
needs exactly these two inequalities. `MaxTime` lets a file be written,
collected and written anew. `QueueCap`, `MaxTime`, `MaxCrashes`, `MaxRuns`, `MaxClears`,
`MaxErrors`, `MaxItems`, `MaxChapter`, `MaxRendered`, `MaxRunTime`, `MaxJobTime` and `RedisFaults` are bounds or switches of the
models; all other constants are configuration.

**Properties worth a comment.**
`NoSilentStall` is the safety half of progress: a status shown as pending or in
progress has its id in the queue, with a worker, or is an orphan -- or else shows
progress that a child reported late, which `reopened` records: the code lets that
happen, and the property says that nothing else does.
`JobsSettle` is the other half; like `JobsSettleOrGo` it is about the ids of
collections, since the phantom is never pending. `AdmissionBound` counts requests that have
been told there is room, because LLEN and the insertion are two commands.
`PhantomNeverRenders` says that a job made up from a missing status ends at the
unknown writer. `ThreadsKept` relates threads, told threads and respawn timers. `RestartsPaced`
says what is true of the pause between restarts: not one start per pause, since
timers start threads without looking at `lastRestart`, but no more starts of a
type in one pause than it has threads. `ImplementsMaintainedBoard` says
who answers for a job while collectors and the script work between the steps of
requests and workers: the script writes off at least what it has cut off,
perhaps the one id more that it lists, and what it does not write off it has
seen settled or leaves behind as an orphan. `ServesFlatBooks` is what
`ServesWhatWasAsked` (section 6) fails to be, for books without chapters that
have the same fields; no separator marks where an article ends.
`TimeoutIsOurs` and `NoStraySignal` relate the two timers to the promise.
`CollectsOnlyUnused` allows a file in use to be taken only when it was rewritten between
`lstat` and `unlink`, which nothing prevents; `NamedFilesExist` and
`DownloadsFailOnlyWithStatus` carry that exception on to the status and the
client. `NoStallWhileMaintained` has to hold although `clear-queue` judges an id
it does not remove. `WorksOnce` counts error events because the flag, not the
connection, decides whether `closed` is emitted. `AtMostTwiceExpired` is twice,
not once, because the size of a directory is made of cached sizes of its
entries; with n levels it would be n times.

**Deadlock** is checked except in `coordinator`, `shutdown` (the process
exits) and `forked_child` (a settled child stays so).

### Fairness

* *Requests and workers* are weakly fair in the steps that a reply, an
  exit or a file operation brings about. Nothing obliges clients to ask,
  children to report, threads to die or time to pass. That a child exits is
  justified by its time limit, which holds if `max_execution_time` is set (the
  default 0 means no limit) and the child keeps its channel open;
  `ConnectedChildSettles` states exactly that.
* *ForkedChild*: the parent's timers and events, and the death of a process by
  SIGKILL. The child itself owes nothing.
* *Coordinator*: time, timers, the poll of `infoAndExit`, and threads that
  stop once told to.
* *MaintainedService*: as above, and redis replies to the script, which may die
  instead. Collectors owe nothing.
* *RedisConnection*: jobs end (see `ForkedChild`), clients of a server that has
  stopped listening go, and the event loop runs. Redis need not come back.
* *FileGC, Retrieval*: replies to clients; the collector's steps (runs are started by an interval timer), job
  steps and time. `Redis` failures and new jobs are not owed.

## 4. Proofs

| Theorem | Statement |
|---|---|
| `RenderServiceProofs!TypeCorrect` | `Spec => []TypeOK` |
| `RenderServiceProofs!NoPhantom` | `Spec => []PickupHasStatus` |
| `RenderServiceProofs!NoStall` | `Spec => []NoSilentStall` |
| `RenderServiceProofs!Downloads` | `Spec => []DownloadServable` |
| `RenderServiceProofs!Scratch` | `Spec => []NoScratchLeak` |
| `RenderServiceProofs!Admission` | `Spec => []AdmissionBound` |
| `RenderServiceProofs!Refinement` | `Spec => ImplementsBoard` |
| `MaintainedServiceProofs!MaintainedRefinement` | `MaintainedSpec => ImplementsMaintainedBoard` |
| `JobBoardProofs!JobsAccounted` | on the board, a pending or running job is in the backlog, at a desk, given up or (running) reopened |
| `JobBoardProofs!MaintainedJobsAccounted` | on the maintained board, it may be with the clearer besides |
| `ProcessProofs!TypeCorrect`, `!ChildTypeCorrect` | `Spec => []TypeOK`, `ChildSpec => []ChildTypeOK` |
| `ProcessProofs!NoThreadLost`, `!NoForkBomb` | `Spec => []ThreadsKept`, `RestartsPaced` |
| `ProcessProofs!TimeoutsAreOurs`, `!NoSignalAfterwards` | `ChildSpec => []TimeoutIsOurs`, `NoStraySignal` |
| `MaintainedServiceProofs!MaintainedTypeCorrect`, `!MaintainedScratch`, `!NoPhantomRenders`, `!NoMaintainedStall` | `MaintainedSpec => []MaintainedTypeOK`, `[]NoScratchLeak`, `[]PhantomNeverRenders`, `[]NoStallWhileMaintained` |
| `RetrievalProofs!RetrievalTypeCorrect` | `RetrievalSpec => []RetrievalTypeOK` |
| `RetrievalProofs!NamedFilesStay`, `!OnlyUnusedGo`, `!DownloadsSucceed` | `LifetimesSuffice` implies `RetrievalSpec => []NamedFilesExist`, `CollectsOnlyUnused`, `DownloadsFailOnlyWithStatus` |
| `RedisConnectionProofs!TypeCorrect`, `!NoSecondLoop`, `!ConnectedAtWork`, `!WaitsAreHeard` | `Spec => []TypeOK`, `[]WorksOnce`, `[]NeverDeaf`, `[]NoLostWait` |
| `FolderSizeProofs!TypeCorrect`, `!TwiceExpired`, `!ClearedIsFresh`, `!ReadAfterSeen` | `Spec => []TypeOK`, `[]AtMostTwiceExpired`, `[]FreshAfterClear`, `ReadAfterChange` |
| `CollectionIdProofs!FlatBooksServed` | `Spec => []ServesFlatBooks` |

They hold for every value of the constants that satisfies the modules' ASSUMEs:
any number of ids, requests, workers, hosts, collectors, clients, threads and
promises, books of any length, any bounds and lifetimes. The assumptions are
about types (counts are naturals, requests are finite in number, every worker
has a host, the null value is no id). The three theorems about files assume
`LifetimesSuffice` besides: the output directory is not inside the temporary
one, `JobFileLifetime > JobLifetime + MaxRunTime + MaxJobTime`, and
`TempFileLifetime > MaxJobTime`. The default lifetimes (4.25 days, 4 days,
6 hours) satisfy it when runs and jobs together stay below 6 hours; the default
directories do not, which is the finding `artifacts`.

*The argument.* `TypeOK` is inductive by itself in `RenderService`, by one lemma per
component. `PickupHasStatus` is inductive given types: an insertion adds id and
status in one step, and no step removes a status. With these two, each action
maps to one action of the board or to a stutter, which gives `Refinement`; the
map would fail for a worker with a phantom job, hence the need for
`PickupHasStatus`. A late message is an `Echo`, by the worker whose last details it
carries; the fetch of the next job, a `Quiet`, ends that. On the board `Accounted` is
inductive: whatever makes a job
pending puts it into the backlog, whatever removes it from there puts it on a
desk, only an outcome or a loss removes it from a desk, and what an echo makes
look under way is reopened. `NoStall`
is that invariant, carried back through the refinement. `DownloadServable` is not
inductive, because a worker may publish a location it read long ago;
`DownloadInv` adds that every location a worker remembers exists. `ScratchInv`
adds to `NoScratchLeak` that a job names each scratch file before the step that
creates it. `AdmissionBound` is inductive with `Admitted`: an insertion moves
one request from the admitted into the queue, and a request is admitted only
while the queue is within its limit. `ThreadsKept` is inductive with the types of the
counters: a respawn turns a thread into a thread or a timer.

`RestartsPaced` needs an argument about time. A type with n threads has the ages
of its last n starts in `began`, oldest first. `PairedUp` pairs its timers with
the oldest of them: when the k-th timer fires, the k-th oldest start is a pause
old. The pairing survives because a timer is set for a full pause, both grow at
the same rate, and a start that fires takes the first of each away; there is
always a start to pair a timer with, since `ThreadsKept` bounds the timers by n.
A restart at once has no timer, and takes a last start (hence all of them) a
pause old.

For a forked child, `Settled` says that a settled promise leaves no timer armed and that a
kill was announced.

In `MaintainedService` the steps of collectors and of the script are shown to
leave alone what the invariants of `RenderService` speak of; what remains is
`PhantomInv` (a phantom's details have no known writer, so `RunRenderer` lets none pass, and
a late message about a phantom is no more than progress).
The refinement reuses that of `RenderService` for every step of the service but
one: when a worker's HGET finds no status (`NewItemFromQueue`), the worker changes
to the phantom on its desk and forgets the job before, which is a `Mistake`. A collector's HDEL is a
`Discard`. For the script, `ScriptInv` says where the ids are that it answers for:
none before the block that cuts them off or after the one that writes them
back; among the listed ones while the statuses are awaited; and each with a
killed status object once they have arrived, so that none is left out of the
last block. On the maintained board, `MaintainedAccounted` is inductive, and
`NoMaintainedStall` is that invariant carried back.

For files, `AgeInv` relates every clock of the system: a job is as young as its
limit and its files are not older than it; a status is not much older than the
file it names, and during a run not older than the run found it, because status
objects go first; what is to be unlinked was old when it was looked at. The two
inequalities of `LifetimesSuffice` then leave no room for a file in use to be
old (`UnlinkedIsUnused`), `NamedFilesExist` becomes inductive, and the failure
of a download contradicts it.

In `RedisConnection` the strengthening is `LoopsAccounted`: the loops of a
thread against its error events, with and without the flag. In `FolderSize`
`SubEntry` and `RootEntry` say of each cache entry that what it stands for was
read no earlier than its age (less the expiry time, one level up) and than any
clearing of the cache, and `Awaited` says the same of what a request waits for.

In `CollectionId` the invariant is small (what is served has the identifier that
was asked for) and the work is in the lemma `FlatBooksUnique`, which is induction over
the book: the last article of a text is recognised by its last line, which is
its revision or else its URL or title, so equal texts have equal last articles
and equal remainders. `FlattenSeq` is unfolded to the texts of the first i
articles (`FlattenIsPrefix`), and the induction is over sets of numbers
(`SetInduction`, from the well-foundedness of the naturals).

**Only model-checked.** Liveness (`JobsSettle`, `JobsSettleOrGo`, `RequestsAnswered`,
`WorkersReturn`, `ServiceReturns`, `ShutdownEnds`, `ConnectedChildSettles`,
`OldFilesGo`, `ClientsAnswered`, `StrandedWorkerReturns`, `DrainingEnds`), which
rests on fairness and ENABLED and is out of the prover's reach. Every invariant
and every safety property of a step that a run checks has a theorem;
`MaintainedTypeCorrect` and `MaintainedScratch` state for the maintained service, whose run
leaves them out, what `lifecycle` checks of the service alone.

## 5. Not modelled

* Help, version and favicon answers, HTTP and multipart parsing: they have no
  state that the rest depends on.
* Configuration merging, command lines, logging, StatsD, the error base class
  and the load test: write-only, or a client of the service.
* The bundler and the renderers: other programs, here children that may do
  anything.
* The post mortem directory: a second destination for files that are done with,
  cleaned by the code that `FileGC` has.
* The limits on parallel system calls in `cleanDir`, `getFolderSize` and
  `cleanJobStatusObjects`: they only remove interleavings.
* Redis evicting keys, or losing what it has acknowledged.

## 6. Where code and documentation disagree

* `shutdown` – a respawn that was delayed (`mw-ocg-service.js:131`) starts a
  thread after a graceful shutdown began; nobody tells it to stop and the
  controlling process waits for it for ever.
* `artifacts` – with the default directories, rendered files lie in the
  temporary directory and go after `temp_file_lifetime` (`gc.js:305`).
* `collection_id` – an identifier does not tell an empty chapter from an article
  of the same title, nor where a chapter ends (`frontend.js:776-789`), so two
  books of one title may share a document.

### Observations without a run

These came up while modelling. They are visible in the modules, but either no
text of the repository says otherwise or they need no model checker to be seen.

* The refusal of a full queue builds its error with swapped arguments
  (`frontend.js:614`), so a text is passed as the HTTP status.
* Restarts are not limited to one a second, as `mw-ocg-service.js:127` has it: the
  delayed ones do not look at `lastRestart` (`mw-ocg-service.js:131`), so a burst of
  deaths is replaced in one burst. `RestartsPaced` is what holds.
* A request by id may name another writer than the id was made for; the status
  is then replaced by one for that writer, or the other writer's result is
  served (`frontend.js:581, 794-796`).
* HDEL is sent for a key whose value was read earlier, so a status written in
  between goes with it although it is new (`gc.js:178`, `StatusGC!DeleteKey`).
  `NoStallWhileMaintained` shows that the job itself still settles.
* A status message that node delivers after a child's exit event overwrites the
  outcome with progress, which hides a finished or failed job from those who poll until
  somebody asks for it again or a collector takes it away (`backend.js:456-458`,
  `reopened` in `NoSilentStall`). If the job was queued again in between,
  `clear-queue` takes it for one under way: it cuts the id off the queue and
  does not write it off, so nobody settles it any more (`clear-queue.js:93`, the
  exemption in `JobsSettleOrGo`, without which the run `maintained` fails).
* The time limit may be announced for a child that has just ended with 0; the
  promise is then resolved, not rejected as `backend.js:423-427` has it
  (`backend.js:447, 461`, `ForkedChild!LimitTimer`).
* The 404 of `render_status` is caught by the handler of redis errors and leaves
  as 500 (`frontend.js:656, 667-675`, `Retrieval!HandleRenderStatus`).
* An error event while the client is connected clears the wrapper's flag, and
  the loss of the connection that follows is not reported. The thread lives on;
  when the connection is ready again, a second loop, or a second interval timer,
  joins the first (`RedisWrapper.js:75-78`; the `errors[t]` in `WorksOnce`).
* Keys that vanish during an emulated HSCAN arrive as null and turn into phantom
  jobs of id 0, so HDEL is sent for "0" (`RedisWrapper.js:157-164`).
* `settings` of a metabook are not hashed (`frontend.js:772`), and a value that
  is an object hashes as `[object Object]` (`frontend.js:765`).
* A directory below the output directory may be removed while a renderer is
  about to write in it; the job fails and is reported as failed (`gc.js:299`).

## 7. State of the plan

Everything planned is in place: the job life cycle with its abstract
specification, maintenance by collectors and scripts with another, files and
downloads, children, the coordinator, connections, folder sizes and
identifiers, with the safety properties of each module proved.

What could still be added: a pool of constant size as the abstract specification
of `Coordinator`, several prefix directories in `FileGC`, the times at which
`StatusGC` condemns and deletes an object, and the identifiers of books with
chapters, as far as they can be told apart.

## 8. Running

```
tlc -workers 2 -config Lifecycle.cfg MCRenderService.tla
tlapm RenderServiceProofs.tla
```

`PROJECT.json` lists each run's module and configuration, the lines each
definition stands for, the faulty variants that break each property, and the
theorems.
