# A TLA+ model of JumpscaleX core

JumpscaleX core is a Python framework of about 900 files. This project models
the parts of it that keep shared state and that several processes or greenlets
use at once: the job system *MyJobs*, the object database *BCDB*, the packages
of the *threebot server*, the *log and alert handlers* and the *chat bot*. Small
instances are model-checked with TLC; the safety properties of all of them are
proved with TLAPS for every number of workers, jobs, processes, objects,
packages, logs, users, faults and requests.

| file | what it is |
|---|---|
| `MyJobs.tla` | job queue, workers, waiting clients, supervising parent |
| `MCMyJobs.tla`, `MyJobs_*.cfg` | its instances |
| `MyJobsProofs.tla` | types and the order of dependencies, proved |
| `JobService.tla` | what the job system promises, without queue, workers and records |
| `MyJobsRefinement.tla` | MyJobs as an implementation of it |
| `MyJobsDeliveryProofs.tla` | no job is lost, executed twice or posted twice, proved |
| `MyJobsServiceProofs.tla` | the implementation of JobService, proved step by step |
| `BCDBModel.tla` | one model of the BCDB: store, index, saves, deletes, rebuilds |
| `MCBCDBModel.tla`, `BCDB_*.cfg` | its instances |
| `BCDBModelProofs.tla` | types, fresh ids, agreement of store and index, the index of one process and its rebuild, proved |
| `Packages.tla`, `MCPackages.tla` | packages of a threebot server, its start loop, actors and commands |
| `PackagesProofs.tla` | its types and properties, proved |
| `Logs.tla`, `MCLogs.tla` | the redis log handler and the client that reads logs |
| `LogsProofs.tla` | what is kept and what a walk sees, proved |
| `Alerts.tla` | the alert handler |
| `ErrorHandling.tla`, `MCErrorHandling.tla` | logs and alerts composed, as `Tools.log` uses them |
| `ErrorHandlingProofs.tla` | counts of alerts and the alert of a fatal error, proved |
| `ChatBot.tla`, `MCChatBot.tla` | chat sessions of the gedis server |
| `ChatBotProofs.tla` | messages, greenlets and answers of the sessions, proved |
| `PROJECT.json` | components, runs, mutants, source map, findings, hazards, theorems |

Paths below are relative to `src/JumpscaleCore` unless they start with `src/`.

## 1. Inventory

### MyJobs (`servers/myjobs`) - modelled, partly

State: job records and worker records in a BCDB, the redis list
`queue:jobs:start`, one redis list per return queue, and in each worker process
its own copies of a job and of its worker record. Operations: `schedule`,
`MyJob.start`, `check_ready`/`wait`, the loop of `MyWorkerProcess.start`,
`MyWorker.start`/`stop`, `workers_check`, the tmux main loop. Clients, workers
and the parent are separate processes; they interact only through redis and the
BCDB, always by loading and saving whole records. Hard: stale copies that
overwrite newer ones, a worker that dies after the pop, names that are used
again while a worker runs the old job, dependencies that change while they are
looked at, jobs that are put back. Correct means: no action runs before its
dependencies are done, no job is lost silently or executed more often than it
was queued, everything finishes, results are posted once.

### BCDB (`data/bcdb`, `data/schema/JSXObjectRoot.py`, `clients/stor_*`) - modelled, partly

State: a key-value store (redis, 0-db or sqlite) and a sqlite index with a row
per object and unique columns. Operations: `new`, `get`, `save`, `delete`,
`destroy`, and two ways to rebuild the index. Greenlets and processes share
both. The queue that would serialise the operations (`BCDBDecorator.py`) is
switched off by `skip_for_debug = True`. Hard: every save and delete is two
writes in two databases, the unique constraint is enforced by the second one,
the id of a new object comes from another command than the one that writes it.
Correct means: ids are not used twice, store and index agree, a rebuild brings
back an index that finds everything, deleted objects stay deleted.

### Packages (`tools/threebot_package`, `servers/threebot`, `servers/gedis`) - modelled, partly

State: the autosaved `status` of each package, and in memory what was loaded of
it: models, actors, the md5 sums in `_changes`, the texts known to the code
loader, the commands known to the gedis server and the cache of its handler.
Operations: install, start, stop, uninstall, disable, enable, reload, the lazy
loading by the `models` and `actors` properties, the loop of
`ThreebotServer.start`. Requests are greenlets that interleave wherever they
save or run code of the package. Hard: exceptions of that code in the middle of
an operation, a server that dies between two statuses, caches by content that
decide what is loaded again. Correct means: what was disabled stays down, what
runs has its models and its actors, the start loop forgets no package.

### Logs and alerts (`src/JumpscaleInstallLib/core/LogHandler.py`, `clients/logger`, `tools/alerthandler`) - modelled, partly

State: a counter and a hash of logs in redis, containers of logs on disk; two
hashes and a counter for alerts. Operations: log, dump of a batch with rotation,
walk, deletion; raising, deletion and reset of alerts. All processes of an
application share them, command by command. Hard: a log that is missing makes
the dump of its batch fail and the process exit; a late dump meets the deletion
of the next one; alerts are read, changed and written back. Correct means: the
newest logs are in redis, logs are lost only where the code knowingly drops
them, alerts count right and link to logs that exist, a fatal error leaves a trace.

### Chat bot (`servers/gedis/GedisChatBot.py`) - modelled, partly

State: per session the current step, a greenlet and two queues; one variable
with the current poll for all sessions. Operations: a new session, poll, answer,
next, back, restore. Hard: polls kill each other, killing blocks, answers and
questions in the queues outlive the step they belong to. Correct means: a user
sees the own questions, every answer goes to its question, one greenlet runs a
session, and the chat comes to its end.

### The rest

| component | state and operations | hard behaviour | here |
|---|---|---|---|
| Redis queue (`src/JumpscaleInstallLib/core/Redis.py`) | a redis list; put, get, reset | reset races with put | put and get as the queue of MyJobs |
| Config objects (`core/BASECLASSES/JSConfig*`) | named children over a BCDB model | cached children go stale | load and save as used by MyJobs |
| SQLite store (`clients/stor_sqlite`) | a table; set, get, delete | ids are handed out again | not modelled |
| Redis connector, BCDB model client | a redis server over BCDB models | two answers to one request after an error | not modelled |
| FileLock (`tools/filelock`) | a lock file; acquire, release, `__del__` | removes a lock it does not hold | not modelled: nothing calls it |
| Cache (`core/cache`) | redis keys with expiry; get, set, reset | a stale value stored after a reset | not modelled |
| StartupCMD, tmux | state of a supervised process | the recorded and the real state differ | only "a process runs or is gone", in MyJobs |

`PROJECT.json` lists all components, and under `hazards` the places in the code
where something can go wrong that a test would hardly reach.

### Not modelled

The models cover a small share of the lines of the repository, and most of the
rest cannot be covered by a state machine that says anything:

- two vendored copies of peewee (15 000 lines), and
  `src/install/threesdk/InstallTools.py` (7 600 lines), which bundles copies of
  the install library;
- the installer, the threesdk command line and its texts, the SAL
  (`sal/fs`, `sal/process`, `sal/nettools`, ...), builders and clients: sequential
  wrappers of operating system calls and remote services, whose state is outside
  of the repository;
- schemas, types and serialisers: sequential conversions of data;
- BCDB factory, virtual file system and webdav: configuration and views of the
  models, with little state of their own;
- gevent rack, gipc, tmux: they start external programs;
- identities and encryption: libraries and key files.

What could still be modelled and is not: sqlite as a third store of the BCDB
(`DBSQLite.py:63`), the redis connector on top of a model (`RedisServer.py:266`
answers one request twice after an error), the cache (`Cache.py:192`), the
read-only mode of a BCDB (`BCDB.py:80` checks it and nobody looks at the
result), subprocess workers of MyJobs (`MyJobsFactory.py:187` starts one too
many) and `wait_queues`, which reads another key than results are posted on
(`MyWorkerProcess.py:134`).

## 2. Plan

Done: `MyJobs`, `BCDBModel`, `Packages`, `Logs`, `Alerts`, `ErrorHandling` and
`ChatBot` with their runs; `JobService` and the refinement; a theorem for every
safety property that holds in a run but `ResultsPosted` (section 5). Left, in
this order:

1. `IndexAgrees` for more than one process: false as it stands, because two
   overlapping saves of one object can leave one name in the store and the other
   one in the index; a form that names the ids in `torn` is needed;
2. a reading of `ServesJobs` for jobs that are started a second time, with a
   delivery and not a job as the unit of `JobService`;
3. an abstract specification of the log handler (a list of logs with a bounded
   tail in redis) and of a chat session (one question at a time), with the
   invariants of section 5 as the mapping;
4. the sqlite store as a third value of `Stor`, the redis connector composed
   with BCDBModel, the cache.

## 3. The modules and the code

### MyJobs

A worker process is a program counter `pc[w]` with the locals of
`MyWorkerProcess.start`; each action of a worker, of a waiter or of the parent is
the code between two accesses to shared state. `schedule` is as many actions as
it has writes that another process can see one without the other: the delete of
the job that has the name, the first save of the new one, each save of a later
assignment, and the put. `making` is the set of jobs between the first save and
the put, `draft` the object in the hands of the client.

| action | code |
|---|---|
| `ScheduleDelete`, `ScheduleNew`, `ScheduleSave`, `SchedulePut` | `MyJobsFactory.schedule` |
| `ScheduleEnd` | the client dies, or raises, between the first save and the put |
| `Start` | `MyJob.start` |
| `CheckLoad`, `CheckReady` | one turn of `MyJob.wait`: load, decide, save the older copy |
| `ProcStart` | start of the process up to the loop |
| `Get` | `queue_jobs_start.get(timeout=20)`: an id or a timeout |
| `Reload` | `worker_obj.load()`, and `stop()` on halt |
| `Idle` | the timed-out pop |
| `Load`, `CheckDep` | load the job; one turn of the loop over `job.dependencies` |
| `Relaunch`, `Skip`, `Busy` | the three ways out of that loop |
| `RunOk`, `RunError`, `RunTimeout` | the action and what is saved of its outcome |
| `Post`, `Again` | `queue_results`, one queue at a time; back to the loop |
| `WorkersLoad`, `SoftStop`, `HardStop`, `Restart`, `TmuxStart`, `StateUpdate`, `WorkersCheck` | the parent |
| `Crash` | the process ends by itself |

Abstractions. A job's payload is left out: an action ends well, with an
exception or in its timeout, nondeterministically. Times are reduced to what is
compared: `stopped` is `time_stop # 0`, and whether a job's timeout or a
worker's 20 seconds have passed is a free choice. A load or save of a record is
one step here (`BCDBModel` looks inside it), and so is `jobs.delete`, which looks
the name up and deletes the object. `ScheduleNew` is one step: the question
whether the name is in use, the uniqueness check of the save and the save; two
clients that come between these with one name at the same instant are the subject
of `BCDBModel` (`Unique`, `SetNew`), not of this module. A client that raises or
dies after its first save counts as a fault, because it needs a kill or a
method that cannot be processed; a save that raises because the name was taken
does not. `return_queues_reset`, which empties the return queues before the job is
put, and `job.debug`, which puts the id on another queue, are left out. Workers
are of type TMUX. The states RUNNING and DONE exist in the schema and nothing
writes them; no code puts the token "halt" on the queue; `kill` in
`workers_check` only logs. `Init` is the state after `workers_tmux_start`.

`completed`, `finished`, `dropped` and `runs` are history variables; no guard
reads them. `starts` and `faults` count up to their bounds.

### BCDBModel

`store` and `index` are functions from ids to names, because the unique name is
the only indexed property that a write can be refused for. `pc[p]` is where a
process is in `save`, `delete` or a rebuild.

| action | code |
|---|---|
| `New`, `Get`, `Change` | `BCDBModel.new`, `get`; a changed object that is saved |
| `FindIds`, `Unique` | the uniqueness check of `JSXObjectRoot.save`: the query, then `find` drops rows without object and the decision is taken |
| `SetNew`, `HSet` | a new object: redis takes the id and writes in two commands, 0-db in one |
| `SetKey` | an update: redis always writes, 0-db refuses a missing key |
| `IndexRow`, `IndexCreate`, `IndexUpdate` | `_sql_index_set`: look for the row, then insert or update; the unique constraint raises |
| `Delete`, `DeleteRow` | the two writes of `delete` |
| `IndexReset`, `Walk`, `Reindex`, `WalkEnd` | `BCDB.index_rebuild` |
| `ModelRebuild` | `BCDBModel.index_rebuild` |
| `DestroyFind`, `DestroyStep` | `BCDBModel.destroy` |
| `Crash` | the process ends; what it has written stays |

`crashed`, `torn` and `old` are history variables; no guard reads them.
`crashed` holds the ids that a crash left between their two writes since the
index was last emptied; of a `destroy` that is cut short these are the ids that
are out of the store and still in the index (`Wiped`). A crash in `delete`
leaves a row without an object, and the unique constraint then refuses that name
to others after their store write; this is why `IndexAgrees` speaks of states
with nothing in `crashed` and not only of the ids outside it. `torn` holds the
ids whose two writes were interrupted, refused or overlapped with another
process', or that a rebuild or destroy touched. `old` remembers the index at the
last reset. Within a rebuild the removal of the index and the reading of the
counter are one step, and so are the deletes and the insert of one row: the
rebuild stops the BCDB and deletes the sqlite file, so only runs with one
process use it. The constant `Ops` says which of crash, rebuild and destroy may
happen.

### JobService and MyJobsRefinement

`JobService` is what a caller of `schedule` may rely on: a job is absent,
waiting, running, ended or lost; it runs once, after the jobs it needs have
succeeded; it may be refused when it is condemned, that is, when one of the jobs
it needs has failed or is itself condemned; an end is final. `MyJobsRefinement` maps a job
to its phase: running while a worker is in its action, waiting while it is in
the queue or a worker looks at its dependencies (also when that worker has
already saved an ERROR, because a later pending dependency makes it NEW again),
ended when a worker has finished with it, lost when its holder died or its name
was taken over. The mapping is for `MaxStarts = 0`: `MyJob.start` on a job that
was scheduled is a second delivery, and is bounded by `AtMostOncePerPut` instead.

### Packages

A request is the sequence `todo` of the steps between which other greenlets may
run; the operators `InstallSteps`, `StartSteps`, ... are the bodies of the
methods of `ThreeBotPackage`, and each step is an action (`Config`, `Author`,
`Models`, `ModelsAdd`, `Actors`, `LoadFile`, `Running`, `ToStart`, ...). The
greenlet `Boot` runs the loop of `ThreebotServer.start` (`Start`, `BootNext`,
`BootStart`, `BootDone`); `Raise` is an exception of loaded code, and `Abort`
what becomes of the request, or of the loop, after an exception. `LoadFile`
raises by itself where a load of another request has failed meanwhile: `_actors`
is None then, and the actor is made but not added. `Call`, `ActorsGet` and
`Lookup` are a command for an actor through `Handler._cmd_obj_get`: the models
are loaded first, and only after that `ThreeBotPackage.actors` looks whether
there are actors. `Crash` ends the process; only `status` survives. The md5 sums
and texts are version numbers: `Edit` changes the files of a package from one
version to the other and back. The order in which the files of a package are
loaded is fixed but arbitrary. Websites, wikis and git are left out: nothing
here depends on them, and an exception of theirs ends a request where they
stand, like one of the author's code.

History: `off` (disabled by the only request on the package, nothing asked
since), `spoiled` (a load of actors failed, or they were removed), `reverted`
(files went back to an earlier version), `overlap` (two requests at a time).
They name the exceptions of the properties, each of them a weakness of the code
(section 4).

### Logs, Alerts and ErrorHandling

One step per redis command, except that the deletion of listed keys, in chunks
of 100 in the code, is one step, and so are the writing of a container and the
rotation. `LogIncr` and `LogHSet` are `handle_log`; `Collect`, `CollectFail`,
`DumpWrite`, `DumpKeys` and `DumpDel` are `_data_container_dump`; `WalkBegin`,
`WalkFile` and `WalkRedis` are `LoggerClient.walk`. `AlertGet`, `AlertIncr`,
`AlertHSetId` and `AlertSet` are `_handle_error`; `AlertDelete` ... and
`DeleteAll` ... are the deletions; `DeleteAll` has `reset` as its short form.
`ErrorHandling` composes both: a message goes to the log handler, an exception
to the alert handler, and an exception of the log handler goes to the alert
handler and ends the process. The greenlets of a process share its log handler,
so an exception may be raised at any point of a log call of the same process and
is linked to whatever `last_logid` says (`lid`). One log call and one alert call
of each process can be under way at a time: more of them at once in one process
are not modelled, those of another process stand for them. A redis command that
fails, `hset` for instance, is not modelled either; of what it leaves behind, a
number without a log, `Crash` between the two commands shows the same. The
constants 1000, 50 and 10 of the code are `Batch`, `Keep` and `Drop`. One text,
`DumpError`, stands for the messages about missing logs, which have the number
of the log in them.

History: `hurt` (batches whose dump was cut short or failed), `rotated`, `gone`,
`moved`, `written`; `raced` (alerts with overlapping or interrupted calls) and
`raises`; `exited`.

### ChatBot

Greenlets switch only where they block, so an action is what happens between two
blocking calls. `run[s]` is the greenlets of a session that are alive, in the
order in which they wait on `_queue_in`. A chat flow is a constant: steps, each
a sequence of questions ("ask") and of messages that expect no answer ("load").
`Execute` and `StepDone` are `_execute_current_step`, `Quit` and `Fail` its two
`except` branches: a StopChatFlow without a message goes straight on with the
next step, with one, or after any other exception, an error is shown first;
`GoNext`, `GoBack` and `BackRun` the moves (killing blocks, so a step back is
two actions), `PollBegin`, `PollKill` and `FetchRun` are `session_work_get`. The
browser is modelled from the requests it can send: it polls when it shows
nothing or a loading message, answers what it shows, and goes back only where
`info["previous"]` allows it; an answer may be sent twice, and a reload polls on
a second connection while the first one still waits.

History: `forked`, `dirty`, `misfit`, `lost`, `hurt`, `finished`; see the
comments at the properties, which name the exceptions they stand for.

## 4. Runs

Every run takes from a second to two or three minutes with two TLC workers.
Deadlock is not checked: a system with no jobs, ids, requests or moves left may
stop.

| run | instance | shows |
|---|---|---|
| `MyJobs_faults` | 2 workers, 2 jobs, 1 name, 1 return queue, 1 fault | `TypeOK`, `DependencyOrder`, `NoSilentLoss`, `PostedOncePerRun`, `ResultsPosted` with one crash of a worker or client, stop, restart or check at any point; `ServesJobs`: the whole implements `JobService` |
| `MyJobs_clients` | 2 workers, 2 jobs without names, 1 waiter, timeouts, 1 extra start | `DependencyOrder` although waiters save stale copies and jobs are started again; `AtMostOncePerPut` |
| `MyJobs_live` | 2 workers, 3 jobs, fair | `DependencyOrder` where a job has several dependencies; `EveryJobFinishes`; `ServesJobsFairly`: the fair `JobService` is implemented |
| `MyJobs_okfinal` | 1 waiter | a disagreement, see below |
| `BCDB_shared` | 2 processes, 2 ids, 2 names, redis, crash, destroy | `TypeOK`, `FreshIds`, `Consistent` |
| `BCDB_rebuild` | 1 process, 3 ids, 2 names, crash, destroy, both rebuilds | `RebuildRestores`; `IndexAgrees`: refused saves, finished destroys and broken-off rebuilds never make a row lie |
| `Packages_life` | 2 packages (one core), 2 actor files, 2 clients, 2 requests, 1 exception, 1 crash, 2 edits | `TypeOK`, `DisabledStaysDown`, `LoadedOnce`, `RunsWithModels`, `BootLeavesNoneBehind` |
| `Logs_dump` | 2 processes, batches of 2, 8 logs, 1 crash or deletion | `LogTypeOK`, `NewestInRedis`, `LostOnlyIfHurt`, `WalkSees` |
| `Errors_alerts` | the same composed with alerts, 3 logs in batches of 1, 2 exceptions, 1 deletion | `TypeOK`, `AlertsExact`, `ExitLeavesAlert` |
| `Errors_links` | the same instance | a disagreement, see below |
| `ChatBot_moves` | 1 user, 2 steps of 2 items, 3 moves, 1 exception | `TypeOK`, `OneGreenlet`, `AnswersFit` |
| `ChatBot_users` | 2 users, 2 steps, 1 move, fair | `OwnMessages`, `Completes` |

The cases that the properties of MyJobs are about are spread over the runs.
`MyJobs_faults` has the name that is taken over while a worker holds the old job,
so that a dependency is deleted under a job that waits for it; the stop between the
load and the save of a record; the kill between the save of an outcome and the
post of the result; and the client that dies before its put. `MyJobs_live` has the
job that waits for two others, one of them failed and one pending, without a fault.
No run has three jobs and a fault, three jobs and a name, two return queues, or
a waiter and a name: these are millions of states more. `DependencyOrder`,
`NoSilentLoss`, `PostedOncePerRun` and `AtMostOncePerPut` are proved for any
number of all of them (section 5).

The runs of the BCDB use redis, which has the steps that 0-db does not; what is
proved of `BCDBModel` is proved for both.

For the BCDB two processes and two ids give every overlap
of two saves on the same or on different ids, and three ids give a rebuild with
a leftover of a refused save on either side of the owner of the name. Two
requests and a start loop give two greenlets on one package, or a disable, a
crash and a boot; two edits bring the files back to their first version. Eight
logs in batches of two are three dumps, of which two can be under way at once,
with a rotation. In `Errors_alerts` and `Errors_links` three logs in batches of one are a
dump by each process, of which one fails when the log it collects was not stored
yet. Three moves are a step forward, a step back and a reload or a repeated
answer; two users are enough for polls that kill each other.

Fairness. `MyJobs_live` assumes weak fairness of each worker's loop, of the
parent's `state_update` after a start, and of the put of a `schedule` that has
saved its job: a process that runs keeps running, nothing blocks a put, and the
pop is a blocking read with a timeout. No client has to schedule anything, nothing
is assumed of waiters or faults, and in this run no fault happens. That jobs finish needs
that relaunched jobs go to the end of the queue, which the mutant of this run
takes away. `ChatBot_users` assumes that gevent runs every greenlet that can
run, that a page polls when it has nothing to show and that the user answers
what is asked. Strong fairness is assumed of the end of a poll: a poll that
finds a message ends in its first turn, and the other page, which could kill it
before, polls again only after its own poll has returned. Moves are never
required.

### Disagreements between the code and what is said of it

Two runs end in a counterexample; `findings` in `PROJECT.json` quotes both sides.

- `MyJobs_okfinal` (`OkIsFinal`): `check_ready` writes its stale copy over a
  worker's OK (`MyJobs.py:82`).
- `Errors_links` (`LinkResolves`): `last_logid` is set between INCR and HSET and is
  shared by all greenlets (`LogHandler.py:62`). An exception of another greenlet is
  linked to the number of a log that is not stored yet; when the process ends there
  the link stays and the log never comes.

The others that were met while modelling are in the models, as the code does
it, and are the exceptions that the properties name. They have no run:

- MyJobs: a job that was put back because of a pending dependency after another
  one failed keeps `time_stop`, so `wait` returns while it is NEW
  (`MyWorkerProcess.py:197`; `tests/9_dependencies.py:53` asserts the outcome
  after a wait);
- a worker's save of its older copy wipes out the halt flag
  (`MyWorkerProcess.py:216`; the schema: "if halt on True will stop");
- `MyWorkerProcess.stop` calls `self._redis_set`, which does not exist, before
  it saves HALTED (`MyWorkerProcess.py:103`; `tests/8_tmux.py:66` asserts it);
- `state_update` at the end of `MyWorker.start` saves WAITING over the record
  of a worker that may be running a job already (`MyWorker.py:52`);
- a job that fails because of a dependency is not posted on its return queues
  (`MyWorkerProcess.py:185`; the docstring at `MyJobsFactory.py:419` says
  "error or ok"), so `ResultsPosted` is about executed jobs;
- BCDB: redis lets a stale save bring a deleted object back, under its old id
  (`RDBClient.py:60`), where `BCDBModel.py:379` expects a refusal. `SetKey` does
  so; `Consistent` and `FreshIds` say that the object is then in both databases
  and that no new object gets its id;
- a save refused by the unique constraint stays in the store
  (`BCDBModel.py:391`), which `BCDB.verify` calls corruption, and a rebuild
  may give the name to that leftover (`BCDBModelIndexClass.py:80`);
- with `skip_for_debug = True` two saves of one object can leave one name in
  the store and the other one in the index (`BCDBDecorator.py:26`), so
  `Consistent` excepts overlapping writes and `IndexAgrees` is checked and
  proved for one process;
- `BCDBModel.index_rebuild` iterates over the index it has just destroyed, so
  it leaves it empty (`BCDBModel.py:203`);
- Packages: after a failed load of actors, or an uninstall, the md5 of the
  directory is still in `_changes`, so `start` sets `running` without
  registering the actors; and two actors with an identical file, of one package
  or of two, share one entry of the code loader (`CodeLoader.py:78`): the
  exceptions of `LoadedOnce`;
- commands of an uninstalled package are still answered from the command cache
  (`handlers.py:533`), and a command that is not found opens a shell in the
  server (`handlers.py:543`);
- Logs: the docstring of `process_logdict_for_handlers` says "allways
  self.myenv.loghandlers" (`src/JumpscaleInstallLib/Tools.py:564`), but exceptions
  go to the error handlers only;
- a log that is missing makes the dump of its batch fail, and the next dump
  deletes the rest of the batch (`LogHandler.py:122`); the rotation removes 12
  files where its comment says 10 (`LogHandler.py:137`);
- `walk` leaves out the newest log (`LoggerClient.py:258`), and fails after a
  rotation because it asks for the container before the first one
  (`LoggerClient.py:83`);
- ChatBot: `session_work_get`, "Blocking method responsible for waiting for new
  questions", returns None when any other session polls (`GedisChatBot.py:67`);
  sessions are not removed at their end because `category` is looked up next to
  the payload (`GedisChatBot.py:75`); a StopChatFlow does not stop the flow but
  goes on with the next step (`GedisChatBot.py:265`).

## 5. Proofs

`tlapm <module>.tla` checks the eight modules whose names end in `Proofs`. The
assumptions are the ones the modules state about their constants: bounds are
natural numbers, names are not ids, `None` is not a name, a package has finitely
many files, a chat flow has steps and no step is empty. No number of workers,
jobs, clients, processes, ids, logs, packages, users or faults is fixed. All
invariants were checked with TLC on small instances first.

### MyJobs

**`TypeCorrect`**: one lemma per action.

**`DependenciesFirst`** (`DependencyOrder`). Not inductive by itself: the worker
decides on copies that it loaded one after the other. `DependencyInv` adds that
ids in use are below `nextId`, so that `schedule` never writes over the record
of a job that somebody holds (`IdsUsed`); that a stored success was brought
about by a worker (`SavedTrue`); that the copies of workers and of waiters,
which will be saved some day, agree with the record about its dependencies and
claim no success that did not happen (`CopyTrue`, `WaiterTrue`); and that a
dependency that a worker has crossed off without asking for a skip is completed
(`DepsSeen`). A stale save may undo an OK (`MyJobs_okfinal`), but it cannot
invent one; that is why the order of dependencies survives it.

**`NoJobLost`** (`NoSilentLoss`): a stored job is on the queue, in
the hands of a worker, in the hands of a client that has not put it yet,
finished, or dropped by a fault or by a client that raised. The property counts any
worker that holds the job. A worker that has decided to skip holds a job that is
finished already and will do nothing more about it, so `LossInv` asks for a worker
that still will (`Firm`), and that the two flags of that decision are clear
whenever a worker takes a job. A job is also allowed to be in the hands of its
client only; `ScheduleSave` may write NEW over the record of a job that ended
after an extra start, which is why it takes the job out of `finished` again.

**`OncePerPut`** and **`OneResultPerRun`** (`AtMostOncePerPut`,
`PostedOncePerRun`) are counting arguments: executions, copies of the id on the
queue and workers that have popped it together are at most `1 + starts`
(`OnceInv`); results on a queue and workers that still have to post there are at
most the executions (`PostInv`). A relaunch moves a job from a worker to the
queue, a crash takes one away, so the sum never grows.

**`ImplementsService`** (`ServesJobs`, for `MaxStarts = 0`, where the mapping is
made). Initial states map to initial states, and each action is shown to be a
step of `JobService` or a stutter. `TokenInv` says that a job is on the queue
once or in one hand, and has not ended while it is; `DepsLower` that
dependencies have lower ids, so that the recursive function `Condemned` is met by
the least set closed under failed dependencies (`Doomed`); `ErrorTrue` that an
ERROR in a record, or in a stale copy that a waiter will save, is about a doomed
job; `CalmInv` that without faults and without shared names nothing is lost,
which `JobService` demands of an instance that cannot lose jobs.

### BCDBModel

**`TypeCorrect`**: what reaches the index has an id and a name.

**`NewIdsFresh`** (`FreshIds`). `FreshInv` adds that ids from the counter on are
unused, that an id taken and not written yet is unused and has one owner, and
that no process has an object with such an id in hand.

**`StoreAndIndexAgree`** (`Consistent`). `SettledInv` says of every id that is
not torn: nobody is between its two writes and the databases agree, or exactly
one process is, and then the store has what that process wrote and the index
what it found there. It rests on `FreshInv` (nobody can be at work on the id of
a new object) and on the fact that a rebuild tears all ids before it writes
rows.

**`IndexShowsStored`** and **`RebuildComplete`** (`IndexAgrees`,
`RebuildRestores`) are theorems about one process (`Alone`: there are no two),
as `BCDB_rebuild` is: with two the first one is false (section 4). `AloneInv` has
three parts: a row shows what is stored but for the object the process has in
hand and for what a crash cut in half (`RowsShown`); a name that passed the
uniqueness check is shown by no other row (`NameClear`); while a rebuild walks,
names it has passed are found and rows are only about ids it has passed
(`WalkShown`). The second is an action property: it is about the step that ends
the walk.

### Packages

`PackagesInv` is one invariant for the five theorems. What is left of a request
is a sequence; the proofs need only which steps are left and which one is next,
so `TodoInv` says that the steps stand in an order in which each name is
followed by certain names only (`After`), and the rest speaks of sets of steps.

- **`PackageTypes`**, and **`DisabledStays`**: no step that is left of any
  request changes a package that is off (`OffInv`).
- **`ModelsLoaded`**: half-loaded models have a request that is still loading
  them, and `running` is set only after that (`ModelsInv`); without overlap it
  is the only request (`AloneInv`).
- **`ActorsLoadedOnce`**: a text that the code loader knows belongs to an actor
  that is registered, and every file of a directory in `_changes` is loaded or
  still in front of some request (`KnownInv`, `WalkedInv`).
- **`BootComplete`**, an action property: the start loop has settled every
  package that it has passed (`BootInv`).

### Logs, Alerts and ErrorHandling

**`LogTypes`**, **`NewestKept`**, **`LogsFound`**, **`WalkComplete`** follow from
`LogsInv`: numbers in the hands of a process come from the counter and a dump
deletes only up to the end of its own batch (`HandlerInv`, `Within`); a batch
whose successor is full is on disk, rotated, hurt or in the hands of a process
that must still write it (`DumpInv`); a log that left redis belongs to a batch
with a full successor (`MoveInv`); a walk has read what it does not still have to
read (`WalkInv`).

**`ErrorTypes`**, **`AlertsCountExactly`**, **`ExitOnRecord`**:
a call holds the count that is stored (`Exact`), as long as each number belongs
to one alert (`OwnInv`), which a reset at rest does not spoil (`ResetInv`). A
process that is dying has its alert under way or stored, whatever its other
greenlets do meanwhile. **`LogsFoundWithErrors`** carries
`NewestInRedis` and `LostOnlyIfHurt` over to the composition, where an exception
of the log handler ends the process.

### ChatBot

`ChatInv` is one invariant with these parts. Every message carries its session
wherever it is (`OwnInv`, for **`ShowsOwn`**). A page that polls shows nothing,
and a session that was not started is untouched (`IdleInv`). The one greenlet of
a session that was not forked is `self._greenlet`, so the one call of `go_back`
that is in progress kills it (`OneInv`, for **`OneGreenletOnly`**). Of the
question that a greenlet waits for there is at most one copy on its way to the
page and back, and of no other question is there any (`FitInv`, for
**`AnswersReach`**). **`ChatTypes`** needs that steps back in progress and moves
that are left are together at most `MaxMoves`, and that only questions of the
chat flow are answered. `Survivors` is a recursive function; that its values are
sequences of greenlets is shown with a least counterexample, because the
induction theorems take an operator.

### What the proofs changed

Attempts that failed showed four properties or models that small instances had
accepted:

- `WalkSees` named too few batches: a walk can end after a late dump has written
  its container and before it has removed the logs, while the rotation removes
  the container. The instance was too short for that.
- `ExitLeavesAlert` was weaker than the code: overlapping calls do not lose the
  alert of a dying process, so that premise is gone.
- `LoadedOnce` is false for two actors of one package with the same text, not
  only for two packages (`Shares`).
- `IndexAgrees` was false of a `destroy` that a crash cuts short; the run did not
  let one happen. Now `Crash` counts these ids as cut in half, and the run has
  `destroy`.

### Only model-checked

Liveness, which needs fairness and is out of the prover's reach:
`EveryJobFinishes`, `ServesJobsFairly` (the fair part of the refinement) and
`Completes`. `ResultsPosted` counts what faults cost and is not proved yet.
`OkIsFinal` and `LinkResolves` are refuted by their runs. All other properties
of the runs are theorems; `IndexAgrees` and `RebuildRestores` for one process
and `ServesJobs` without second starts, which is how the runs check them.
