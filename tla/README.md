# A verification project for Data-Link

Data-Link (module `data-link-2.0`, Go) copies data between heterogeneous stores. A *task* reads documents from its
sources, runs them through a configurable pipeline and writes them to its targets. This directory holds TLA+
specifications of its concurrent core, the TLC configurations that check them, and proofs checked by TLAPS.

## 1. Inventory of the system

| Component | Source | State it keeps | Operations | What must hold |
|---|---|---|---|---|
| Task | `datalink/loop/task.go` | `State`, `exitF`, `errF`, `taskWG`, the done flags and counters, the reader and writer maps, one unbuffered channel from the sources, one per target | `Run`, `Stop`, `Release`, and the goroutines `runSource`, `runTarget`, `runDirectPipeline`, `runErrorChan` | no document is lost between reading and writing; the end of the task takes nothing away from a goroutine that still works; `Stop` returns, and only when everything has stopped |
| Statistic | `datalink/loop/statistic.go` | counters | `Run`, `Stop`, `Display` | counts agree with what happened |
| Space | `datalink/loop/space.go` | items that wait to be joined, a lock, a pause flag | `Start`, `PauseIn`, `ResumeIn`, `MatchItem`, `TimeoutItem`, `Pack`, `Stop` | an item leaves exactly once: joined, saved or failed; `Stop` returns |
| Loop | `datalink/loop/loop.go` | the map of tasks, the map of obs readers, files on disk | `AddTask`, `RunTask`, `StopTask`, `RemoveTask`, `RemoveTaskFile`, `Stop` | at most one live instance of a task; memory and files agree; a removed task stays removed, a stopped one stopped |
| Start-up | `datalink/datalink.go`, `app/datalink/main.go` | the set of tasks to start automatically, its file | `Start`, `TaskAutoStartRun`, `TaskAutoStartAdd`, `TaskAutoStartDel`, the command socket | every request comes to an end; a restart brings back what was answered, and not what was stopped |
| Pipeline | `datalink/loop/pipeline.go` | a global registry of flows, script engines | `RegisterFlow`, `RemoveFlow`, `RunningFlow`, the operators | documents keep their order; one task's flow is not another's |
| Writers | `datalink/terms/*_writer.go`, `clickhouse_wirter.go` | client, cache of a batch, exit flag | `Run`, `Write`, `Release` | a document is written once or counted as failed; `Run` returns |
| Readers | `datalink/terms/*_reader.go` | client, resume position (memory and file), exit flag | `Run`, `Stop`, `Clear`, the sync modes | after a restart no document is skipped; `Stop` returns |
| linkd | `datalink/linkd/*.go` | none of its own | HTTP handlers over Loop and the resource store | a handler that fails half way leaves a usable task |
| obs | `datalink/obs/obs.go`, `add/log-obs/main.go` | positions of followed files | agent, receiver | lines are sent at least once |
| linkadmin | `linkadmin/` | browser | user interface | outside this project |

How they interact: `linkd` handlers call `Loop`; `Loop` owns tasks and calls `Run` and `Stop`; a task starts one
goroutine per source and target and talks to them through channels; sources push to `readOpC`, the pipeline goroutine
pulls, transforms and routes every op to the channel of the target that maps its alias; errors of all goroutines go to
one recorder through `ErrC`; plain boolean fields (`exitF`, `errF`, `ReadDone`, `WriteDone`) are the signals between
goroutines, polled by tickers.

Hard behaviours: unlocked counters and flags shared by goroutines; unbuffered channels whose two ends stop for
different reasons; `Release` setting maps to nil under running goroutines; a write racing its own timeout; batches
reused while a hung write still reads them; resume positions written before delivery; restarts of a task whose former
instance is still alive. They are listed with their lines in `PROJECT.json` under `hazards`.

## 2. The modules

| Module | Models | Extends |
|---|---|---|
| `Task` | one task in direct mode: `datalink/loop/task.go`, with a source as in `terms/empty_reader.go`, a target as in `terms/plaintext_writer.go` and the user's `Loop.StopTask` | standard modules |
| `TaskInv` | the inductive invariant of `Task`, kept apart so that TLC checks it before TLAPS proves it | `Task` |
| `TaskProofs` | theorems about `Task` | `TaskInv`, `TLAPS` |
| `Transfer` | what a task promises, without goroutines, channels or counters: the abstract specification | standard modules |
| `TaskTransfer` | the refinement mapping from `Task` to `Transfer` | `TaskInv` |
| `TransferProofs` | `Task` implements `Transfer`, and keeps the order of each source | `TaskTransfer`, `TaskProofs` |
| `MCTask` | instances of `Task` for TLC | `TaskTransfer` |
| `WriterRun` | one target that writes op by op: `Run`, `Write`, `Release` of `terms/mysql_writer.go` | standard modules |
| `WriterProofs` | theorems about `WriterRun` | `WriterRun`, `TLAPS`, `FiniteSetTheorems` |
| `BatchWriter` | one target that writes in batches: `Run`, `Write`, `Release` of the MongoDB, Elasticsearch and ClickHouse writers | standard modules, `SequencesExt` |
| `BatchInv`, `BatchProofs` | the inductive invariants of `BatchWriter`, and the theorems about its slices and batches | `BatchWriter`, `TLAPS` |
| `BatchEffectProofs` | the theorems about what `BatchWriter` counts and in which order ops take effect | `BatchProofs`, `FiniteSetTheorems` |
| `MCBatchWriter` | instances of `BatchWriter` for TLC | `BatchWriter` |
| `Loop` | the registry of tasks, the task files and the automatic-start file, HTTP handlers, command socket, start-up: `datalink/loop/loop.go`, `datalink/linkd/handle.go`, `linkd.go`, `datalink/datalink.go` | standard modules |
| `LoopInv`, `LoopProofs` | the inductive invariant of `Loop`, and the theorems | `Loop`, `TLAPS` |
| `MCLoop` | instances of `Loop` for TLC | `Loop` |
| `Resume` | a source that follows a change log and is stopped, crashes and starts again: `terms/mysql_reader.go` (binlog and field), `mongodb_reader.go`, `kafka_reader.go` | standard modules |
| `ResumeInv`, `ResumeProofs` | the inductive invariant of `Resume`, and the theorems | `Resume`, `TLAPS`, `FiniteSetTheorems` |
| `MCResume` | instances of `Resume` for TLC | `Resume` |
| `Space` | a task in space mode: `runSpacePipeline` of `task.go` and the join buffers of `datalink/loop/space.go` | standard modules |
| `SpaceInv`, `SpaceProofs` | the inductive invariant of `Space`, and the theorems | `Space`, `TLAPS` |
| `MCSpace` | instances of `Space` for TLC | `Space` |

`PROJECT.json` (`map`) gives the lines each definition stands for. Definitions whose comment begins with "Variant" are
faulty forms of the definition that follows; no specification uses them, they are there to show that a property
notices the fault.

### Task

State: the fields of the struct keep their names (`State`, `exitF`, `errF`, `taskWG`, `ReadDone`, `ReadDoneCount`, ...).
`run`, `rpc[r]`, `wpc[w]`, `pipe`, `ctl`, `recorder` and `user` are the program counters of the goroutine that calls
`Run`, of one goroutine per source and target, of the pipeline, of the control goroutine, of the error recorder and of
a user who calls `Stop`. `released` stands for what `Release` does at once to the control goroutine's fellows: it closes
`readOpC` and sets `readerM`, `writerM` and `writeOpCMap` to nil. `owed` and `got` are history: what was routed to some
target, and what each target received.

* Channels are unbuffered, so a send and its receive are one joint step: `PipeTakeDoc`, `PipeSend`, `PipeTakeDone`,
  `PipeSendDone`, and every report to the recorder (guard `recorder = "run"`).
* `ReadDoneCount++` and `WriteDoneCount++` are executed by several goroutines without a lock: a load (`ReaderLoad`), a
  store (`ReaderStore`), then the comparison (`ReaderCheck`), for which the compiler may use the register or the memory.
* A source emits up to `MaxOps` documents, fails, or returns; those in `Direct` return by themselves, the others only
  when stopped. `RunningFlow` returns any member of `FlowResults`, sequences of aliases, or fails.
* `buildTarget` stores a target's channel under each of its aliases, a later target taking over those it shares
  (`writeOpCMap`); `runTarget` reads the channel of whichever alias the map iteration yields first (`LaunchWriter`).
* Fused steps: one goroutine's local steps between two steps that another goroutine can see are one action. `Release`
  is one action: its assignments follow each other in the control goroutine, and the only other goroutine that could
  tell them apart is a source that sends a second `ReadDone` command (`ReaderPanic`).

### Transfer

Documents of open sources become items, one document at a time (`Route`); the items of a document reach targets in
their order and once each (`Deliver`); sources end (`Finish`); a target is told that the reading is done when every
source has ended and every item was received (`Tell`); the task lets go of its channels when all targets have been told
(`LetGo`). `TaskTransfer` maps `Task` to it: a source is open until its goroutine has left `imp.Run`, a target is told
when it has taken the `ReadDone` command, `owed` and `got` are the history variables of the same names. The lost
increments, the flags and the wait group of `Task` are invisible there; that they do no harm is what the refinement says.

### WriterRun

`Run` receives a message, sets a deadline, starts a goroutine that calls `Write`, and selects between the end of the
context and a timer of the same length. The actions `TakeOp`, `TakeDdl`, `TakeReadDone`, `Ddl`, `Expire`, `SelectDone`,
`SelectTimeout`, `RunRelease`, `RunEnd` are `Run`; `WriteConnect`, `WriteExec`, `WriteRetry`, `WriteReport` are the
goroutine that writes message `n`, whose place is `w[n]`. The closure's variable `failed` is read by `Run` and written
by the goroutine without synchronisation once the deadline has passed: `SelectDone` reads what it holds then. The
database is outside: a statement takes effect, fails, or loses its connection before or after it took effect, and any
call may never return (no fairness on `Write`).

### BatchWriter

The same loop with a cache. What is new is the slice: `cacheList` is an array and a length, `heap` holds the arrays,
`append` fills the array while it has room and moves to one of twice the size otherwise, and `cacheList[:0]` keeps the
array. A `Write` captures the slice when its goroutine starts (`WriteBegin`) and reads it element by element
(`WriteGather`), so a late one reads what `Run` has put there meanwhile. `read` are the ops it has read, `got` and
`todo` the positions among them that are gathered and that are being sent. `NextCall` and `Closes` are the grouping:
MongoDB sends all inserts of a batch, then its updates, then its deletes; Elasticsearch one bulk request; ClickHouse a
statement per run of one type. `NoClient` and `WritePanics`: MongoDB's `Write` takes the client from the writer again for
updates and deletes (`mongodb_writer.go:263, 285`), and the goroutine has no `recover`. The variable `Writer` says which
of the three the behaviour is about. One document set per target is modelled; `Unmapped` ops have none, and `Unsplit`
ones go to a namespace that is not `db.coll`: MongoDB reports them when their kind's turn comes, writes nothing and
counts nothing (`WriteSkip`, `mongodb_writer.go:223-226, 257-260, 279-282`). `Turn` are the ops of the kind that is
sent next, `Split` those of them whose namespace can be used.

### Loop

`tasks`, `object`, `flows` and `runData` are what the process holds in memory, `files` and `autoFile` what is on disk;
`req[p]` is the place of a handler, of the command socket or of `main` (`Boot`) in its code. No lock protects the map of
tasks, so a handler's look-up (`RunCheck`, `StopCheck`, `RemoveCheck`), the change of the map (`RunReplace`,
`RemoveEntry`) and its file operations (`WriteTask`, `RemoveFile`, `RebuildWrite`) are separate steps, and other
handlers act between them. `RunTask`, `StopTask` and `RemoveTask` are called from several handlers; `RunReturn`,
`StopReturn` and `RemoveReturn` say what each caller does next, `TaskClear` being a loop over all of them. A task object
is what `Task` is from outside: `SourceFails` (the state becomes `TaskStop`, the other sources may go on), `WorkEnds`,
`WorkStops` (after `exitF`, perhaps never: nothing here says that a task comes to an end) and `Release`. The start-up loads the files (`LoadTask`), opens the HTTP server (`LoadEnd`)
and starts the saved tasks while requests are already served (`AutoMake` to `AutoEnd`). A write of the automatic-start
file first empties it, so a crash in between leaves it empty; when two requests write it at once, the longer of two
texts shows through and the file no longer parses (`AutoWrite`); a write may also fail and leave it empty. `Crash` forgets the memory and starts the process again;
the Go runtime's own end of a process that writes a map from two goroutines is one of its causes. HTTP handlers are
alike, so the first one at rest takes the next request (`Accepts`).

`created`, `doomed`, `stopped` and `overtaken` are history: what was answered, what somebody asked to remove, what a
stop has taken off the record and nobody has asked to start since, and whose pending text was fixed before such a stop.
A stop counts at the moment `TaskAutoStartDel` changes the record (`Stops`), whether the task was found at work or not,
and during the start-up too, unless a start of the same task, by request or by `main`, is under way. A text of an
overtaken writer that is written after the stop does bring the task back (`AutoWrite` then takes it off `stopped`):
lines 107-137 of `datalink.go` have no lock. `BootHas` is what `main` still has to start or has started but not recorded.

Fused: the deletion and insertion of an entry by `RunTask`; the test for a file and its removal; reading the old file
and adding the new task in `TaskRebuild` (no request acts on the new id before).

### Resume

One module for four readers, since they are the same program in different orders: take a position, copy the tables,
read a change, hand it to the pipeline, write the position to the resume file. `conf` is the kind of source, its sync
mode and whether it resumes. `head` and `oldest` are the store's log, which others make longer (`Change`) and shorter
(`Purge`) at any time: a reader whose next change is gone has its stream broken (`StreamLost`), but for Kafka's client,
which goes on with the first message kept (`SkipPurged`). `pc`, `mem`, `nxt` and `hand` are the goroutine of `Stream` or `Replica`.
`saver` is the goroutine that saves the position on a ticker; it outlives its reader, so `old` holds those of all the
instances before: most write once more, the field reader's for ever. `ioutil.WriteFile` truncates and then writes, and two goroutines do it (`Written`): a crash, or the
other goroutine, finds the file empty or torn. The binlog reader saves what the canal has finished with
(`SyncedPosition`) and, after every change, in its own goroutine too (`SaveTruncates`, `SaveWrites`); MongoDB and Kafka
note a change before it is handed over (`Fetch`), and read it again after a restart; the field reader reads one time
window after the other, here one change per window. Kafka's client commits what it has returned (`Commit`).

A copy does not always end with an error when it fails. `CopyFails` is a query that fails and ends the reader. A MongoDB
cursor that breaks ends the loop of `ReadCollection` like one that is exhausted (`mongodb_reader.go:447-483` never asks
for its error), and a row that cannot be decoded is passed over: `CopySkips` goes on behind any number of rows, and the
copy is then taken for complete. `SkipChange` is the same for a change of the stream that cannot be decoded or is not
what it should be (`kafka_reader.go:306-350`, `mongodb_reader.go:516-519`, odd update rows in `mysql_reader.go:994-1002`).

`seen` is history: the changes the reader is done with, because the pipeline has got their effect, from the stream or
from a copied row, or because the reader itself has passed over them as unreadable. `origin` is
where the obligation begins. `why` records what no resume can make up for: a stream without a usable position
(`blind`), a field replica whose copy was cut short, which the next start takes for finished (`cut`,
`mysql_reader.go:447-470`), and a reset under a saver that was still alive and writes the file again (`reset`).

Fused: a reader reads its file when it is made, and opens its source at the first step after that.

### Space

`pipe` is the goroutine of `runSpacePipeline`, `inGo[s]` and `outGo[s]` are the two goroutines `BufferSpace.Start` makes
for space `s`, `base[s]` is `RelateDocumentSetsBase`, `space[s]` stands for `exitF` and the lock: only `Stop` keeps the
lock over more than one step. Source, target and user are what is left of `Task`: one of each. The channels are
unbuffered (`PipeGive`, `OutSend`), and all spaces of a task receive from one (`PipeGive(s)` for any `s`). An op is a
member of `Ops` with a document set; `Wheres` says which ops meet a condition. `fate` is history. The loops over maps
are steps per main op (`OutMatchMain`, `OutMatchNone`), since `InAdd` may come in between: `MatchItem` does not take the
lock to read. `MapRace` is what the Go runtime does when it notices. `conf` is the task's configuration, chosen in the
initial state from `Tasks`. Fused: the entries one call of `TimeoutItem` takes out, and the related ops of one main op
(the lock is free in between, but whoever takes it then takes it before or after as well).

## 3. What the runs show

| Run | Instance | Properties |
|---|---|---|
| `Task_two_sources` | one source that ends by itself and one that does not, one target, one document each | `IInv` (with the types), `FlagsNotEarly`, `ReleaseIsSafe`, `NothingLost`, `StopIsComplete`; liveness `StopEndsSources`, `StopEndsTask` |
| `Task_two_targets` | one source, two targets with different aliases, two documents, flows that yield nothing, one, two or three ops, one of them unmapped | `RightTarget`, `SourceOrder`, `ImplementsTransfer`; liveness `StopReturns` |
| `WriterRun_order` | three messages, the second a table change | `TypeOK`, `OnlyLateOverlap`, `FailuresCounted`, `InOrder`; liveness `ReceivesAgain` |
| `BatchWriter_batches` | MongoDB, Elasticsearch (limit 2, then 1 or 3) and ClickHouse; insert, update, delete, insert, the first one unmapped, the second with a namespace that does not split; one write may miss its deadline | `TypeOK`, `BatchesPartition`, `CacheBelowLimit`, `FailuresCounted`, `OnlyLateGoWrong`, `InOrder`; liveness `TickersFlush` |
| `Loop_requests` | three tasks: one saved with automatic start, one recorded for it whose file is gone (the socket's removal leaves the record), one to be created; any two requests, by HTTP or socket, overlapping each other and the start-up; one crash at any point; a source may fail at any time, a write of the automatic-start file may fail | `TypeOK`, `Durable`, `StopRemembered`, `RemovedForGood`; liveness `RequestsEnd` |
| `Space_join` | a space with two main ops that want one related op; two spaces, one of them with lifetime 0; a layer type that `Pack` does not know; an op to skip. Stop, expiry and the death of the process at any time | `TypeOK`, `OnePlace`; liveness `PipeReturns`, `JoinsLeave`, `EmptySpaceStops`, `StopReturns` |
| `Resume_restart` | the sixteen configurations of kind, mode and resume; two changes before the task first runs, one of them purged, and one after; two rows; the log is shortened at any time; up to two crashes, errors, unreadable rows or changes, stops or resets at any point | `TypeOK`, `NoGap`, `FileNotAhead`, `LossPerCrash`; liveness `CatchesUp`, `StopReturns` |

Five runs end in a violation, each of one line of the repository's own text (`PROJECT.json`, `findings`):

* `Task_lost_update`: `ReadDone` ("reading finished", `task.go:34`) is not set although every source has returned: an
  increment of `ReadDoneCount` was lost.
* `BatchWriter_timer`: MongoDB's partial batch is not written "at the latest every five seconds"
  (`mongodb_writer.go:73`): the timer fires once.
* `Loop_reachable`: a task at work is started again, and its old instance works on outside the registry, where no stop
  finds it (`loop.go:99` decides on `State`, which one failed source has set to `TaskStop`).
* `Space_expiry`: an op that has just entered a space is timed out (`space.go:270`, the test is inverted).
* `Resume_copy`: a MongoDB replica without a resume file takes no position before its copy, so a change made meanwhile
  is in neither the copy nor the stream (`mongodb_reader.go:691`; `03.source.md:42` promises a complete copy).

Some properties state what remains true in spite of such behaviour. `StopEndsTask` makes an exception for
`CountersRaced`: besides the lost increment, two sources may *both* find the count complete, and the second `ReadDone`
command then blocks the pipeline goroutine, whose targets have gone. `OnlyLateOverlap` and `InOrder` (both writers) make
one for writes that missed their deadline, which nothing stops. `FailuresCounted` speaks of writes that kept their
deadline, and of batches other than the last, and leaves out MongoDB's ops without a document set or with a namespace
that does not split, which it reports and does not count. `Durable` makes an exception for tasks somebody has asked to remove or to
reset (a reset deletes the task file), and `StopRemembered` two: a start of the same task that is under way when the
stop changes the record (`main` too records a task after `RunTask`, so a stop in between is forgotten), and a text of
another request that was fixed before the stop and is written after it. In both the code does bring the task back.
`RequestsEnd` says that every request comes to an end, an answer or a panic (a dead command socket is one: removed
meanwhile, a task that `loop.go:222` looks up again is nil), but for a stop that waits for a task which has been told to
stop; that a task then does end is `StopReturns` of `Task`, for one source, and not always so. `NoGap` and `FileNotAhead` speak of the `Exact` sources, as long as
`why` is empty; `Exact` leaves out the replica of `Resume_copy` and Kafka, of which `LossPerCrash` says that each crash
costs at most the one message in hand. `InOrder` of `BatchWriter` allows what `Overtakes` says: MongoDB sends the
inserts of a batch before its updates, and these before its deletes. It promises nothing, on either side, about ops a
late write has read: such a write may read the ops of a later batch out of the shared array and write them first.

`StopReturns` of `Space` makes one for a pipeline goroutine that sees `exitF` before the `ReadDone` command: nobody then
tells the targets, and `Stop` never returns. `EmptySpaceStops` speaks of empty spaces only: `BufferSpace.Stop` holds the
lock, in the pipeline goroutine, while it waits for goroutines that need both, so a space with anything in it is never
stopped. `NoGap`, `FileNotAhead` and `CatchesUp` do not speak of the rows and changes a reader has passed over: with
MongoDB that may be a whole copy whose cursor broke. They say that nothing else is missing, and that what changes after
the position taken before the copy still arrives.

Facts of the same kind that the models show and no run is spent on: `Stop` returns before `State` leaves `TaskRun`, so
`RemoveTask` may refuse the task (`task.go:214`, `loop.go:204`); the deferred function of the control goroutine turns
`TaskDone` into `TaskStop` (`task.go:161`); one failed source marks the running task `TaskStop` (`task.go:417`); a write
that misses its deadline and fails later may be counted nowhere, when `select` takes the end of the context
(`mysql_writer.go:104`); a failed `Pack` sends a nil op, at which the pipeline goroutine of the space mode panics
(`space.go:416`, `task.go:598`); with lifetime 0 a space never sends and cannot be stopped (`space.go:188`); failures of
the last batch, and MongoDB ops without a document set or with a namespace like `a.b.c`, are not counted
(`mongodb_writer.go:88, 191, 223`); the write of the
last batch has no deadline (`mongodb_writer.go:88`); `TaskRebuild` leaves both tasks when the old one cannot be removed
(`handle.go:457`); a start and a stop of one task that overlap may leave it in the automatic-start file but not in
memory, and no later stop takes it out again (`datalink.go:107-137`); a binlog replica that cannot open its canal goes
on with a nil one and panics, and `Run` waits for ever (`mysql_reader.go:393-400`).

### Bounds

* `MaxOps` of `Task`: documents per source. One suffices for the end protocol, whose steps do not depend on how many
  documents went before; order needs two (`Task_two_targets`). Two sources are the least that can lose an increment,
  two targets the least that can be confused.
* `MaxOps` of `WriterRun` is 3: a late write, its successor, and a table change between them. The length of
  `OptionType` in `BatchWriter` is 4 with batches of 2 (or 3, with `auto_bulk`): a full batch, whose array is filled
  again, and a second full batch or partial ones that are the last or that the timer flushes. The four ops are of three
  kinds, so every order in which MongoDB and ClickHouse group them occurs.
* `MaxLate` of `BatchWriter` is 1: a late write, and those after it that share its array with it. What a second late
  write adds is only more of the ops nothing is promised about. The theorems hold for any number.
* `MaxEmpty` of `BatchWriter`: flushes of an empty cache that a ticker causes. Such a flush leaves nothing behind but a
  `Write` without ops; the run allows none, those of MongoDB's timer and of the end are always there.
* `MaxRequests` of `Loop` is 2: each property is about an answered request and one other that overlaps it, and the
  automatic start, of two recorded tasks, adds a third actor: so a stop may meet a writer that names its task, one that
  does not, `main`, and a file that one of them has torn. `MaxObjects` is 3: two objects of one
  task, when it is rebuilt or works on outside the registry, and one of another; a request is admitted when an object is
  left for all that is in progress (`Accepts`). The theorems about `Loop` hold without these bounds.
* `Resume`: two rows, and changes that alternate between them, are the least for a copy that is overtaken by a change
  behind and before it. `InitLog`, `InitOldest` and `MaxLog` are 2, 1 and 3: a change already dropped, one to be copied
  or read, one that comes at any time. `MaxTry` is 2 where the code has 3: the last failure and one before it. `MaxTroubles` is 2: a
  restart, and a second interruption while the first is being made up for. A row or change passed over is one of them;
  a shortened log is not. The theorems hold for any bounds.
* `Tasks` of `Space`: two main ops for one related op are the least that can be joined twice, two spaces the least that
  can take an op from each other.

### Fairness

`Task`: the Go scheduler runs every goroutine that can run (weak fairness on each goroutine's steps). Nobody must call
`Stop`, no source must emit or fail; one that is exhausted or told to stop returns, and writes come to an end because
both kinds of writer wait no longer than their deadline (`ReceivesAgain` of `WriterRun` is that fact, the last batch of
`BatchWriter` excepted). `WriterRun` and `BatchWriter`: `Run` is scheduled and its timers fire; the database owes no
answer, so `Write` has no fairness at all. `Tick` is fair while there is a ticker. `Loop`: the
goroutine of each request, and `main`, run as long as they are in progress; no task has to end, even when told to stop,
since the code does not guarantee that (a lost increment, the space mode, a last batch without a deadline, the field
reader's `Close`); requests and failures may never come. `Resume`: the reader's own goroutine is
scheduled, the store answers and the pipeline takes what it is handed; savers, stops, restarts and changes may never
come. `Space`: goroutines
are scheduled; the cases of a `select` that tickers serve are strongly fair, since Go chooses among ready cases at
random and a tick stays in its channel until it is taken. A source need not emit, and nobody must stop the task.

## 4. What is proved

All proofs are for every value of the constants that satisfies the module's assumption (`TaskAssumption`: finite,
non-empty sets of sources and targets; every target maps at least one alias; flows yield sequences of aliases), any
number of documents and any interleaving.

`TaskProofs` proves `Spec => []IInv` and from it `TypeCorrect`, `FlagsAreNeverEarly`, `ReleaseSafety`, `NothingIsLost`
and `StopWaits`. None of the properties is inductive by itself. `IInv` is their strengthening:

* `WGInv`: `taskWG` is the number of goroutines that have not called `Done`. From it: the wait group is never negative,
  and `Stop`, which waits for zero, finds none of them at work.
* `ReadCountInv`, `WriteCountInv`: however many increments are lost, the counter and every register that holds a copy
  of it stay at or below the number of stored increments. So a comparison that finds the counter equal to the number of
  sources finds all of them counted: the flags may be late, even for ever, but never early.
* `ReleaseInv`: `Release` has both flags behind it.
* `HandInv`, `CommandInv`: what is owed to a target and not received is in the pipeline's hand; once the pipeline has
  taken the `ReadDone` command there is nothing left to read, route or receive. Since the command is sent with
  `ReadDone` set, no source can emit behind it, although several sources and the pipeline work at once.
* `RunInv`: how far `Run` has come, and what a `Stop` can have seen of it. A user may find `TaskStop`, and wait, while
  `Run` is still starting sources (one failed early); the targets are all started by then and hold the wait group.

The argument is one lemma per group of actions, each with a step per conjunct the action can disturb, resting on lemmas
about cardinalities of the sets of goroutines.

`WriterProofs` proves `Spec => []WInv` (types, `OnlyLateOverlap`, and `TakenInv`: nothing is ahead of the message in
hand, and a deadline that has passed is on record), and from it `WritesOverlapOnlyLate` and `WritesInOrder`, an action
property: a statement of a write that is not late can only be that of the message in hand, and everything that took
effect is behind it. `CountInv` adds the counter: a write that has returned took effect or reports its failure
(`ReturnedInv`), and the messages finished in time that never took effect (`Lost`) are at most as many as the counter
says, which is never ahead of the messages finished. With it `FailuresAreCounted`; `WriterTypeCorrect` states the types.

`TransferProofs` proves that `Task` implements `Transfer`: initial states map to initial states and every step to a
step or a stutter (`TaskImplementsTransfer`), for any number of sources, targets and documents. Beside `IInv` the step
simulation needs that what was received or is in hand was routed (`OwedInv`), that a document waiting to be sent is
younger than all that was routed (`FreshInv`), and that what was received of a source comes before what is in hand of
it (`EarlierInv`). From them also `OrderIsKept` (`SourceOrder`), and `OwnOpsOnly` (`RightTarget`), which assumes that no
two targets map the same alias: the code does not keep it otherwise.

`LoopProofs` proves `Spec => []LInv` and from it `TypeCorrect`, `Durability`, `StopIsRemembered` and
`RemovedStaysRemoved`, for any number of tasks, requests, connections and crashes. `LInv` says, beside the types:

* `Shapes`: what a handler has in hand in each phase. `ObjInv`, `RunInv`: an object is registered under the id it works
  for, and the one a `RunTask` in progress has made belongs to nobody else.
* `NewInv`: the id a request is creating is its own and not answered yet, so no write of a task file can hit a task that
  was answered, and removed: `RemovedForGood`.
* `DoomInv`: whatever a handler removes, somebody has asked to remove. `ProgressInv`: of file and entry, the one made
  first is still there when the second is made, although the socket makes them in the opposite order and others may
  remove in between. With both, `Kept` is `Durable` made inductive: the start-up loads what has a file.
* `StopInv`: a stopped id is in none of the places from which it could come back: the file, the map, the text of a
  write in progress that is not overtaken, a start in progress, or what `main` has still to start.

The proof has one lemma per part; what a handler does to its own request, whichever phase it is in, is said once
(`Rests`, `Goes`), and what it leaves alone of others' (`OneMoves`, `HandlerQuiet`, `HandlerKeeps`).

`ResumeProofs` proves `Spec => []RInv` and from it `TypeCorrect`, `NothingSkipped` (`NoGap`) and `FileIsSafe`
(`FileNotAhead`), for any set of configurations, any tables and log, and any number of crashes, errors, stops and
resets. `RInv` says, beside the types and which reader can be where (`PlaceInv`):

* `FirstInv`: a source that has not run has nothing to start from and no saver at work; without it, what a former life
  left in the file would count for the new one.
* `CopyInv`: the rows copied so far are as new as the position taken before the copy.
* `DiskInv`: the position in the file, and in the hands of any saver, of this instance or a former one, claims only what the reader
  is done with; while a
  field reader copies, its file holds the position the copy began with.
* `StreamInv`: behind the next change to be read, at most the one in hand is missing; and whatever a saver would take as
  the position at this moment claims only what the pipeline has got.

The exceptions are carried by `why`: it only grows, but for a reset, so a step that leaves it empty found it empty.
`KafkaInv` adds the count behind `OnePerCrash` (`LossPerCrash`): below each position from which the reader may go on (in
the file, committed, in memory, in the hands of a saver) the changes that are neither delivered nor in hand (`Missed`)
are at most as many as there were crashes. The client may commit a message before it is handed over, so a crash can turn
the one in hand into a missed one, and nothing else does.

`SpaceProofs` proves `TypeCorrect`, for any configuration, and `EachInOnePlace` (`OnePlace`) through `Spec => []SInv`,
for any number of spaces, ops and joins. It assumes `NoSelfJoin`: no space relates its main set to itself. The code
accepts such a space; three ops that match in a row are then enough to break `OnePlace`, for an op that waits in a pack
as the main op of one match can be taken as the related op of another. `SInv` says, beside the types:

* `HandInv`: what each goroutine has in hand at each point; so nothing is overwritten, and what stops the spaces finds
  the packs and the queue empty.
* `MainInv`: the main ops of the packs are still in the base and are looked at no more, although "space in" adds to the
  same base and may add to what "space out" iterates over.
* `InsideApart`, `OutsideApart`: no op is in two places of one space, nor in two messages of one place; source, pipeline
  and spaces share none. `HeldInv`: an op is held exactly as long as it is somewhere.

Most steps move no op; the others have one lemma each, which says what leaves which place and where it goes.

`BatchProofs` proves `Spec => []BInv` and from it `TypeCorrect`, `NeverFull` (`CacheBelowLimit`), `Partitioned`
(`BatchesPartition`) and `InTimeIsRight` (`OnlyLateGoWrong`), for each of the three writers, any limits, any number and
kinds of ops, and any number of late writes. `BInv` says, beside the types:

* `WaitInv`: while `Run` waits, the last write was given exactly what is in the cache; it is late if and only if the
  deadline has passed.
* `TurnInv`: a write that is not late is the last one, or has returned; so of all the writes that may be reading an
  array, one at most is owed its content.
* `ReadInv`: that one holds the very slice the cache is, nothing is put into it before `Run` goes on, and its client is
  not taken away.
* `LimitInv`: the limit is positive whatever `auto_bulk` makes of it, and a cache that waits is below it.

The fact they rest on is `AppendOpSteps`: `append`, in place or into a larger array, adds one op behind the old ones and
changes the length of no array. That late writes go on reading the same arrays needs no invariant: they change none.

`BatchEffectProofs` proves `Spec => []EffectInv` beside it, and from both `FailuresInCounter` (`FailuresCounted`) and
`BatchInOrder` (`InOrder`), in the same generality. `EffectInv` says:

* `LeftInv`: the positions a write has gathered or is about to send (`Left`) were read, and the failures it has counted
  are of others; so no op is counted twice, whichever calls fail for whichever of their ops.
* `FailInv`, `LostInv`: of a batch written in time, what the write is done with and what took no effect is in its
  `failed`; of the batches `Run` has finished with in time, it is in `FailedDeliveryCount`; but for the ops MongoDB passes over
  without counting them (`Uncounted`). A bulk request that reports
  an op as failed which took effect makes the counter larger than need be, never smaller.
* `AppliedInv`: whatever took effect was sent by a write in time, or read by a late one.
* `SentInv`: what a write in time has left goes after what it has sent, or is of a kind MongoDB sends later. The order
  of the calls (`CallOrder`) is the same fact for one call; across batches it follows from `BatchesPartition`, for a
  write in time only sends while `Run` waits for it.

Only model-checked: liveness, which is out of the prover's reach (`StopEndsSources`, `StopEndsTask`, `StopReturns`,
`ReceivesAgain`, `TickersFlush`, `RequestsEnd`, `PipeReturns`, `JoinsLeave`, `EmptySpaceStops`, `CatchesUp`). Every
invariant and every action property of the passing runs is a theorem.

## 5. Plan

Done: `Task` in direct mode with `Transfer`, `WriterRun`, `BatchWriter`, `Loop`, `Space`, `Resume`. What would come next,
most important first:

1. An abstract target (ops come in a row, those written in time take effect in that row or are counted), which
   `WriterRun` and `BatchWriter` implement: `CountInv` and `EffectInv` are what its refinement mappings need.
2. The registry of obs projects and the agent's position file (`obs.go`, `log-obs/main.go`).
3. `Flow`: the pipeline operators as functions over sequences (`pipeline.go`), the sort and match helpers, checked
   against reference definitions over bounded inputs.

## 6. Not modelled

* `linkadmin` is a browser front end. The JavaScript in the repository is its vendored editor and formatter (CodeMirror
  and its add-ons, a code formatter): third-party code without logic of the synchronisation, which is left aside. The
  program is written in Go, and what is modelled is the Go code.
* `Task`: the commands a MySQL source sends when a table changes (`mysql_reader.go:1236`), which the pipeline hands to
  every target as it does the `ReadDone` command; what a target does with one is in `WriterRun` (`TakeDdl`, `Ddl`).
* `WriterRun`: the map of table structures, which a late write may find nil after `Release` and then panics
  (`mysql_writer.go:363-380, 427`).
* Readers: dumps and the one-off modes, paging, the conversion of rows and events, relation queries, the Canal,
  Elasticsearch and ClickHouse readers. A binlog stream that cannot read the master's position starts with a zero one. A Kafka
  resume file that does not parse is taken like an empty one.
* `Loop`: the automatic-start file is taken to open and to be readable (a write of it may fail); log files, the deletion of resume files by a reset (in `Resume`), the registry of obs projects. `Loop.Stop`
  and `switchSpaceState` are called from nowhere.
* The pipeline operators and their script engines: in `Task` a flow yields any sequence of ops, or fails.
* Statement text, request bodies and number formats; log output and the sampling of rates (`statistic.go` only reads
  counters); reading of configuration.
* A torn read of a slice header or of an interface value, which a data race could produce on some platforms; the races
  on plain integers and booleans are modelled.
* In space mode the `ReadDone` command overtakes documents that wait in the spaces (`task.go:604`); `Space` shows it and
  no property forbids it, since no document promises an order there.
