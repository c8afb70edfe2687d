-------------------------------- MODULE Task --------------------------------
(***************************************************************************)
(* One synchronisation task of datalink/loop/task.go, in direct mode (no   *)
(* "space" in its configuration): the goroutine that calls Run, one        *)
(* goroutine per source (runSource), one per target (runTarget), the       *)
(* pipeline goroutine (runDirectPipeline), the error recorder              *)
(* (runErrorChan), the control goroutine started at the end of Run, and a  *)
(* user who calls Stop.                                                    *)
(*                                                                         *)
(* Every channel of the code is unbuffered, so a send and its receive are  *)
(* one joint step of the two goroutines.  The done counters of the code    *)
(* are plain ints incremented by several goroutines without a lock: the    *)
(* increment is a load and a store here, and the comparison that follows   *)
(* may see either the register or the memory.                              *)
(***************************************************************************)
EXTENDS Integers, Sequences, FiniteSets

CONSTANTS
  Readers,      \* the keys of readerM: one source each
  Direct,       \* the sources that end by themselves (direct, dump); the
                \* others (stream, replica) run until they are stopped
  Writers,      \* the keys of writerM: one target each
  TargetIndex,  \* position of each target in Conf.Targets
  Aliases,      \* document set aliases the pipeline may put on an op
  DocumentSet,  \* DocumentSet[w]: the aliases target w maps
  FlowResults,  \* what RunningFlow may return, as sequences of aliases
  MaxOps,       \* bound: documents one source emits
  NoReader      \* no source

ASSUME TaskAssumption ==
  /\ IsFiniteSet(Readers) /\ Readers # {} /\ Direct \subseteq Readers
  /\ IsFiniteSet(Writers) /\ Writers # {}
  /\ TargetIndex \in [Writers -> Nat]
  /\ DocumentSet \in [Writers -> SUBSET Aliases \ {{}}]
  /\ FlowResults \subseteq Seq(Aliases)
  /\ MaxOps \in Nat
  /\ NoReader \notin Readers

VARIABLES
  \* struct Task
  State, exitF, errF, taskWG,
  ReadDone, ReadDoneCount, WriteDone, WriteDoneCount,
  released,     \* Release has closed readOpC and dropped the three maps
  FullReadCount, FailedPipeLineCount, FailedDeliveryCount,
  \* Run, the error recorder, the user
  run, recorder, user,
  \* one source goroutine each
  rpc, readerExitF, readTmp, emitted,
  \* one target goroutine each
  wpc, chanOf, writeTmp,
  \* the pipeline goroutine: the op in hand, the aliases RunningFlow gave its
  \* results, the next of them, and the channels still owed the command
  pipe, doc, ops, next, cmdLeft,
  \* the control goroutine
  ctl, toStop, stopping,
  \* history: the items routed to some target, the items each target got
  owed, got

flagVars   == <<exitF, errF, released>>
countVars  == <<FullReadCount, FailedPipeLineCount, FailedDeliveryCount>>
readerVars == <<rpc, readerExitF, readTmp, emitted, ReadDone, ReadDoneCount>>
writerVars == <<wpc, chanOf, writeTmp, WriteDone, WriteDoneCount>>
pipeVars   == <<pipe, doc, ops, next, cmdLeft>>
ctlVars    == <<ctl, toStop, stopping>>
vars == <<State, taskWG, flagVars, countVars, run, recorder, user, readerVars,
          writerVars, pipeVars, ctlVars, owed, got>>

-----------------------------------------------------------------------------
States == {"TaskNull", "TaskInit", "TaskDone", "TaskStop", "TaskRun"}

(* An item is one op that leaves the pipeline: the source and number of the
   op it was made from, its place among the results, its alias. *)
Items == Readers \X Nat \X Nat \X Aliases

Mapped == UNION {DocumentSet[w] : w \in Writers}

(* buildTarget makes one channel per target and stores it under each of the
   target's aliases, so a later target takes over an alias both name.
   Channels are named by the target they were made for. *)
writeOpCMap(a) ==
  CHOOSE w \in Writers :
    /\ a \in DocumentSet[w]
    /\ \A v \in Writers :
         a \in DocumentSet[v] => TargetIndex[v] <= TargetIndex[w]

Chans == {writeOpCMap(a) : a \in Mapped}

Item(k) == <<doc[1], doc[2], k, ops[k]>>

(* What RunningFlow returned and a target will be sent. *)
Routed(d, out) == {<<d[1], d[2], k, out[k]>> : k \in {j \in DOMAIN out : out[j] \in Mapped}}

(* Variant: the counters compared with the last index. *)
Len0LastIndex(S) == IF released THEN 0 ELSE Cardinality(S) - 1

(* len(readerM) and len(writerM): Release sets both maps to nil. *)
Len0(S) == IF released THEN 0 ELSE Cardinality(S)

-----------------------------------------------------------------------------
Init ==
  /\ State = "TaskNull" /\ taskWG = 0
  /\ exitF = FALSE /\ errF = FALSE /\ released = FALSE
  /\ FullReadCount = 0 /\ FailedPipeLineCount = 0 /\ FailedDeliveryCount = 0
  /\ run = "null" /\ recorder = "null" /\ user = "idle"
  /\ rpc = [r \in Readers |-> "null"]
  /\ readerExitF = [r \in Readers |-> FALSE]
  /\ readTmp = [r \in Readers |-> 0]
  /\ emitted = [r \in Readers |-> 0]
  /\ ReadDone = FALSE /\ ReadDoneCount = 0
  /\ wpc = [w \in Writers |-> "null"]
  /\ chanOf = [w \in Writers |-> w]
  /\ writeTmp = [w \in Writers |-> 0]
  /\ WriteDone = FALSE /\ WriteDoneCount = 0
  /\ pipe = "null" /\ doc = <<NoReader, 0>> /\ ops = <<>> /\ next = 1
  /\ cmdLeft = {}
  /\ ctl = "null" /\ toStop = {} /\ stopping = NoReader
  /\ owed = {} /\ got = [w \in Writers |-> {}]

-----------------------------------------------------------------------------
(* Run *)

(* Run starts the error recorder, then Init. *)
RunInit ==
  /\ run = "null"
  /\ run' = "init" /\ recorder' = "run" /\ State' = "TaskInit"
  /\ UNCHANGED <<taskWG, flagVars, countVars, user, readerVars, writerVars,
                 pipeVars, ctlVars, owed, got>>

(* Some part of Init fails: the error is handed to the recorder, the state is
   TaskStop, and Run tells the recorder to end and returns. *)
RunInitFails ==
  /\ run = "init" /\ recorder = "run"
  /\ run' = "end" /\ State' = "TaskStop" /\ errF' = TRUE
  /\ UNCHANGED <<taskWG, exitF, released, countVars, recorder, user,
                 readerVars, writerVars, pipeVars, ctlVars, owed, got>>

RunInitOk ==
  /\ run = "init"
  /\ run' = "launch"
  /\ UNCHANGED <<State, taskWG, flagVars, countVars, recorder, user,
                 readerVars, writerVars, pipeVars, ctlVars, owed, got>>

(* Variant: the goroutine is not added to taskWG. *)
LaunchWriterNoAdd(w) ==
  /\ run = "launch" /\ wpc[w] = "null"
  /\ \E a \in DocumentSet[w] : chanOf' = [chanOf EXCEPT ![w] = writeOpCMap(a)]
  /\ wpc' = [wpc EXCEPT ![w] = "recv"]
  /\ UNCHANGED <<State, taskWG, flagVars, countVars, run, recorder, user,
                 readerVars, writeTmp, WriteDone, WriteDoneCount, pipeVars,
                 ctlVars, owed, got>>

(* runTarget: one goroutine per target, before any source is started.  The
   target reads the channel stored under whichever of its aliases the map
   iteration yields first. *)
LaunchWriter(w) ==
  /\ run = "launch" /\ wpc[w] = "null"
  /\ \E a \in DocumentSet[w] : chanOf' = [chanOf EXCEPT ![w] = writeOpCMap(a)]
  /\ wpc' = [wpc EXCEPT ![w] = "recv"]
  /\ taskWG' = taskWG + 1
  /\ UNCHANGED <<State, flagVars, countVars, run, recorder, user, readerVars,
                 writeTmp, WriteDone, WriteDoneCount, pipeVars, ctlVars, owed,
                 got>>

LaunchReader(r) ==
  /\ run = "launch" /\ rpc[r] = "null"
  /\ \A w \in Writers : wpc[w] # "null"
  /\ rpc' = [rpc EXCEPT ![r] = "launched"]
  /\ taskWG' = taskWG + 1
  /\ UNCHANGED <<State, flagVars, countVars, run, recorder, user,
                 readerExitF, readTmp, emitted, ReadDone, ReadDoneCount,
                 writerVars, pipeVars, ctlVars, owed, got>>

LaunchPipeline ==
  /\ run = "launch"
  /\ \A r \in Readers : rpc[r] # "null"
  /\ run' = "launched" /\ pipe' = "select"
  /\ UNCHANGED <<State, taskWG, flagVars, countVars, recorder, user,
                 readerVars, writerVars, doc, ops, next, cmdLeft, ctlVars,
                 owed, got>>

(* Run sets TaskRun whatever a source has set meanwhile, and starts the
   control goroutine. *)
RunSetsState ==
  /\ run = "launched"
  /\ run' = "end" /\ State' = "TaskRun" /\ ctl' = "loop"
  /\ UNCHANGED <<taskWG, flagVars, countVars, recorder, user, readerVars,
                 writerVars, pipeVars, toStop, stopping, owed, got>>

-----------------------------------------------------------------------------
(* A source goroutine: imp.Run, then the deferred bookkeeping *)

ReaderBegin(r) ==
  /\ rpc[r] = "launched"
  /\ rpc' = [rpc EXCEPT ![r] = "run"]
  /\ UNCHANGED <<State, taskWG, flagVars, countVars, run, recorder, user,
                 readerExitF, readTmp, emitted, ReadDone, ReadDoneCount,
                 writerVars, pipeVars, ctlVars, owed, got>>

(* The source has read one more document and blocks in opC <- op. *)
ReaderEmit(r) ==
  /\ rpc[r] = "run" /\ ~readerExitF[r] /\ emitted[r] < MaxOps
  /\ emitted' = [emitted EXCEPT ![r] = @ + 1]
  /\ rpc' = [rpc EXCEPT ![r] = "send"]
  /\ UNCHANGED <<State, taskWG, flagVars, countVars, run, recorder, user,
                 readerExitF, readTmp, ReadDone, ReadDoneCount, writerVars,
                 pipeVars, ctlVars, owed, got>>

(* imp.Run returns with Err() = nil: the source is exhausted, or stopped. *)
ReaderReturn(r) ==
  /\ rpc[r] = "run" /\ (readerExitF[r] \/ r \in Direct)
  /\ rpc' = [rpc EXCEPT ![r] = "wgDone"]
  /\ readerExitF' = [readerExitF EXCEPT ![r] = TRUE]
  /\ UNCHANGED <<State, taskWG, flagVars, countVars, run, recorder, user,
                 readTmp, emitted, ReadDone, ReadDoneCount, writerVars,
                 pipeVars, ctlVars, owed, got>>

(* imp.Run returns with an error: the task is marked TaskStop at once. *)
ReaderFail(r) ==
  /\ rpc[r] = "run"
  /\ rpc' = [rpc EXCEPT ![r] = "report"]
  /\ readerExitF' = [readerExitF EXCEPT ![r] = TRUE]
  /\ State' = "TaskStop"
  /\ UNCHANGED <<taskWG, flagVars, countVars, run, recorder, user, readTmp,
                 emitted, ReadDone, ReadDoneCount, writerVars, pipeVars,
                 ctlVars, owed, got>>

ReaderReport(r) ==
  /\ rpc[r] = "report" /\ recorder = "run"
  /\ rpc' = [rpc EXCEPT ![r] = "wgDone"]
  /\ UNCHANGED <<State, taskWG, flagVars, countVars, run, recorder, user,
                 readerExitF, readTmp, emitted, ReadDone, ReadDoneCount,
                 writerVars, pipeVars, ctlVars, owed, got>>

ReaderWGDone(r) ==
  /\ rpc[r] = "wgDone"
  /\ rpc' = [rpc EXCEPT ![r] = "load"]
  /\ taskWG' = taskWG - 1
  /\ UNCHANGED <<State, flagVars, countVars, run, recorder, user,
                 readerExitF, readTmp, emitted, ReadDone, ReadDoneCount,
                 writerVars, pipeVars, ctlVars, owed, got>>

ReaderLoad(r) ==
  /\ rpc[r] = "load"
  /\ rpc' = [rpc EXCEPT ![r] = "store"]
  /\ readTmp' = [readTmp EXCEPT ![r] = ReadDoneCount]
  /\ UNCHANGED <<State, taskWG, flagVars, countVars, run, recorder, user,
                 readerExitF, emitted, ReadDone, ReadDoneCount, writerVars,
                 pipeVars, ctlVars, owed, got>>

ReaderStore(r) ==
  /\ rpc[r] = "store"
  /\ rpc' = [rpc EXCEPT ![r] = "check"]
  /\ ReadDoneCount' = readTmp[r] + 1
  /\ UNCHANGED <<State, taskWG, flagVars, countVars, run, recorder, user,
                 readerExitF, readTmp, emitted, ReadDone, writerVars,
                 pipeVars, ctlVars, owed, got>>

ReaderCheck(r) ==
  /\ rpc[r] = "check"
  /\ \E seen \in {readTmp[r] + 1, ReadDoneCount} :
       IF seen = Len0(Readers)
       THEN /\ rpc' = [rpc EXCEPT ![r] = "sendDone"]
            /\ ReadDone' = TRUE
       ELSE /\ rpc' = [rpc EXCEPT ![r] = "end"]
            /\ UNCHANGED ReadDone
  /\ UNCHANGED <<State, taskWG, flagVars, countVars, run, recorder, user,
                 readerExitF, readTmp, emitted, ReadDoneCount, writerVars,
                 pipeVars, ctlVars, owed, got>>

(* A second ReadDone command caught by the close of readOpC: the send panics
   and GoSafeVal recovers. *)
ReaderPanic(r) ==
  /\ rpc[r] = "sendDone" /\ released
  /\ rpc' = [rpc EXCEPT ![r] = "end"]
  /\ UNCHANGED <<State, taskWG, flagVars, countVars, run, recorder, user,
                 readerExitF, readTmp, emitted, ReadDone, ReadDoneCount,
                 writerVars, pipeVars, ctlVars, owed, got>>

-----------------------------------------------------------------------------
(* The pipeline goroutine *)

(* readOpC yields a document, RunningFlow turns it into some ops, of which
   the nil and deleted ones are left out. *)
PipeTakeDoc(r) ==
  /\ pipe = "select" /\ ~released /\ rpc[r] = "send"
  /\ rpc' = [rpc EXCEPT ![r] = "run"]
  /\ FullReadCount' = FullReadCount + 1
  /\ \E out \in FlowResults :
       /\ doc' = <<r, emitted[r]>> /\ ops' = out /\ next' = 1
       /\ pipe' = IF out = <<>> THEN "select" ELSE "route"
       /\ owed' = owed \cup Routed(<<r, emitted[r]>>, out)
  /\ UNCHANGED <<State, taskWG, flagVars, FailedPipeLineCount,
                 FailedDeliveryCount, run, recorder, user, readerExitF,
                 readTmp, emitted, ReadDone, ReadDoneCount, writerVars,
                 cmdLeft, ctlVars, got>>

(* RunningFlow fails: the document is counted and the error is recorded. *)
PipeFlowFails(r) ==
  /\ pipe = "select" /\ ~released /\ rpc[r] = "send"
  /\ rpc' = [rpc EXCEPT ![r] = "run"]
  /\ pipe' = "report"
  /\ FullReadCount' = FullReadCount + 1
  /\ FailedPipeLineCount' = FailedPipeLineCount + 1
  /\ UNCHANGED <<State, taskWG, flagVars, FailedDeliveryCount, run, recorder,
                 user, readerExitF, readTmp, emitted, ReadDone,
                 ReadDoneCount, writerVars, doc, ops, next, cmdLeft, ctlVars,
                 owed, got>>

PipeReport ==
  /\ pipe = "report" /\ recorder = "run"
  /\ pipe' = "select"
  /\ UNCHANGED <<State, taskWG, flagVars, countVars, run, recorder, user,
                 readerVars, writerVars, doc, ops, next, cmdLeft, ctlVars,
                 owed, got>>

(* Variant: a send that gives up when no target is receiving. *)
PipeSkipBusy ==
  /\ pipe = "route"
  /\ next' = next + 1
  /\ pipe' = IF next = Len(ops) THEN "select" ELSE "route"
  /\ UNCHANGED <<State, taskWG, flagVars, countVars, run, recorder, user,
                 readerVars, writerVars, doc, ops, cmdLeft, ctlVars, owed,
                 got>>

(* routeOpToWriterTerm, one op: an alias no target maps is skipped ... *)
PipeSkip ==
  /\ pipe = "route" /\ ops[next] \notin Mapped
  /\ next' = next + 1
  /\ pipe' = IF next = Len(ops) THEN "select" ELSE "route"
  /\ UNCHANGED <<State, taskWG, flagVars, countVars, run, recorder, user,
                 readerVars, writerVars, doc, ops, cmdLeft, ctlVars, owed,
                 got>>

(* Variants: one channel for all targets; the results of RunningFlow sent from
   the last to the first. *)
PipeSendAnywhere(w) ==
  /\ pipe = "route" /\ ops[next] \in Mapped /\ wpc[w] = "recv"
  /\ wpc' = [wpc EXCEPT ![w] = "write"]
  /\ got' = [got EXCEPT ![w] = @ \cup {Item(next)}]
  /\ next' = next + 1
  /\ pipe' = IF next = Len(ops) THEN "select" ELSE "route"
  /\ UNCHANGED <<State, taskWG, flagVars, countVars, run, recorder, user,
                 readerVars, chanOf, writeTmp, WriteDone, WriteDoneCount, doc,
                 ops, cmdLeft, ctlVars, owed>>

PipeSendReversed(w) ==
  LET k == Len(ops) + 1 - next IN
  /\ pipe = "route" /\ ops[k] \in Mapped
  /\ wpc[w] = "recv" /\ chanOf[w] = writeOpCMap(ops[k])
  /\ wpc' = [wpc EXCEPT ![w] = "write"]
  /\ got' = [got EXCEPT ![w] = @ \cup {Item(k)}]
  /\ next' = next + 1
  /\ pipe' = IF next = Len(ops) THEN "select" ELSE "route"
  /\ UNCHANGED <<State, taskWG, flagVars, countVars, run, recorder, user,
                 readerVars, chanOf, writeTmp, WriteDone, WriteDoneCount, doc,
                 ops, cmdLeft, ctlVars, owed>>

(* ... any other waits until a target receives from the alias's channel. *)
PipeSend(w) ==
  /\ pipe = "route" /\ ops[next] \in Mapped
  /\ wpc[w] = "recv" /\ chanOf[w] = writeOpCMap(ops[next])
  /\ wpc' = [wpc EXCEPT ![w] = "write"]
  /\ got' = [got EXCEPT ![w] = @ \cup {Item(next)}]
  /\ next' = next + 1
  /\ pipe' = IF next = Len(ops) THEN "select" ELSE "route"
  /\ UNCHANGED <<State, taskWG, flagVars, countVars, run, recorder, user,
                 readerVars, chanOf, writeTmp, WriteDone, WriteDoneCount, doc,
                 ops, cmdLeft, ctlVars, owed>>

(* readOpC yields the ReadDone command, to be sent once on every channel.  The
   table changes of a MySQL binlog source (mysql_reader.go:1236) are commands,
   too, and are sent the same way; Task leaves them out. *)
PipeTakeDone(r) ==
  /\ pipe = "select" /\ ~released /\ rpc[r] = "sendDone"
  /\ rpc' = [rpc EXCEPT ![r] = "end"]
  /\ pipe' = "range"
  /\ UNCHANGED <<State, taskWG, flagVars, countVars, run, recorder, user,
                 readerExitF, readTmp, emitted, ReadDone, ReadDoneCount,
                 writerVars, doc, ops, next, cmdLeft, ctlVars, owed, got>>

PipeRange ==
  /\ pipe = "range"
  /\ cmdLeft' = IF released THEN {} ELSE Chans
  /\ pipe' = IF cmdLeft' = {} THEN "select" ELSE "done"
  /\ UNCHANGED <<State, taskWG, flagVars, countVars, run, recorder, user,
                 readerVars, writerVars, doc, ops, next, ctlVars, owed, got>>

PipeSendDone(w) ==
  /\ pipe = "done" /\ chanOf[w] \in cmdLeft /\ wpc[w] = "recv"
  /\ wpc' = [wpc EXCEPT ![w] = "wgDone"]
  /\ cmdLeft' = cmdLeft \ {chanOf[w]}
  /\ pipe' = IF cmdLeft' = {} THEN "select" ELSE "done"
  /\ UNCHANGED <<State, taskWG, flagVars, countVars, run, recorder, user,
                 readerVars, chanOf, writeTmp, WriteDone, WriteDoneCount, doc,
                 ops, next, ctlVars, owed, got>>

(* Variant: the end decided on exitF, what the comment at task.go:447 forbids. *)
PipeEndOnExit ==
  /\ pipe = "select" /\ exitF
  /\ pipe' = "end"
  /\ UNCHANGED <<State, taskWG, flagVars, countVars, run, recorder, user,
                 readerVars, writerVars, doc, ops, next, cmdLeft, ctlVars,
                 owed, got>>

PipeEnd ==
  /\ pipe = "select" /\ ReadDone /\ WriteDone
  /\ pipe' = "end"
  /\ UNCHANGED <<State, taskWG, flagVars, countVars, run, recorder, user,
                 readerVars, writerVars, doc, ops, next, cmdLeft, ctlVars,
                 owed, got>>

-----------------------------------------------------------------------------
(* A target goroutine: the loop of imp.Run, then the deferred bookkeeping *)

WriterOk(w) ==
  /\ wpc[w] = "write"
  /\ wpc' = [wpc EXCEPT ![w] = "recv"]
  /\ UNCHANGED <<State, taskWG, flagVars, countVars, run, recorder, user,
                 readerVars, chanOf, writeTmp, WriteDone, WriteDoneCount,
                 pipeVars, ctlVars, owed, got>>

(* Write fails: the error goes to the recorder, the callback counts it. *)
WriterFails(w) ==
  /\ wpc[w] = "write" /\ recorder = "run"
  /\ wpc' = [wpc EXCEPT ![w] = "recv"]
  /\ FailedDeliveryCount' = FailedDeliveryCount + 1
  /\ UNCHANGED <<State, taskWG, flagVars, FullReadCount, FailedPipeLineCount,
                 run, recorder, user, readerVars, chanOf, writeTmp, WriteDone,
                 WriteDoneCount, pipeVars, ctlVars, owed, got>>

WriterWGDone(w) ==
  /\ wpc[w] = "wgDone"
  /\ wpc' = [wpc EXCEPT ![w] = "load"]
  /\ taskWG' = taskWG - 1
  /\ UNCHANGED <<State, flagVars, countVars, run, recorder, user, readerVars,
                 chanOf, writeTmp, WriteDone, WriteDoneCount, pipeVars,
                 ctlVars, owed, got>>

WriterLoad(w) ==
  /\ wpc[w] = "load"
  /\ wpc' = [wpc EXCEPT ![w] = "store"]
  /\ writeTmp' = [writeTmp EXCEPT ![w] = WriteDoneCount]
  /\ UNCHANGED <<State, taskWG, flagVars, countVars, run, recorder, user,
                 readerVars, chanOf, WriteDone, WriteDoneCount, pipeVars,
                 ctlVars, owed, got>>

WriterStore(w) ==
  /\ wpc[w] = "store"
  /\ wpc' = [wpc EXCEPT ![w] = "check"]
  /\ WriteDoneCount' = writeTmp[w] + 1
  /\ UNCHANGED <<State, taskWG, flagVars, countVars, run, recorder, user,
                 readerVars, chanOf, writeTmp, WriteDone, pipeVars, ctlVars,
                 owed, got>>

WriterCheck(w) ==
  /\ wpc[w] = "check"
  /\ wpc' = [wpc EXCEPT ![w] = "end"]
  /\ \E seen \in {writeTmp[w] + 1, WriteDoneCount} :
       WriteDone' = (WriteDone \/ seen = Len0(Writers))
  /\ UNCHANGED <<State, taskWG, flagVars, countVars, run, recorder, user,
                 readerVars, chanOf, writeTmp, WriteDoneCount, pipeVars,
                 ctlVars, owed, got>>

-----------------------------------------------------------------------------
(* The control goroutine *)

(* A tick: stopSource first when the task is to exit. *)
ControlTick ==
  /\ ctl = "loop"
  /\ ctl' = IF exitF THEN "stopSource" ELSE "check"
  /\ toStop' = IF exitF THEN Readers ELSE {}
  /\ UNCHANGED <<State, taskWG, flagVars, countVars, run, recorder, user,
                 readerVars, writerVars, pipeVars, stopping, owed, got>>

(* imp.Stop() of the next source, in any order: a source already told to exit
   is passed over, any other is told and then waited for. *)
ControlStopReader(r) ==
  /\ ctl = "stopSource" /\ stopping = NoReader /\ r \in toStop
  /\ toStop' = toStop \ {r}
  /\ readerExitF' = [readerExitF EXCEPT ![r] = TRUE]
  /\ stopping' = IF readerExitF[r] THEN NoReader ELSE r
  /\ UNCHANGED <<State, taskWG, flagVars, countVars, run, recorder, user, rpc,
                 readTmp, emitted, ReadDone, ReadDoneCount, writerVars,
                 pipeVars, ctl, owed, got>>

(* exitWG.Wait: the source is not inside Run. *)
ControlReaderStopped ==
  /\ ctl = "stopSource" /\ stopping # NoReader
  /\ rpc[stopping] \notin {"run", "send"}
  /\ stopping' = NoReader
  /\ UNCHANGED <<State, taskWG, flagVars, countVars, run, recorder, user,
                 readerVars, writerVars, pipeVars, ctl, toStop, owed, got>>

ControlSourcesStopped ==
  /\ ctl = "stopSource" /\ stopping = NoReader /\ toStop = {}
  /\ ctl' = "check"
  /\ UNCHANGED <<State, taskWG, flagVars, countVars, run, recorder, user,
                 readerVars, writerVars, pipeVars, toStop, stopping, owed, got>>

ControlAgain ==
  /\ ctl = "check" /\ ~(ReadDone /\ WriteDone)
  /\ ctl' = "loop"
  /\ UNCHANGED <<State, taskWG, flagVars, countVars, run, recorder, user,
                 readerVars, writerVars, pipeVars, toStop, stopping, owed, got>>

(* Variants: Release as soon as the reading is done; Release that leaves the
   error recorder running. *)
ControlReleaseOnRead ==
  /\ ctl = "check" /\ ReadDone
  /\ ctl' = "released" /\ released' = TRUE /\ errF' = TRUE
  /\ State' = IF State \in {"TaskDone", "TaskStop"} THEN State ELSE "TaskDone"
  /\ UNCHANGED <<taskWG, exitF, countVars, run, recorder, user, readerVars,
                 writerVars, pipeVars, toStop, stopping, owed, got>>

ControlReleaseKeepsErr ==
  /\ ctl = "check" /\ ReadDone /\ WriteDone
  /\ ctl' = "released" /\ released' = TRUE
  /\ State' = IF State \in {"TaskDone", "TaskStop"} THEN State ELSE "TaskDone"
  /\ UNCHANGED <<taskWG, exitF, errF, countVars, run, recorder, user,
                 readerVars, writerVars, pipeVars, toStop, stopping, owed, got>>

(* Both sides are done: Release, then TaskDone unless some source failed. *)
ControlRelease ==
  /\ ctl = "check" /\ ReadDone /\ WriteDone
  /\ ctl' = "released" /\ released' = TRUE /\ errF' = TRUE
  /\ State' = IF State \in {"TaskDone", "TaskStop"} THEN State ELSE "TaskDone"
  /\ UNCHANGED <<taskWG, exitF, countVars, run, recorder, user, readerVars,
                 writerVars, pipeVars, toStop, stopping, owed, got>>

(* The deferred function of the control goroutine. *)
ControlEnd ==
  /\ ctl = "released"
  /\ ctl' = "end" /\ State' = "TaskStop"
  /\ UNCHANGED <<taskWG, flagVars, countVars, run, recorder, user, readerVars,
                 writerVars, pipeVars, toStop, stopping, owed, got>>

-----------------------------------------------------------------------------
(* The error recorder and the user *)

RecorderEnd ==
  /\ recorder = "run" /\ errF
  /\ recorder' = "end"
  /\ UNCHANGED <<State, taskWG, flagVars, countVars, run, user, readerVars,
                 writerVars, pipeVars, ctlVars, owed, got>>

(* Loop.StopTask lets Stop be called in these two states only. *)
UserStop ==
  /\ user = "idle" /\ State \in {"TaskRun", "TaskStop"}
  /\ user' = "waiting" /\ exitF' = TRUE
  /\ UNCHANGED <<State, taskWG, errF, released, countVars, run, recorder,
                 readerVars, writerVars, pipeVars, ctlVars, owed, got>>

(* taskWG.Wait returns. *)
UserStopped ==
  /\ user = "waiting" /\ taskWG = 0
  /\ user' = "stopped"
  /\ UNCHANGED <<State, taskWG, flagVars, countVars, run, recorder,
                 readerVars, writerVars, pipeVars, ctlVars, owed, got>>

-----------------------------------------------------------------------------
Run == RunInit \/ RunInitFails \/ RunInitOk \/ LaunchPipeline \/ RunSetsState

Launch == (\E w \in Writers : LaunchWriter(w)) \/ (\E r \in Readers : LaunchReader(r))

Reader(r) ==
  \/ ReaderBegin(r) \/ ReaderEmit(r) \/ ReaderReturn(r) \/ ReaderFail(r)
  \/ ReaderReport(r) \/ ReaderWGDone(r) \/ ReaderLoad(r) \/ ReaderStore(r)
  \/ ReaderCheck(r) \/ ReaderPanic(r)

Writer(w) ==
  \/ WriterOk(w) \/ WriterFails(w) \/ WriterWGDone(w) \/ WriterLoad(w)
  \/ WriterStore(w) \/ WriterCheck(w)

Pipeline ==
  \/ \E r \in Readers : PipeTakeDoc(r) \/ PipeFlowFails(r) \/ PipeTakeDone(r)
  \/ \E w \in Writers : PipeSend(w) \/ PipeSendDone(w)
  \/ PipeReport \/ PipeSkip \/ PipeRange \/ PipeEnd

Control ==
  \/ ControlTick \/ (\E r \in Readers : ControlStopReader(r))
  \/ ControlReaderStopped \/ ControlSourcesStopped \/ ControlAgain
  \/ ControlRelease \/ ControlEnd

User == UserStop \/ UserStopped

Next ==
  \/ Run \/ Launch \/ Pipeline \/ Control \/ RecorderEnd \/ User
  \/ \E r \in Readers : Reader(r)
  \/ \E w \in Writers : Writer(w)

Spec == Init /\ [][Next]_vars

(* The Go scheduler runs every goroutine that can run, and a select with a
   case that stays ready takes it in the end.  Nobody has to call Stop, and no
   source has to emit or to fail; one that is exhausted or told to exit
   returns, after at most MaxOps documents. *)
Fairness ==
  /\ WF_vars(Run) /\ WF_vars(Launch) /\ WF_vars(Pipeline) /\ WF_vars(Control)
  /\ WF_vars(RecorderEnd) /\ WF_vars(UserStopped)
  /\ \A r \in Readers :
       /\ WF_vars(ReaderReturn(r))
       /\ WF_vars(ReaderBegin(r) \/ ReaderReport(r) \/ ReaderWGDone(r)
                  \/ ReaderLoad(r) \/ ReaderStore(r) \/ ReaderCheck(r))
  /\ \A w \in Writers : WF_vars(Writer(w))

FairSpec == Spec /\ Fairness

-----------------------------------------------------------------------------
(* Properties *)

ReaderPcs == {"null", "launched", "run", "send", "report", "wgDone", "load",
              "store", "check", "sendDone", "end"}
WriterPcs == {"null", "recv", "write", "wgDone", "load", "store", "check", "end"}
PipePcs   == {"null", "select", "route", "report", "range", "done", "end"}

(* A source is inside its goroutine's imp.Run, or on the way there. *)
ReaderLive(r) == rpc[r] \in {"launched", "run", "send", "report"}
WriterLive(w) == wpc[w] \in {"recv", "write"}

(* A source whose increment of ReadDoneCount has been stored. *)
ReaderCounted(r) == rpc[r] \in {"check", "sendDone", "end"}
WriterCounted(w) == wpc[w] \in {"check", "end"}

(* A target that has received the ReadDone command. *)
WriterTold(w) == wpc[w] \in {"wgDone", "load", "store", "check", "end"}

(* The variables hold values of their types. *)
TypeOK ==
  /\ State \in States /\ taskWG \in Nat
  /\ exitF \in BOOLEAN /\ errF \in BOOLEAN /\ released \in BOOLEAN
  /\ FullReadCount \in Nat /\ FailedPipeLineCount \in Nat
  /\ FailedDeliveryCount \in Nat
  /\ run \in {"null", "init", "launch", "launched", "end"}
  /\ recorder \in {"null", "run", "end"}
  /\ user \in {"idle", "waiting", "stopped"}
  /\ rpc \in [Readers -> ReaderPcs]
  /\ readerExitF \in [Readers -> BOOLEAN]
  /\ readTmp \in [Readers -> Nat] /\ emitted \in [Readers -> Nat]
  /\ ReadDone \in BOOLEAN /\ ReadDoneCount \in Nat
  /\ wpc \in [Writers -> WriterPcs]
  /\ DOMAIN chanOf = Writers
  /\ writeTmp \in [Writers -> Nat]
  /\ WriteDone \in BOOLEAN /\ WriteDoneCount \in Nat
  /\ pipe \in PipePcs
  /\ doc \in (Readers \cup {NoReader}) \X Nat
  /\ ops \in Seq(Aliases) /\ next \in Nat
  /\ ctl \in {"null", "loop", "stopSource", "check", "released", "end"}
  /\ toStop \subseteq Readers /\ stopping \in Readers \cup {NoReader}
  /\ owed \subseteq Items /\ got \in [Writers -> SUBSET Items]

(* The done flags are never early, whatever the unlocked counters lose: with
   ReadDone every source has left imp.Run and stored its increment, with
   WriteDone every target has (task.go:361-367, 422-427). *)
FlagsNotEarly ==
  /\ ReadDone => \A r \in Readers : ReaderCounted(r)
  /\ WriteDone => \A w \in Writers : WriterCounted(w)

(* Release never pulls the channels, the maps or a source's client from under
   a goroutine that uses them (task.go:191-208): no source or target is inside
   imp.Run, and the pipeline holds no document. *)
ReleaseIsSafe ==
  released =>
    /\ \A r \in Readers : ~ReaderLive(r)
    /\ \A w \in Writers : ~WriterLive(w)
    /\ pipe \notin {"route", "report"}

(* A target that has been told the reading is done has missed nothing: no
   source can emit any more, and every op that some target maps has been
   received by a target (task.go:425-426, 445-484, 633-655). *)
NothingLost ==
  (\E w \in Writers : WriterTold(w)) =>
    /\ \A r \in Readers : ~ReaderLive(r)
    /\ owed \subseteq UNION {got[w] : w \in Writers}

(* Stop returns only when no source and no target is inside imp.Run, although
   taskWG counts goroutines that are still being started when a source fails
   early (task.go:214-217, 358, 362, 410, 421). *)
StopIsComplete ==
  user = "stopped" =>
    /\ \A r \in Readers : ~ReaderLive(r)
    /\ \A w \in Writers : ~WriterLive(w)
    /\ run # "launch"

(* Each target receives the documents of one source in the order the source
   read them, and the results of one document in RunningFlow's order
   (task.go:471-483, 634-655). *)
SourceOrder ==
  [][\A w \in Writers : \A x \in got'[w] \ got[w], y \in got[w] :
       y[1] = x[1] => y[2] < x[2] \/ (y[2] = x[2] /\ y[3] < x[3])]_got

(* A target receives only ops whose alias it maps: "document_set" maps the
   source's sets to the target's (docs/guide/04.target.md:27). *)
RightTarget ==
  \A w \in Writers : \A x \in got[w] : x[4] \in DocumentSet[w]

(* A Stop returns. *)
StopReturns == user = "waiting" ~> user = "stopped"

(* What the unlocked counters do: an increment is lost, or two sources both find
   the count complete and the targets are gone when the second command comes. *)
CountersRaced ==
  \/ (\A r \in Readers : ReaderCounted(r)) /\ ReadDoneCount < Cardinality(Readers)
  \/ (\A w \in Writers : WriterCounted(w)) /\ WriteDoneCount < Cardinality(Writers)
  \/ pipe = "done" /\ \A w \in Writers : WriterTold(w)

(* A stopped task leaves no goroutine behind, unless the done counters have
   raced (task.go:158-181, 439-451, 492-498). *)
StopEndsTask ==
  user = "waiting" ~>
    \/ recorder = "end" /\ pipe \in {"null", "end"} /\ ctl \in {"null", "end"}
    \/ CountersRaced

(* Every source leaves imp.Run once a Stop has been asked for. *)
StopEndsSources ==
  user = "waiting" ~> \A r \in Readers : ~ReaderLive(r)

(* When every source has returned, ReadDone is set in the end
   (task.go:34: ReadDone, reading finished). *)
ReadDoneIsSet ==
  (\A r \in Readers : rpc[r] = "end") ~> ReadDone
=============================================================================
