-------------------------------- MODULE Loop --------------------------------
(***************************************************************************)
(* The registry of tasks of one process: Loop.tasks (datalink/loop/        *)
(* loop.go), the task files and the automatic-start file on disk, the      *)
(* flows of pipeline.go, the HTTP handlers of linkd/handle.go, the command *)
(* socket of datalink.go, and the start-up that loads and restarts tasks.  *)
(*                                                                         *)
(* Handlers run in goroutines of their own and share the maps without a    *)
(* lock: every access is a step.  A task object is seen from outside only: *)
(* its State, whether its goroutines are at work, and its end; module Task *)
(* describes what happens inside.  Resume and log files, and the registry  *)
(* of obs projects, are left out.                                          *)
(***************************************************************************)
EXTENDS Integers, FiniteSets

CONSTANTS
  Ids,         \* task ids (uuids)
  Saved,       \* the ids whose files exist before the first start
  AutoSaved,   \* what the automatic-start file holds before the first start
  Stream,      \* tasks with a stream or replica source
  Http,        \* concurrent HTTP requests, numbered
  Sock,        \* connections to the command socket (one is served at a time)
  Boot,        \* the goroutine of main
  NoId,        \* no task id
  MaxObjects,  \* bound: task objects alive at one time
  MaxRequests, \* bound: requests
  MaxCrashes   \* bound: crashes of the process

ASSUME LoopAssumption ==
  /\ IsFiniteSet(Ids) /\ NoId \notin Ids
  /\ Saved \subseteq Ids /\ AutoSaved \subseteq Ids /\ Stream \subseteq Ids
  /\ IsFiniteSet(Http \cup Sock) /\ Http \cap Sock = {} /\ Http \subseteq Nat
  /\ Boot \notin Http \cup Sock
  /\ MaxObjects \in Nat /\ MaxRequests \in Nat /\ MaxCrashes \in Nat

VARIABLES
  \* memory
  tasks,     \* Loop.tasks: the object registered under an id, 0 if none
  object,    \* the task objects
  flows,     \* the keys of the map d of pipeline.go: ids whose flows run
  runData,   \* DataLink.runData.Data
  runMade,   \* whether that map has been made
  req,       \* what each handler, and main, is doing
  \* disk
  files,     \* the file of each task: "none", "ok", or "bad" (not a task)
  autoFile,  \* the automatic-start file: <<>> (absent, empty or torn) or <<ids>>
  \* history and bounds
  unused,    \* ids not handed out yet
  created,   \* tasks whose creation has been answered
  doomed,    \* tasks somebody has asked to remove or to reset
  stopped,   \* tasks a stop took off the record, no start asked since (see Stops)
  overtaken, \* writers whose text names a task stopped since the text was fixed
  requests, crashes

memVars  == <<tasks, object, flows>>
autoVars == <<runData, runMade, autoFile>>
histVars == <<created, doomed, stopped, overtaken>>
bounds   == <<requests, crashes>>
vars == <<memVars, autoVars, req, files, unused, histVars, bounds>>

-----------------------------------------------------------------------------
Clients == Http \cup Sock
Procs   == Clients \cup {Boot}
Objects == 1..MaxObjects

States == {"TaskNull", "TaskInit", "TaskDone", "TaskStop", "TaskRun"}

HttpOps == {"new", "start", "stop", "delete", "reset", "rebuild", "clear"}
SockOps == {"sockNew", "sockStart", "sockStop", "sockRemove"}

(* A handler at rest; one in progress has the object it works on, the id it
   creates, the ids it still has to visit or to write, and whether a rebuild
   found its file. *)
Resting == [op |-> "none", pc |-> "idle", arg |-> NoId, obj |-> 0,
            new |-> NoId, todo |-> {}, fine |-> FALSE]

Loading(S) == [Resting EXCEPT !.op = "load", !.pc = "load", !.todo = S]

(* An object: "null" before Run, "init" in Init, "work" while some source or
   target goroutine is inside Run, "quiet" when taskWG is zero, "over" when its
   last goroutine has ended.  ctl tells whether Run has started the control
   goroutine.  id and exitF are kept for the phases that look at them. *)
Object == [id |-> NoId, State |-> "TaskNull", phase |-> "null",
           ctl |-> FALSE, exitF |-> FALSE]

Started(id) == [Object EXCEPT !.id = id, !.State = "TaskInit", !.phase = "init"]
Ended       == [Object EXCEPT !.State = "TaskStop", !.phase = "over"]

AtWork(i) == object[i].phase \in {"work", "quiet"}

(* Objects nobody refers to any more. *)
Free == {i \in Objects :
           /\ object[i].phase \in {"null", "over"}
           /\ \A id \in Ids : tasks[id] # i
           /\ \A p \in Procs : req[p].obj # i}

NewTask(i) == i \in Free /\ \A j \in Free : i <= j

InProgress(p) == req[p].pc \notin {"idle", "dead"}

(* Objects the requests in progress may still have to make. *)
Reserved == Cardinality({p \in Clients : InProgress(p)})
            + Cardinality(req[Boot].todo)
            + (IF req[Boot].pc \in {"idle", "load"} THEN 0 ELSE 1)

(* A bound, too: an id is left for every rebuild that has not taken its own. *)
FreshId == Cardinality(unused) > Cardinality({p \in Clients : req[p].pc = "rebuild"})

Goto(p, l)  == req' = [req EXCEPT ![p].pc = l]
Answer(p)   == req' = [req EXCEPT ![p] = Resting]
(* A panic: net/http recovers it for the request; on the command socket it
   ends the loop that serves all commands. *)
Panic(p)    == req' = [req EXCEPT ![p] =
                 IF p \in Sock THEN [Resting EXCEPT !.pc = "dead"] ELSE Resting]

-----------------------------------------------------------------------------
Init ==
  /\ tasks = [id \in Ids |-> 0]
  /\ object = [i \in Objects |-> Object]
  /\ flows = {}
  /\ runData = {} /\ runMade = FALSE
  /\ req = [p \in Procs |-> IF p = Boot THEN Loading(Saved) ELSE Resting]
  /\ files = [id \in Ids |-> IF id \in Saved THEN "ok" ELSE "none"]
  /\ autoFile = <<AutoSaved>>
  /\ unused = Ids \ (Saved \cup AutoSaved)
  /\ created = Saved /\ doomed = {} /\ stopped = {} /\ overtaken = {}
  /\ requests = 0 /\ crashes = 0

(* The process dies and is started again: what is on disk remains. *)
Crash ==
  /\ crashes < MaxCrashes /\ crashes' = crashes + 1
  /\ tasks' = [id \in Ids |-> 0]
  /\ object' = [i \in Objects |-> Object]
  /\ flows' = {}
  /\ runData' = {} /\ runMade' = FALSE
  /\ req' = [p \in Procs |->
               IF p = Boot THEN Loading({id \in Ids : files[id] # "none"})
                           ELSE Resting]
  /\ overtaken' = {}
  /\ UNCHANGED <<files, autoFile, unused, created, doomed, stopped, requests>>

-----------------------------------------------------------------------------
(* Requests *)

(* The HTTP server is started after the tasks are loaded, the command socket
   before.  HTTP handlers are alike: the first at rest takes the request. *)
Accepts(p) ==
  /\ req[p].pc = "idle"
  /\ requests < MaxRequests /\ requests' = requests + 1
  /\ p \in Http => /\ req[Boot].op # "load"
                  /\ \A q \in Http : q < p => InProgress(q)
  /\ Cardinality(Free) > Reserved

Receive(p, op, id) ==
  /\ Accepts(p) /\ (op = "rebuild" => FreshId)
  /\ req' = [req EXCEPT ![p] = [Resting EXCEPT !.op = op, !.arg = id, !.pc =
       CASE op \in {"start", "sockStart"}   -> "runCheck"
         [] op \in {"stop", "sockStop"}     -> "stopCheck"
         [] op \in {"delete", "sockRemove"} -> "removeCheck"
         [] op = "reset"                    -> "removeFile"
         [] op = "rebuild"                  -> "rebuild"]]
  /\ doomed' = IF op \in {"delete", "sockRemove", "reset", "rebuild"}
               THEN doomed \cup {id} ELSE doomed
  /\ stopped' = IF op \in {"start", "sockStart"} THEN stopped \ {id} ELSE stopped
  /\ UNCHANGED <<memVars, autoVars, files, unused, created, overtaken, crashes>>

(* TaskNew and the command new: a fresh id. *)
ReceiveNew(p, id) ==
  /\ Accepts(p) /\ FreshId /\ id \in unused
  /\ unused' = unused \ {id}
  /\ req' = [req EXCEPT ![p] =
       [Resting EXCEPT !.op = IF p \in Sock THEN "sockNew" ELSE "new",
                       !.new = id,
                       !.pc = IF p \in Sock THEN "add" ELSE "write"]]
  /\ UNCHANGED <<memVars, autoVars, files, histVars, crashes>>

(* Variant: the command new answers before the file is written. *)
AddTaskAnswers(p, i) ==
  /\ req[p].pc = "add" /\ NewTask(i)
  /\ object' = [object EXCEPT ![i] = Object]
  /\ tasks' = [tasks EXCEPT ![req[p].new] = i]
  /\ created' = created \cup {req[p].new}
  /\ IF req[p].op = "new" THEN Answer(p) ELSE Goto(p, "write")
  /\ UNCHANGED <<flows, autoVars, files, unused, doomed, stopped, overtaken, bounds>>

(* TaskNew writes the file, then adds the task; the command new the other way
   round.  Either answers after its second step. *)
WriteTask(p) ==
  /\ req[p].pc = "write"
  /\ files' = [files EXCEPT ![req[p].new] = "ok"]
  /\ IF req[p].op = "sockNew"
     THEN Answer(p) /\ created' = created \cup {req[p].new}
     ELSE Goto(p, "add") /\ UNCHANGED created
  /\ UNCHANGED <<memVars, autoVars, unused, doomed, stopped, overtaken, bounds>>

AddTask(p, i) ==
  /\ req[p].pc = "add" /\ NewTask(i)
  /\ object' = [object EXCEPT ![i] = Object]
  /\ tasks' = [tasks EXCEPT ![req[p].new] = i]
  /\ IF req[p].op = "new"
     THEN Answer(p) /\ created' = created \cup {req[p].new}
     ELSE Goto(p, "write") /\ UNCHANGED created
  /\ UNCHANGED <<flows, autoVars, files, unused, doomed, stopped, overtaken, bounds>>

-----------------------------------------------------------------------------
(* RunTask *)

Runnable(t) == t # 0 /\ object[t].State \notin {"TaskRun", "TaskInit"}

RunReturn(p) ==
  req' = [req EXCEPT ![p] =
            CASE @.op = "start" -> [@ EXCEPT !.pc = "startAuto", !.obj = 0]
              [] @.op = "auto"  -> [@ EXCEPT !.pc = "autoMark", !.obj = 0]
              [] OTHER          -> Resting]

RunRefused(p) ==
  /\ req[p].pc = "runCheck" /\ ~Runnable(tasks[req[p].arg])
  /\ RunReturn(p)
  /\ UNCHANGED <<memVars, autoVars, files, unused, histVars, bounds>>

RunCheck(p) ==
  /\ req[p].pc = "runCheck" /\ Runnable(tasks[req[p].arg])
  /\ Goto(p, "runReplace")
  /\ UNCHANGED <<memVars, autoVars, files, unused, histVars, bounds>>

(* The new object takes the place of the old one, whatever is there by now,
   and Task.Run is called.  As the registry sees it, that is Init ... *)
RunReplace(p, i) ==
  /\ req[p].pc = "runReplace" /\ NewTask(i)
  /\ object' = [object EXCEPT ![i] = Started(req[p].arg)]
  /\ tasks' = [tasks EXCEPT ![req[p].arg] = i]
  /\ req' = [req EXCEPT ![p].pc = "runLaunch", ![p].obj = i]
  /\ UNCHANGED <<flows, autoVars, files, unused, histVars, bounds>>

(* ... which may fail ... *)
RunInitFails(p) ==
  /\ req[p].pc = "runLaunch"
  /\ object' = [object EXCEPT ![req[p].obj] = Ended]
  /\ RunReturn(p)
  /\ UNCHANGED <<tasks, flows, autoVars, files, unused, histVars, bounds>>

(* ... or registers the flows, after which targets and sources are started ... *)
RunLaunch(p) ==
  /\ req[p].pc = "runLaunch"
  /\ object' = [object EXCEPT ![req[p].obj].phase = "work"]
  /\ flows' = flows \cup {req[p].arg}
  /\ Goto(p, "runState")
  /\ UNCHANGED <<tasks, autoVars, files, unused, histVars, bounds>>

(* ... and at last the state is set and the control goroutine started. *)
RunSetsState(p) ==
  /\ req[p].pc = "runState"
  /\ object' = [object EXCEPT ![req[p].obj].State = "TaskRun",
                              ![req[p].obj].ctl = TRUE]
  /\ RunReturn(p)
  /\ UNCHANGED <<tasks, flows, autoVars, files, unused, histVars, bounds>>

-----------------------------------------------------------------------------
(* The goroutines of a task object *)

(* Variant: a task without sources ends without being released. *)
SourceFailsEnds(i) ==
  /\ object[i].phase = "work"
  /\ \E ph \in {"work", "over"} :
       object' = [object EXCEPT ![i].State = "TaskStop", ![i].phase = ph]
  /\ UNCHANGED <<tasks, flows, autoVars, req, files, unused, histVars, bounds>>

(* A source ends with an error, the others go on; or none is left. *)
SourceFails(i) ==
  /\ object[i].phase = "work"
  /\ \E ph \in {"work", "quiet"} :
       object' = [object EXCEPT ![i].State = "TaskStop", ![i].phase = ph]
  /\ UNCHANGED <<tasks, flows, autoVars, req, files, unused, histVars, bounds>>

(* Sources that end by themselves have ended, and the targets with them. *)
WorkEnds(i) ==
  /\ object[i].phase = "work" /\ object[i].id \notin Stream
  /\ object' = [object EXCEPT ![i].phase = "quiet"]
  /\ UNCHANGED <<tasks, flows, autoVars, req, files, unused, histVars, bounds>>

(* The control goroutine has stopped the sources. *)
WorkStops(i) ==
  /\ object[i].phase = "work" /\ object[i].exitF /\ object[i].ctl
  /\ object' = [object EXCEPT ![i].phase = "quiet"]
  /\ UNCHANGED <<tasks, flows, autoVars, req, files, unused, histVars, bounds>>

(* The control goroutine releases the task and ends; RemoveFlow goes by id. *)
Release(i) ==
  /\ object[i].phase = "quiet" /\ object[i].ctl
  /\ object' = [object EXCEPT ![i] = Ended]
  /\ flows' = flows \ {object[i].id}
  /\ UNCHANGED <<tasks, autoVars, req, files, unused, histVars, bounds>>

-----------------------------------------------------------------------------
(* StopTask *)

Stoppable(t) == t # 0 /\ object[t].State \in {"TaskRun", "TaskStop"}

(* What follows StopTask: the automatic-start file, or the removal. *)
StopReturn(p) ==
  req' = [req EXCEPT ![p] =
            CASE @.op = "stop"  -> [@ EXCEPT !.pc = "stopAuto", !.obj = 0]
              [] @.op = "clear" -> [@ EXCEPT !.pc = "removeCheck", !.obj = 0]
              [] OTHER          -> Resting]

StopRefused(p) ==
  /\ req[p].pc = "stopCheck" /\ ~Stoppable(tasks[req[p].arg])
  /\ StopReturn(p)
  /\ UNCHANGED <<memVars, autoVars, files, unused, histVars, bounds>>

(* Variant: the goroutines are waited for, but not told to end. *)
StopCheckWaits(p) ==
  LET t == tasks[req[p].arg] IN
  /\ req[p].pc = "stopCheck" /\ Stoppable(t)
  /\ req' = [req EXCEPT ![p].pc = "stopWait", ![p].obj = t]
  /\ UNCHANGED <<memVars, autoVars, files, unused, histVars, bounds>>

(* exitF is set, then the goroutines are waited for. *)
StopCheck(p) ==
  LET t == tasks[req[p].arg] IN
  /\ req[p].pc = "stopCheck" /\ Stoppable(t)
  /\ object' = [object EXCEPT ![t].exitF = AtWork(t)]
  /\ req' = [req EXCEPT ![p].pc = "stopWait", ![p].obj = t]
  /\ UNCHANGED <<tasks, flows, autoVars, files, unused, histVars, bounds>>

StopWait(p) ==
  /\ req[p].pc = "stopWait" /\ object[req[p].obj].phase \in {"quiet", "over"}
  /\ StopReturn(p)
  /\ UNCHANGED <<memVars, autoVars, files, unused, histVars, bounds>>

-----------------------------------------------------------------------------
(* RemoveTask, TaskReset, TaskRebuild, TaskClear *)

RemoveReturn(p) ==
  req' = [req EXCEPT ![p] =
            IF @.op = "clear" THEN [@ EXCEPT !.pc = "clear", !.arg = NoId] ELSE Resting]

RemoveRefused(p) ==
  /\ req[p].pc = "removeCheck" /\ ~Runnable(tasks[req[p].arg])
  /\ RemoveReturn(p)
  /\ UNCHANGED <<memVars, autoVars, files, unused, histVars, bounds>>

RemoveCheck(p) ==
  /\ req[p].pc = "removeCheck" /\ Runnable(tasks[req[p].arg])
  /\ Goto(p, "removeFile")
  /\ UNCHANGED <<memVars, autoVars, files, unused, histVars, bounds>>

(* RemoveTaskFile looks the task up again, and does not expect to miss it. *)
RemoveFilePanics(p) ==
  /\ req[p].pc = "removeFile" /\ tasks[req[p].arg] = 0
  /\ Panic(p)
  /\ UNCHANGED <<memVars, autoVars, files, unused, histVars, bounds>>

RemoveFile(p) ==
  /\ req[p].pc = "removeFile" /\ tasks[req[p].arg] # 0
  /\ files' = [files EXCEPT ![req[p].arg] = "none"]
  /\ IF req[p].op = "reset" THEN Answer(p) ELSE Goto(p, "removeEntry")
  /\ UNCHANGED <<memVars, autoVars, unused, histVars, bounds>>

(* The flows and the entry go; a rebuild then has its new task, and the command
   remove deletes the file once more. *)
RemoveEntry(p) ==
  LET id == req[p].arg IN
  /\ req[p].pc = "removeEntry"
  /\ flows' = flows \ {id}
  /\ tasks' = [tasks EXCEPT ![id] = 0]
  /\ files' = [files EXCEPT ![id] = IF p \in Sock THEN "none" ELSE @]
  /\ created' = IF req[p].op = "rebuild" /\ req[p].fine
                THEN created \cup {req[p].new} ELSE created
  /\ RemoveReturn(p)
  /\ UNCHANGED <<object, autoVars, unused, doomed, stopped, overtaken, bounds>>

RebuildPanics(p) ==
  /\ req[p].pc = "rebuild" /\ tasks[req[p].arg] = 0
  /\ Panic(p)
  /\ UNCHANGED <<memVars, autoVars, files, unused, histVars, bounds>>

(* The old file is read, whether it is there or not, and a new task added. *)
Rebuild(p, id, i) ==
  /\ req[p].pc = "rebuild" /\ tasks[req[p].arg] # 0
  /\ id \in unused /\ NewTask(i)
  /\ unused' = unused \ {id}
  /\ object' = [object EXCEPT ![i] = Object]
  /\ tasks' = [tasks EXCEPT ![id] = i]
  /\ req' = [req EXCEPT ![p].pc = "rebuildWrite", ![p].new = id,
                        ![p].fine = (files[req[p].arg] = "ok")]
  /\ UNCHANGED <<flows, autoVars, files, histVars, bounds>>

(* Variant: the old file is rewritten, under its own name. *)
RebuildWriteOld(p) ==
  /\ req[p].pc = "rebuildWrite"
  /\ files' = [files EXCEPT ![req[p].new] = IF req[p].fine THEN "ok" ELSE "bad",
                            ![req[p].arg] = IF req[p].fine THEN "ok" ELSE "bad"]
  /\ Goto(p, "removeCheck")
  /\ UNCHANGED <<memVars, autoVars, unused, histVars, bounds>>

(* What was read is written for the new task; the old one is removed. *)
RebuildWrite(p) ==
  /\ req[p].pc = "rebuildWrite"
  /\ files' = [files EXCEPT ![req[p].new] = IF req[p].fine THEN "ok" ELSE "bad"]
  /\ Goto(p, "removeCheck")
  /\ UNCHANGED <<memVars, autoVars, unused, histVars, bounds>>

(* TaskClear ranges over the map: each task is stopped, then removed.  Entries
   removed meanwhile are not visited; nor, here, are those added meanwhile. *)
ReceiveClear(p) ==
  /\ Accepts(p)
  /\ req' = [req EXCEPT ![p] = [Resting EXCEPT !.op = "clear", !.pc = "clear",
                                  !.todo = {id \in Ids : tasks[id] # 0}]]
  /\ UNCHANGED <<memVars, autoVars, files, unused, histVars, crashes>>

ClearNext(p, id) ==
  /\ req[p].pc = "clear" /\ id \in req[p].todo /\ tasks[id] # 0
  /\ req' = [req EXCEPT ![p].pc = "stopCheck", ![p].arg = id, ![p].todo = @ \ {id}]
  /\ doomed' = doomed \cup {id}
  /\ UNCHANGED <<memVars, autoVars, files, unused, created, stopped, overtaken, bounds>>

ClearEnd(p) ==
  /\ req[p].pc = "clear" /\ \A id \in req[p].todo : tasks[id] = 0
  /\ Answer(p)
  /\ UNCHANGED <<memVars, autoVars, files, unused, histVars, bounds>>

-----------------------------------------------------------------------------
(* The automatic-start file.  A write empties the file, then fills it. *)

(* TaskStart goes on with the task's configuration: a task removed meanwhile,
   or a map main has not made yet, makes the handler panic. *)
StartPanics(p) ==
  LET id == req[p].arg IN
  /\ req[p].pc = "startAuto"
  /\ tasks[id] = 0 \/ (id \in Stream /\ ~runMade)
  /\ Panic(p)
  /\ UNCHANGED <<memVars, autoVars, files, unused, histVars, bounds>>

(* Nothing to write: no stream source, or recorded already. *)
StartNotWritten(p) ==
  LET id == req[p].arg IN
  /\ req[p].pc = "startAuto" /\ tasks[id] # 0
  /\ id \notin Stream \/ id \in runData
  /\ Answer(p)
  /\ UNCHANGED <<memVars, autoVars, files, unused, histVars, bounds>>

(* TaskAutoStartAdd: what will be written is fixed here (todo). *)
TaskAutoStartAdd(p) ==
  LET id == req[p].arg IN
  /\ req[p].pc = "startAuto" /\ tasks[id] # 0
  /\ id \in Stream /\ runMade /\ id \notin runData
  /\ runData' = runData \cup {id}
  /\ autoFile' = <<>>
  /\ req' = [req EXCEPT ![p].pc = "autoWrite", ![p].todo = runData']
  /\ UNCHANGED <<memVars, runMade, files, unused, histVars, bounds>>

(* Main has still to start the task, or to record it as started. *)
BootHas(id) ==
  \/ id \in req[Boot].todo
  \/ /\ req[Boot].pc \in {"runCheck", "runReplace", "runLaunch", "runState", "autoMark"}
     /\ req[Boot].arg = id

(* History: the stop takes its task off the record, unless a start of the same
   task is under way, by a request or by main; writes whose text was fixed
   before and names the task are overtaken. *)
Stops(p) ==
  LET id == req[p].arg IN
  /\ stopped' = IF BootHas(id) \/ \E q \in Clients : req[q].op = "start" /\ req[q].arg = id
                THEN stopped ELSE stopped \cup {id}
  /\ overtaken' = overtaken \cup {q \in Clients : req[q].pc = "autoWrite"
                                                /\ id \in req[q].todo}

(* Variant: the file is written without the task, the record keeps it. *)
TaskAutoStartDelFile(p) ==
  LET id == req[p].arg IN
  /\ req[p].pc = "stopAuto" /\ id \in runData
  /\ autoFile' = <<>>
  /\ req' = [req EXCEPT ![p].pc = "autoWrite", ![p].todo = runData \ {id}]
  /\ Stops(p)
  /\ UNCHANGED <<memVars, runData, runMade, files, unused, created, doomed, bounds>>

(* TaskAutoStartDel, after every stop, refused ones included. *)
TaskAutoStartDel(p) ==
  LET id == req[p].arg IN
  /\ req[p].pc = "stopAuto" /\ id \in runData
  /\ runData' = runData \ {id}
  /\ autoFile' = <<>>
  /\ req' = [req EXCEPT ![p].pc = "autoWrite", ![p].todo = runData']
  /\ Stops(p)
  /\ UNCHANGED <<memVars, runMade, files, unused, created, doomed, bounds>>

(* A stop writes nothing when the task is not recorded. *)
StopNotWritten(p) ==
  /\ req[p].pc = "stopAuto" /\ req[p].arg \notin runData
  /\ Answer(p)
  /\ UNCHANGED <<memVars, autoVars, files, unused, histVars, bounds>>

(* The text fixed by TaskAutoStartAdd or TaskAutoStartDel is written.  The file
   is left unreadable when the write fails, an error nobody looks at, or when
   another, longer text has been written in between and shows through behind
   this one.  History: an overtaken text that is written undoes the stop. *)
AutoWrite(p) ==
  /\ req[p].pc = "autoWrite"
  /\ autoFile' \in {<<req[p].todo>>, <<>>}
  /\ stopped' = IF p \in overtaken /\ autoFile' # <<>>
                THEN stopped \ req[p].todo ELSE stopped
  /\ overtaken' = overtaken \ {p}
  /\ Answer(p)
  /\ UNCHANGED <<memVars, runData, runMade, files, unused, created, doomed, bounds>>

-----------------------------------------------------------------------------
(* Start-up: LoadTask, then TaskAutoStartRun beside the first requests *)

LoadTask(id, i) ==
  /\ req[Boot].pc = "load" /\ id \in req[Boot].todo
  /\ req' = [req EXCEPT ![Boot].todo = @ \ {id}]
  /\ IF files[id] = "ok" /\ tasks[id] = 0
     THEN /\ NewTask(i)
          /\ object' = [object EXCEPT ![i] = Object]
          /\ tasks' = [tasks EXCEPT ![id] = i]
     ELSE i = 1 /\ UNCHANGED <<object, tasks>>
  /\ UNCHANGED <<flows, autoVars, files, unused, histVars, bounds>>

(* The HTTP server starts, and the map is made. *)
LoadEnd ==
  /\ req[Boot].pc = "load" /\ req[Boot].todo = {}
  /\ req' = [req EXCEPT ![Boot].op = "auto", ![Boot].pc = "autoMake"]
  /\ UNCHANGED <<memVars, autoVars, files, unused, histVars, bounds>>

AutoMake ==
  /\ req[Boot].pc = "autoMake"
  /\ runMade' = TRUE
  /\ Goto(Boot, "autoRead")
  /\ UNCHANGED <<memVars, runData, autoFile, files, unused, histVars, bounds>>

AutoRead ==
  /\ req[Boot].pc = "autoRead"
  /\ req' = [req EXCEPT ![Boot].pc = "autoNext",
                        ![Boot].todo = UNION {autoFile[k] : k \in DOMAIN autoFile}]
  /\ UNCHANGED <<memVars, autoVars, files, unused, histVars, bounds>>

AutoNext(id) ==
  /\ req[Boot].pc = "autoNext" /\ id \in req[Boot].todo
  /\ req' = [req EXCEPT ![Boot].pc = "runCheck", ![Boot].arg = id,
                        ![Boot].todo = @ \ {id}]
  /\ UNCHANGED <<memVars, autoVars, files, unused, histVars, bounds>>

(* The task is recorded after RunTask, whether it succeeded or not. *)
AutoMark ==
  /\ req[Boot].pc = "autoMark"
  /\ runData' = runData \cup {req[Boot].arg}
  /\ Goto(Boot, "autoNext")
  /\ UNCHANGED <<memVars, runMade, autoFile, files, unused, histVars, bounds>>

AutoEnd ==
  /\ req[Boot].pc = "autoNext" /\ req[Boot].todo = {}
  /\ Answer(Boot)
  /\ UNCHANGED <<memVars, autoVars, files, unused, histVars, bounds>>

-----------------------------------------------------------------------------
User(p) ==
  \/ \E id \in Ids :
       \/ ReceiveNew(p, id)
       \/ \E op \in (IF p \in Http THEN HttpOps \ {"new", "clear"}
                                   ELSE SockOps \ {"sockNew"}) : Receive(p, op, id)
  \/ p \in Http /\ ReceiveClear(p)

RunTask(p) ==
  \/ RunRefused(p) \/ RunCheck(p) \/ \E i \in Objects : RunReplace(p, i)
  \/ RunInitFails(p) \/ RunLaunch(p) \/ RunSetsState(p)

Handler(p) ==
  \/ WriteTask(p) \/ \E i \in Objects : AddTask(p, i)
  \/ RunTask(p)
  \/ StopRefused(p) \/ StopCheck(p) \/ StopWait(p)
  \/ RemoveRefused(p) \/ RemoveCheck(p)
  \/ RemoveFilePanics(p) \/ RemoveFile(p) \/ RemoveEntry(p)
  \/ RebuildPanics(p) \/ \E id \in Ids, i \in Objects : Rebuild(p, id, i)
  \/ RebuildWrite(p)
  \/ \E id \in Ids : ClearNext(p, id)
  \/ ClearEnd(p)
  \/ StartPanics(p) \/ StartNotWritten(p) \/ TaskAutoStartAdd(p)
  \/ TaskAutoStartDel(p) \/ StopNotWritten(p) \/ AutoWrite(p)

StartUp ==
  \/ \E id \in Ids, i \in Objects : LoadTask(id, i)
  \/ LoadEnd \/ AutoMake \/ AutoRead \/ AutoMark \/ AutoEnd
  \/ \E id \in Ids : AutoNext(id)
  \/ RunTask(Boot)

TaskGoroutines(i) == SourceFails(i) \/ WorkEnds(i) \/ WorkStops(i) \/ Release(i)

Next ==
  \/ \E p \in Clients : User(p) \/ Handler(p)
  \/ StartUp
  \/ \E i \in Objects : TaskGoroutines(i)
  \/ Crash

Spec == Init /\ [][Next]_vars

(* Handlers and main are scheduled; users, failures and the end of a task's
   work may never come. *)
Fairness ==
  /\ \A p \in Clients : WF_vars(InProgress(p) /\ Handler(p))
  /\ WF_vars(InProgress(Boot) /\ StartUp)

FairSpec == Spec /\ Fairness

-----------------------------------------------------------------------------
PcSet == {"idle", "dead", "load", "write", "add", "runCheck", "runReplace",
          "runLaunch", "runState", "startAuto", "stopCheck", "stopWait",
          "stopAuto", "removeCheck", "removeFile", "removeEntry", "rebuild",
          "rebuildWrite", "clear", "autoWrite", "autoMake", "autoRead",
          "autoNext", "autoMark"}

(* Types: an object that runs has its id, which is the one it is registered
   under; one that does not has nothing left to run. *)
TypeOK ==
  /\ object \in [Objects -> [id : Ids \cup {NoId}, State : States,
                             phase : {"null", "init", "work", "quiet", "over"},
                             ctl : BOOLEAN, exitF : BOOLEAN]]
  /\ \A i \in Objects :
       /\ object[i].id = NoId <=> object[i].phase \in {"null", "over"}
       /\ object[i].ctl \/ object[i].exitF => AtWork(i)
  /\ tasks \in [Ids -> 0..MaxObjects] /\ flows \subseteq Ids
  /\ \A id \in Ids : tasks[id] # 0 => object[tasks[id]].id \in {id, NoId}
  /\ runData \subseteq Ids /\ runMade \in BOOLEAN
  /\ req \in [Procs -> [op : HttpOps \cup SockOps \cup {"none", "load", "auto"},
                        pc : PcSet, arg : Ids \cup {NoId}, obj : 0..MaxObjects,
                        new : Ids \cup {NoId}, todo : SUBSET Ids, fine : BOOLEAN]]
  /\ files \in [Ids -> {"none", "ok", "bad"}]
  /\ autoFile = <<>> \/ \E S \in SUBSET Ids : autoFile = <<S>>
  /\ unused \subseteq Ids /\ created \subseteq Ids /\ doomed \subseteq Ids
  /\ stopped \subseteq Ids /\ overtaken \subseteq Clients
  /\ requests \in 0..MaxRequests /\ crashes \in 0..MaxCrashes

(* A task whose creation was answered, and that nobody has asked to remove or
   to reset, keeps its file and, once the start-up has loaded it, its entry in
   the registry: over crashes, and whatever is done to other tasks. *)
Durable ==
  \A id \in created \ doomed :
    /\ files[id] = "ok"
    /\ tasks[id] # 0 \/ id \in req[Boot].todo

(* The file of a task whose creation was answered, once removed, is never
   written again, so that no later start of the process brings the task back
   (RemoveTask: "the file is deleted too"). *)
RemovedForGood ==
  [][\A id \in created : files[id] = "none" => files'[id] = "none"]_vars

(* A task that a stop has taken off the automatic-start record, and that nobody
   has asked to start since, is neither in the file nor started by main: over
   crashes at any point of a write, torn files, and what other requests record
   and write meanwhile.  The code does not keep this in two cases, which Stops
   and AutoWrite leave out: a start of the same task is under way when the stop
   changes the record; or a text fixed before the stop is written after its own
   (datalink.go:117-122 and 132-137, without a lock), which brings the task back. *)
StopRemembered ==
  \A id \in stopped :
    /\ autoFile = <<>> \/ id \notin autoFile[1]
    /\ req[Boot].pc # "load" => ~BootHas(id)

(* The stop has reached the object it waits for, whose control goroutine runs. *)
StopDelivered(p) ==
  LET t == object[req[p].obj] IN
  /\ req[p].pc = "stopWait"
  /\ t.phase = "work" /\ t.exitF /\ t.ctl

(* Every request ends; or it is a stop that has done all it can and waits for
   ever: the object it waits for has been told to stop and has the goroutine
   that carries this out, and Task.Stop (module Task: StopReturns, and when it
   does not hold) does not return.  A panic is an end, not an answer: the caller
   gets none, and after one on the command socket nobody ever does. *)
RequestsEnd ==
  \A p \in Clients : []<>~InProgress(p) \/ <>[]StopDelivered(p)

(* A task at work is not started again ("task running", loop.go:101) and not
   removed ("task can't remove", loop.go:206): the object at work is the one in
   the registry, where a stop finds it.  The code does not keep this. *)
Reachable ==
  \A i \in Objects : object[i].phase = "work" => tasks[object[i].id] = i
=============================================================================
