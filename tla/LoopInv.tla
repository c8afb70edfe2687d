------------------------------ MODULE LoopInv ------------------------------
(***************************************************************************)
(* The inductive invariant behind Durable, RemovedForGood and              *)
(* StopRemembered of module Loop, in named parts.  LoopProofs proves it.   *)
(***************************************************************************)
EXTENDS Loop

RunPcs    == {"runCheck", "runReplace", "runLaunch", "runState"}
StopPcs   == {"stopCheck", "stopWait"}
RemovePcs == {"removeCheck", "removeFile", "removeEntry"}
NewPcs    == {"write", "add", "rebuildWrite"}
AutoPcs   == {"startAuto", "stopAuto", "autoWrite", "autoMark"}
DoomOps   == {"delete", "sockRemove", "reset", "rebuild", "clear"}

(* TypeOK, in the parts that are proved one by one. *)
ObjType == [id : Ids \cup {NoId}, State : States,
            phase : {"null", "init", "work", "quiet", "over"},
            ctl : BOOLEAN, exitF : BOOLEAN]

ReqType == [op : HttpOps \cup SockOps \cup {"none", "load", "auto"},
            pc : PcSet, arg : Ids \cup {NoId}, obj : 0..MaxObjects,
            new : Ids \cup {NoId}, todo : SUBSET Ids, fine : BOOLEAN]

ReqTyped == req \in [Procs -> ReqType]

ObjTyped ==
  /\ object \in [Objects -> ObjType]
  /\ tasks \in [Ids -> 0..MaxObjects]

ObjInv ==
  /\ \A i \in Objects :
       /\ object[i].id = NoId <=> object[i].phase \in {"null", "over"}
       /\ object[i].ctl \/ object[i].exitF => AtWork(i)
  /\ \A id \in Ids : tasks[id] # 0 => object[tasks[id]].id \in {id, NoId}

RestTyped ==
  /\ flows \subseteq Ids
  /\ runData \subseteq Ids /\ runMade \in BOOLEAN
  /\ files \in [Ids -> {"none", "ok", "bad"}]
  /\ autoFile = <<>> \/ \E S \in SUBSET Ids : autoFile = <<S>>
  /\ unused \subseteq Ids /\ created \subseteq Ids /\ doomed \subseteq Ids
  /\ stopped \subseteq Ids /\ overtaken \subseteq Clients
  /\ requests \in 0..MaxRequests /\ crashes \in 0..MaxCrashes

(* What a phase of a handler tells about its request. *)
Shape(r) ==
  /\ r.pc \in RunPcs \cup StopPcs \cup RemovePcs \cup AutoPcs \cup {"rebuild", "rebuildWrite"}
       => r.arg \in Ids
  /\ r.pc \in NewPcs \/ (r.op = "rebuild" /\ r.pc \in RemovePcs) => r.new \in Ids
  /\ r.pc \in StopPcs => r.op \in {"stop", "sockStop", "clear"}
  /\ r.pc \in RemovePcs => r.op \in DoomOps
  /\ r.pc \in {"rebuild", "rebuildWrite"} => r.op = "rebuild"
  /\ r.pc \in {"write", "add"} => r.op \in {"new", "sockNew"}
  /\ r.pc = "clear" => r.op = "clear"
  /\ r.pc = "startAuto" => r.op = "start"
  /\ r.pc = "stopAuto" => r.op = "stop"
  /\ r.pc = "autoWrite" => r.op \in {"start", "stop"}
  /\ r.pc = "autoWrite" /\ r.op = "stop" => r.arg \notin r.todo

(* Main loads, then starts what the automatic-start file names, then rests. *)
BootShape(r) ==
  /\ r.pc \in {"idle", "load", "autoMake", "autoRead", "autoNext", "autoMark"} \cup RunPcs
  /\ r.new = NoId
  /\ r.pc \in {"idle", "load"} => r.arg = NoId
  /\ r.pc = "idle" => r.todo = {}
  /\ r.pc \notin {"idle", "load"} => r.op = "auto"

ClientOps == HttpOps \cup SockOps \cup {"none"}

Good(p, r) ==
  /\ Shape(r)
  /\ p = Boot => BootShape(r)
  /\ p \in Clients => r.op \in ClientOps

Shapes == \A p \in Procs : Good(p, req[p])

Launching(p) == req[p].pc \in {"runLaunch", "runState"}

Launched(p) ==
  LET i == req[p].obj IN
  /\ i \in Objects
  /\ object[i].id = req[p].arg
  /\ ~object[i].ctl
  /\ req[p].pc = "runLaunch" => object[i].phase = "init"
  /\ req[p].pc = "runState"  => object[i].phase \in {"work", "quiet"}

(* The object a RunTask in progress has made is its own. *)
RunInv ==
  /\ \A p \in Procs : Launching(p) => Launched(p)
  /\ \A p, q \in Procs : p # q /\ Launching(p) /\ Launching(q) => req[p].obj # req[q].obj

(* The id a request is creating is its own, and not answered yet. *)
NewInv ==
  /\ created \cap unused = {}
  /\ \A p \in Clients : req[p].new \notin unused \cup created
  /\ \A p, q \in Clients : p # q /\ req[p].new # NoId => req[p].new # req[q].new

(* What is being removed has been asked to be. *)
DoomInv ==
  \A p \in Clients :
    /\ req[p].op \in DoomOps \ {"clear"} => req[p].arg \in doomed
    /\ req[p].op = "clear" /\ req[p].pc \in StopPcs \cup RemovePcs => req[p].arg \in doomed

(* What a creation in progress has achieved so far. *)
Achieved(p) ==
  LET id == req[p].new IN
  /\ req[p].pc = "write" /\ req[p].op = "sockNew" => tasks[id] # 0
  /\ req[p].pc = "add" /\ req[p].op = "new" => files[id] = "ok"
  /\ req[p].pc = "rebuildWrite" => tasks[id] # 0
  /\ req[p].op = "rebuild" /\ req[p].pc \in RemovePcs /\ req[p].fine =>
       files[id] = "ok" /\ tasks[id] # 0

ProgressInv == \A p \in Clients : req[p].new \in doomed \/ Achieved(p)

Kept ==
  \A id \in created \ doomed :
    /\ files[id] = "ok"
    /\ tasks[id] # 0 \/ (req[Boot].pc = "load" /\ id \in req[Boot].todo)

(* A stopped task is in none of the places from which it could come back, but
   for the texts of overtaken writes. *)
Forgotten(id) ==
  /\ autoFile = <<>> \/ id \notin autoFile[1]
  /\ id \notin runData
  /\ \A p \in Clients : /\ req[p].pc = "autoWrite" /\ id \in req[p].todo => p \in overtaken
                        /\ ~(req[p].op = "start" /\ req[p].arg = id)
  /\ req[Boot].pc # "load" => ~BootHas(id)

StopInv == \A id \in stopped : Forgotten(id)

LInv ==
  /\ ReqTyped /\ ObjTyped /\ RestTyped
  /\ Shapes /\ ObjInv /\ RunInv
  /\ NewInv /\ DoomInv /\ ProgressInv /\ Kept /\ StopInv
=============================================================================
