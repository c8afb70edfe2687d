---------------------------- MODULE LoopProofs ----------------------------
(***************************************************************************)
(* Proofs about module Loop: for any number of ids, requests, connections  *)
(* and crashes, LInv (module LoopInv) is an invariant, and with it the     *)
(* types, Durable, StopRemembered and RemovedForGood.                      *)
(*                                                                         *)
(* Every part of LInv has a lemma <part>Step.  The lemmas before it say    *)
(* what a step does to the request it belongs to (Rests, Goes), to the     *)
(* objects (ObjectMoves, NewObject) and to everybody else's (OneMoves).    *)
(***************************************************************************)
EXTENDS LoopInv, TLAPS

USE DEF memVars, autoVars, histVars, bounds

-----------------------------------------------------------------------------
(* Sets the steps below look things up in. *)
LEMMA ProcFacts == /\ Clients \subseteq Procs /\ Boot \in Procs /\ Boot \notin Clients
                   /\ \A p \in Procs : p \in Clients \/ p = Boot
BY LoopAssumption DEF Clients, Procs

LEMMA ObjFacts == 0 \in 0..MaxObjects /\ \A i \in Objects : i \in 0..MaxObjects /\ i # 0
BY LoopAssumption DEF Objects

LEMMA PcFacts ==
  /\ "idle" \in PcSet /\ "dead" \in PcSet /\ "load" \in PcSet /\ "write" \in PcSet
  /\ "add" \in PcSet /\ "runCheck" \in PcSet /\ "runReplace" \in PcSet
  /\ "runLaunch" \in PcSet /\ "runState" \in PcSet /\ "startAuto" \in PcSet
  /\ "stopCheck" \in PcSet /\ "stopWait" \in PcSet /\ "stopAuto" \in PcSet
  /\ "removeCheck" \in PcSet /\ "removeFile" \in PcSet /\ "removeEntry" \in PcSet
  /\ "rebuild" \in PcSet /\ "rebuildWrite" \in PcSet /\ "clear" \in PcSet
  /\ "autoWrite" \in PcSet /\ "autoMake" \in PcSet /\ "autoRead" \in PcSet
  /\ "autoNext" \in PcSet /\ "autoMark" \in PcSet
BY DEF PcSet

-----------------------------------------------------------------------------
(* One process goes on, the others stay. *)

LEMMA ReqStep ==
  ASSUME ReqTyped, Shapes, NEW p \in Procs, NEW r \in ReqType, Good(p, r),
         req' = [req EXCEPT ![p] = r]
  PROVE  ReqTyped' /\ Shapes'
<1>1. ReqTyped'
  BY DEF ReqTyped
<1>2. \A q \in Procs : req'[q] = IF q = p THEN r ELSE req[q]
  BY DEF ReqTyped
<1>3. Shapes'
  BY <1>2 DEF Shapes
<1> QED
  BY <1>1, <1>3

LEMMA RestingGood == /\ Resting \in ReqType
                     /\ [Resting EXCEPT !.pc = "dead"] \in ReqType
                     /\ \A p \in Procs : Good(p, Resting)
                     /\ \A p \in Clients : Good(p, [Resting EXCEPT !.pc = "dead"])
<1>1. Resting \in ReqType /\ [Resting EXCEPT !.pc = "dead"] \in ReqType
  BY PcFacts, ObjFacts DEF Resting, ReqType
<1>2. Shape(Resting) /\ Shape([Resting EXCEPT !.pc = "dead"])
  BY DEF Resting, Shape, RunPcs, StopPcs, RemovePcs, NewPcs, AutoPcs
<1>3. BootShape(Resting)
  BY DEF Resting, BootShape
<1>4. Resting.op \in ClientOps /\ [Resting EXCEPT !.pc = "dead"].op \in ClientOps
  BY DEF Resting, ClientOps
<1> QED
  BY <1>1, <1>2, <1>3, <1>4, ProcFacts DEF Good

LEMMA AnswerGood ==
  ASSUME ReqTyped, Shapes, NEW p \in Procs, Answer(p)
  PROVE  ReqTyped' /\ Shapes'
BY RestingGood, ReqStep DEF Answer

LEMMA PanicGood ==
  ASSUME ReqTyped, Shapes, NEW p \in Clients, Panic(p)
  PROVE  ReqTyped' /\ Shapes'
<1>1. CASE p \in Sock
  BY <1>1, RestingGood, ReqStep, ProcFacts DEF Panic
<1>2. CASE p \notin Sock
  BY <1>2, RestingGood, ReqStep, ProcFacts DEF Panic
<1> QED
  BY <1>1, <1>2

LEMMA GotoGood ==
  ASSUME ReqTyped, Shapes, NEW p \in Procs, NEW l \in PcSet, Goto(p, l),
         Good(p, [req[p] EXCEPT !.pc = l])
  PROVE  ReqTyped' /\ Shapes'
<1>1. [req[p] EXCEPT !.pc = l] \in ReqType
  BY DEF ReqTyped, ReqType
<1>2. req' = [req EXCEPT ![p] = [req[p] EXCEPT !.pc = l]]
  BY DEF Goto
<1> QED
  BY <1>1, <1>2, ReqStep

(* The phase changes, and nothing else Shape looks at but what is assumed. *)
LEMMA RunReturnGood ==
  ASSUME ReqTyped, Shapes, NEW p \in Procs, req[p].pc \in RunPcs, RunReturn(p)
  PROVE  ReqTyped' /\ Shapes'
<1>1. req[p] \in ReqType /\ Good(p, req[p])
  BY DEF ReqTyped, Shapes
<1>2. CASE req[p].op = "start"
  <2> DEFINE r == [req[p] EXCEPT !.pc = "startAuto", !.obj = 0]
  <2>1. req' = [req EXCEPT ![p] = r]
    BY <1>2 DEF RunReturn
  <2>2. r \in ReqType
    BY <1>1, PcFacts, ObjFacts DEF ReqType
  <2>3. p # Boot
    BY <1>1, <1>2 DEF Good, BootShape, RunPcs
  <2>4. Good(p, r)
    BY <1>1, <1>2, <2>3 DEF Good, ReqType, Shape, RunPcs, StopPcs, RemovePcs, NewPcs, AutoPcs
  <2> QED
    BY <2>1, <2>2, <2>4, ReqStep
<1>3. CASE req[p].op = "auto"
  <2> DEFINE r == [req[p] EXCEPT !.pc = "autoMark", !.obj = 0]
  <2>1. req' = [req EXCEPT ![p] = r]
    BY <1>3 DEF RunReturn
  <2>2. r \in ReqType
    BY <1>1, PcFacts, ObjFacts DEF ReqType
  <2>4. Good(p, r)
    BY <1>1, <1>3 DEF Good, ReqType, Shape, BootShape, RunPcs, StopPcs, RemovePcs, NewPcs, AutoPcs
  <2> QED
    BY <2>1, <2>2, <2>4, ReqStep
<1>4. CASE req[p].op \notin {"start", "auto"}
  BY <1>4, RestingGood, ReqStep DEF RunReturn
<1> QED
  BY <1>2, <1>3, <1>4

LEMMA StopReturnGood ==
  ASSUME ReqTyped, Shapes, NEW p \in Clients, req[p].pc \in StopPcs, StopReturn(p)
  PROVE  ReqTyped' /\ Shapes'
<1>1. p \in Procs /\ p # Boot /\ req[p] \in ReqType /\ Good(p, req[p])
  BY ProcFacts DEF ReqTyped, Shapes
<1>2. CASE req[p].op = "stop"
  <2> DEFINE r == [req[p] EXCEPT !.pc = "stopAuto", !.obj = 0]
  <2>1. req' = [req EXCEPT ![p] = r]
    BY <1>2 DEF StopReturn
  <2>2. r \in ReqType
    BY <1>1, PcFacts, ObjFacts DEF ReqType
  <2>4. Good(p, r)
    BY <1>1, <1>2 DEF Good, ReqType, Shape, RunPcs, StopPcs, RemovePcs, NewPcs, AutoPcs
  <2> QED
    BY <1>1, <2>1, <2>2, <2>4, ReqStep
<1>3. CASE req[p].op = "clear"
  <2> DEFINE r == [req[p] EXCEPT !.pc = "removeCheck", !.obj = 0]
  <2>1. req' = [req EXCEPT ![p] = r]
    BY <1>3 DEF StopReturn
  <2>2. r \in ReqType
    BY <1>1, PcFacts, ObjFacts DEF ReqType
  <2>4. Good(p, r)
    BY <1>1, <1>3
    DEF Good, ReqType, Shape, RunPcs, StopPcs, RemovePcs, NewPcs, AutoPcs, DoomOps
  <2> QED
    BY <1>1, <2>1, <2>2, <2>4, ReqStep
<1>4. CASE req[p].op \notin {"stop", "clear"}
  BY <1>1, <1>4, RestingGood, ReqStep DEF StopReturn
<1> QED
  BY <1>2, <1>3, <1>4

LEMMA RemoveReturnGood ==
  ASSUME ReqTyped, Shapes, NEW p \in Clients, req[p].pc \in RemovePcs, RemoveReturn(p)
  PROVE  ReqTyped' /\ Shapes'
<1>1. p \in Procs /\ p # Boot /\ req[p] \in ReqType /\ Good(p, req[p])
  BY ProcFacts DEF ReqTyped, Shapes
<1>2. CASE req[p].op = "clear"
  <2> DEFINE r == [req[p] EXCEPT !.pc = "clear", !.arg = NoId]
  <2>1. req' = [req EXCEPT ![p] = r]
    BY <1>2 DEF RemoveReturn
  <2>2. r \in ReqType
    BY <1>1, PcFacts DEF ReqType
  <2>3. Good(p, r)
    BY <1>1, <1>2 DEF Good, ReqType, Shape, RunPcs, StopPcs, RemovePcs, NewPcs, AutoPcs
  <2> QED
    BY <1>1, <2>1, <2>2, <2>3, ReqStep
<1>3. CASE req[p].op # "clear"
  BY <1>1, <1>3, RestingGood, ReqStep DEF RemoveReturn
<1> QED
  BY <1>2, <1>3

-----------------------------------------------------------------------------
(* What each step leaves in req: ReqTyped and Shapes. *)

LEMMA ReqInvStep ==
  ReqTyped /\ Shapes /\ ObjTyped /\ RestTyped /\ [Next]_vars => ReqTyped' /\ Shapes'
<1> SUFFICES ASSUME ReqTyped, Shapes, ObjTyped, RestTyped, [Next]_vars PROVE ReqTyped' /\ Shapes'
  OBVIOUS
<1> DEFINE Inv == ReqTyped' /\ Shapes'
<1>1. ASSUME Crash PROVE Inv
  <2> DEFINE S == {id \in Ids : files[id] # "none"}
  <2>1. Loading(S) \in ReqType
    <3>1. S \in SUBSET Ids
      OBVIOUS
    <3> HIDE DEF S
    <3> QED
      BY <3>1, RestingGood, PcFacts DEF Loading, ReqType
  <2>2. Good(Boot, Loading(S))
    <3> HIDE DEF S
    <3> QED
      BY ProcFacts
      DEF Loading, Resting, BootShape, Good, ReqType, Shape, RunPcs, StopPcs, RemovePcs,
        NewPcs, AutoPcs
  <2>3. req' = [p \in Procs |-> IF p = Boot THEN Loading(S) ELSE Resting]
    BY <1>1 DEF Crash
  <2> HIDE DEF S
  <2>4. ReqTyped'
    BY <2>1, <2>3, RestingGood DEF ReqTyped
  <2> QED
    BY <2>2, <2>3, <2>4, RestingGood DEF Shapes
<1>2. ASSUME NEW p \in Clients, User(p) PROVE Inv
  <2>a. p \in Procs /\ req[p] \in ReqType /\ Good(p, req[p]) /\ p # Boot
    BY ProcFacts DEF ReqTyped, Shapes
  <2>1. ASSUME NEW id \in Ids, ReceiveNew(p, id) PROVE Inv
    <3> DEFINE r == [Resting EXCEPT !.op = (IF p \in Sock THEN "sockNew" ELSE "new"), !.new = id, !.pc = (IF p \in Sock THEN "add" ELSE "write")]
    <3>1. req' = [req EXCEPT ![p] = r]
      BY <2>1 DEF ReceiveNew
    <3>2. r \in ReqType
      BY <2>a, PcFacts, RestingGood DEF ReqType, HttpOps, SockOps
    <3>3. Good(p, r)
      BY <2>1, <2>a, RestingGood
      DEF ReceiveNew, Good, ReqType, Shape, RunPcs, StopPcs, RemovePcs, NewPcs, AutoPcs,
        ClientOps, HttpOps, SockOps, Resting
    <3> QED
      BY <2>a, <3>1, <3>2, <3>3, ReqStep
  <2>2. ASSUME NEW id \in Ids, NEW op \in HttpOps \cup SockOps,
             op \notin {"new", "clear", "sockNew"}, Receive(p, op, id)
      PROVE  Inv
    <3> DEFINE l == CASE op \in {"start", "sockStart"}   -> "runCheck"
                      [] op \in {"stop", "sockStop"}     -> "stopCheck"
                      [] op \in {"delete", "sockRemove"} -> "removeCheck"
                      [] op = "reset"                    -> "removeFile"
                      [] op = "rebuild"                  -> "rebuild"
               r == [Resting EXCEPT !.op = op, !.arg = id, !.pc = l]
    <3>1. req' = [req EXCEPT ![p] = r]
      BY <2>2 DEF Receive
    <3>2. /\ l \in {"runCheck", "stopCheck", "removeCheck", "removeFile", "rebuild"}
          /\ l = "rebuild" => op = "rebuild"
          /\ l \in RemovePcs => op \in DoomOps \ {"rebuild"}
          /\ l = "stopCheck" => op \in {"stop", "sockStop"}
      BY <2>2 DEF HttpOps, SockOps, RemovePcs, DoomOps
    <3> HIDE DEF l
    <3>3. r \in ReqType
      BY <3>2, RestingGood, PcFacts DEF ReqType
    <3>4. Good(p, r)
      BY <2>a, <3>2, RestingGood DEF Resting, DoomOps, ClientOps,
         Good, ReqType, Shape, RunPcs, StopPcs, RemovePcs, NewPcs, AutoPcs
    <3> QED
      BY <2>a, <3>1, <3>3, <3>4, ReqStep
  <2>3. ASSUME ReceiveClear(p) PROVE Inv
    <3> DEFINE S == {id \in Ids : tasks[id] # 0}
               r == [Resting EXCEPT !.op = "clear", !.pc = "clear", !.todo = S]
    <3>a. S \in SUBSET Ids
      OBVIOUS
    <3>1. req' = [req EXCEPT ![p] = r]
      BY <2>3 DEF ReceiveClear
    <3>2. r \in ReqType
      <4> HIDE DEF S
      <4> QED
        BY <2>a, PcFacts, <3>a, RestingGood DEF ReqType, HttpOps
    <3>3. Good(p, r)
      <4> HIDE DEF S
      <4> QED
        BY <2>3, <2>a, RestingGood
        DEF ReceiveClear, Good, ReqType, Shape, RunPcs, StopPcs, RemovePcs, NewPcs, AutoPcs,
          ClientOps, HttpOps, Resting
    <3> QED
      BY <2>a, <3>1, <3>2, <3>3, ReqStep
  <2> QED
    BY <1>2, <2>1, <2>2, <2>3 DEF User, HttpOps, SockOps
<1>3. ASSUME NEW p \in Procs, RunTask(p) PROVE Inv
  <2>a. p \in Procs /\ req[p] \in ReqType /\ Good(p, req[p])
    BY ProcFacts DEF ReqTyped, Shapes
  <2>1. ASSUME RunRefused(p) PROVE Inv
    BY <2>1, RunReturnGood DEF RunRefused, RunPcs
  <2>2. ASSUME RunCheck(p) PROVE Inv
    <3>1. Good(p, [req[p] EXCEPT !.pc = "runReplace"])
      BY <2>2, <2>a
      DEF RunCheck, Good, ReqType, Shape, RunPcs, StopPcs, RemovePcs, NewPcs, AutoPcs, BootShape
    <3> QED
      BY <2>2, <2>a, <3>1, PcFacts, GotoGood DEF RunCheck
  <2>3. ASSUME NEW i \in Objects, RunReplace(p, i) PROVE Inv
    <3> DEFINE r == [req[p] EXCEPT !.pc = "runLaunch", !.obj = i]
    <3>1. req' = [req EXCEPT ![p] = r]
      BY <2>3 DEF RunReplace
    <3>2. r \in ReqType
      BY <2>a, PcFacts, ObjFacts DEF ReqType
    <3>3. Good(p, r)
      BY <2>3, <2>a
      DEF RunReplace, Good, ReqType, Shape, RunPcs, StopPcs, RemovePcs, NewPcs, AutoPcs, BootShape
    <3> QED
      BY <2>a, <3>1, <3>2, <3>3, ReqStep
  <2>4. ASSUME RunInitFails(p) PROVE Inv
    BY <2>4, RunReturnGood DEF RunInitFails, RunPcs
  <2>5. ASSUME RunLaunch(p) PROVE Inv
    <3>1. Good(p, [req[p] EXCEPT !.pc = "runState"])
      BY <2>5, <2>a
      DEF RunLaunch, Good, ReqType, Shape, RunPcs, StopPcs, RemovePcs, NewPcs, AutoPcs, BootShape
    <3> QED
      BY <2>5, <2>a, <3>1, PcFacts, GotoGood DEF RunLaunch
  <2>6. ASSUME RunSetsState(p) PROVE Inv
    BY <2>6, RunReturnGood DEF RunSetsState, RunPcs
  <2> QED
    BY <1>3, <2>1, <2>2, <2>3, <2>4, <2>5, <2>6 DEF RunTask
<1>4. ASSUME NEW p \in Clients, Handler(p) PROVE Inv
  <2>a. p \in Procs /\ req[p] \in ReqType /\ Good(p, req[p]) /\ p # Boot
    BY ProcFacts DEF ReqTyped, Shapes
  <2>1. ASSUME WriteTask(p) PROVE Inv
    <3>1. CASE req[p].op = "sockNew"
      BY <2>1, <2>a, <3>1, AnswerGood DEF WriteTask
    <3>2. CASE req[p].op # "sockNew"
      <4>1. Good(p, [req[p] EXCEPT !.pc = "add"])
        BY <2>1, <2>a
        DEF WriteTask, Good, ReqType, Shape, RunPcs, StopPcs, RemovePcs, NewPcs, AutoPcs
      <4> QED
        BY <2>1, <2>a, <3>2, <4>1, PcFacts, GotoGood DEF WriteTask
    <3> QED
      BY <3>1, <3>2
  <2>2. ASSUME NEW i \in Objects, AddTask(p, i) PROVE Inv
    <3>1. CASE req[p].op = "new"
      BY <2>2, <2>a, <3>1, AnswerGood DEF AddTask
    <3>2. CASE req[p].op # "new"
      <4>1. Good(p, [req[p] EXCEPT !.pc = "write"])
        BY <2>2, <2>a
        DEF AddTask, Good, ReqType, Shape, RunPcs, StopPcs, RemovePcs, NewPcs, AutoPcs
      <4> QED
        BY <2>2, <2>a, <3>2, <4>1, PcFacts, GotoGood DEF AddTask
    <3> QED
      BY <3>1, <3>2
  <2>3. ASSUME StopRefused(p) PROVE Inv
    BY <2>3, StopReturnGood DEF StopRefused, StopPcs
  <2>4. ASSUME StopCheck(p) PROVE Inv
    <3> DEFINE r == [req[p] EXCEPT !.pc = "stopWait", !.obj = tasks[req[p].arg]]
    <3>b. req[p].arg \in Ids
      BY <2>4, <2>a DEF StopCheck, Good, Shape, StopPcs
    <3>c. tasks[req[p].arg] \in 0..MaxObjects
      BY <3>b DEF ObjTyped
    <3>1. req' = [req EXCEPT ![p] = r]
      BY <2>4 DEF StopCheck
    <3>2. r \in ReqType
      BY <2>a, PcFacts, <3>c DEF ReqType
    <3>3. Good(p, r)
      BY <2>4, <2>a
      DEF StopCheck, Good, ReqType, Shape, RunPcs, StopPcs, RemovePcs, NewPcs, AutoPcs
    <3> QED
      BY <2>a, <3>1, <3>2, <3>3, ReqStep
  <2>5. ASSUME StopWait(p) PROVE Inv
    BY <2>5, StopReturnGood DEF StopWait, StopPcs
  <2>6. ASSUME RemoveRefused(p) PROVE Inv
    BY <2>6, RemoveReturnGood DEF RemoveRefused, RemovePcs
  <2>7. ASSUME RemoveCheck(p) PROVE Inv
    <3>1. Good(p, [req[p] EXCEPT !.pc = "removeFile"])
      BY <2>7, <2>a
      DEF RemoveCheck, Good, ReqType, Shape, RunPcs, StopPcs, RemovePcs, NewPcs, AutoPcs
    <3> QED
      BY <2>7, <2>a, <3>1, PcFacts, GotoGood DEF RemoveCheck
  <2>8. ASSUME RemoveFilePanics(p) PROVE Inv
    BY <2>8, PanicGood DEF RemoveFilePanics
  <2>9. ASSUME RemoveFile(p) PROVE Inv
    <3>1. CASE req[p].op = "reset"
      BY <2>9, <2>a, <3>1, AnswerGood DEF RemoveFile
    <3>2. CASE req[p].op # "reset"
      <4>1. Good(p, [req[p] EXCEPT !.pc = "removeEntry"])
        BY <2>9, <2>a
        DEF RemoveFile, Good, ReqType, Shape, RunPcs, StopPcs, RemovePcs, NewPcs, AutoPcs
      <4> QED
        BY <2>9, <2>a, <3>2, <4>1, PcFacts, GotoGood DEF RemoveFile
    <3> QED
      BY <3>1, <3>2
  <2>10. ASSUME RemoveEntry(p) PROVE Inv
    BY <2>10, RemoveReturnGood DEF RemoveEntry, RemovePcs
  <2>11. ASSUME RebuildPanics(p) PROVE Inv
    BY <2>11, PanicGood DEF RebuildPanics
  <2>12. ASSUME NEW id \in Ids, NEW i \in Objects, Rebuild(p, id, i) PROVE Inv
    <3> DEFINE b == (files[req[p].arg] = "ok")
               r == [req[p] EXCEPT !.pc = "rebuildWrite", !.new = id, !.fine = b]
    <3>a. b \in BOOLEAN
      OBVIOUS
    <3>1. req' = [req EXCEPT ![p] = r]
      BY <2>12 DEF Rebuild
    <3>2. r \in ReqType
      <4> HIDE DEF b
      <4> QED
        BY <2>a, PcFacts, <3>a DEF ReqType
    <3>3. Good(p, r)
      <4> HIDE DEF b
      <4> QED
        BY <2>12, <2>a
        DEF Rebuild, Good, ReqType, Shape, RunPcs, StopPcs, RemovePcs, NewPcs, AutoPcs
    <3> QED
      BY <2>a, <3>1, <3>2, <3>3, ReqStep
  <2>13. ASSUME RebuildWrite(p) PROVE Inv
    <3>1. Good(p, [req[p] EXCEPT !.pc = "removeCheck"])
      BY <2>13, <2>a
      DEF RebuildWrite, Good, ReqType, Shape, RunPcs, StopPcs, RemovePcs, NewPcs, AutoPcs, DoomOps
    <3> QED
      BY <2>13, <2>a, <3>1, PcFacts, GotoGood DEF RebuildWrite
  <2>14. ASSUME NEW id \in Ids, ClearNext(p, id) PROVE Inv
    <3> DEFINE r == [req[p] EXCEPT !.pc = "stopCheck", !.arg = id, !.todo = req[p].todo \ {id}]
    <3>a. req[p].pc = "clear"
      BY <2>14 DEF ClearNext
    <3>1. req' = [req EXCEPT ![p] = r]
      BY <2>14 DEF ClearNext
    <3>2. r \in ReqType
      BY <2>a, PcFacts DEF ReqType
    <3>3. Good(p, r)
      BY <2>14, <2>a, <3>a
      DEF ClearNext, Good, ReqType, Shape, RunPcs, StopPcs, RemovePcs, NewPcs, AutoPcs
    <3> QED
      BY <2>a, <3>1, <3>2, <3>3, ReqStep
  <2>15. ASSUME ClearEnd(p) PROVE Inv
    BY <2>15, <2>a, AnswerGood DEF ClearEnd
  <2>16. ASSUME StartPanics(p) PROVE Inv
    BY <2>16, PanicGood DEF StartPanics
  <2>17. ASSUME StartNotWritten(p) PROVE Inv
    BY <2>17, <2>a, AnswerGood DEF StartNotWritten
  <2>18. ASSUME TaskAutoStartAdd(p) PROVE Inv
    <3> DEFINE r == [req[p] EXCEPT !.pc = "autoWrite", !.todo = runData']
    <3>a. req[p].arg \in Ids
      BY <2>18, <2>a DEF TaskAutoStartAdd, Good, Shape, AutoPcs
    <3>b. runData' \in SUBSET Ids
      BY <2>18, <3>a DEF TaskAutoStartAdd, RestTyped
    <3>1. req' = [req EXCEPT ![p] = r]
      BY <2>18 DEF TaskAutoStartAdd
    <3>2. r \in ReqType
      BY <2>a, PcFacts, <3>b DEF ReqType
    <3>3. Good(p, r)
      BY <2>18, <2>a
      DEF TaskAutoStartAdd, Good, ReqType, Shape, RunPcs, StopPcs, RemovePcs, NewPcs, AutoPcs
    <3> QED
      BY <2>a, <3>1, <3>2, <3>3, ReqStep
  <2>19. ASSUME TaskAutoStartDel(p) PROVE Inv
    <3> DEFINE r == [req[p] EXCEPT !.pc = "autoWrite", !.todo = runData']
    <3>b. runData' \in SUBSET Ids
      BY <2>19 DEF TaskAutoStartDel, RestTyped
    <3>1. req' = [req EXCEPT ![p] = r]
      BY <2>19 DEF TaskAutoStartDel
    <3>2. r \in ReqType
      BY <2>a, PcFacts, <3>b DEF ReqType
    <3>3. Good(p, r)
      BY <2>19, <2>a
      DEF TaskAutoStartDel, Good, ReqType, Shape, RunPcs, StopPcs, RemovePcs, NewPcs, AutoPcs
    <3> QED
      BY <2>a, <3>1, <3>2, <3>3, ReqStep
  <2>20. ASSUME StopNotWritten(p) PROVE Inv
    BY <2>20, <2>a, AnswerGood DEF StopNotWritten
  <2>21. ASSUME AutoWrite(p) PROVE Inv
    BY <2>21, <2>a, AnswerGood DEF AutoWrite
  <2> QED
    BY <1>4, <1>3, <2>1, <2>2, <2>3, <2>4, <2>5, <2>6, <2>7, <2>8, <2>9, <2>10, <2>11,
      <2>12, <2>13, <2>14, <2>15, <2>16, <2>17, <2>18, <2>19, <2>20, <2>21, <2>a,
        ProcFacts DEF Handler
<1>5. ASSUME StartUp PROVE Inv
  <2>a. Boot \in Procs /\ req[Boot] \in ReqType /\ Good(Boot, req[Boot])
    BY ProcFacts DEF ReqTyped, Shapes
  <2>1. ASSUME NEW id \in Ids, NEW i \in Objects, LoadTask(id, i) PROVE Inv
    <3> DEFINE r == [req[Boot] EXCEPT !.todo = req[Boot].todo \ {id}]
    <3>1. req' = [req EXCEPT ![Boot] = r]
      BY <2>1 DEF LoadTask
    <3>2. r \in ReqType
      BY <2>a, PcFacts DEF ReqType
    <3>3. Good(Boot, r)
      BY <2>1, <2>a
      DEF LoadTask, Good, ReqType, Shape, RunPcs, StopPcs, RemovePcs, NewPcs, AutoPcs, BootShape
    <3> QED
      BY <2>a, <3>1, <3>2, <3>3, ReqStep
  <2>2. ASSUME LoadEnd PROVE Inv
    <3> DEFINE r == [req[Boot] EXCEPT !.op = "auto", !.pc = "autoMake"]
    <3>1. req' = [req EXCEPT ![Boot] = r]
      BY <2>2 DEF LoadEnd
    <3>2. r \in ReqType
      BY <2>a, PcFacts DEF ReqType
    <3>3. Good(Boot, r)
      BY <2>2, <2>a, ProcFacts
      DEF LoadEnd, Good, ReqType, Shape, RunPcs, StopPcs, RemovePcs, NewPcs, AutoPcs, BootShape
    <3> QED
      BY <2>a, <3>1, <3>2, <3>3, ReqStep
  <2>3. ASSUME AutoMake PROVE Inv
    <3>1. Good(Boot, [req[Boot] EXCEPT !.pc = "autoRead"])
      BY <2>3, <2>a
      DEF AutoMake, Good, ReqType, Shape, RunPcs, StopPcs, RemovePcs, NewPcs, AutoPcs, BootShape
    <3> QED
      BY <2>3, <2>a, <3>1, PcFacts, GotoGood DEF AutoMake
  <2>4. ASSUME AutoRead PROVE Inv
    <3> DEFINE S == UNION {autoFile[k] : k \in DOMAIN autoFile}
               r == [req[Boot] EXCEPT !.pc = "autoNext", !.todo = S]
    <3>a. S \in SUBSET Ids
      <4>1. CASE autoFile = <<>>
        BY <4>1
      <4>2. ASSUME NEW A \in SUBSET Ids, autoFile = <<A>> PROVE S \in SUBSET Ids
        BY <4>2
      <4> QED
        BY <4>1, <4>2 DEF RestTyped
    <3>1. req' = [req EXCEPT ![Boot] = r]
      BY <2>4 DEF AutoRead
    <3>2. r \in ReqType
      <4> HIDE DEF S
      <4> QED
        BY <2>a, PcFacts, <3>a DEF ReqType
    <3>3. Good(Boot, r)
      <4> HIDE DEF S
      <4> QED
        BY <2>4, <2>a
        DEF AutoRead, Good, ReqType, Shape, RunPcs, StopPcs, RemovePcs, NewPcs, AutoPcs, BootShape
    <3> QED
      BY <2>a, <3>1, <3>2, <3>3, ReqStep
  <2>5. ASSUME AutoMark PROVE Inv
    <3>1. Good(Boot, [req[Boot] EXCEPT !.pc = "autoNext"])
      BY <2>5, <2>a
      DEF AutoMark, Good, ReqType, Shape, RunPcs, StopPcs, RemovePcs, NewPcs, AutoPcs, BootShape
    <3> QED
      BY <2>5, <2>a, <3>1, PcFacts, GotoGood DEF AutoMark
  <2>6. ASSUME AutoEnd PROVE Inv
    BY <2>6, <2>a, AnswerGood DEF AutoEnd
  <2>7. ASSUME NEW id \in Ids, AutoNext(id) PROVE Inv
    <3> DEFINE r == [req[Boot] EXCEPT !.pc = "runCheck", !.arg = id, !.todo = req[Boot].todo \ {id}]
    <3>1. req' = [req EXCEPT ![Boot] = r]
      BY <2>7 DEF AutoNext
    <3>2. r \in ReqType
      BY <2>a, PcFacts DEF ReqType
    <3>3. Good(Boot, r)
      BY <2>7, <2>a
      DEF AutoNext, Good, ReqType, Shape, RunPcs, StopPcs, RemovePcs, NewPcs, AutoPcs, BootShape
    <3> QED
      BY <2>a, <3>1, <3>2, <3>3, ReqStep
  <2> QED
    BY <1>5, <1>3, <2>1, <2>2, <2>3, <2>4, <2>5, <2>6, <2>7, <2>a, ProcFacts DEF StartUp
<1>6. ASSUME NEW i \in Objects, TaskGoroutines(i) PROVE Inv
  <2>1. UNCHANGED req
    BY <1>6 DEF TaskGoroutines, SourceFails, WorkEnds, WorkStops, Release
  <2> QED
    BY <2>1 DEF ReqTyped, Shapes
<1>7. ASSUME UNCHANGED vars PROVE Inv
  BY <1>7 DEF vars, ReqTyped, Shapes
<1> QED
  BY <1>1, <1>2, <1>3, <1>4, <1>5, <1>6, <1>7 DEF Next

LEMMA OneMoves ==
  ASSUME ReqTyped, NEW p \in Clients, User(p) \/ Handler(p)
  PROVE  \A q \in Procs : q # p => req'[q] = req[q]
<1> SUFFICES ASSUME NEW q \in Procs, q # p PROVE req'[q] = req[q]
  OBVIOUS
<1> USE DEF ReqTyped
<1>1. CASE User(p)
  BY <1>1 DEF User, ReceiveNew, Receive, ReceiveClear
<1>2. CASE RunTask(p)
  BY <1>2 DEF RunTask, RunRefused, RunCheck, RunReplace, RunInitFails, RunLaunch, RunSetsState,
     RunReturn, Goto
<1>3. CASE Handler(p)
  <2>1. CASE \/ WriteTask(p)
             \/ \E i \in Objects : AddTask(p, i)
             \/ StopRefused(p)
             \/ StopCheck(p)
    BY <2>1 DEF WriteTask, AddTask, StopRefused, StopCheck, Answer, Goto, StopReturn
  <2>2. CASE \/ StopWait(p)
             \/ RemoveRefused(p)
             \/ RemoveCheck(p)
             \/ RemoveFilePanics(p)
    BY <2>2 DEF StopWait, RemoveRefused, RemoveCheck, RemoveFilePanics, StopReturn,
      RemoveReturn, Goto, Panic
  <2>3. CASE \/ RemoveFile(p)
             \/ RemoveEntry(p)
             \/ RebuildPanics(p)
             \/ \E id \in Ids, i \in Objects : Rebuild(p, id, i)
    BY <2>3 DEF RemoveFile, RemoveEntry, RebuildPanics, Rebuild, Answer, Goto, RemoveReturn,
      Panic
  <2>4. CASE \/ RebuildWrite(p)
             \/ \E id \in Ids : ClearNext(p, id)
             \/ ClearEnd(p)
             \/ StartPanics(p)
    BY <2>4 DEF RebuildWrite, ClearNext, ClearEnd, StartPanics, Goto, Answer, Panic
  <2>5. CASE \/ StartNotWritten(p)
             \/ TaskAutoStartAdd(p)
             \/ TaskAutoStartDel(p)
             \/ StopNotWritten(p)
    BY <2>5 DEF StartNotWritten, TaskAutoStartAdd, TaskAutoStartDel, StopNotWritten, Answer
  <2>6. CASE \/ AutoWrite(p)
    BY <2>6 DEF AutoWrite, Answer
  <2> QED
    BY <1>2, <1>3, <2>1, <2>2, <2>3, <2>4, <2>5, <2>6 DEF Handler
<1> QED
  BY <1>1, <1>3

LEMMA BootMoves ==
  ASSUME ReqTyped, StartUp
  PROVE  \A q \in Clients : req'[q] = req[q]
<1> SUFFICES ASSUME NEW q \in Clients PROVE req'[q] = req[q]
  OBVIOUS
<1> USE ProcFacts DEF ReqTyped
<1>1. CASE RunTask(Boot)
  BY <1>1 DEF RunTask, RunRefused, RunCheck, RunReplace, RunInitFails, RunLaunch, RunSetsState,
     RunReturn, Goto
<1>2. CASE \/ \E id \in Ids, i \in Objects : LoadTask(id, i)
           \/ \E id \in Ids : AutoNext(id)
           \/ LoadEnd \/ AutoMake \/ AutoRead \/ AutoMark \/ AutoEnd
  BY <1>2 DEF LoadTask, LoadEnd, AutoMake, AutoRead, AutoMark, AutoEnd, AutoNext, Goto, Answer
<1> QED
  BY <1>1, <1>2 DEF StartUp

-----------------------------------------------------------------------------
(* The objects and who refers to them. *)

LEMMA ObjKept ==
  ASSUME ObjTyped, ObjInv, RunInv, UNCHANGED <<object, tasks>>,
         \A q \in Procs : Launching(q)' => Launching(q) /\ req'[q] = req[q]
  PROVE  ObjTyped' /\ ObjInv' /\ RunInv'
<1>1. ObjTyped' /\ ObjInv'
  BY DEF ObjTyped, ObjInv, AtWork
<1>2. RunInv'
  BY DEF RunInv, Launching, Launched
<1> QED
  BY <1>1, <1>2

LEMMA ObjectFacts ==
  /\ Object \in ObjType /\ Ended \in ObjType
  /\ Object.id = NoId /\ Object.phase = "null" /\ Object.ctl = FALSE /\ Object.exitF = FALSE
  /\ Ended.id = NoId /\ Ended.phase = "over" /\ Ended.ctl = FALSE /\ Ended.exitF = FALSE
  /\ \A id \in Ids :
       /\ Started(id) \in ObjType
       /\ Started(id).id = id /\ Started(id).phase = "init"
       /\ Started(id).ctl = FALSE /\ Started(id).exitF = FALSE
<1>1. /\ Object \in ObjType
      /\ Object.id = NoId /\ Object.phase = "null" /\ Object.ctl = FALSE /\ Object.exitF = FALSE
  BY DEF Object, ObjType, States
<1>2. /\ Ended \in ObjType
      /\ Ended.id = NoId /\ Ended.phase = "over" /\ Ended.ctl = FALSE /\ Ended.exitF = FALSE
  BY <1>1 DEF Ended, ObjType, States
<1>3. ASSUME NEW id \in Ids
      PROVE  /\ Started(id) \in ObjType
             /\ Started(id).id = id /\ Started(id).phase = "init"
             /\ Started(id).ctl = FALSE /\ Started(id).exitF = FALSE
  BY <1>1 DEF Started, ObjType, States
<1> QED
  BY <1>1, <1>2, <1>3

LEMMA NewObject ==
  ASSUME ObjTyped, ObjInv, RunInv, NEW i \in Objects, NewTask(i), NEW id \in Ids,
         NEW o \in {Object, Started(id)},
         object' = [object EXCEPT ![i] = o], tasks' = [tasks EXCEPT ![id] = i],
         \A q \in Procs : Launching(q)' =>
           \/ Launching(q) /\ req'[q] = req[q]
           \/ /\ req'[q].pc = "runLaunch" /\ req'[q].obj = i /\ req'[q].arg = id
              /\ o = Started(id)
              /\ \A k \in Procs : k # q => req'[k] = req[k]
  PROVE  ObjTyped' /\ ObjInv' /\ RunInv'
<1>1. /\ \A k \in Ids : tasks[k] # i
      /\ \A q \in Procs : req[q].obj # i
  BY DEF NewTask, Free
<1>2. o \in ObjType
  BY ObjectFacts
<1>3. ObjTyped'
  BY <1>2, ObjFacts DEF ObjTyped
<1>4. \A j \in Objects : object'[j] = IF j = i THEN o ELSE object[j]
  BY DEF ObjTyped
<1>5. /\ o.id = NoId <=> o.phase \in {"null", "over"}
      /\ o.ctl = FALSE /\ o.exitF = FALSE /\ o.id \in {id, NoId}
  <2>1. NoId \notin Ids
    BY LoopAssumption
  <2>2. CASE o = Object
    BY <2>2, ObjectFacts
  <2>3. CASE o = Started(id)
    BY <2>1, <2>3, ObjectFacts
  <2> QED
    BY <2>2, <2>3
<1>6. \A j \in Objects :
        /\ object'[j].id = NoId <=> object'[j].phase \in {"null", "over"}
        /\ object'[j].ctl \/ object'[j].exitF => object'[j].phase \in {"work", "quiet"}
  BY <1>4, <1>5 DEF ObjInv, AtWork
<1>7. \A k \in Ids : tasks'[k] = IF k = id THEN i ELSE tasks[k]
  BY DEF ObjTyped
<1>8. \A k \in Ids : tasks'[k] # 0 => object'[tasks'[k]].id \in {k, NoId}
  <2> SUFFICES ASSUME NEW k \in Ids, tasks'[k] # 0 PROVE object'[tasks'[k]].id \in {k, NoId}
    OBVIOUS
  <2>1. CASE k = id
    BY <2>1, <1>4, <1>5, <1>7
  <2>2. CASE k # id
    <3>1. tasks'[k] = tasks[k] /\ tasks[k] \in Objects /\ tasks[k] # i
      BY <2>2, <1>1, <1>7, LoopAssumption DEF ObjTyped, Objects
    <3> QED
      BY <3>1, <1>4 DEF ObjInv
  <2> QED
    BY <2>1, <2>2
<1>9. ObjInv'
  BY <1>6, <1>8 DEF ObjInv, AtWork
<1>10. ASSUME NEW q \in Procs, Launching(q)' PROVE Launched(q)'
  <2>1. CASE Launching(q) /\ req'[q] = req[q]
    BY <2>1, <1>1, <1>4 DEF RunInv, Launched, Launching
  <2>2. CASE req'[q].pc = "runLaunch" /\ req'[q].obj = i /\ req'[q].arg = id /\ o = Started(id)
    BY <2>2, <1>4, ObjectFacts DEF Launched
  <2> QED
    BY <1>10, <2>1, <2>2
<1>11. ASSUME NEW p \in Procs, NEW q \in Procs, p # q, Launching(p)', Launching(q)'
       PROVE  req'[p].obj # req'[q].obj
  BY <1>11, <1>1 DEF RunInv
<1>12. RunInv'
  BY <1>10, <1>11 DEF RunInv
<1> QED
  BY <1>3, <1>9, <1>12

(* An object's goroutines change it, but for what others rely on. *)
LEMMA ObjectMoves ==
  ASSUME ObjTyped, ObjInv, RunInv, NEW i \in Objects, NEW o \in ObjType,
         object' = [object EXCEPT ![i] = o], UNCHANGED tasks,
         o.id = NoId <=> o.phase \in {"null", "over"},
         o.ctl \/ o.exitF => o.phase \in {"work", "quiet"},
         o.id \in {object[i].id, NoId},
         \A q \in Procs : Launching(q)' =>
           /\ Launching(q) /\ req'[q].obj = req[q].obj /\ req'[q].arg = req[q].arg
           /\ \/ req[q].obj # i /\ req'[q] = req[q]
              \/ /\ req[q].obj = i /\ o.id = object[i].id /\ ~o.ctl
                 /\ req'[q].pc = "runLaunch" => o.phase = "init"
                 /\ req'[q].pc = "runState" => o.phase \in {"work", "quiet"}
  PROVE  ObjTyped' /\ ObjInv' /\ RunInv'
<1>1. ObjTyped'
  BY DEF ObjTyped
<1>2. \A j \in Objects : object'[j] = IF j = i THEN o ELSE object[j]
  BY DEF ObjTyped
<1>3. \A k \in Ids : tasks[k] # 0 => tasks[k] \in Objects
  BY LoopAssumption DEF ObjTyped, Objects
<1>4. ObjInv'
  BY <1>2, <1>3 DEF ObjInv, AtWork
<1>5. ASSUME NEW q \in Procs, Launching(q)' PROVE Launched(q)'
  <2>1. Launching(q) /\ Launched(q) /\ req[q].obj \in Objects
    BY <1>5 DEF RunInv, Launched
  <2>2. CASE req[q].obj # i /\ req'[q] = req[q]
    BY <1>2, <2>1, <2>2 DEF Launched
  <2>3. CASE /\ req[q].obj = i /\ o.id = object[i].id /\ ~o.ctl
             /\ req'[q].pc = "runLaunch" => o.phase = "init"
             /\ req'[q].pc = "runState" => o.phase \in {"work", "quiet"}
    BY <1>2, <1>5, <2>1, <2>3 DEF Launched
  <2> QED
    BY <1>5, <2>2, <2>3
<1>6. RunInv'
  BY <1>5 DEF RunInv
<1> QED
  BY <1>1, <1>4, <1>6

LEMMA StartUpRuns ==
  ASSUME ReqTyped, StartUp, Launching(Boot)' PROVE Launching(Boot)' /\ RunTask(Boot)
<1> USE ProcFacts DEF ReqTyped
<1>1. ASSUME NEW id \in Ids, NEW i \in Objects, LoadTask(id, i) PROVE ~Launching(Boot)'
  <2>1. req[Boot].pc = "load" /\ req' = [req EXCEPT ![Boot].todo = req[Boot].todo \ {id}]
    BY <1>1 DEF LoadTask
  <2> QED
    BY <2>1 DEF Launching, ReqType
<1>2. ASSUME NEW id \in Ids, AutoNext(id) PROVE ~Launching(Boot)'
  BY <1>2 DEF AutoNext, Launching, ReqType
<1>3. CASE LoadEnd \/ AutoMake \/ AutoRead \/ AutoMark
  BY <1>3 DEF Launching, LoadEnd, AutoMake, AutoRead, AutoMark, Goto, ReqType
<1>4. CASE AutoEnd
  BY <1>4 DEF Launching, AutoEnd, Answer, Resting
<1> QED
  BY <1>1, <1>2, <1>3, <1>4 DEF StartUp

LEMMA StopReturnPc ==
  ASSUME ReqTyped, NEW p \in Procs, StopReturn(p)
  PROVE  req'[p].pc \in {"stopAuto", "removeCheck", "idle"}
<1>1. req[p] \in ReqType
  BY DEF ReqTyped
<1>2. CASE req[p].op = "stop"
  <2>1. req'[p] = [req[p] EXCEPT !.pc = "stopAuto", !.obj = 0]
    BY <1>2 DEF StopReturn, ReqTyped
  <2> QED
    BY <1>1, <2>1 DEF ReqType
<1>3. CASE req[p].op = "clear"
  <2>1. req'[p] = [req[p] EXCEPT !.pc = "removeCheck", !.obj = 0]
    BY <1>3 DEF StopReturn, ReqTyped
  <2> QED
    BY <1>1, <2>1 DEF ReqType
<1>4. CASE req[p].op \notin {"stop", "clear"}
  <2>1. req'[p] = Resting
    BY <1>4 DEF StopReturn, ReqTyped
  <2> QED
    BY <2>1 DEF Resting
<1> QED
  BY <1>2, <1>3, <1>4

LEMMA RemoveReturnPc ==
  ASSUME ReqTyped, NEW p \in Procs, RemoveReturn(p)
  PROVE  req'[p].pc \in {"clear", "idle"}
<1>1. req[p] \in ReqType
  BY DEF ReqTyped
<1>2. CASE req[p].op = "clear"
  <2>1. req'[p] = [req[p] EXCEPT !.pc = "clear", !.arg = NoId]
    BY <1>2 DEF RemoveReturn, ReqTyped
  <2> QED
    BY <1>1, <2>1 DEF ReqType
<1>3. CASE req[p].op # "clear"
  <2>1. req'[p] = Resting
    BY <1>3 DEF RemoveReturn, ReqTyped
  <2> QED
    BY <2>1 DEF Resting
<1> QED
  BY <1>2, <1>3

LEMMA ObjStep ==
  ReqTyped /\ Shapes /\ ObjTyped /\ ObjInv /\ RunInv /\ [Next]_vars
    => ObjTyped' /\ ObjInv' /\ RunInv'
<1> SUFFICES ASSUME ReqTyped, Shapes, ObjTyped, ObjInv, RunInv, [Next]_vars
             PROVE  ObjTyped' /\ ObjInv' /\ RunInv'
  OBVIOUS
<1> DEFINE Inv == ObjTyped' /\ ObjInv' /\ RunInv'
<1>1. ASSUME Crash PROVE Inv
  <2>1. /\ tasks' = [id \in Ids |-> 0] /\ object' = [i \in Objects |-> Object]
        /\ \A p \in Procs : req'[p].pc \in {"load", "idle"}
    BY <1>1 DEF Crash, Loading, Resting
  <2>2. ObjTyped' /\ ObjInv'
    BY <2>1, ObjectFacts, ObjFacts DEF ObjTyped, ObjInv, AtWork
  <2>3. RunInv'
    BY <2>1 DEF RunInv, Launching
  <2> QED
    BY <2>2, <2>3
<1>2. ASSUME NEW p \in Clients, User(p) PROVE Inv
  <2>1. p \in Procs /\ \A q \in Procs : q # p => req'[q] = req[q]
    BY <1>2, ProcFacts, OneMoves
  <2>2. UNCHANGED <<object, tasks>>
    BY <1>2 DEF User, ReceiveNew, Receive, ReceiveClear
  <2>3. ~Launching(p)'
    <3>1. ASSUME NEW id \in Ids, ReceiveNew(p, id) PROVE ~Launching(p)'
      BY <2>1, <3>1 DEF ReceiveNew, Launching, ReqTyped, Resting
    <3>2. ASSUME NEW id \in Ids, NEW op \in (HttpOps \cup SockOps) \ {"new", "clear", "sockNew"},
                 Receive(p, op, id)
          PROVE  ~Launching(p)'
      BY <2>1, <3>2 DEF Receive, Launching, ReqTyped, Resting, HttpOps, SockOps
    <3>3. CASE ReceiveClear(p)
      BY <2>1, <3>3 DEF ReceiveClear, Launching, ReqTyped, Resting
    <3> QED
      BY <1>2, <3>1, <3>2, <3>3 DEF User, HttpOps, SockOps
  <2>4. \A q \in Procs : Launching(q)' => Launching(q) /\ req'[q] = req[q]
    BY <2>1, <2>3 DEF Launching
  <2> QED
    BY <2>2, <2>4, ObjKept
<1>3. ASSUME NEW p \in Procs, RunTask(p), \A q \in Procs : q # p => req'[q] = req[q] PROVE Inv
  <2>a. /\ req[p] \in ReqType
        /\ req[p].pc \in RunPcs => req[p].arg \in Ids
    BY DEF ReqTyped, Shapes, Good, Shape
  <2>1. CASE RunRefused(p)
    BY <1>3, <2>1, <2>a, ObjKept DEF RunRefused, RunReturn, Launching, Resting, ReqTyped
  <2>2. CASE RunCheck(p)
    BY <1>3, <2>2, <2>a, ObjKept DEF RunCheck, Goto, Launching, ReqTyped
  <2>3. ASSUME NEW i \in Objects, RunReplace(p, i) PROVE Inv
    <3>1. req[p].arg \in Ids
      BY <2>3, <2>a DEF RunReplace, RunPcs
    <3>2. /\ NewTask(i) /\ object' = [object EXCEPT ![i] = Started(req[p].arg)]
          /\ tasks' = [tasks EXCEPT ![req[p].arg] = i]
      BY <2>3 DEF RunReplace
    <3>3. req'[p].pc = "runLaunch" /\ req'[p].obj = i /\ req'[p].arg = req[p].arg
      BY <2>3, <2>a DEF RunReplace, ReqTyped, ReqType
    <3>4. \A q \in Procs : Launching(q)' =>
            \/ Launching(q) /\ req'[q] = req[q]
            \/ /\ req'[q].pc = "runLaunch" /\ req'[q].obj = i /\ req'[q].arg = req[p].arg
               /\ Started(req[p].arg) = Started(req[p].arg)
               /\ \A k \in Procs : k # q => req'[k] = req[k]
      BY <1>3, <3>3 DEF Launching
    <3> QED
      BY <3>1, <3>2, <3>4, NewObject
  <2>4. CASE RunInitFails(p)
    <3> DEFINE i == req[p].obj
    <3>1. Launching(p) /\ i \in Objects
      BY <2>4 DEF RunInitFails, Launching, RunInv, Launched
    <3>2. ~Launching(p)'
      BY <2>4, <2>a DEF RunInitFails, RunReturn, Launching, Resting, ReqTyped
    <3>3. \A q \in Procs : Launching(q)' => Launching(q) /\ req'[q] = req[q] /\ req[q].obj # i
      BY <1>3, <3>1, <3>2 DEF RunInv, Launching
    <3>4. object' = [object EXCEPT ![i] = Ended] /\ UNCHANGED tasks
      BY <2>4 DEF RunInitFails
    <3> HIDE DEF i
    <3> QED
      BY <3>1, <3>3, <3>4, ObjectFacts, ObjectMoves
  <2>5. CASE RunLaunch(p)
    <3> DEFINE i == req[p].obj
               o == [object[i] EXCEPT !.phase = "work"]
    <3>1. /\ Launching(p) /\ i \in Objects /\ object[i].phase = "init" /\ ~object[i].ctl
          /\ object[i].id = req[p].arg /\ object[i].id # NoId
      BY <2>5 DEF RunLaunch, Launching, RunInv, Launched, ObjInv
    <3>2. /\ req'[p].pc = "runState" /\ req'[p].obj = i /\ req'[p].arg = req[p].arg
      BY <2>5, <2>a DEF RunLaunch, Goto, ReqTyped, ReqType
    <3>3. object' = [object EXCEPT ![i] = o] /\ UNCHANGED tasks
      BY <2>5 DEF RunLaunch
    <3>4. o \in ObjType /\ o.phase = "work" /\ o.id = object[i].id /\ o.ctl = object[i].ctl
      BY <3>1 DEF ObjTyped, ObjType
    <3>5. \A q \in Procs : q # p /\ Launching(q)' =>
            Launching(q) /\ req'[q] = req[q] /\ req[q].obj # i
      BY <1>3, <3>1 DEF RunInv, Launching
    <3> HIDE DEF i, o
    <3> QED
      BY <3>1, <3>2, <3>3, <3>4, <3>5, ObjectMoves DEF i
  <2>6. CASE RunSetsState(p)
    <3> DEFINE i == req[p].obj
               o == [object[i] EXCEPT !.State = "TaskRun", !.ctl = TRUE]
    <3>1. /\ Launching(p) /\ i \in Objects /\ object[i].phase \in {"work", "quiet"}
          /\ object[i].id # NoId
      BY <2>6 DEF RunSetsState, Launching, RunInv, Launched, ObjInv
    <3>2. ~Launching(p)'
      BY <2>6, <2>a DEF RunSetsState, RunReturn, Launching, Resting, ReqTyped
    <3>3. object' = [object EXCEPT ![i] = o] /\ UNCHANGED tasks
      BY <2>6 DEF RunSetsState
    <3>4. o \in ObjType /\ o.phase = object[i].phase /\ o.id = object[i].id
      BY <3>1 DEF ObjTyped, ObjType, States
    <3>5. \A q \in Procs : Launching(q)' => Launching(q) /\ req'[q] = req[q] /\ req[q].obj # i
      BY <1>3, <3>1, <3>2 DEF RunInv, Launching
    <3> HIDE DEF i, o
    <3> QED
      BY <3>1, <3>3, <3>4, <3>5, ObjectMoves
  <2> QED
    BY <1>3, <2>1, <2>2, <2>3, <2>4, <2>5, <2>6 DEF RunTask

<1>4. ASSUME NEW p \in Clients, Handler(p) PROVE Inv
  <2>a. /\ p \in Procs /\ req[p] \in ReqType /\ Shape(req[p])
        /\ \A q \in Procs : q # p => req'[q] = req[q]
    BY <1>4, ProcFacts, OneMoves DEF ReqTyped, Shapes, Good
  <2>b. ASSUME ~Launching(p)', UNCHANGED <<object, tasks>> PROVE Inv
    <3>1. \A q \in Procs : Launching(q)' => Launching(q) /\ req'[q] = req[q]
      BY <2>a, <2>b DEF Launching
    <3> QED
      BY <2>b, <3>1, ObjKept
  <2>1. CASE \/ WriteTask(p)
             \/ RemoveCheck(p)
    BY <2>a, <2>b, <2>1 DEF WriteTask, RemoveCheck, Answer, Goto, Resting, Launching, ReqTyped,
      ReqType
  <2>2. CASE \/ RemoveFilePanics(p)
             \/ RemoveFile(p)
    BY <2>a, <2>b, <2>2 DEF RemoveFilePanics, RemoveFile, Panic, Resting, Answer, Goto,
      Launching, ReqTyped, ReqType
  <2>3. CASE \/ RebuildPanics(p)
    BY <2>a, <2>b, <2>3 DEF RebuildPanics, Panic, Resting, Launching, ReqTyped, ReqType
  <2>4. CASE \/ RebuildWrite(p)
    BY <2>a, <2>b, <2>4 DEF RebuildWrite, Goto, Launching, ReqTyped, ReqType
  <2>5. CASE \/ ClearEnd(p)
             \/ StartPanics(p)
    BY <2>a, <2>b, <2>5 DEF ClearEnd, StartPanics, Answer, Resting, Panic, Launching, ReqTyped,
      ReqType
  <2>6. CASE \/ StartNotWritten(p)
             \/ TaskAutoStartAdd(p)
    BY <2>a, <2>b, <2>6 DEF StartNotWritten, TaskAutoStartAdd, Answer, Resting, Launching,
      ReqTyped, ReqType
  <2>7. CASE \/ TaskAutoStartDel(p)
             \/ StopNotWritten(p)
    BY <2>a, <2>b, <2>7 DEF TaskAutoStartDel, StopNotWritten, Answer, Resting, Launching,
      ReqTyped, ReqType
  <2>8. CASE \/ AutoWrite(p)
    BY <2>a, <2>b, <2>8 DEF AutoWrite, Answer, Resting, Launching, ReqTyped, ReqType
  <2>9. CASE StopRefused(p) \/ StopWait(p) \/ RemoveRefused(p)
    <3>1. UNCHANGED <<object, tasks>>
      BY <2>9 DEF StopRefused, StopWait, RemoveRefused
    <3>2. ~Launching(p)'
      BY <2>9, <2>a, StopReturnPc, RemoveReturnPc
      DEF StopRefused, StopWait, RemoveRefused, Launching
    <3> QED
      BY <2>b, <3>1, <3>2
  <2>10. ASSUME NEW id \in Ids, ClearNext(p, id) PROVE Inv
    <3>1. UNCHANGED <<object, tasks>> /\ req'[p].pc = "stopCheck"
      BY <2>10, <2>a DEF ClearNext, ReqTyped, ReqType
    <3> QED
      BY <2>b, <3>1 DEF Launching
  <2>11. ASSUME NEW i \in Objects, AddTask(p, i) PROVE Inv
    <3>1. req[p].new \in Ids
      BY <2>11, <2>a DEF AddTask, Shape, NewPcs
    <3>2. ~Launching(p)'
      BY <2>11, <2>a DEF AddTask, Answer, Goto, Resting, Launching, ReqTyped, ReqType
    <3>3. \A q \in Procs : Launching(q)' => Launching(q) /\ req'[q] = req[q]
      BY <2>a, <3>2 DEF Launching
    <3> QED
      BY <2>11, <3>1, <3>3, NewObject DEF AddTask
  <2>12. ASSUME NEW id \in Ids, NEW i \in Objects, Rebuild(p, id, i) PROVE Inv
    <3>1. ~Launching(p)'
      BY <2>12, <2>a DEF Rebuild, Launching, ReqTyped, ReqType
    <3>2. \A q \in Procs : Launching(q)' => Launching(q) /\ req'[q] = req[q]
      BY <2>a, <3>1 DEF Launching
    <3> QED
      BY <2>12, <3>2, NewObject DEF Rebuild
  <2>13. CASE StopCheck(p)
    <3> DEFINE i == tasks[req[p].arg]
               b == AtWork(i)
               o == [object[i] EXCEPT !.exitF = b]
    <3>1. i \in Objects
      BY <2>13, <2>a, LoopAssumption DEF StopCheck, Stoppable, Shape, StopPcs, ObjTyped, Objects
    <3>2. b \in BOOLEAN /\ b = (object[i].phase \in {"work", "quiet"})
      BY DEF AtWork
    <3>3. object' = [object EXCEPT ![i] = o] /\ UNCHANGED tasks
      BY <2>13 DEF StopCheck
    <3>4. /\ o \in ObjType /\ o.phase = object[i].phase /\ o.id = object[i].id
          /\ o.ctl = object[i].ctl /\ o.exitF = b
      <4> HIDE DEF b
      <4> QED
        BY <3>1, <3>2 DEF ObjTyped, ObjType
    <3>5. ~Launching(p)'
      BY <2>13, <2>a DEF StopCheck, Launching, ReqTyped, ReqType
    <3>6. ASSUME NEW q \in Procs, Launching(q)'
          PROVE  /\ Launching(q) /\ req'[q] = req[q]
                 /\ req[q].obj = i => /\ ~object[i].ctl
                                      /\ req[q].pc = "runLaunch" => object[i].phase = "init"
                                      /\ req[q].pc = "runState" => object[i].phase \in {"work", "quiet"}
      BY <2>a, <3>5, <3>6 DEF RunInv, Launching, Launched
    <3>7. /\ object[i].id = NoId <=> object[i].phase \in {"null", "over"}
          /\ object[i].ctl => object[i].phase \in {"work", "quiet"}
      BY <3>1 DEF ObjInv, AtWork
    <3> HIDE DEF i, b, o
    <3>8. \A q \in Procs : Launching(q)' =>
            /\ Launching(q) /\ req'[q].obj = req[q].obj /\ req'[q].arg = req[q].arg
            /\ \/ req[q].obj # i /\ req'[q] = req[q]
               \/ /\ req[q].obj = i /\ o.id = object[i].id /\ ~o.ctl
                  /\ req'[q].pc = "runLaunch" => o.phase = "init"
                  /\ req'[q].pc = "runState" => o.phase \in {"work", "quiet"}
      <4> TAKE q \in Procs
      <4> HAVE Launching(q)'
      <4>1. Launching(q) /\ req'[q] = req[q]
        BY <3>6
      <4>2. CASE req[q].obj # i
        BY <4>1, <4>2
      <4>3. CASE req[q].obj = i
        <5>1. /\ ~object[i].ctl
              /\ req[q].pc = "runLaunch" => object[i].phase = "init"
              /\ req[q].pc = "runState" => object[i].phase \in {"work", "quiet"}
          BY <3>6, <4>3
        <5> QED
          BY <3>4, <4>1, <4>3, <5>1
      <4> QED
        BY <4>2, <4>3
    <3>9. /\ o.id = NoId <=> o.phase \in {"null", "over"}
          /\ o.ctl \/ o.exitF => o.phase \in {"work", "quiet"}
          /\ o.id \in {object[i].id, NoId}
      BY <3>2, <3>4, <3>7
    <3>10. object' = [object EXCEPT ![i] = o] /\ UNCHANGED tasks /\ o \in ObjType
      BY <3>3, <3>4
    <3> QED
      BY <3>1, <3>8, <3>9, <3>10, ObjectMoves
  <2>14. CASE RemoveEntry(p)
    <3>1. req[p].arg \in Ids
      BY <2>14, <2>a DEF RemoveEntry, Shape, RemovePcs
    <3>2. UNCHANGED object /\ tasks' = [tasks EXCEPT ![req[p].arg] = 0]
      BY <2>14 DEF RemoveEntry
    <3>3. ~Launching(p)'
      BY <2>14, <2>a DEF RemoveEntry, RemoveReturn, Resting, Launching, ReqTyped, ReqType
    <3>4. ObjTyped' /\ ObjInv'
      BY <3>1, <3>2, ObjFacts DEF ObjTyped, ObjInv, AtWork
    <3>5. RunInv'
      BY <2>a, <3>2, <3>3 DEF RunInv, Launching, Launched
    <3> QED
      BY <3>4, <3>5
  <2> QED
    BY <1>3, <1>4, <2>a, <2>1, <2>2, <2>3, <2>4, <2>5, <2>6, <2>7, <2>8, <2>9, <2>10,
      <2>11, <2>12, <2>13, <2>14 DEF Handler
<1>5. ASSUME StartUp PROVE Inv
  <2>1. /\ req[Boot] \in ReqType
        /\ \A q \in Procs : q # Boot => req'[q] = req[q]
    BY <1>5, ProcFacts, BootMoves DEF ReqTyped
  <2>2. CASE RunTask(Boot)
    BY <1>3, <2>1, <2>2, ProcFacts
  <2>3. ASSUME ~RunTask(Boot)
        PROVE  \A q \in Procs : Launching(q)' => Launching(q) /\ req'[q] = req[q]
    <3>1. ~Launching(Boot)'
      BY <1>5, <2>3, StartUpRuns
    <3> QED
      BY <2>1, <3>1 DEF Launching
  <2>4. ASSUME NEW id \in Ids, NEW i \in Objects, LoadTask(id, i), ~RunTask(Boot) PROVE Inv
    <3>1. CASE files[id] = "ok" /\ tasks[id] = 0
      BY <2>3, <2>4, <3>1, NewObject DEF LoadTask
    <3>2. CASE ~(files[id] = "ok" /\ tasks[id] = 0)
      BY <2>3, <2>4, <3>2, ObjKept DEF LoadTask
    <3> QED
      BY <3>1, <3>2
  <2>5. ASSUME \/ \E id \in Ids : AutoNext(id)
               \/ LoadEnd \/ AutoMake \/ AutoRead \/ AutoMark \/ AutoEnd,
               ~RunTask(Boot)
        PROVE  Inv
    <3>1. UNCHANGED <<object, tasks>>
      BY <2>5 DEF AutoNext, LoadEnd, AutoMake, AutoRead, AutoMark, AutoEnd
    <3> QED
      BY <2>3, <2>5, <3>1, ObjKept
  <2> QED
    BY <1>5, <2>2, <2>4, <2>5 DEF StartUp
<1>6. ASSUME NEW i \in Objects, TaskGoroutines(i) PROVE Inv
  <2>1. UNCHANGED <<req, tasks>>
    BY <1>6 DEF TaskGoroutines, SourceFails, WorkEnds, WorkStops, Release
  <2>2. /\ object[i] \in ObjType
        /\ object[i].id = NoId <=> object[i].phase \in {"null", "over"}
    BY DEF ObjTyped, ObjInv
  <2>3. ASSUME NEW q \in Procs, Launching(q), req[q].obj = i
        PROVE  /\ ~object[i].ctl
               /\ req[q].pc = "runLaunch" => object[i].phase = "init"
    BY <2>3 DEF RunInv, Launched
  <2>4. ASSUME object[i].phase = "work", NEW s \in States, NEW ph \in {"work", "quiet"},
               object' = [object EXCEPT ![i] = [object[i] EXCEPT !.State = s, !.phase = ph]]
        PROVE  Inv
    <3> DEFINE o == [object[i] EXCEPT !.State = s, !.phase = ph]
    <3>1. /\ o \in ObjType /\ o.phase = ph /\ o.id = object[i].id /\ o.ctl = object[i].ctl
      BY <2>2, <2>4 DEF ObjType
    <3>2. object' = [object EXCEPT ![i] = o]
      BY <2>4
    <3> HIDE DEF o
    <3>3. ASSUME NEW q \in Procs, Launching(q)'
          PROVE  /\ Launching(q) /\ req'[q] = req[q]
                 /\ req[q].obj = i => ~object[i].ctl /\ req[q].pc # "runLaunch"
      BY <2>1, <2>3, <2>4, <3>3 DEF Launching
    <3>4. \A q \in Procs : Launching(q)' =>
            /\ Launching(q) /\ req'[q].obj = req[q].obj /\ req'[q].arg = req[q].arg
            /\ \/ req[q].obj # i /\ req'[q] = req[q]
               \/ /\ req[q].obj = i /\ o.id = object[i].id /\ ~o.ctl
                  /\ req'[q].pc = "runLaunch" => o.phase = "init"
                  /\ req'[q].pc = "runState" => o.phase \in {"work", "quiet"}
      BY <3>1, <3>3 DEF Launching
    <3>5. object[i].id # NoId
      BY <2>2, <2>4
    <3> QED
      BY <2>1, <3>1, <3>2, <3>4, <3>5, ObjectMoves
  <2>5. CASE SourceFails(i)
    <3>1. PICK ph \in {"work", "quiet"} :
            object' = [object EXCEPT ![i].State = "TaskStop", ![i].phase = ph]
      BY <2>5 DEF SourceFails
    <3>2. object' = [object EXCEPT ![i] = [object[i] EXCEPT !.State = "TaskStop", !.phase = ph]]
      BY <3>1
    <3> QED
      BY <2>4, <2>5, <3>2 DEF SourceFails, States
  <2>6. CASE WorkEnds(i) \/ WorkStops(i)
    <3>1. object' = [object EXCEPT ![i] = [object[i] EXCEPT !.State = object[i].State, !.phase = "quiet"]]
      <4>1. [object[i] EXCEPT !.phase = "quiet"] =
              [object[i] EXCEPT !.State = object[i].State, !.phase = "quiet"]
        BY <2>2 DEF ObjType
      <4>2. object' = [object EXCEPT ![i] = [object[i] EXCEPT !.phase = "quiet"]]
        BY <2>6 DEF WorkEnds, WorkStops
      <4> QED
        BY <4>1, <4>2
    <3>2. object[i].State \in States /\ object[i].phase = "work"
      BY <2>2, <2>6 DEF WorkEnds, WorkStops, ObjType
    <3> QED
      BY <2>4, <3>1, <3>2
  <2>7. CASE Release(i)
    <3>1. object[i].ctl /\ object' = [object EXCEPT ![i] = Ended]
      BY <2>7 DEF Release
    <3>2. \A q \in Procs : Launching(q)' => Launching(q) /\ req'[q] = req[q] /\ req[q].obj # i
      BY <2>1, <2>3, <3>1 DEF Launching
    <3>3. \A q \in Procs : Launching(q)' =>
            /\ Launching(q) /\ req'[q].obj = req[q].obj /\ req'[q].arg = req[q].arg
            /\ \/ req[q].obj # i /\ req'[q] = req[q]
               \/ /\ req[q].obj = i /\ Ended.id = object[i].id /\ ~Ended.ctl
                  /\ req'[q].pc = "runLaunch" => Ended.phase = "init"
                  /\ req'[q].pc = "runState" => Ended.phase \in {"work", "quiet"}
      BY <3>2
    <3> QED
      BY <2>1, <3>1, <3>3, ObjectFacts, ObjectMoves
  <2> QED
    BY <1>6, <2>5, <2>6, <2>7 DEF TaskGoroutines
<1>7. ASSUME UNCHANGED vars PROVE Inv
  BY <1>7, ObjKept DEF vars, Launching
<1> QED
  BY <1>1, <1>2, <1>3, <1>4, <1>5, <1>6, <1>7 DEF Next

-----------------------------------------------------------------------------
(* What a step does to the request it works on. *)

Rests(p) == /\ req'[p].pc \in {"idle", "dead"} /\ req'[p].op = "none"
            /\ req'[p].arg = NoId /\ req'[p].new = NoId /\ req'[p].todo = {}

(* The fields other parts of the invariant look at. *)
Goes(p) ==
  /\ req'[p].op = req[p].op
  /\ req'[p].new = req[p].new \/ req'[p].pc = "rebuildWrite"
  /\ \/ req'[p].arg = req[p].arg
     \/ req[p].op = "clear" /\ (req'[p].pc = "clear" \/ req'[p].arg \in doomed')
  /\ req'[p].pc \in StopPcs \cup RemovePcs =>
       \/ req[p].pc \in StopPcs \cup RemovePcs \cup {"rebuildWrite"}
       \/ req[p].op = "clear" /\ req'[p].arg \in doomed'
  /\ req'[p].pc = "write" => req[p].pc = "add"
  /\ req'[p].pc = "add" => req[p].pc = "write"
  /\ req'[p].pc \in RemovePcs /\ req[p].op = "rebuild" => req'[p].fine = req[p].fine
  /\ req'[p].pc = "autoWrite" => req'[p].todo = runData'

LEMMA RestingRests ==
  ASSUME ReqTyped, NEW p \in Procs,
         req' = [req EXCEPT ![p] = Resting] \/ req' = [req EXCEPT ![p] = [Resting EXCEPT !.pc = "dead"]]
  PROVE  Rests(p)
<1>1. req'[p] = Resting \/ req'[p] = [Resting EXCEPT !.pc = "dead"]
  BY DEF ReqTyped
<1> QED
  BY <1>1 DEF Rests, Resting

LEMMA AnswerRests == ASSUME ReqTyped, NEW p \in Procs, Answer(p) PROVE Rests(p)
BY RestingRests DEF Answer

LEMMA PanicRests == ASSUME ReqTyped, NEW p \in Procs, Panic(p) PROVE Rests(p)
<1>1. CASE p \in Sock
  BY <1>1, RestingRests DEF Panic
<1>2. CASE p \notin Sock
  BY <1>2, RestingRests DEF Panic
<1> QED
  BY <1>1, <1>2


LEMMA RunReturnGoes ==
  ASSUME ReqTyped, NEW p \in Procs, RunReturn(p)
  PROVE  Rests(p) \/ Goes(p)
<1>1. req[p] \in ReqType
  BY DEF ReqTyped
<1>2. CASE req[p].op = "start"
  <2>1. req'[p] = [req[p] EXCEPT !.pc = "startAuto", !.obj = 0]
    BY <1>2 DEF RunReturn, ReqTyped
  <2> QED
    BY <1>1, <1>2, <2>1 DEF Goes, ReqType, RunPcs, StopPcs, RemovePcs
<1>3. CASE req[p].op = "auto"
  <2>1. req'[p] = [req[p] EXCEPT !.pc = "autoMark", !.obj = 0]
    BY <1>3 DEF RunReturn, ReqTyped
  <2> QED
    BY <1>1, <1>3, <2>1 DEF Goes, ReqType, RunPcs, StopPcs, RemovePcs
<1>4. CASE req[p].op \notin {"start", "auto"}
  BY <1>4, RestingRests DEF RunReturn
<1> QED
  BY <1>2, <1>3, <1>4


LEMMA StopReturnGoes ==
  ASSUME ReqTyped, NEW p \in Procs, req[p].pc \in StopPcs, StopReturn(p)
  PROVE  Rests(p) \/ Goes(p)
<1>1. req[p] \in ReqType
  BY DEF ReqTyped
<1>2. CASE req[p].op = "stop"
  <2>1. req'[p] = [req[p] EXCEPT !.pc = "stopAuto", !.obj = 0]
    BY <1>2 DEF StopReturn, ReqTyped
  <2> QED
    BY <1>1, <1>2, <2>1 DEF Goes, ReqType, RunPcs, StopPcs, RemovePcs
<1>3. CASE req[p].op = "clear"
  <2>1. req'[p] = [req[p] EXCEPT !.pc = "removeCheck", !.obj = 0]
    BY <1>3 DEF StopReturn, ReqTyped
  <2> QED
    BY <1>1, <1>3, <2>1 DEF Goes, ReqType, RunPcs, StopPcs, RemovePcs
<1>4. CASE req[p].op \notin {"stop", "clear"}
  BY <1>4, RestingRests DEF StopReturn
<1> QED
  BY <1>2, <1>3, <1>4


LEMMA RemoveReturnGoes ==
  ASSUME ReqTyped, NEW p \in Procs, RemoveReturn(p)
  PROVE  Rests(p) \/ Goes(p)
<1>1. req[p] \in ReqType
  BY DEF ReqTyped
<1>2. CASE req[p].op = "clear"
  <2>1. req'[p] = [req[p] EXCEPT !.pc = "clear", !.arg = NoId]
    BY <1>2 DEF RemoveReturn, ReqTyped
  <2> QED
    BY <1>1, <1>2, <2>1 DEF Goes, ReqType, RunPcs, StopPcs, RemovePcs
<1>3. CASE req[p].op # "clear"
  BY <1>3, RestingRests DEF RemoveReturn
<1> QED
  BY <1>2, <1>3


LEMMA HandlerGoes ==
  ASSUME ReqTyped, Shapes, NEW p \in Clients, Handler(p)
  PROVE  Rests(p) \/ Goes(p)
<1>a. p \in Procs /\ req[p] \in ReqType /\ Shape(req[p])
  BY ProcFacts DEF ReqTyped, Shapes, Good
<1>1. CASE RunTask(p)
  <2>1. CASE RunRefused(p) \/ RunInitFails(p) \/ RunSetsState(p)
    BY <1>a, <2>1, RunReturnGoes DEF RunRefused, RunInitFails, RunSetsState
  <2>2. CASE RunCheck(p) \/ RunLaunch(p)
    BY <1>a, <2>2
    DEF RunCheck, RunLaunch, Goto, Goes, ReqTyped, ReqType, RunPcs, StopPcs, RemovePcs
  <2>3. ASSUME NEW i \in Objects, RunReplace(p, i) PROVE Goes(p)
    <3>1. req'[p] = [req[p] EXCEPT !.pc = "runLaunch", !.obj = i]
      BY <1>a, <2>3 DEF RunReplace, ReqTyped
    <3>2. /\ req'[p].pc = "runLaunch" /\ req'[p].op = req[p].op /\ req'[p].new = req[p].new
          /\ req'[p].arg = req[p].arg /\ req'[p].fine = req[p].fine
      BY <1>a, <3>1 DEF ReqType
    <3> QED
      BY <3>2 DEF Goes, StopPcs, RemovePcs
  <2> QED
    BY <1>1, <2>1, <2>2, <2>3 DEF RunTask
<1>2. CASE WriteTask(p)
  <2>1. CASE req[p].op = "sockNew"
    BY <1>a, <1>2, <2>1, AnswerRests DEF WriteTask
  <2>2. CASE ~(req[p].op = "sockNew")
    <3>1. req'[p] = [req[p] EXCEPT !.pc = "add"]
      BY <1>a, <1>2, <2>2 DEF WriteTask, Goto, ReqTyped
    <3> QED
      BY <1>a, <1>2, <3>1 DEF WriteTask, Goes, ReqType, RunPcs, StopPcs, RemovePcs
  <2> QED
    BY <2>1, <2>2
<1>3. ASSUME NEW i \in Objects, AddTask(p, i) PROVE Rests(p) \/ Goes(p)
  <2>1. CASE req[p].op = "new"
    BY <1>a, <1>3, <2>1, AnswerRests DEF AddTask
  <2>2. CASE ~(req[p].op = "new")
    <3>1. req'[p] = [req[p] EXCEPT !.pc = "write"]
      BY <1>a, <1>3, <2>2 DEF AddTask, Goto, ReqTyped
    <3> QED
      BY <1>a, <1>3, <3>1 DEF AddTask, Goes, ReqType, RunPcs, StopPcs, RemovePcs
  <2> QED
    BY <2>1, <2>2
<1>4. CASE StopRefused(p)
  BY <1>a, <1>4, StopReturnGoes DEF StopRefused, StopPcs
<1>5. CASE StopCheck(p)
  <2>1. req'[p] = [req[p] EXCEPT !.pc = "stopWait", !.obj = tasks[req[p].arg]]
    BY <1>a, <1>5 DEF StopCheck, ReqTyped
  <2>2. /\ req'[p].op = req[p].op /\ req'[p].pc = "stopWait" /\ req'[p].arg = req[p].arg
        /\ req'[p].new = req[p].new /\ req'[p].todo = req[p].todo
    BY <1>a, <2>1 DEF ReqType
  <2>3. req[p].pc \in {"stopCheck"}
    BY <1>5 DEF StopCheck
  <2> QED
    BY <1>a, <1>5, <2>2, <2>3 DEF Goes, Shape, RunPcs, StopPcs, RemovePcs
<1>6. CASE StopWait(p)
  BY <1>a, <1>6, StopReturnGoes DEF StopWait, StopPcs
<1>7. CASE RemoveRefused(p)
  BY <1>a, <1>7, RemoveReturnGoes DEF RemoveRefused
<1>8. CASE RemoveCheck(p)
  <2>1. req'[p] = [req[p] EXCEPT !.pc = "removeFile"]
    BY <1>a, <1>8 DEF RemoveCheck, ReqTyped, Goto
  <2> QED
    BY <1>a, <1>8, <2>1 DEF RemoveCheck, Goes, ReqType, Shape, RunPcs, StopPcs, RemovePcs
<1>9. CASE RemoveFilePanics(p) \/ RebuildPanics(p) \/ StartPanics(p)
  BY <1>a, <1>9, PanicRests DEF RemoveFilePanics, RebuildPanics, StartPanics
<1>10. CASE RemoveFile(p)
  <2>1. CASE req[p].op = "reset"
    BY <1>a, <1>10, <2>1, AnswerRests DEF RemoveFile
  <2>2. CASE ~(req[p].op = "reset")
    <3>1. req'[p] = [req[p] EXCEPT !.pc = "removeEntry"]
      BY <1>a, <1>10, <2>2 DEF RemoveFile, Goto, ReqTyped
    <3> QED
      BY <1>a, <1>10, <3>1 DEF RemoveFile, Goes, ReqType, RunPcs, StopPcs, RemovePcs
  <2> QED
    BY <2>1, <2>2
<1>11. CASE RemoveEntry(p)
  BY <1>a, <1>11, RemoveReturnGoes DEF RemoveEntry
<1>12. ASSUME NEW id \in Ids, NEW i \in Objects, Rebuild(p, id, i) PROVE Goes(p)
  <2>1. req'[p] = [req[p] EXCEPT !.pc = "rebuildWrite", !.new = id, !.fine = (files[req[p].arg] = "ok")]
    BY <1>a, <1>12 DEF Rebuild, ReqTyped
  <2>2. /\ req'[p].op = req[p].op /\ req'[p].pc = "rebuildWrite" /\ req'[p].arg = req[p].arg
        /\ req'[p].new = id /\ req'[p].todo = req[p].todo
        /\ req'[p].fine = (files[req[p].arg] = "ok")
    BY <1>a, <2>1 DEF ReqType
  <2>3. req[p].pc \in {"rebuild"}
    BY <1>12 DEF Rebuild
  <2> QED
    BY <1>a, <1>12, <2>2, <2>3 DEF Goes, Shape, RunPcs, StopPcs, RemovePcs
<1>13. CASE RebuildWrite(p)
  <2>1. req'[p] = [req[p] EXCEPT !.pc = "removeCheck"]
    BY <1>a, <1>13 DEF RebuildWrite, ReqTyped, Goto
  <2> QED
    BY <1>a, <1>13, <2>1 DEF RebuildWrite, Goes, ReqType, Shape, RunPcs, StopPcs, RemovePcs
<1>14. ASSUME NEW id \in Ids, ClearNext(p, id) PROVE Goes(p)
  <2>1. req'[p] = [req[p] EXCEPT !.pc = "stopCheck", !.arg = id, !.todo = req[p].todo \ {id}]
    BY <1>a, <1>14 DEF ClearNext, ReqTyped
  <2>2. /\ req'[p].op = req[p].op /\ req'[p].pc = "stopCheck" /\ req'[p].arg = id
        /\ req'[p].new = req[p].new /\ req'[p].todo = req[p].todo \ {id}
        /\ req'[p].fine = req[p].fine
    BY <1>a, <2>1 DEF ReqType
  <2>3. req[p].pc \in {"clear"} /\ id \in doomed'
    BY <1>14 DEF ClearNext
  <2> QED
    BY <1>a, <1>14, <2>2, <2>3 DEF Goes, Shape, RunPcs, StopPcs, RemovePcs
<1>15. CASE ClearEnd(p) \/ StartNotWritten(p) \/ StopNotWritten(p) \/ AutoWrite(p)
  BY <1>a, <1>15, AnswerRests DEF ClearEnd, StartNotWritten, StopNotWritten, AutoWrite
<1>16. CASE TaskAutoStartAdd(p)
  <2>1. req'[p] = [req[p] EXCEPT !.pc = "autoWrite", !.todo = runData']
    BY <1>a, <1>16 DEF TaskAutoStartAdd, ReqTyped
  <2>2. /\ req'[p].op = req[p].op /\ req'[p].pc = "autoWrite" /\ req'[p].arg = req[p].arg
        /\ req'[p].new = req[p].new /\ req'[p].todo = runData'
        /\ req'[p].fine = req[p].fine
    BY <1>a, <2>1 DEF ReqType
  <2>3. req[p].pc \in {"startAuto"}
    BY <1>16 DEF TaskAutoStartAdd
  <2> QED
    BY <1>a, <1>16, <2>2, <2>3 DEF Goes, Shape, RunPcs, StopPcs, RemovePcs
<1>17. CASE TaskAutoStartDel(p)
  <2>1. req'[p] = [req[p] EXCEPT !.pc = "autoWrite", !.todo = runData']
    BY <1>a, <1>17 DEF TaskAutoStartDel, ReqTyped
  <2>2. /\ req'[p].op = req[p].op /\ req'[p].pc = "autoWrite" /\ req'[p].arg = req[p].arg
        /\ req'[p].new = req[p].new /\ req'[p].todo = runData'
        /\ req'[p].fine = req[p].fine
    BY <1>a, <2>1 DEF ReqType
  <2>3. req[p].pc \in {"stopAuto"}
    BY <1>17 DEF TaskAutoStartDel
  <2> QED
    BY <1>a, <1>17, <2>2, <2>3 DEF Goes, Shape, RunPcs, StopPcs, RemovePcs
<1> QED
  BY <1>a, <1>1, <1>2, <1>3, <1>4, <1>5, <1>6, <1>7, <1>8, <1>9, <1>10, <1>11, <1>12,
    <1>13, <1>14, <1>15, <1>16, <1>17 DEF Handler

-----------------------------------------------------------------------------
(* What a request received leaves, and main, and a crash. *)

LEMMA ReceiveNewFields ==
  ASSUME ReqTyped, NEW p \in Clients, NEW id \in Ids, ReceiveNew(p, id)
  PROVE  /\ req'[p].new = id /\ req'[p].arg = NoId /\ req'[p].fine = FALSE /\ req'[p].todo = {}
         /\ \/ req'[p].op = "new" /\ req'[p].pc = "write"
            \/ req'[p].op = "sockNew" /\ req'[p].pc = "add"
<1> DEFINE r == [Resting EXCEPT !.op = IF p \in Sock THEN "sockNew" ELSE "new", !.new = id,
                                !.pc = IF p \in Sock THEN "add" ELSE "write"]
<1>1. req'[p] = r
  BY ProcFacts DEF ReqTyped, ReceiveNew
<1>2. /\ r.new = id /\ r.arg = NoId /\ r.fine = FALSE /\ r.todo = {}
      /\ \/ r.op = "new" /\ r.pc = "write"
         \/ r.op = "sockNew" /\ r.pc = "add"
  BY DEF Resting
<1> QED
  BY <1>1, <1>2

LEMMA ReceiveClearFields ==
  ASSUME ReqTyped, NEW p \in Clients, ReceiveClear(p)
  PROVE  /\ req'[p].new = NoId /\ req'[p].arg = NoId /\ req'[p].fine = FALSE
         /\ req'[p].op = "clear" /\ req'[p].pc = "clear"
<1> DEFINE S == {id \in Ids : tasks[id] # 0}
           r == [Resting EXCEPT !.op = "clear", !.pc = "clear", !.todo = S]
<1>1. req'[p] = r
  BY ProcFacts DEF ReqTyped, ReceiveClear
<1>2. r.new = NoId /\ r.arg = NoId /\ r.fine = FALSE /\ r.op = "clear" /\ r.pc = "clear"
  <2> HIDE DEF S
  <2> QED
    BY DEF Resting
<1> QED
  BY <1>1, <1>2

LEMMA ReceiveFields ==
  ASSUME ReqTyped, NEW p \in Clients, NEW id \in Ids,
         NEW op \in (HttpOps \cup SockOps) \ {"new", "clear", "sockNew"}, Receive(p, op, id)
  PROVE  /\ req'[p].new = NoId /\ req'[p].arg = id /\ req'[p].fine = FALSE
         /\ req'[p].op = op /\ req'[p].todo = {}
         /\ req'[p].pc \in {"runCheck", "stopCheck", "removeCheck", "removeFile", "rebuild"}
<1> DEFINE l == CASE op \in {"start", "sockStart"}   -> "runCheck"
                  [] op \in {"stop", "sockStop"}     -> "stopCheck"
                  [] op \in {"delete", "sockRemove"} -> "removeCheck"
                  [] op = "reset"                    -> "removeFile"
                  [] op = "rebuild"                  -> "rebuild"
           r == [Resting EXCEPT !.op = op, !.arg = id, !.pc = l]
<1>1. req'[p] = r
  BY ProcFacts DEF ReqTyped, Receive
<1>2. l \in {"runCheck", "stopCheck", "removeCheck", "removeFile", "rebuild"}
  BY DEF HttpOps, SockOps
<1>3. /\ r.new = NoId /\ r.arg = id /\ r.fine = FALSE /\ r.op = op /\ r.todo = {} /\ r.pc = l
  <2> HIDE DEF l
  <2> QED
    BY DEF Resting
<1> QED
  BY <1>1, <1>2, <1>3

LEMMA UserCases ==
  ASSUME NEW p \in Clients, User(p)
  PROVE  \/ \E id \in Ids : ReceiveNew(p, id)
         \/ \E id \in Ids, op \in (HttpOps \cup SockOps) \ {"new", "clear", "sockNew"} :
              Receive(p, op, id)
         \/ ReceiveClear(p)
BY DEF User, HttpOps, SockOps

LEMMA CrashFields ==
  ASSUME Crash
  PROVE  /\ \A p \in Clients : req'[p] = Resting
         /\ req'[Boot] = Loading({id \in Ids : files[id] # "none"})
BY ProcFacts DEF Crash

LEMMA RestingFields ==
  Resting.new = NoId /\ Resting.op = "none" /\ Resting.fine = FALSE /\ Resting.pc = "idle"
  /\ Resting.arg = NoId /\ Resting.todo = {}
BY DEF Resting

-----------------------------------------------------------------------------
(* Types of the other variables. *)

LEMMA RestTypedStep ==
  ReqTyped /\ Shapes /\ RestTyped /\ [Next]_vars => RestTyped'
<1> SUFFICES ASSUME ReqTyped, Shapes, RestTyped, [Next]_vars PROVE RestTyped'
  OBVIOUS
<1> USE DEF RestTyped
<1>1. CASE Crash
  <2>1. crashes < MaxCrashes /\ crashes' = crashes + 1
    BY <1>1 DEF Crash
  <2>2. crashes' \in 0..MaxCrashes
    BY <2>1, LoopAssumption
  <2>3. /\ flows' = {} /\ runData' = {} /\ runMade' = FALSE
        /\ UNCHANGED <<files, autoFile, unused, created, doomed, stopped, requests>>
        /\ overtaken' = {}
    BY <1>1 DEF Crash
  <2> QED
    BY <2>2, <2>3
<1>2. ASSUME NEW p \in Clients, User(p) PROVE RestTyped'
  <2>1. ASSUME NEW id \in Ids, ReceiveNew(p, id) PROVE RestTyped'
    BY <2>1, LoopAssumption DEF ReceiveNew, Accepts
  <2>2. ASSUME NEW id \in Ids, NEW op, Receive(p, op, id) PROVE RestTyped'
    BY <2>2, LoopAssumption DEF Receive, Accepts
  <2>3. CASE ReceiveClear(p)
    BY <2>3, LoopAssumption DEF ReceiveClear, Accepts
  <2> QED
    BY <1>2, <2>1, <2>2, <2>3, UserCases
<1>3. ASSUME NEW p \in Procs, RunTask(p) PROVE RestTyped'
  <2>1. req[p].pc \in RunPcs => req[p].arg \in Ids
    BY DEF Shapes, Good, Shape
  <2>2. CASE RunLaunch(p)
    BY <2>1, <2>2 DEF RunLaunch, RunPcs
  <2>3. CASE RunRefused(p) \/ RunCheck(p) \/ RunInitFails(p) \/ RunSetsState(p)
    BY <2>3 DEF RunRefused, RunCheck, RunInitFails, RunSetsState
  <2>4. ASSUME NEW i \in Objects, RunReplace(p, i) PROVE RestTyped'
    BY <2>4 DEF RunReplace
  <2> QED
    BY <1>3, <2>2, <2>3, <2>4 DEF RunTask
<1>4. ASSUME NEW p \in Clients, Handler(p) PROVE RestTyped'
  <2>1. req[p] \in ReqType /\ Shape(req[p]) /\ p \in Procs
    BY ProcFacts DEF ReqTyped, Shapes, Good
  <2>2. CASE WriteTask(p)
    <3>1. req[p].new \in Ids
      BY <2>1, <2>2 DEF WriteTask, Shape, NewPcs
    <3> QED
      BY <2>2, <3>1 DEF WriteTask
  <2>3. ASSUME NEW i \in Objects, AddTask(p, i) PROVE RestTyped'
    <3>1. req[p].new \in Ids
      BY <2>1, <2>3 DEF AddTask, Shape, NewPcs
    <3> QED
      BY <2>3, <3>1 DEF AddTask
  <2>4. CASE StopRefused(p) \/ StopCheck(p) \/ StopWait(p) \/ RemoveRefused(p) \/ RemoveCheck(p)
    BY <2>4 DEF StopRefused, StopCheck, StopWait, RemoveRefused, RemoveCheck
  <2>5. CASE RemoveFilePanics(p) \/ RebuildPanics(p) \/ StartPanics(p) \/ ClearEnd(p)
             \/ StartNotWritten(p) \/ StopNotWritten(p)
    BY <2>5 DEF RemoveFilePanics, RebuildPanics, StartPanics, ClearEnd, StartNotWritten,
       StopNotWritten
  <2>6. CASE RemoveFile(p)
    BY <2>6 DEF RemoveFile
  <2>7. CASE RemoveEntry(p)
    <3>1. req[p].op = "rebuild" => req[p].new \in Ids
      BY <2>1, <2>7 DEF RemoveEntry, Shape, RemovePcs
    <3>2. files' \in [Ids -> {"none", "ok", "bad"}]
      BY <2>7 DEF RemoveEntry
    <3>3. created' \subseteq Ids
      BY <2>7, <3>1 DEF RemoveEntry
    <3> QED
      BY <2>7, <3>2, <3>3 DEF RemoveEntry
  <2>8. ASSUME NEW id \in Ids, NEW i \in Objects, Rebuild(p, id, i) PROVE RestTyped'
    BY <2>8 DEF Rebuild
  <2>9. CASE RebuildWrite(p)
    BY <2>9 DEF RebuildWrite
  <2>10. ASSUME NEW id \in Ids, ClearNext(p, id) PROVE RestTyped'
    BY <2>10 DEF ClearNext
  <2>11. CASE TaskAutoStartAdd(p)
    <3>1. req[p].arg \in Ids
      BY <2>1, <2>11 DEF TaskAutoStartAdd, Shape, AutoPcs
    <3> QED
      BY <2>11, <3>1 DEF TaskAutoStartAdd
  <2>12. CASE TaskAutoStartDel(p)
    <3>1. req[p].arg \in Ids
      BY <2>1, <2>12 DEF TaskAutoStartDel, Shape, AutoPcs
    <3>2. stopped' \subseteq Ids /\ overtaken' \subseteq Clients
      BY <2>12, <3>1 DEF TaskAutoStartDel, Stops
    <3> QED
      BY <2>12, <3>2 DEF TaskAutoStartDel
  <2>13. CASE AutoWrite(p)
    <3>1. req[p].todo \in SUBSET Ids /\ req[p].arg \in Ids
      BY <2>1, <2>13 DEF AutoWrite, ReqType, Shape, AutoPcs
    <3>2. stopped' \subseteq Ids /\ overtaken' \subseteq Clients
      BY <2>13 DEF AutoWrite
    <3>3. autoFile' = <<>> \/ autoFile' = <<req[p].todo>>
      BY <2>13 DEF AutoWrite
    <3> QED
      BY <2>13, <3>1, <3>2, <3>3 DEF AutoWrite
  <2> QED
    BY <1>3, <1>4, <2>1, <2>2, <2>3, <2>4, <2>5, <2>6, <2>7, <2>8, <2>9, <2>10, <2>11, <2>12,
      <2>13
    DEF Handler
<1>5. CASE StartUp
  <2>1. ASSUME NEW id \in Ids, NEW i \in Objects, LoadTask(id, i) PROVE RestTyped'
    BY <2>1 DEF LoadTask
  <2>2. CASE LoadEnd \/ AutoMake \/ AutoRead \/ AutoEnd
    BY <2>2 DEF LoadEnd, AutoMake, AutoRead, AutoEnd
  <2>3. CASE AutoMark
    <3>1. req[Boot].arg \in Ids
      BY <2>3, ProcFacts DEF AutoMark, Shapes, Good, Shape, AutoPcs
    <3> QED
      BY <2>3, <3>1 DEF AutoMark
  <2>4. ASSUME NEW id \in Ids, AutoNext(id) PROVE RestTyped'
    BY <2>4 DEF AutoNext
  <2> QED
    BY <1>3, <1>5, <2>1, <2>2, <2>3, <2>4, ProcFacts DEF StartUp
<1>6. ASSUME NEW i \in Objects, TaskGoroutines(i) PROVE RestTyped'
  BY <1>6 DEF TaskGoroutines, SourceFails, WorkEnds, WorkStops, Release
<1>7. CASE UNCHANGED vars
  BY <1>7 DEF vars
<1> QED
  BY <1>1, <1>2, <1>4, <1>5, <1>6, <1>7 DEF Next

-----------------------------------------------------------------------------
(* Which handler actions touch the tasks, the files and the history. *)

(* What p does leaves alone what others are creating. *)
LEMMA HandlerQuiet ==
  ASSUME NEW p \in Clients, Handler(p)
  PROVE  \/ WriteTask(p) \/ \E i \in Objects : AddTask(p, i)
         \/ \E i \in Objects : RunReplace(p, i)
         \/ RemoveFile(p) \/ RemoveEntry(p) \/ RebuildWrite(p)
         \/ \E id \in Ids, i \in Objects : Rebuild(p, id, i)
         \/ \E id \in Ids : ClearNext(p, id)
         \/ UNCHANGED <<tasks, files, unused, created, doomed>>
<1>1. CASE RunTask(p)
  BY <1>1 DEF RunTask, RunRefused, RunCheck, RunInitFails, RunLaunch, RunSetsState
<1>2. CASE StopRefused(p) \/ StopCheck(p) \/ StopWait(p) \/ RemoveRefused(p) \/ RemoveCheck(p)
  BY <1>2 DEF StopRefused, StopCheck, StopWait, RemoveRefused, RemoveCheck
<1>3. CASE RemoveFilePanics(p) \/ RebuildPanics(p) \/ StartPanics(p) \/ ClearEnd(p)
           \/ StartNotWritten(p) \/ StopNotWritten(p)
  BY <1>3 DEF RemoveFilePanics, RebuildPanics, StartPanics, ClearEnd, StartNotWritten,
     StopNotWritten
<1>4. CASE TaskAutoStartAdd(p) \/ TaskAutoStartDel(p) \/ AutoWrite(p)
  BY <1>4 DEF TaskAutoStartAdd, TaskAutoStartDel, AutoWrite
<1> QED
  BY <1>1, <1>2, <1>3, <1>4 DEF Handler

LEMMA RunReturnPc ==
  ASSUME ReqTyped, NEW p \in Procs, RunReturn(p)
  PROVE  req'[p].pc \in {"startAuto", "autoMark", "idle"}
<1>1. req[p] \in ReqType
  BY DEF ReqTyped
<1>2. CASE req[p].op = "start"
  <2>1. req'[p] = [req[p] EXCEPT !.pc = "startAuto", !.obj = 0]
    BY <1>2 DEF RunReturn, ReqTyped
  <2> QED
    BY <1>1, <2>1 DEF ReqType
<1>3. CASE req[p].op = "auto"
  <2>1. req'[p] = [req[p] EXCEPT !.pc = "autoMark", !.obj = 0]
    BY <1>3 DEF RunReturn, ReqTyped
  <2> QED
    BY <1>1, <2>1 DEF ReqType
<1>4. CASE req[p].op \notin {"start", "auto"}
  <2>1. req'[p] = Resting
    BY <1>4 DEF RunReturn, ReqTyped
  <2> QED
    BY <2>1 DEF Resting
<1> QED
  BY <1>2, <1>3, <1>4

(* Only Rebuild leads to the writing of the new file. *)
LEMMA RebuildWritePc ==
  ASSUME ReqTyped, NEW p \in Clients, Handler(p),
         ~\E id \in Ids, i \in Objects : Rebuild(p, id, i)
  PROVE  req'[p].pc # "rebuildWrite"
<1>a. p \in Procs /\ req[p] \in ReqType
  BY ProcFacts DEF ReqTyped
<1>b. Rests(p) => req'[p].pc # "rebuildWrite"
  BY DEF Rests
<1>1. CASE RunTask(p)
  <2>1. CASE RunRefused(p) \/ RunInitFails(p) \/ RunSetsState(p)
    BY <1>a, <2>1, RunReturnPc DEF RunRefused, RunInitFails, RunSetsState
  <2>2. CASE RunCheck(p) \/ RunLaunch(p)
    BY <1>a, <2>2 DEF RunCheck, RunLaunch, Goto, ReqTyped, ReqType
  <2>3. ASSUME NEW i \in Objects, RunReplace(p, i) PROVE req'[p].pc # "rebuildWrite"
    BY <1>a, <2>3 DEF RunReplace, ReqTyped, ReqType
  <2> QED
    BY <1>1, <2>1, <2>2, <2>3 DEF RunTask
<1>2. CASE StopRefused(p) \/ StopWait(p) \/ RemoveRefused(p) \/ RemoveEntry(p)
  BY <1>2, <1>a, StopReturnPc, RemoveReturnPc
  DEF StopRefused, StopWait, RemoveRefused, RemoveEntry
<1>3. CASE RemoveFilePanics(p) \/ RebuildPanics(p) \/ StartPanics(p) \/ ClearEnd(p)
           \/ StartNotWritten(p) \/ StopNotWritten(p) \/ AutoWrite(p)
  BY <1>3, <1>a, <1>b, PanicRests, AnswerRests DEF RemoveFilePanics, RebuildPanics, StartPanics,
     ClearEnd, StartNotWritten, StopNotWritten, AutoWrite
<1>4. CASE WriteTask(p) \/ RemoveFile(p) \/ \E i \in Objects : AddTask(p, i)
  <2>1. CASE Answer(p)
    BY <2>1, <1>a, <1>b, AnswerRests
  <2>2. ASSUME NEW l \in {"add", "write", "removeEntry"}, Goto(p, l)
        PROVE  req'[p].pc # "rebuildWrite"
    BY <2>2, <1>a DEF Goto, ReqTyped, ReqType
  <2> QED
    BY <1>4, <2>1, <2>2 DEF WriteTask, RemoveFile, AddTask
<1>5. CASE RemoveCheck(p) \/ RebuildWrite(p)
  BY <1>5, <1>a DEF RemoveCheck, RebuildWrite, Goto, ReqTyped, ReqType
<1>6. CASE StopCheck(p) \/ TaskAutoStartAdd(p) \/ TaskAutoStartDel(p)
  BY <1>6, <1>a DEF StopCheck, TaskAutoStartAdd, TaskAutoStartDel, ReqTyped, ReqType
<1>7. ASSUME NEW id \in Ids, ClearNext(p, id) PROVE req'[p].pc # "rebuildWrite"
  BY <1>7, <1>a DEF ClearNext, ReqTyped, ReqType
<1> QED
  BY <1>1, <1>2, <1>3, <1>4, <1>5, <1>6, <1>7 DEF Handler

LEMMA StartUpQuiet ==
  ASSUME StartUp PROVE UNCHANGED <<files, unused, histVars, autoFile>>
<1>1. CASE RunTask(Boot)
  BY <1>1 DEF RunTask, RunRefused, RunCheck, RunReplace, RunInitFails, RunLaunch, RunSetsState
<1>2. CASE \/ \E id \in Ids, i \in Objects : LoadTask(id, i)
           \/ \E id \in Ids : AutoNext(id)
           \/ LoadEnd \/ AutoMake \/ AutoRead \/ AutoMark \/ AutoEnd
  BY <1>2 DEF LoadTask, LoadEnd, AutoMake, AutoRead, AutoMark, AutoEnd, AutoNext
<1> QED
  BY <1>1, <1>2 DEF StartUp

LEMMA GoroutinesQuiet ==
  ASSUME NEW i \in Objects, TaskGoroutines(i)
  PROVE  UNCHANGED <<tasks, runData, autoFile, req, files, unused, histVars>>
BY DEF TaskGoroutines, SourceFails, WorkEnds, WorkStops, Release

-----------------------------------------------------------------------------
(* NewInv *)

LEMMA NewKept ==
  ASSUME NewInv, UNCHANGED <<unused, created>>,
         \A p \in Clients : req'[p].new \in {req[p].new, NoId}, NoId \notin unused \cup created
  PROVE  NewInv'
BY DEF NewInv

LEMMA NewInvStep ==
  ReqTyped /\ Shapes /\ RestTyped /\ NewInv /\ [Next]_vars => NewInv'
<1> SUFFICES ASSUME ReqTyped, Shapes, RestTyped, NewInv, [Next]_vars PROVE NewInv'
  OBVIOUS
<1>a. NoId \notin unused \cup created
  BY LoopAssumption DEF RestTyped
<1>1. CASE Crash
  <2>1. UNCHANGED <<unused, created>>
    BY <1>1 DEF Crash
  <2> QED
    BY <1>1, <1>a, <2>1, CrashFields, RestingFields, NewKept
<1>2. ASSUME NEW p \in Clients, User(p) PROVE NewInv'
  <2>a. p \in Procs /\ \A q \in Procs : q # p => req'[q] = req[q]
    BY <1>2, ProcFacts, OneMoves
  <2>1. ASSUME NEW id \in Ids, ReceiveNew(p, id) PROVE NewInv'
    <3>1. /\ id \in unused /\ unused' = unused \ {id} /\ created' = created
      BY <2>1 DEF ReceiveNew
    <3>2. req'[p].new = id /\ \A q \in Clients : q # p => req'[q].new = req[q].new
      BY <2>1, <2>a, ReceiveNewFields, ProcFacts
    <3> QED
      BY <3>1, <3>2 DEF NewInv
  <2>2. ASSUME NEW id \in Ids, NEW op \in (HttpOps \cup SockOps) \ {"new", "clear", "sockNew"},
               Receive(p, op, id)
        PROVE  NewInv'
    <3>1. UNCHANGED <<unused, created>>
      BY <2>2 DEF Receive
    <3> QED
      BY <1>a, <2>2, <2>a, <3>1, ReceiveFields, ProcFacts, NewKept
  <2>3. CASE ReceiveClear(p)
    <3>1. UNCHANGED <<unused, created>>
      BY <2>3 DEF ReceiveClear
    <3> QED
      BY <1>a, <2>3, <2>a, <3>1, ReceiveClearFields, ProcFacts, NewKept
  <2> QED
    BY <1>2, <2>1, <2>2, <2>3, UserCases
<1>3. ASSUME NEW p \in Clients, Handler(p) PROVE NewInv'
  <2>a. /\ p \in Procs /\ req[p] \in ReqType /\ Shape(req[p])
        /\ \A q \in Clients : q # p => req'[q].new = req[q].new
    BY <1>3, ProcFacts, OneMoves DEF ReqTyped, Shapes, Good
  <2>b. Rests(p) \/ Goes(p)
    BY <1>3, HandlerGoes
  <2>1. ASSUME NEW id \in Ids, NEW i \in Objects, Rebuild(p, id, i) PROVE NewInv'
    <3>1. id \in unused /\ unused' = unused \ {id} /\ created' = created
      BY <2>1 DEF Rebuild
    <3>2. req'[p].new = id
      BY <2>1, <2>a DEF Rebuild, ReqTyped, ReqType
    <3> QED
      BY <2>a, <3>1, <3>2 DEF NewInv
  <2>2. ASSUME UNCHANGED <<unused, created>>, req'[p].pc # "rebuildWrite" PROVE NewInv'
    <3>1. req'[p].new \in {req[p].new, NoId}
      BY <2>2, <2>b DEF Rests, Goes
    <3> QED
      BY <1>a, <2>2, <2>a, <3>1, NewKept
  <2>3. ASSUME UNCHANGED unused, created' = created \cup {req[p].new}, Rests(p), req[p].new \in Ids
        PROVE  NewInv'
    <3>1. req[p].new # NoId /\ req'[p].new = NoId
      BY <2>3, LoopAssumption DEF Rests
    <3>2. created' \cap unused' = {}
      BY <2>3 DEF NewInv
    <3>3. \A q \in Clients : req'[q].new \notin unused' \cup created'
      BY <1>a, <2>3, <2>a, <3>1 DEF NewInv
    <3>4. \A q, r \in Clients : q # r /\ req'[q].new # NoId => req'[q].new # req'[r].new
      BY <2>a, <3>1 DEF NewInv
    <3> QED
      BY <3>2, <3>3, <3>4 DEF NewInv
  <2>4. ASSUME WriteTask(p) PROVE NewInv'
    <3>1. UNCHANGED unused /\ req[p].new \in Ids
      BY <2>4, <2>a DEF WriteTask, Shape, NewPcs
    <3>2. CASE req[p].op = "sockNew"
      BY <2>3, <2>4, <2>a, <3>1, <3>2, AnswerRests DEF WriteTask
    <3>3. CASE req[p].op # "sockNew"
      <4>1. created' = created /\ req'[p].pc # "rebuildWrite"
        BY <2>4, <2>a, <3>3 DEF WriteTask, Goto, ReqTyped, ReqType
      <4> QED
        BY <2>2, <3>1, <4>1
    <3> QED
      BY <3>2, <3>3
  <2>5. ASSUME NEW i \in Objects, AddTask(p, i) PROVE NewInv'
    <3>1. UNCHANGED unused /\ req[p].new \in Ids
      BY <2>5, <2>a DEF AddTask, Shape, NewPcs
    <3>2. CASE req[p].op = "new"
      BY <2>3, <2>5, <2>a, <3>1, <3>2, AnswerRests DEF AddTask
    <3>3. CASE req[p].op # "new"
      <4>1. created' = created /\ req'[p].pc # "rebuildWrite"
        BY <2>5, <2>a, <3>3 DEF AddTask, Goto, ReqTyped, ReqType
      <4> QED
        BY <2>2, <3>1, <4>1
    <3> QED
      BY <3>2, <3>3
  <2>6. ASSUME RemoveEntry(p) PROVE NewInv'
    <3>1. UNCHANGED unused /\ req'[p].pc # "rebuildWrite"
      BY <2>6, <2>a, RemoveReturnPc DEF RemoveEntry
    <3>2. CASE req[p].op = "rebuild" /\ req[p].fine
      <4>1. created' = created \cup {req[p].new}
        BY <2>6, <3>2 DEF RemoveEntry
      <4>2. Rests(p)
        BY <2>6, <2>a, <3>2, RestingRests DEF RemoveEntry, RemoveReturn
      <4>3. req[p].new \in Ids
        BY <2>6, <2>a, <3>2 DEF RemoveEntry, Shape, RemovePcs
      <4> QED
        BY <2>3, <3>1, <4>1, <4>2, <4>3
    <3>3. CASE ~(req[p].op = "rebuild" /\ req[p].fine)
      BY <2>2, <2>6, <3>1, <3>3 DEF RemoveEntry
    <3> QED
      BY <3>2, <3>3
  <2>7. ASSUME ~\E id \in Ids, i \in Objects : Rebuild(p, id, i) PROVE req'[p].pc # "rebuildWrite"
    BY <1>3, <2>7, <2>a, RebuildWritePc
  <2>8. CASE \/ \E i \in Objects : RunReplace(p, i)
             \/ RemoveFile(p) \/ RebuildWrite(p)
             \/ \E id \in Ids : ClearNext(p, id)
             \/ UNCHANGED <<tasks, files, unused, created, doomed>>
    <3>1. UNCHANGED <<unused, created>>
      BY <2>8 DEF RunReplace, RemoveFile, RebuildWrite, ClearNext
    <3> QED
      BY <2>1, <2>2, <2>7, <3>1
  <2> QED
    BY <1>3, <2>1, <2>4, <2>5, <2>6, <2>8, HandlerQuiet
<1>4. CASE StartUp
  BY <1>4, <1>a, StartUpQuiet, BootMoves, NewKept
<1>5. ASSUME NEW i \in Objects, TaskGoroutines(i) PROVE NewInv'
  BY <1>5, <1>a, GoroutinesQuiet, NewKept
<1>6. CASE UNCHANGED vars
  BY <1>6, <1>a, NewKept DEF vars
<1> QED
  BY <1>1, <1>2, <1>3, <1>4, <1>5, <1>6 DEF Next

-----------------------------------------------------------------------------
(* DoomInv *)

LEMMA DoomInvStep ==
  ReqTyped /\ Shapes /\ DoomInv /\ [Next]_vars => DoomInv'
<1> SUFFICES ASSUME ReqTyped, Shapes, DoomInv, [Next]_vars PROVE DoomInv'
  OBVIOUS
<1>a. ASSUME doomed \subseteq doomed', \A p \in Clients : req'[p] = req[p] \/ req'[p].op = "none"
      PROVE  DoomInv'
  BY <1>a DEF DoomInv, DoomOps
<1>1. CASE Crash
  <2>1. doomed' = doomed
    BY <1>1 DEF Crash
  <2> QED
    BY <1>1, <1>a, <2>1, CrashFields, RestingFields
<1>2. ASSUME NEW p \in Clients, User(p) PROVE DoomInv'
  <2>a. \A q \in Clients : q # p => req'[q] = req[q]
    BY <1>2, ProcFacts, OneMoves
  <2>1. ASSUME NEW id \in Ids, ReceiveNew(p, id) PROVE DoomInv'
    <3>1. doomed' = doomed
      BY <2>1 DEF ReceiveNew
    <3> QED
      BY <2>1, <2>a, <3>1, ReceiveNewFields DEF DoomInv, DoomOps
  <2>2. ASSUME NEW id \in Ids, NEW op \in (HttpOps \cup SockOps) \ {"new", "clear", "sockNew"},
               Receive(p, op, id)
        PROVE  DoomInv'
    <3>1. /\ doomed \subseteq doomed'
          /\ op \in {"delete", "sockRemove", "reset", "rebuild"} => id \in doomed'
      BY <2>2 DEF Receive
    <3>2. req'[p].arg = id /\ req'[p].op = op /\ op # "clear"
      BY <2>2, ReceiveFields
    <3>3. op \in DoomOps => op \in {"delete", "sockRemove", "reset", "rebuild"}
      BY <3>2 DEF DoomOps
    <3> QED
      BY <2>a, <3>1, <3>2, <3>3 DEF DoomInv
  <2>3. CASE ReceiveClear(p)
    <3>1. doomed' = doomed
      BY <2>3 DEF ReceiveClear
    <3> QED
      BY <2>3, <2>a, <3>1, ReceiveClearFields DEF DoomInv, DoomOps, StopPcs, RemovePcs
  <2> QED
    BY <1>2, <2>1, <2>2, <2>3, UserCases
<1>3. ASSUME NEW p \in Clients, Handler(p) PROVE DoomInv'
  <2>a. \A q \in Clients : q # p => req'[q] = req[q]
    BY <1>3, ProcFacts, OneMoves
  <2>1. doomed \subseteq doomed'
    BY <1>3, HandlerQuiet
    DEF WriteTask, AddTask, RunReplace, RemoveFile, RemoveEntry, RebuildWrite, Rebuild, ClearNext
  <2>2. CASE Rests(p)
    BY <1>a, <2>a, <2>1, <2>2 DEF Rests
  <2>3. CASE Goes(p)
    <3>1. req'[p].op \in DoomOps \ {"clear"} => req'[p].arg \in doomed'
      BY <2>1, <2>3 DEF Goes, DoomInv
    <3>2. ASSUME req'[p].op = "clear", req'[p].pc \in StopPcs \cup RemovePcs
          PROVE  req'[p].arg \in doomed'
      <4>1. req[p].op = "clear" /\ req'[p].pc # "clear" /\ req[p].pc # "rebuildWrite"
        BY <2>3, <3>2, ProcFacts DEF Goes, Shapes, Good, Shape, StopPcs, RemovePcs
      <4> QED
        BY <2>1, <2>3, <3>2, <4>1 DEF Goes, DoomInv
    <3> QED
      BY <2>a, <2>1, <3>1, <3>2 DEF DoomInv
  <2> QED
    BY <1>3, <2>2, <2>3, HandlerGoes
<1>4. CASE StartUp
  BY <1>4, <1>a, StartUpQuiet, BootMoves
<1>5. ASSUME NEW i \in Objects, TaskGoroutines(i) PROVE DoomInv'
  BY <1>5, <1>a, GoroutinesQuiet
<1>6. CASE UNCHANGED vars
  BY <1>6, <1>a DEF vars
<1> QED
  BY <1>1, <1>2, <1>3, <1>4, <1>5, <1>6 DEF Next

-----------------------------------------------------------------------------
(* ProgressInv and Kept *)

LEMMA Removing ==
  ASSUME Shapes, DoomInv, NEW p \in Clients, req[p].pc \in RemovePcs
  PROVE  req[p].arg \in doomed /\ req[p].arg \in Ids
<1>1. Shape(req[p])
  BY ProcFacts DEF Shapes, Good
<1> QED
  BY <1>1 DEF Shape, DoomInv

(* A handler takes nothing from a task nobody has asked to remove. *)
LEMMA HandlerKeeps ==
  ASSUME ReqTyped, ObjTyped, RestTyped, Shapes, DoomInv,
         NEW p \in Clients, Handler(p), NEW id \in Ids \ doomed
  PROVE  /\ files[id] = "ok" /\ ~(req[p].pc = "rebuildWrite" /\ id = req[p].new)
              => files'[id] = "ok"
         /\ tasks[id] # 0 => tasks'[id] # 0
<1> USE DEF ObjTyped, RestTyped
<1>1. CASE WriteTask(p)
  BY <1>1 DEF WriteTask
<1>2. ASSUME NEW i \in Objects, AddTask(p, i) \/ RunReplace(p, i)
      PROVE  files' = files /\ (tasks[id] # 0 => tasks'[id] # 0)
  BY <1>2, ObjFacts DEF AddTask, RunReplace
<1>3. CASE RemoveFile(p) \/ RemoveEntry(p)
  <2>1. req[p].arg # id
    BY <1>3, Removing DEF RemoveFile, RemoveEntry, RemovePcs
  <2> QED
    BY <1>3, <2>1 DEF RemoveFile, RemoveEntry
<1>4. CASE RebuildWrite(p)
  <2>1. req[p].pc = "rebuildWrite" /\ tasks' = tasks
    BY <1>4 DEF RebuildWrite
  <2>2. id # req[p].new => files'[id] = files[id]
    BY <1>4 DEF RebuildWrite
  <2> QED
    BY <2>1, <2>2
<1>5. ASSUME NEW k \in Ids, NEW i \in Objects, Rebuild(p, k, i)
      PROVE  files' = files /\ (tasks[id] # 0 => tasks'[id] # 0)
  BY <1>5, ObjFacts DEF Rebuild
<1>6. CASE \/ \E k \in Ids : ClearNext(p, k)
           \/ UNCHANGED <<tasks, files, unused, created, doomed>>
  BY <1>6 DEF ClearNext
<1> QED
  BY <1>1, <1>2, <1>3, <1>4, <1>5, <1>6, HandlerQuiet

LEMMA OtherPc ==
  ASSUME NEW p \in Clients, Handler(p), req[p].pc \in {"write", "add", "rebuildWrite"}
  PROVE  WriteTask(p) \/ RebuildWrite(p) \/ \E i \in Objects : AddTask(p, i)
<1>1. CASE RunTask(p)
  BY <1>1 DEF RunTask, RunRefused, RunCheck, RunReplace, RunInitFails, RunLaunch, RunSetsState
<1>2. CASE StopRefused(p) \/ StopCheck(p) \/ StopWait(p) \/ RemoveRefused(p) \/ RemoveCheck(p)
  BY <1>2 DEF StopRefused, StopCheck, StopWait, RemoveRefused, RemoveCheck
<1>3. CASE RemoveFilePanics(p) \/ RebuildPanics(p) \/ StartPanics(p) \/ ClearEnd(p)
           \/ StartNotWritten(p) \/ StopNotWritten(p)
  BY <1>3 DEF RemoveFilePanics, RebuildPanics, StartPanics, ClearEnd, StartNotWritten,
     StopNotWritten
<1>4. CASE TaskAutoStartAdd(p) \/ TaskAutoStartDel(p) \/ AutoWrite(p)
  BY <1>4 DEF TaskAutoStartAdd, TaskAutoStartDel, AutoWrite
<1>5. CASE RemoveFile(p) \/ RemoveEntry(p)
  BY <1>5 DEF RemoveFile, RemoveEntry
<1>6. CASE \/ \E id \in Ids, i \in Objects : Rebuild(p, id, i)
           \/ \E id \in Ids : ClearNext(p, id)
  BY <1>6 DEF Rebuild, ClearNext
<1> QED
  BY <1>1, <1>2, <1>3, <1>4, <1>5, <1>6 DEF Handler

LEMMA OwnProgress ==
  ASSUME ReqTyped, ObjTyped, RestTyped, Shapes, DoomInv, ProgressInv,
         NEW p \in Clients, Handler(p)
  PROVE  req'[p].new \in doomed' \/ Achieved(p)'
<1>a. /\ p \in Procs /\ req[p] \in ReqType /\ Shape(req[p])
      /\ req[p].new \in doomed \/ Achieved(p)
  BY ProcFacts DEF ReqTyped, Shapes, Good, ProgressInv
<1>b. doomed \subseteq doomed'
  BY HandlerQuiet
  DEF WriteTask, AddTask, RunReplace, RemoveFile, RemoveEntry, RebuildWrite, Rebuild, ClearNext
<1>c. Rests(p) => Achieved(p)'
  BY DEF Rests, Achieved, RemovePcs
<1>d. Rests(p) \/ Goes(p)
  BY HandlerGoes
<1>1. CASE WriteTask(p)
  <2>1. CASE req[p].op = "sockNew"
    BY <1>1, <1>a, <1>c, <2>1, AnswerRests DEF WriteTask
  <2>2. CASE req[p].op # "sockNew"
    <3>1. req'[p].pc = "add" /\ req'[p].op = req[p].op /\ req'[p].new = req[p].new
      BY <1>1, <1>a, <2>2 DEF WriteTask, Goto, ReqTyped, ReqType
    <3>2. req[p].op = "new" /\ files'[req[p].new] = "ok"
      BY <1>1, <1>a, <2>2 DEF WriteTask, Shape, NewPcs, RestTyped
    <3> QED
      BY <3>1, <3>2 DEF Achieved
  <2> QED
    BY <2>1, <2>2
<1>2. ASSUME NEW i \in Objects, AddTask(p, i) PROVE Achieved(p)'
  <2>1. CASE req[p].op = "new"
    BY <1>2, <1>a, <1>c, <2>1, AnswerRests DEF AddTask
  <2>2. CASE req[p].op # "new"
    <3>1. req'[p].pc = "write" /\ req'[p].op = req[p].op /\ req'[p].new = req[p].new
      BY <1>2, <1>a, <2>2 DEF AddTask, Goto, ReqTyped, ReqType
    <3>2. req[p].op = "sockNew" /\ tasks'[req[p].new] # 0
      BY <1>2, <1>a, <2>2, ObjFacts DEF AddTask, Shape, NewPcs, ObjTyped
    <3> QED
      BY <3>1, <3>2 DEF Achieved, RemovePcs
  <2> QED
    BY <2>1, <2>2
<1>3. ASSUME NEW id \in Ids, NEW i \in Objects, Rebuild(p, id, i) PROVE Achieved(p)'
  <2>1. req'[p].pc = "rebuildWrite" /\ req'[p].new = id
    BY <1>3, <1>a DEF Rebuild, ReqTyped, ReqType
  <2>2. tasks'[id] # 0
    BY <1>3, ObjFacts DEF Rebuild, ObjTyped
  <2> QED
    BY <2>1, <2>2 DEF Achieved, RemovePcs
<1>4. CASE RebuildWrite(p)
  <2>1. /\ req'[p].pc = "removeCheck" /\ req'[p].new = req[p].new
        /\ req'[p].fine = req[p].fine /\ req'[p].op = req[p].op
    BY <1>4, <1>a DEF RebuildWrite, Goto, ReqTyped, ReqType
  <2>2. /\ tasks' = tasks /\ req[p].new \in Ids /\ req[p].pc = "rebuildWrite"
        /\ req[p].fine => files'[req[p].new] = "ok"
    BY <1>4, <1>a DEF RebuildWrite, Shape, NewPcs, RestTyped
  <2> QED
    BY <1>a, <1>b, <2>1, <2>2 DEF Achieved
<1>5. ASSUME ~WriteTask(p), ~RebuildWrite(p), ~\E i \in Objects : AddTask(p, i),
             ~\E id \in Ids, i \in Objects : Rebuild(p, id, i), Goes(p)
      PROVE  req'[p].new \in doomed' \/ Achieved(p)'
  <2>1. req[p].pc \notin {"write", "add", "rebuildWrite"} /\ req'[p].pc # "rebuildWrite"
    BY <1>5, OtherPc, RebuildWritePc
  <2>2. req'[p].pc \notin {"write", "add"} /\ req'[p].new = req[p].new /\ req'[p].op = req[p].op
    BY <1>5, <2>1 DEF Goes
  <2>3. ASSUME req'[p].op = "rebuild", req'[p].pc \in RemovePcs, req'[p].fine,
               req'[p].new \notin doomed'
        PROVE  files'[req'[p].new] = "ok" /\ tasks'[req'[p].new] # 0
    <3>1. req'[p].arg = req[p].arg /\ req'[p].fine = req[p].fine
      BY <1>5, <2>2, <2>3 DEF Goes
    <3>4. req[p].pc \in RemovePcs
      BY <1>5, <1>a, <2>1, <2>2, <2>3 DEF Goes, Shape
    <3>5. req[p].new \in Ids /\ files[req[p].new] = "ok" /\ tasks[req[p].new] # 0
      BY <1>a, <1>b, <2>2, <2>3, <3>1, <3>4 DEF Shape, Achieved
    <3>6. req[p].new \in Ids \ doomed
      BY <1>b, <2>2, <2>3, <3>5
    <3> QED
      BY <2>1, <2>2, <3>5, <3>6, HandlerKeeps
  <2> QED
    BY <2>1, <2>2, <2>3 DEF Achieved
<1> QED
  BY <1>1, <1>2, <1>3, <1>4, <1>5, <1>c, <1>d

(* A creation in progress keeps what it has achieved while others go on. *)
LEMMA ProgressKept ==
  ASSUME Shapes, ProgressInv, NEW q \in Clients, req'[q] = req[q], doomed \subseteq doomed',
         \A id \in Ids \ doomed' : id = req[q].new =>
           /\ files[id] = "ok" => files'[id] = "ok"
           /\ tasks[id] # 0 => tasks'[id] # 0
  PROVE  req'[q].new \in doomed' \/ Achieved(q)'
<1>1. Shape(req[q])
  BY ProcFacts DEF Shapes, Good
<1>2. CASE req[q].new \in doomed'
  BY <1>2
<1>3. CASE req[q].new \notin doomed'
  <2>1. Achieved(q)
    BY <1>3 DEF ProgressInv
  <2>2. CASE req[q].new \in Ids
    <3>1. /\ files[req[q].new] = "ok" => files'[req[q].new] = "ok"
          /\ tasks[req[q].new] # 0 => tasks'[req[q].new] # 0
      BY <1>3, <2>2
    <3> QED
      BY <2>1, <3>1 DEF Achieved
  <2>3. CASE req[q].new \notin Ids
    BY <1>1, <2>3 DEF Shape, NewPcs, Achieved
  <2> QED
    BY <2>2, <2>3
<1> QED
  BY <1>2, <1>3

LEMMA StartUpAdds ==
  ASSUME ObjTyped, StartUp, NEW id \in Ids, tasks[id] # 0 PROVE tasks'[id] # 0
<1> USE ObjFacts DEF ObjTyped
<1>1. CASE \/ \E k \in Ids, i \in Objects : LoadTask(k, i)
           \/ \E i \in Objects : RunReplace(Boot, i)
  BY <1>1 DEF LoadTask, RunReplace
<1>2. CASE RunRefused(Boot) \/ RunCheck(Boot) \/ RunInitFails(Boot) \/ RunLaunch(Boot)
           \/ RunSetsState(Boot)
  BY <1>2 DEF RunRefused, RunCheck, RunInitFails, RunLaunch, RunSetsState
<1>3. CASE \/ \E k \in Ids : AutoNext(k)
           \/ LoadEnd \/ AutoMake \/ AutoRead \/ AutoMark \/ AutoEnd
  BY <1>3 DEF LoadEnd, AutoMake, AutoRead, AutoMark, AutoEnd, AutoNext
<1> QED
  BY <1>1, <1>2, <1>3 DEF StartUp, RunTask

LEMMA UserQuiet ==
  ASSUME NEW p \in Clients, User(p)
  PROVE  UNCHANGED <<memVars, autoVars, files, created, overtaken>> /\ doomed \subseteq doomed'
BY DEF User, ReceiveNew, Receive, ReceiveClear

LEMMA ProgressInvStep ==
  /\ ReqTyped /\ ObjTyped /\ RestTyped /\ Shapes /\ NewInv /\ DoomInv /\ ProgressInv
  /\ [Next]_vars
  => ProgressInv'
<1> SUFFICES ASSUME ReqTyped, ObjTyped, RestTyped, Shapes, NewInv, DoomInv, ProgressInv,
                    [Next]_vars
             PROVE  ProgressInv'
  OBVIOUS
<1>1. CASE Crash
  BY <1>1, CrashFields, RestingFields DEF ProgressInv, Achieved, RemovePcs
<1>2. ASSUME NEW p \in Clients, User(p) PROVE ProgressInv'
  <2>1. \A q \in Clients : q # p => req'[q].new \in doomed' \/ Achieved(q)'
    <3>1. /\ \A q \in Clients : q # p => req'[q] = req[q]
          /\ UNCHANGED <<tasks, files>> /\ doomed \subseteq doomed'
      BY <1>2, ProcFacts, OneMoves, UserQuiet
    <3> QED
      BY <3>1, ProgressKept
  <2>2. Achieved(p)'
    <3>1. CASE \E id \in Ids : ReceiveNew(p, id)
      BY <3>1, ReceiveNewFields DEF Achieved, RemovePcs
    <3>2. ASSUME NEW id \in Ids,
                 NEW op \in (HttpOps \cup SockOps) \ {"new", "clear", "sockNew"},
                 Receive(p, op, id)
          PROVE  Achieved(p)'
      BY <3>2, ReceiveFields DEF Achieved
    <3>3. CASE ReceiveClear(p)
      BY <3>3, ReceiveClearFields DEF Achieved, RemovePcs
    <3> QED
      BY <1>2, <3>1, <3>2, <3>3, UserCases
  <2> QED
    BY <2>1, <2>2 DEF ProgressInv
<1>3. ASSUME NEW p \in Clients, Handler(p) PROVE ProgressInv'
  <2>1. req'[p].new \in doomed' \/ Achieved(p)'
    BY <1>3, OwnProgress
  <2>2. doomed \subseteq doomed'
    BY <1>3, HandlerQuiet
    DEF WriteTask, AddTask, RunReplace, RemoveFile, RemoveEntry, RebuildWrite, Rebuild, ClearNext
  <2>3. ASSUME NEW q \in Clients, q # p PROVE req'[q].new \in doomed' \/ Achieved(q)'
    <3>1. req'[q] = req[q]
      BY <1>3, <2>3, ProcFacts, OneMoves
    <3>2. ASSUME NEW id \in Ids \ doomed', id = req[q].new
          PROVE  /\ files[id] = "ok" => files'[id] = "ok"
                 /\ tasks[id] # 0 => tasks'[id] # 0
      <4>1. id \in Ids \ doomed /\ id # req[p].new
        BY <2>2, <2>3, <3>2, LoopAssumption DEF NewInv
      <4> QED
        BY <1>3, <4>1, HandlerKeeps
    <3> QED
      BY <2>2, <3>1, <3>2, ProgressKept
  <2> QED
    BY <2>1, <2>3 DEF ProgressInv
<1>4. CASE StartUp
  <2>1. UNCHANGED <<files, doomed>> /\ \A q \in Clients : req'[q] = req[q]
    BY <1>4, StartUpQuiet, BootMoves
  <2>2. \A id \in Ids : tasks[id] # 0 => tasks'[id] # 0
    BY <1>4, StartUpAdds
  <2> QED
    BY <2>1, <2>2, ProgressKept DEF ProgressInv
<1>5. ASSUME NEW i \in Objects, TaskGoroutines(i) PROVE ProgressInv'
  BY <1>5, GoroutinesQuiet DEF ProgressInv, Achieved
<1>6. CASE UNCHANGED vars
  BY <1>6 DEF vars, ProgressInv, Achieved
<1> QED
  BY <1>1, <1>2, <1>3, <1>4, <1>5, <1>6 DEF Next

LEMMA HandlerCreates ==
  ASSUME NEW p \in Clients, Handler(p), NEW id \in created' \ created
  PROVE  /\ id = req[p].new
         /\ \/ WriteTask(p) /\ req[p].op = "sockNew"
            \/ req[p].op = "new" /\ \E i \in Objects : AddTask(p, i)
            \/ RemoveEntry(p) /\ req[p].op = "rebuild" /\ req[p].fine
BY HandlerQuiet
DEF WriteTask, AddTask, RunReplace, RemoveFile, RemoveEntry, RebuildWrite, Rebuild, ClearNext

LEMMA BootLoads ==
  ASSUME StartUp, req[Boot].pc = "load"
  PROVE  LoadEnd \/ \E id \in Ids, i \in Objects : LoadTask(id, i)
<1>1. ~RunTask(Boot)
  BY DEF RunTask, RunRefused, RunCheck, RunReplace, RunInitFails, RunLaunch, RunSetsState
<1> QED
  BY <1>1 DEF StartUp, AutoMake, AutoRead, AutoMark, AutoEnd, AutoNext

LEMMA KeptStep ==
  /\ ReqTyped /\ ObjTyped /\ RestTyped /\ Shapes /\ NewInv /\ DoomInv /\ ProgressInv /\ Kept
  /\ [Next]_vars
  => Kept'
<1> SUFFICES ASSUME ReqTyped, ObjTyped, RestTyped, Shapes, NewInv, DoomInv, ProgressInv, Kept,
                    [Next]_vars,
                    NEW id \in created', id \notin doomed'
             PROVE  /\ files'[id] = "ok"
                    /\ tasks'[id] # 0 \/ (req'[Boot].pc = "load" /\ id \in req'[Boot].todo)
  BY DEF Kept
<1> USE DEF Kept
<1>1. CASE Crash
  <2>1. files[id] = "ok" /\ id \in Ids /\ files' = files
    BY <1>1 DEF Crash, RestTyped
  <2> DEFINE S == {k \in Ids : files[k] # "none"}
  <2>2. req'[Boot].pc = "load" /\ req'[Boot].todo = S
    <3> HIDE DEF S
    <3>1. req'[Boot] = Loading(S)
      BY <1>1, CrashFields DEF S
    <3> QED
      BY <3>1 DEF Loading, Resting
  <2> QED
    BY <2>1, <2>2
<1>2. ASSUME NEW p \in Clients, User(p)
      PROVE  /\ files'[id] = "ok"
             /\ tasks'[id] # 0 \/ (req'[Boot].pc = "load" /\ id \in req'[Boot].todo)
  BY <1>2, UserQuiet, ProcFacts, OneMoves
<1>3. ASSUME NEW p \in Clients, Handler(p)
      PROVE  /\ files'[id] = "ok"
             /\ tasks'[id] # 0 \/ (req'[Boot].pc = "load" /\ id \in req'[Boot].todo)
  <2>1. doomed \subseteq doomed' /\ req'[Boot] = req[Boot] /\ id \notin doomed
    <3>1. doomed \subseteq doomed'
      BY <1>3, HandlerQuiet
      DEF WriteTask, AddTask, RunReplace, RemoveFile, RemoveEntry, RebuildWrite, Rebuild,
        ClearNext
    <3> QED
      BY <1>3, <3>1, ProcFacts, OneMoves
  <2>2. CASE id \in created
    <3>1. id \in Ids \ doomed /\ id # req[p].new
      BY <2>1, <2>2 DEF NewInv, RestTyped
    <3> QED
      BY <1>3, <2>1, <2>2, <3>1, HandlerKeeps
  <2>3. CASE id \notin created
    <3>1. /\ id = req[p].new /\ Achieved(p) /\ Shape(req[p])
          /\ \/ WriteTask(p) /\ req[p].op = "sockNew"
             \/ req[p].op = "new" /\ \E i \in Objects : AddTask(p, i)
             \/ RemoveEntry(p) /\ req[p].op = "rebuild" /\ req[p].fine
      BY <1>3, <2>1, <2>3, HandlerCreates, ProcFacts DEF ProgressInv, Shapes, Good
    <3>2. CASE WriteTask(p) /\ req[p].op = "sockNew"
      <4>1. id \in Ids
        BY <3>1, <3>2 DEF WriteTask, Shape, NewPcs
      <4> QED
        BY <3>1, <3>2, <4>1 DEF WriteTask, Achieved, RestTyped
    <3>3. ASSUME NEW i \in Objects, req[p].op = "new", AddTask(p, i)
          PROVE  files'[id] = "ok" /\ tasks'[id] # 0
      <4>1. id \in Ids
        BY <3>1, <3>3 DEF AddTask, Shape, NewPcs
      <4> QED
        BY <3>1, <3>3, <4>1, ObjFacts DEF AddTask, Achieved, ObjTyped
    <3>4. CASE RemoveEntry(p) /\ req[p].op = "rebuild" /\ req[p].fine
      <4>1. req[p].arg # id /\ id \in Ids
        BY <2>1, <3>1, <3>4, Removing DEF RemoveEntry, RemovePcs, Shape
      <4>2. files[id] = "ok" /\ tasks[id] # 0
        BY <3>1, <3>4 DEF RemoveEntry, RemovePcs, Achieved
      <4> QED
        BY <3>4, <4>1, <4>2 DEF RemoveEntry, RestTyped, ObjTyped
    <3> QED
      BY <3>1, <3>2, <3>3, <3>4
  <2> QED
    BY <2>2, <2>3
<1>4. CASE StartUp
  <2>1. UNCHANGED <<files, created, doomed>> /\ id \in Ids
    BY <1>4, StartUpQuiet DEF RestTyped
  <2>2. CASE tasks[id] # 0
    BY <1>4, <2>1, <2>2, StartUpAdds
  <2>3. CASE tasks[id] = 0
    <3>1. req[Boot].pc = "load" /\ id \in req[Boot].todo /\ files[id] = "ok"
      BY <2>1, <2>3
    <3>2. ~LoadEnd
      BY <3>1 DEF LoadEnd
    <3>3. ASSUME NEW k \in Ids, NEW i \in Objects, LoadTask(k, i)
          PROVE  tasks'[id] # 0 \/ (req'[Boot].pc = "load" /\ id \in req'[Boot].todo)
      <4>1. CASE k = id
        BY <2>3, <3>1, <3>3, <4>1, ObjFacts DEF LoadTask, ObjTyped
      <4>2. CASE k # id
        BY <3>1, <3>3, <4>2, ProcFacts DEF LoadTask, ReqTyped, ReqType
      <4> QED
        BY <4>1, <4>2
    <3> QED
      BY <1>4, <2>1, <3>1, <3>2, <3>3, BootLoads
  <2> QED
    BY <2>2, <2>3
<1>5. ASSUME NEW i \in Objects, TaskGoroutines(i)
      PROVE  /\ files'[id] = "ok"
             /\ tasks'[id] # 0 \/ (req'[Boot].pc = "load" /\ id \in req'[Boot].todo)
  BY <1>5, GoroutinesQuiet
<1>6. CASE UNCHANGED vars
  BY <1>6 DEF vars
<1> QED
  BY <1>1, <1>2, <1>3, <1>4, <1>5, <1>6 DEF Next

-----------------------------------------------------------------------------
(* StopInv *)

LEMMA HandlerAuto ==
  ASSUME Shapes, NEW p \in Clients, Handler(p), ~AutoWrite(p), ~TaskAutoStartDel(p)
  PROVE  /\ stopped' = stopped /\ overtaken' = overtaken
         /\ autoFile' = autoFile \/ autoFile' = <<>>
         /\ runData' \subseteq runData \cup {id \in {req[p].arg} : req[p].op = "start"}
<1>1. CASE RunTask(p)
  BY <1>1 DEF RunTask, RunRefused, RunCheck, RunReplace, RunInitFails, RunLaunch, RunSetsState
<1>2. CASE StopRefused(p) \/ StopCheck(p) \/ StopWait(p) \/ RemoveRefused(p) \/ RemoveCheck(p)
  BY <1>2 DEF StopRefused, StopCheck, StopWait, RemoveRefused, RemoveCheck
<1>3. CASE RemoveFilePanics(p) \/ RebuildPanics(p) \/ StartPanics(p) \/ ClearEnd(p)
           \/ StartNotWritten(p) \/ StopNotWritten(p)
  BY <1>3 DEF RemoveFilePanics, RebuildPanics, StartPanics, ClearEnd, StartNotWritten,
     StopNotWritten
<1>4. CASE TaskAutoStartAdd(p)
  <2>1. req[p].op = "start"
    BY <1>4, ProcFacts DEF TaskAutoStartAdd, Shapes, Good, Shape
  <2> QED
    BY <1>4, <2>1 DEF TaskAutoStartAdd
<1>5. CASE \/ WriteTask(p) \/ \E i \in Objects : AddTask(p, i)
           \/ RemoveFile(p) \/ RemoveEntry(p) \/ RebuildWrite(p)
           \/ \E id \in Ids, i \in Objects : Rebuild(p, id, i)
           \/ \E id \in Ids : ClearNext(p, id)
  BY <1>5 DEF WriteTask, AddTask, RemoveFile, RemoveEntry, RebuildWrite, Rebuild, ClearNext
<1> QED
  BY <1>1, <1>2, <1>3, <1>4, <1>5 DEF Handler

(* The phases in which main works on the task of its arg. *)
BootPcs == RunPcs \cup {"autoMark"}

LEMMA BootHasFacts ==
  ASSUME NEW id
  PROVE  BootHas(id) <=> \/ id \in req[Boot].todo
                         \/ req[Boot].pc \in BootPcs /\ req[Boot].arg = id
BY DEF BootHas, BootPcs, RunPcs

(* Main recalls a task from the automatic-start file only. *)
LEMMA BootForgets ==
  ASSUME ReqTyped, RestTyped, Shapes, StartUp, NEW id \in Ids,
         id \notin runData, autoFile = <<>> \/ id \notin autoFile[1],
         req[Boot].pc # "load" => ~BootHas(id)
  PROVE  /\ id \notin runData'
         /\ req'[Boot].pc # "load" => ~BootHas(id)'
<1> DEFINE Inv == /\ id \notin runData'
                  /\ req'[Boot].pc = "load" \/ id \notin req'[Boot].todo
                  /\ req'[Boot].pc \in BootPcs => req'[Boot].arg # id
<1>a. /\ Boot \in Procs /\ req[Boot] \in ReqType /\ BootShape(req[Boot]) /\ id # NoId
  BY ProcFacts, LoopAssumption DEF ReqTyped, Shapes, Good
<1>b. Resting.pc = "idle" /\ Resting.todo = {} /\ "idle" \notin BootPcs
      /\ "load" \notin BootPcs
  BY DEF Resting, BootPcs, RunPcs
<1>c. ASSUME NEW l, Goto(Boot, l)
      PROVE  req'[Boot].pc = l /\ req'[Boot].arg = req[Boot].arg /\ req'[Boot].todo = req[Boot].todo
  BY <1>a, <1>c DEF Goto, ReqTyped, ReqType
<1>d. /\ req[Boot].pc # "load" => id \notin req[Boot].todo
      /\ req[Boot].pc \in BootPcs => req[Boot].arg # id
  BY <1>b, BootHasFacts
<1>e. /\ "autoMake" \notin BootPcs /\ "autoRead" \notin BootPcs
      /\ "autoNext" \notin BootPcs /\ "autoMark" \in BootPcs
      /\ req[Boot].pc \in RunPcs => req[Boot].pc \in BootPcs
  BY DEF BootPcs, RunPcs
<1>1. ASSUME NEW k \in Ids, NEW i \in Objects, LoadTask(k, i) PROVE Inv
  <2>1. req'[Boot].pc = "load" /\ runData' = runData
    BY <1>1, <1>a DEF LoadTask, ReqTyped, ReqType
  <2> QED
    BY <2>1, <1>b
<1>2. ASSUME LoadEnd PROVE Inv
  <2>1. /\ req'[Boot].pc = "autoMake" /\ req'[Boot].todo = {} /\ runData' = runData
    BY <1>2, <1>a DEF LoadEnd, ReqTyped, ReqType
  <2> QED
    BY <2>1, <1>e
<1>3. ASSUME AutoMake PROVE Inv
  BY <1>3, <1>c, <1>d, <1>e DEF AutoMake
<1>4. ASSUME AutoRead PROVE Inv
  <2> DEFINE S == UNION {autoFile[k] : k \in DOMAIN autoFile}
  <2>1. /\ req'[Boot].todo = S /\ req'[Boot].pc = "autoNext" /\ runData' = runData
    <3>1. req' = [req EXCEPT ![Boot] = [req[Boot] EXCEPT !.pc = "autoNext", !.todo = S]]
      BY <1>4 DEF AutoRead
    <3>2. runData' = runData
      BY <1>4 DEF AutoRead
    <3> HIDE DEF S
    <3> QED
      BY <3>1, <3>2, <1>a DEF ReqTyped, ReqType
  <2>2. id \notin S
    BY DEF RestTyped
  <2> QED
    BY <2>1, <2>2, <1>e
<1>5. ASSUME AutoMark PROVE Inv
  <2>1. /\ req[Boot].pc = "autoMark" /\ runData' = runData \cup {req[Boot].arg}
        /\ Goto(Boot, "autoNext")
    BY <1>5 DEF AutoMark
  <2> QED
    BY <2>1, <1>c, <1>d, <1>e
<1>6. ASSUME AutoEnd PROVE Inv
  BY <1>6, <1>a, <1>b DEF AutoEnd, Answer, ReqTyped
<1>7. ASSUME NEW k \in Ids, AutoNext(k) PROVE Inv
  <2>1. /\ req[Boot].pc = "autoNext" /\ k \in req[Boot].todo /\ runData' = runData
        /\ req'[Boot].arg = k /\ req'[Boot].todo = req[Boot].todo \ {k}
    BY <1>7, <1>a DEF AutoNext, ReqTyped, ReqType
  <2> QED
    BY <2>1, <1>d
<1>8. ASSUME RunTask(Boot) PROVE Inv
  <2>a. runData' = runData /\ req[Boot].pc \in RunPcs
    BY <1>8 DEF RunTask, RunRefused, RunCheck, RunReplace, RunInitFails, RunLaunch, RunSetsState,
       RunPcs
  <2>b. id \notin req[Boot].todo /\ req[Boot].arg # id
    BY <2>a, <1>b, <1>d, <1>e
  <2>1. CASE RunReturn(Boot)
    <3>1. req[Boot].op # "start"
      BY <1>a, <2>a DEF BootShape, RunPcs
    <3>2. CASE req[Boot].op = "auto"
      <4>1. req'[Boot] = [req[Boot] EXCEPT !.pc = "autoMark", !.obj = 0]
        BY <2>1, <3>2, <1>a DEF RunReturn, ReqTyped
      <4>2. req'[Boot].arg = req[Boot].arg /\ req'[Boot].todo = req[Boot].todo
        BY <1>a, <4>1 DEF ReqType
      <4> QED
        BY <2>a, <2>b, <4>2
    <3>3. CASE req[Boot].op # "auto"
      <4>1. req'[Boot] = Resting
        BY <2>1, <3>1, <3>3, <1>a DEF RunReturn, ReqTyped
      <4> QED
        BY <2>a, <4>1, <1>b
    <3> QED
      BY <3>2, <3>3
  <2>2. CASE RunCheck(Boot) \/ RunLaunch(Boot)
    <3>1. req'[Boot].arg = req[Boot].arg /\ req'[Boot].todo = req[Boot].todo
      BY <2>2, <1>c DEF RunCheck, RunLaunch
    <3> QED
      BY <2>a, <2>b, <3>1
  <2>3. ASSUME NEW i \in Objects, RunReplace(Boot, i) PROVE Inv
    <3>1. req'[Boot].arg = req[Boot].arg /\ req'[Boot].todo = req[Boot].todo
      BY <2>3, <1>a DEF RunReplace, ReqTyped, ReqType
    <3> QED
      BY <2>a, <2>b, <3>1
  <2> QED
    BY <1>8, <2>1, <2>2, <2>3 DEF RunTask, RunRefused, RunInitFails, RunSetsState
<1>9. Inv
  BY <1>1, <1>2, <1>3, <1>4, <1>5, <1>6, <1>7, <1>8 DEF StartUp
<1> QED
  BY <1>9 DEF BootHas, BootPcs, RunPcs

LEMMA BootHasKept == ASSUME NEW id, req'[Boot] = req[Boot] PROVE BootHas(id)' <=> BootHas(id)
BY DEF BootHas

(* TaskAutoStartDel: the task leaves record and file, and every older text that
   names it is overtaken. *)
LEMMA DelForgets ==
  ASSUME ReqTyped, RestTyped, Shapes, StopInv, NEW p \in Clients, TaskAutoStartDel(p)
  PROVE  StopInv'
<1> DEFINE a == req[p].arg
<1>a. /\ p \in Procs /\ p # Boot /\ req[p] \in ReqType /\ Shape(req[p])
  BY ProcFacts DEF ReqTyped, Shapes, Good
<1>1. /\ autoFile' = <<>> /\ runData' = runData \ {a}
      /\ stopped' = IF BootHas(a) \/ \E q \in Clients : req[q].op = "start" /\ req[q].arg = a
                    THEN stopped ELSE stopped \cup {a}
      /\ overtaken' = overtaken \cup {q \in Clients : req[q].pc = "autoWrite"
                                                    /\ a \in req[q].todo}
  BY DEF TaskAutoStartDel, Stops
<1>2. /\ req'[p].op = "stop" /\ req'[p].todo = runData'
  <2>1. req[p].op = "stop"
    BY <1>a DEF TaskAutoStartDel, Shape
  <2> QED
    BY <1>a, <2>1 DEF TaskAutoStartDel, ReqTyped, ReqType
<1>3. \A q \in Procs : q # p => req'[q] = req[q]
  BY DEF TaskAutoStartDel, ReqTyped
<1>4. req'[Boot] = req[Boot] /\ \A q \in Clients : q # p => req'[q] = req[q]
  BY <1>a, <1>3, ProcFacts
<1>5. ASSUME NEW id, id \notin runData', ~BootHas(id) \/ req[Boot].pc = "load",
             \A q \in Clients : ~(req[q].op = "start" /\ req[q].arg = id),
             \A q \in Clients : req[q].pc = "autoWrite" /\ id \in req[q].todo
                                 => q \in overtaken'
      PROVE  Forgotten(id)'
  <2>1. req'[Boot].pc # "load" => ~BootHas(id)'
    BY <1>4, <1>5, BootHasKept
  <2>2. \A q \in Clients : /\ req'[q].pc = "autoWrite" /\ id \in req'[q].todo
                                => q \in overtaken'
                           /\ ~(req'[q].op = "start" /\ req'[q].arg = id)
    BY <1>2, <1>4, <1>5
  <2> QED
    <3>1. autoFile' = <<>> /\ id \notin runData'
      BY <1>1, <1>5
    <3> QED
      BY <3>1, <2>1, <2>2 DEF Forgotten, BootHas
<1>6. ASSUME NEW id \in stopped PROVE Forgotten(id)'
  <2>1. Forgotten(id)
    BY DEF StopInv
  <2>2. /\ id \notin runData' /\ (~BootHas(id) \/ req[Boot].pc = "load")
        /\ \A q \in Clients : ~(req[q].op = "start" /\ req[q].arg = id)
        /\ \A q \in Clients : req[q].pc = "autoWrite" /\ id \in req[q].todo
                               => q \in overtaken'
    BY <1>1, <2>1 DEF Forgotten
  <2> QED
    BY <1>5, <2>2
<1>7. ASSUME NEW id, id = a, ~BootHas(id),
             \A q \in Clients : ~(req[q].op = "start" /\ req[q].arg = id)
      PROVE  Forgotten(id)'
  <2>1. /\ id \notin runData'
        /\ \A q \in Clients : req[q].pc = "autoWrite" /\ id \in req[q].todo
                               => q \in overtaken'
    BY <1>1, <1>7
  <2> QED
    BY <1>5, <1>7, <2>1
<1>8. ASSUME NEW id \in stopped' PROVE Forgotten(id)'
  <2>1. CASE id \in stopped
    BY <1>6, <2>1
  <2>2. CASE id \notin stopped
    <3>1. /\ id = a /\ ~BootHas(id)
          /\ \A q \in Clients : ~(req[q].op = "start" /\ req[q].arg = id)
      BY <1>1, <1>8, <2>2
    <3> QED
      BY <1>7, <3>1
  <2> QED
    BY <2>1, <2>2
<1> QED
  BY <1>8 DEF StopInv

(* AutoWrite: a text that names a stopped task has been overtaken. *)
LEMMA WriteForgets ==
  ASSUME ReqTyped, RestTyped, Shapes, StopInv, NEW p \in Clients, AutoWrite(p)
  PROVE  StopInv'
<1>a. p \in Procs /\ p # Boot
  BY ProcFacts
<1>1. /\ Rests(p) /\ runData' = runData /\ req[p].pc = "autoWrite"
      /\ stopped' = IF p \in overtaken /\ autoFile' # <<>>
                    THEN stopped \ req[p].todo ELSE stopped
      /\ overtaken' = overtaken \ {p}
      /\ autoFile' = <<>> \/ autoFile' = <<req[p].todo>>
  BY <1>a, AnswerRests DEF AutoWrite
<1>2. \A q \in Procs : q # p => req'[q] = req[q]
  BY DEF AutoWrite, Answer, ReqTyped
<1>3. req'[Boot] = req[Boot] /\ \A q \in Clients : q # p => req'[q] = req[q]
  BY <1>a, <1>2, ProcFacts
<1>4. ASSUME NEW id \in stopped' PROVE Forgotten(id)'
  <2>1. id \in stopped /\ Forgotten(id)
    BY <1>1, <1>4 DEF StopInv
  <2>2. autoFile' = <<>> \/ id \notin autoFile'[1]
    <3>1. CASE id \in req[p].todo
      <4>1. p \in overtaken
        BY <1>1, <2>1, <3>1 DEF Forgotten
      <4> QED
        BY <1>1, <1>4, <3>1, <4>1
    <3>2. CASE id \notin req[p].todo
      BY <1>1, <3>2
    <3> QED
      BY <3>1, <3>2
  <2>3. \A q \in Clients : /\ req'[q].pc = "autoWrite" /\ id \in req'[q].todo
                                => q \in overtaken'
                           /\ ~(req'[q].op = "start" /\ req'[q].arg = id)
    BY <1>1, <1>3, <2>1 DEF Forgotten, Rests
  <2>4. req'[Boot].pc # "load" => ~BootHas(id)'
    BY <1>3, <2>1, BootHasKept DEF Forgotten
  <2> QED
    <3>1. id \notin runData'
      BY <1>1, <2>1 DEF Forgotten
    <3> QED
      BY <3>1, <2>2, <2>3, <2>4 DEF Forgotten, BootHas
<1> QED
  BY <1>4 DEF StopInv

LEMMA StopInvStep ==
  ReqTyped /\ RestTyped /\ Shapes /\ StopInv /\ [Next]_vars => StopInv'
<1> SUFFICES ASSUME ReqTyped, RestTyped, Shapes, StopInv, [Next]_vars PROVE StopInv'
  OBVIOUS
<1>1. CASE Crash
  <2>1. /\ stopped' = stopped /\ autoFile' = autoFile /\ runData' = {}
    BY <1>1 DEF Crash
  <2>2. req'[Boot].pc = "load"
    <3> DEFINE S == {id \in Ids : files[id] # "none"}
    <3> HIDE DEF S
    <3>1. req'[Boot] = Loading(S)
      BY <1>1, CrashFields DEF S
    <3> QED
      BY <3>1 DEF Loading, Resting
  <2>3. \A p \in Clients : req'[p].op = "none" /\ req'[p].pc = "idle"
    BY <1>1, CrashFields, RestingFields
  <2> QED
    BY <2>1, <2>2, <2>3 DEF StopInv, Forgotten
<1>2. ASSUME NEW p \in Clients, User(p) PROVE StopInv'
  <2>1. /\ \A q \in Procs : q # p => req'[q] = req[q]
        /\ runData' = runData /\ autoFile' = autoFile /\ overtaken' = overtaken
    BY <1>2, ProcFacts, OneMoves, UserQuiet
  <2>2. req'[p].pc # "autoWrite"
    BY <1>2, UserCases, ReceiveNewFields, ReceiveFields, ReceiveClearFields
  <2>3. /\ stopped' \subseteq stopped
        /\ \A id \in stopped' : ~(req'[p].op = "start" /\ req'[p].arg = id)
    <3>1. ASSUME NEW id \in Ids, ReceiveNew(p, id)
          PROVE  stopped' = stopped /\ req'[p].op # "start"
      BY <3>1, ReceiveNewFields DEF ReceiveNew
    <3>2. ASSUME ReceiveClear(p) PROVE stopped' = stopped /\ req'[p].op # "start"
      BY <3>2, ReceiveClearFields DEF ReceiveClear
    <3>3. ASSUME NEW id \in Ids,
                 NEW op \in (HttpOps \cup SockOps) \ {"new", "clear", "sockNew"},
                 Receive(p, op, id)
          PROVE  /\ stopped' \subseteq stopped
                 /\ \A k \in stopped' : ~(req'[p].op = "start" /\ req'[p].arg = k)
      <4>1. req'[p].op = op /\ req'[p].arg = id
        BY <3>3, ReceiveFields
      <4>2. stopped' = IF op \in {"start", "sockStart"} THEN stopped \ {id} ELSE stopped
        BY <3>3 DEF Receive
      <4> QED
        BY <4>1, <4>2
    <3> QED
      BY <1>2, <3>1, <3>2, <3>3, UserCases
  <2>4. req'[Boot] = req[Boot] /\ \A q \in Clients : q # p => req'[q] = req[q]
    BY <2>1, ProcFacts
  <2>5. ASSUME NEW id \in stopped' PROVE Forgotten(id)'
    <3>1. id \in stopped /\ Forgotten(id)
      BY <2>3, <2>5 DEF StopInv
    <3>2. \A q \in Clients : /\ req'[q].pc = "autoWrite" /\ id \in req'[q].todo
                                  => q \in overtaken'
                             /\ ~(req'[q].op = "start" /\ req'[q].arg = id)
      BY <2>1, <2>2, <2>3, <2>4, <2>5, <3>1 DEF Forgotten
    <3>3. req'[Boot].pc # "load" => ~BootHas(id)'
      BY <2>4, <3>1, BootHasKept DEF Forgotten
    <3> QED
      <4>1. id \notin runData' /\ (autoFile' = <<>> \/ id \notin autoFile'[1])
        BY <2>1, <3>1 DEF Forgotten
      <4> QED
        BY <4>1, <3>2, <3>3 DEF Forgotten, BootHas
  <2> QED
    BY <2>5 DEF StopInv
<1>3. ASSUME NEW p \in Clients, Handler(p) PROVE StopInv'
  <2>1. CASE ~AutoWrite(p) /\ ~TaskAutoStartDel(p)
    <3>a. /\ p \in Procs /\ \A q \in Procs : q # p => req'[q] = req[q]
      BY <1>3, ProcFacts, OneMoves
    <3>b. req'[Boot] = req[Boot] /\ \A q \in Clients : q # p => req'[q] = req[q]
      BY <3>a, ProcFacts
    <3>c. Rests(p) \/ Goes(p)
      BY <1>3, HandlerGoes
    <3>1. /\ stopped' = stopped /\ overtaken' = overtaken
          /\ autoFile' = autoFile \/ autoFile' = <<>>
          /\ runData' \subseteq runData \cup {id \in {req[p].arg} : req[p].op = "start"}
      BY <1>3, <2>1, HandlerAuto
    <3>2. ASSUME NEW id \in stopped PROVE Forgotten(id)'
      <4>1. Forgotten(id) /\ ~(req[p].op = "start" /\ req[p].arg = id)
        BY <3>2 DEF StopInv, Forgotten
      <4>2. id \notin runData'
        BY <3>1, <4>1 DEF Forgotten
      <4>3. /\ ~(req'[p].pc = "autoWrite" /\ id \in req'[p].todo)
            /\ ~(req'[p].op = "start" /\ req'[p].arg = id)
        BY <3>c, <4>1, <4>2 DEF Rests, Goes
      <4>4. req'[Boot].pc # "load" => ~BootHas(id)'
        BY <3>b, <4>1, BootHasKept DEF Forgotten
      <4> QED
        BY <3>b, <3>1, <4>1, <4>2, <4>3, <4>4 DEF Forgotten, BootHas
    <3> QED
      BY <3>1, <3>2 DEF StopInv
  <2> QED
    BY <1>3, <2>1, DelForgets, WriteForgets
<1>4. CASE StartUp
  <2>1. UNCHANGED <<stopped, overtaken, autoFile>> /\ \A q \in Clients : req'[q] = req[q]
    BY <1>4, StartUpQuiet, BootMoves
  <2>2. ASSUME NEW id \in stopped PROVE Forgotten(id)'
    <3>1. id \in Ids /\ Forgotten(id)
      BY DEF RestTyped, StopInv
    <3>2. /\ id \notin runData /\ (autoFile = <<>> \/ id \notin autoFile[1])
          /\ (req[Boot].pc # "load" => ~BootHas(id))
      BY <3>1 DEF Forgotten
    <3>3. /\ id \notin runData'
          /\ req'[Boot].pc # "load" => ~BootHas(id)'
      BY <1>4, <3>1, <3>2, BootForgets
    <3> QED
      BY <2>1, <3>1, <3>3 DEF Forgotten, BootHas
  <2> QED
    BY <2>1, <2>2 DEF StopInv
<1>5. ASSUME NEW i \in Objects, TaskGoroutines(i) PROVE StopInv'
  BY <1>5, GoroutinesQuiet DEF StopInv, Forgotten, BootHas
<1>6. CASE UNCHANGED vars
  BY <1>6 DEF vars, StopInv, Forgotten, BootHas
<1> QED
  BY <1>1, <1>2, <1>3, <1>4, <1>5, <1>6 DEF Next

-----------------------------------------------------------------------------
(* The invariant, and what follows from it. *)

LEMMA InitReq ==
  ASSUME Init
  PROVE  /\ \A p \in Clients : req[p] = Resting
         /\ req[Boot] = Loading(Saved) /\ ReqTyped /\ Shapes
<1>1. (\A p \in Clients : req[p] = Resting) /\ req[Boot] = Loading(Saved)
  BY ProcFacts DEF Init
<1>2. Loading(Saved) \in ReqType /\ Good(Boot, Loading(Saved))
  <2>1. Loading(Saved) \in ReqType
    BY LoopAssumption, PcFacts, ObjFacts DEF Loading, Resting, ReqType
  <2>2. /\ Loading(Saved).pc = "load" /\ Loading(Saved).op = "load"
        /\ Loading(Saved).arg = NoId /\ Loading(Saved).new = NoId
    BY DEF Loading, Resting
  <2>3. Shape(Loading(Saved)) /\ BootShape(Loading(Saved))
    BY <2>2 DEF Shape, BootShape, RunPcs, StopPcs, RemovePcs, NewPcs, AutoPcs
  <2> QED
    BY <2>1, <2>3, ProcFacts DEF Good
<1>3. \A p \in Procs : req[p] \in ReqType /\ Good(p, req[p])
  BY <1>1, <1>2, RestingGood, ProcFacts
<1>4. ReqTyped
  BY <1>3 DEF Init, ReqTyped
<1> QED
  BY <1>1, <1>3, <1>4 DEF Shapes

LEMMA InitObj == Init => ObjTyped /\ ObjInv /\ RunInv
<1> SUFFICES ASSUME Init PROVE ObjTyped /\ ObjInv /\ RunInv
  OBVIOUS
<1>1. /\ Object \in ObjType /\ Object.id = NoId /\ Object.phase = "null"
      /\ Object.ctl = FALSE /\ Object.exitF = FALSE
  BY DEF Object, ObjType, States
<1>2. ObjTyped
  BY <1>1, ObjFacts DEF Init, ObjTyped
<1>3. ObjInv
  BY <1>1 DEF Init, ObjInv
<1>4. RunInv
  <2>1. \A p \in Procs : ~Launching(p)
    BY InitReq, RestingFields, ProcFacts DEF Launching, Loading, Resting
  <2> QED
    BY <2>1 DEF RunInv
<1> QED
  BY <1>2, <1>3, <1>4

LEMMA InitRest == Init => RestTyped
<1> SUFFICES ASSUME Init PROVE RestTyped
  OBVIOUS
<1>1. autoFile = <<AutoSaved>> /\ AutoSaved \in SUBSET Ids
  BY LoopAssumption DEF Init
<1>2. \E S \in SUBSET Ids : autoFile = <<S>>
  BY <1>1
<1>3. requests \in 0..MaxRequests /\ crashes \in 0..MaxCrashes
  BY LoopAssumption DEF Init
<1>4. files \in [Ids -> {"none", "ok", "bad"}]
  BY DEF Init
<1>5. /\ flows \subseteq Ids /\ runData \subseteq Ids /\ runMade \in BOOLEAN
      /\ unused \subseteq Ids /\ created \subseteq Ids /\ doomed \subseteq Ids
      /\ stopped \subseteq Ids /\ overtaken \subseteq Clients
  BY LoopAssumption DEF Init
<1> QED
  BY <1>2, <1>3, <1>4, <1>5 DEF RestTyped

LEMMA InitHistory == Init => NewInv /\ DoomInv /\ ProgressInv /\ Kept /\ StopInv
<1> SUFFICES ASSUME Init PROVE NewInv /\ DoomInv /\ ProgressInv /\ Kept /\ StopInv
  OBVIOUS
<1>1. \A p \in Clients : /\ req[p].new = NoId /\ req[p].op = "none"
                         /\ req[p].fine = FALSE /\ req[p].pc = "idle"
  BY InitReq, RestingFields
<1>2. NewInv
  BY <1>1, LoopAssumption DEF Init, NewInv
<1>3. DoomInv
  BY <1>1 DEF DoomInv, DoomOps
<1>4. ProgressInv
  BY <1>1 DEF ProgressInv, Achieved, RemovePcs
<1>5. Kept
  <2>1. req[Boot].pc = "load" /\ req[Boot].todo = Saved
    BY InitReq DEF Loading, Resting
  <2> QED
    BY <2>1, LoopAssumption DEF Init, Kept
<1>6. StopInv
  BY <1>1 DEF Init, StopInv
<1> QED
  BY <1>2, <1>3, <1>4, <1>5, <1>6

THEOREM Invariance == Spec => []LInv
<1>1. Init => LInv
  BY InitReq, InitObj, InitRest, InitHistory DEF LInv
<1>2. LInv /\ [Next]_vars => LInv'
  <2> SUFFICES ASSUME LInv, [Next]_vars PROVE LInv'
    OBVIOUS
  <2>1. /\ ReqTyped /\ ObjTyped /\ RestTyped /\ Shapes /\ ObjInv /\ RunInv
        /\ NewInv /\ DoomInv /\ ProgressInv /\ Kept /\ StopInv
    BY DEF LInv
  <2>2. ReqTyped' /\ Shapes'
    BY <2>1, ReqInvStep
  <2>3. ObjTyped' /\ ObjInv' /\ RunInv'
    BY <2>1, ObjStep
  <2>4. RestTyped'
    BY <2>1, RestTypedStep
  <2>5. NewInv' /\ DoomInv'
    BY <2>1, NewInvStep, DoomInvStep
  <2>6. ProgressInv' /\ Kept' /\ StopInv'
    BY <2>1, ProgressInvStep, KeptStep, StopInvStep
  <2> QED
    BY <2>2, <2>3, <2>4, <2>5, <2>6 DEF LInv
<1> QED
  BY <1>1, <1>2, PTL DEF Spec

(* Types, and an object at work is registered, if at all, under its own id:
   the bookkeeping every handler of Loop relies on. *)
THEOREM TypeCorrect == Spec => []TypeOK
<1>1. LInv => TypeOK
  BY DEF LInv, TypeOK, ReqTyped, ReqType, ObjTyped, ObjType, RestTyped, ObjInv
<1> QED
  BY <1>1, Invariance, PTL

(* A task whose creation was answered keeps its file and its entry in Loop.tasks
   as long as nobody asks to remove or to reset it, whatever else handlers do to
   the maps they share without a lock, and over crashes. *)
THEOREM Durability == Spec => []Durable
<1>1. LInv => Durable
  BY DEF LInv, Kept, Durable
<1> QED
  BY <1>1, Invariance, PTL

(* A task that a stop has taken off the automatic-start record is neither in the
   file nor started by main until somebody asks to start it, over any number of
   crashes, torn files and writes of other requests; a text fixed before the
   stop and written after it, which the code lets win, is the one exception
   beside a start of the same task that is under way. *)
THEOREM StopIsRemembered == Spec => []StopRemembered
<1>1. LInv => StopRemembered
  BY DEF LInv, StopInv, Forgotten, StopRemembered
<1> QED
  BY <1>1, Invariance, PTL

(* The handlers that write task files write those of tasks not answered yet. *)
LEMMA RemovedStep ==
  ASSUME LInv, [Next]_vars, NEW id \in created, files[id] = "none" PROVE files'[id] = "none"
<1> USE DEF LInv
<1>1. CASE Crash \/ UNCHANGED vars
  BY <1>1 DEF Crash, vars
<1>2. ASSUME NEW p \in Clients, User(p) PROVE files'[id] = "none"
  BY <1>2, UserQuiet
<1>3. ASSUME NEW p \in Clients, Handler(p) PROVE files'[id] = "none"
  <2>1. id # req[p].new /\ id \in Ids
    BY DEF NewInv, RestTyped
  <2>2. CASE WriteTask(p) \/ RemoveFile(p) \/ RemoveEntry(p) \/ RebuildWrite(p)
    BY <2>1, <2>2 DEF WriteTask, RemoveFile, RemoveEntry, RebuildWrite, RestTyped
  <2>3. CASE \/ \E i \in Objects : AddTask(p, i) \/ RunReplace(p, i)
             \/ \E k \in Ids, i \in Objects : Rebuild(p, k, i)
             \/ \E k \in Ids : ClearNext(p, k)
             \/ UNCHANGED <<tasks, files, unused, created, doomed>>
    BY <2>3 DEF AddTask, RunReplace, Rebuild, ClearNext
  <2> QED
    BY <1>3, <2>2, <2>3, HandlerQuiet
<1>4. CASE StartUp
  BY <1>4, StartUpQuiet
<1>5. ASSUME NEW i \in Objects, TaskGoroutines(i) PROVE files'[id] = "none"
  BY <1>5, GoroutinesQuiet
<1> QED
  BY <1>1, <1>2, <1>3, <1>4, <1>5 DEF Next

(* A task file that was removed is never written again, so no later start of
   the process brings the task back. *)
THEOREM RemovedStaysRemoved == Spec => RemovedForGood
<1>1. LInv /\ [Next]_vars => [\A id \in created : files[id] = "none" => files'[id] = "none"]_vars
  BY RemovedStep
<1> QED
  BY <1>1, Invariance, PTL DEF Spec, RemovedForGood
=============================================================================
