--------------------------- MODULE TransferProofs ---------------------------
(***************************************************************************)
(* Task implements Transfer, for any number of sources, targets and        *)
(* documents, and keeps the order of every source.                         *)
(***************************************************************************)
EXTENDS TaskTransfer, TaskProofs

USE DEF flagVars, countVars, readerVars, writerVars, pipeVars, ctlVars

-----------------------------------------------------------------------------
(* The documents that wait are younger than what was routed. *)

LEMMA FreshKept ==
  ASSUME FreshInv, TypeInv, owed' = owed, emitted' = emitted,
         \A r \in Readers : rpc'[r] = "send" => rpc[r] = "send"
  PROVE  FreshInv'
<1>1. \A x \in owed : x[1] \in Readers
  BY DEF TypeInv, Items
<1> QED
  BY <1>1 DEF FreshInv

LEMMA FreshTakeDoc ==
  ASSUME FreshInv, TypeInv, NEW r \in Readers, PipeTakeDoc(r)
  PROVE  FreshInv'
<1>1. PICK out \in FlowResults : owed' = owed \cup Routed(<<r, emitted[r]>>, out)
  BY DEF PipeTakeDoc
<1>2. rpc' = [rpc EXCEPT ![r] = "run"] /\ emitted' = emitted
  BY DEF PipeTakeDoc
<1>3. \A x \in owed : x[1] \in Readers
  BY DEF TypeInv, Items
<1>4. \A x \in Routed(<<r, emitted[r]>>, out) : x[1] = r /\ x[2] = emitted[r]
  BY DEF Routed
<1>5. rpc \in [Readers -> ReaderPcs] /\ emitted \in [Readers -> Nat]
  BY DEF TypeInv
<1>6. ASSUME NEW x \in owed'
      PROVE  x[2] <= emitted[x[1]] /\ (rpc'[x[1]] = "send" => x[2] < emitted[x[1]])
  <2>1. CASE x \in owed
    BY <1>2, <1>3, <1>5, <2>1 DEF FreshInv
  <2>2. CASE x \in Routed(<<r, emitted[r]>>, out)
    <3>1. x[1] = r /\ x[2] = emitted[r] /\ emitted[r] \in Nat
      BY <1>4, <1>5, <2>2
    <3>2. rpc'[x[1]] = "run"
      BY <1>2, <1>5, <3>1
    <3> QED
      BY <3>1, <3>2
  <2> QED
    BY <1>1, <1>6, <2>1, <2>2
<1> QED
  BY <1>2, <1>6 DEF FreshInv

LEMMA FreshEmit ==
  ASSUME FreshInv, TypeInv, NEW r \in Readers, ReaderEmit(r)
  PROVE  FreshInv'
<1>1. /\ owed' = owed /\ rpc[r] = "run"
      /\ rpc' = [rpc EXCEPT ![r] = "send"] /\ emitted' = [emitted EXCEPT ![r] = @ + 1]
  BY DEF ReaderEmit
<1>2. rpc \in [Readers -> ReaderPcs] /\ emitted \in [Readers -> Nat]
  BY DEF TypeInv
<1>3. \A x \in owed : x[1] \in Readers /\ x[2] \in Nat
  BY DEF TypeInv, Items
<1>4. ASSUME NEW x \in owed
      PROVE  x[2] <= emitted'[x[1]] /\ (rpc'[x[1]] = "send" => x[2] < emitted'[x[1]])
  <2>1. x[1] \in Readers /\ x[2] \in Nat /\ x[2] <= emitted[x[1]]
    BY <1>3 DEF FreshInv
  <2>2. CASE x[1] = r
    <3>1. emitted'[x[1]] = emitted[x[1]] + 1 /\ emitted[x[1]] \in Nat
      BY <1>1, <1>2, <2>2
    <3> QED
      BY <2>1, <3>1
  <2>3. CASE x[1] # r
    BY <1>1, <1>2, <2>1, <2>3 DEF FreshInv
  <2> QED
    BY <2>2, <2>3
<1> QED
  BY <1>1, <1>4 DEF FreshInv

(* Every other step. *)
LEMMA FreshCases ==
  ASSUME TypeInv, [Next]_vars
  PROVE  \/ /\ owed' = owed /\ emitted' = emitted
            /\ \A r \in Readers : rpc'[r] = "send" => rpc[r] = "send"
         \/ \E r \in Readers : PipeTakeDoc(r) \/ ReaderEmit(r)
<1>0. rpc \in [Readers -> ReaderPcs]
  BY DEF TypeInv
<1>1. CASE Run \/ Control \/ RecorderEnd \/ User \/ UNCHANGED vars
  BY <1>1 DEF Run, RunInit, RunInitFails, RunInitOk, LaunchPipeline,
       RunSetsState, Control, ControlTick, ControlStopReader, ControlReaderStopped,
       ControlSourcesStopped, ControlAgain, ControlRelease, ControlEnd,
       RecorderEnd, User, UserStop, UserStopped, vars
<1>2. ASSUME NEW r \in Readers, LaunchReader(r) \/ (Reader(r) /\ ~ReaderEmit(r))
      PROVE  /\ owed' = owed /\ emitted' = emitted
             /\ \A s \in Readers : rpc'[s] = "send" => rpc[s] = "send"
  BY <1>0, <1>2 DEF LaunchReader, Reader, ReaderBegin, ReaderReturn, ReaderFail,
       ReaderReport, ReaderWGDone, ReaderLoad, ReaderStore, ReaderCheck, ReaderPanic
<1>3. ASSUME NEW w \in Writers, LaunchWriter(w) \/ Writer(w) \/ PipeSend(w) \/ PipeSendDone(w)
      PROVE  owed' = owed /\ emitted' = emitted /\ rpc' = rpc
  BY <1>3 DEF LaunchWriter, Writer, WriterOk, WriterFails, WriterWGDone,
       WriterLoad, WriterStore, WriterCheck, PipeSend, PipeSendDone
<1>4. ASSUME NEW r \in Readers, PipeFlowFails(r) \/ PipeTakeDone(r)
      PROVE  /\ owed' = owed /\ emitted' = emitted
             /\ \A s \in Readers : rpc'[s] = "send" => rpc[s] = "send"
  BY <1>0, <1>4 DEF PipeFlowFails, PipeTakeDone
<1>5. CASE PipeReport \/ PipeSkip \/ PipeRange \/ PipeEnd
  BY <1>5 DEF PipeReport, PipeSkip, PipeRange, PipeEnd
<1> QED
  BY <1>1, <1>2, <1>3, <1>4, <1>5 DEF Next, Launch, Pipeline

LEMMA FreshStep == TypeInv /\ FreshInv /\ [Next]_vars => FreshInv'
BY FreshKept, FreshTakeDoc, FreshEmit, FreshCases

-----------------------------------------------------------------------------
(* What was received or is in hand was routed; what was received comes first. *)

LEMMA OwedKept ==
  ASSUME OwedInv, EarlierInv, RunInv, UNCHANGED handVars,
         pipe' = "route" => pipe = "route"
  PROVE  OwedInv' /\ EarlierInv'
<1>1. Received' = Received
  BY DEF handVars, Received
<1>2. InHand' \subseteq InHand
  BY DEF handVars, InHand, Item
<1> QED
  BY <1>1, <1>2 DEF handVars, OwedInv, EarlierInv

LEMMA OwedTakeDoc ==
  ASSUME OwedInv, FreshInv, TypeInv, NEW r \in Readers, PipeTakeDoc(r)
  PROVE  OwedInv' /\ EarlierInv'
<1>1. PICK out \in FlowResults :
        /\ doc' = <<r, emitted[r]>> /\ ops' = out /\ next' = 1
        /\ pipe' = IF out = <<>> THEN "select" ELSE "route"
        /\ owed' = owed \cup Routed(<<r, emitted[r]>>, out)
  BY DEF PipeTakeDoc
<1>2. got' = got /\ rpc[r] = "send"
  BY DEF PipeTakeDoc
<1>3. Received' = Received
  BY <1>2 DEF Received
<1>4. out \in Seq(Aliases)
  BY TaskAssumption
<1>5. InHand' \subseteq Routed(<<r, emitted[r]>>, out)
  <2>1. CASE out = <<>>
    BY <1>1, <2>1 DEF InHand
  <2>2. CASE out # <<>>
    <3>1. DOMAIN out = 1..Len(out)
      BY <1>4
    <3>2. InHand' = {<<r, emitted[r], k, out[k]>> : k \in {j \in 1..Len(out) : out[j] \in Mapped}}
      BY <1>1, <2>2 DEF InHand, Item, Mapped
    <3> QED
      BY <3>1, <3>2 DEF Routed
  <2> QED
    BY <2>1, <2>2
<1>6. OwedInv'
  BY <1>1, <1>3, <1>5 DEF OwedInv
<1>7. \A y \in Received : y[1] = r => y[2] < emitted[r]
  BY <1>2 DEF OwedInv, FreshInv
<1>8. EarlierInv'
  BY <1>1, <1>3, <1>7 DEF EarlierInv
<1> QED
  BY <1>6, <1>8

LEMMA OwedSkip ==
  ASSUME OwedInv, EarlierInv, TypeInv, PipeSkip
  PROVE  OwedInv' /\ EarlierInv'
<1>1. /\ pipe = "route" /\ next' = next + 1
      /\ ops' = ops /\ doc' = doc /\ owed' = owed /\ got' = got
  BY DEF PipeSkip
<1>2. next \in Nat /\ Len(ops) \in Nat
  BY DEF TypeInv
<1>3. Received' = Received
  BY <1>1 DEF Received
<1>4. InHand' \subseteq InHand
  BY <1>1, <1>2 DEF InHand, Item, Mapped
<1>5. \A y \in Received : y[2] \in Nat /\ y[3] \in Nat
  BY DEF TypeInv, Received, Items
<1>6. EarlierInv'
  BY <1>1, <1>2, <1>3, <1>5 DEF EarlierInv
<1> QED
  BY <1>1, <1>3, <1>4, <1>6 DEF OwedInv

LEMMA OwedSend ==
  ASSUME OwedInv, EarlierInv, TypeInv, NEW w \in Writers, PipeSend(w)
  PROVE  OwedInv' /\ EarlierInv'
<1>1. /\ pipe = "route" /\ next' = next + 1 /\ ops[next] \in Mapped
      /\ ops' = ops /\ doc' = doc /\ owed' = owed
      /\ got' = [got EXCEPT ![w] = @ \cup {Item(next)}]
  BY DEF PipeSend
<1>2. next \in 1..Len(ops) /\ Len(ops) \in Nat /\ got \in [Writers -> SUBSET Items]
  BY <1>1 DEF TypeInv
<1>3. Received' = Received \cup {Item(next)}
  BY <1>1, <1>2 DEF Received
<1>4. Item(next) \in InHand
  BY <1>1, <1>2 DEF InHand
<1>5. InHand' \subseteq InHand
  BY <1>1, <1>2 DEF InHand, Item, Mapped
<1>6. \A y \in Received : y[2] \in Nat /\ y[3] \in Nat
  BY <1>2 DEF Received, Items
<1>7. Item(next)[1] = doc[1] /\ Item(next)[2] = doc[2] /\ Item(next)[3] = next
  BY DEF Item
<1>8. EarlierInv'
  <2> SUFFICES ASSUME NEW y \in Received', y[1] = doc[1]
               PROVE  y[2] < doc[2] \/ (y[2] = doc[2] /\ y[3] < next + 1)
    BY <1>1 DEF EarlierInv
  <2>1. CASE y \in Received
    BY <1>1, <1>2, <1>6, <2>1 DEF EarlierInv
  <2>2. CASE y = Item(next)
    BY <1>2, <1>7, <2>2
  <2> QED
    BY <1>3, <2>1, <2>2
<1> QED
  BY <1>1, <1>3, <1>4, <1>5, <1>8 DEF OwedInv

(* Only a document that is taken brings the pipeline to route. *)
LEMMA RouteBegins ==
  ASSUME [Next]_vars, pipe' = "route", pipe # "route"
  PROVE  \E r \in Readers : PipeTakeDoc(r)
<1>1. CASE Run \/ Control \/ RecorderEnd \/ User \/ UNCHANGED vars \/ Launch
  BY <1>1 DEF Run, RunInit, RunInitFails, RunInitOk, LaunchPipeline,
       RunSetsState, Control, ControlTick, ControlStopReader, ControlReaderStopped,
       ControlSourcesStopped, ControlAgain, ControlRelease, ControlEnd,
       RecorderEnd, User, UserStop, UserStopped, vars, Launch, LaunchReader, LaunchWriter
<1>2. ASSUME NEW r \in Readers, Reader(r) PROVE FALSE
  BY <1>2 DEF Reader, ReaderBegin, ReaderEmit, ReaderReturn, ReaderFail,
       ReaderReport, ReaderWGDone, ReaderLoad, ReaderStore, ReaderCheck, ReaderPanic
<1>3. ASSUME NEW w \in Writers, Writer(w) PROVE FALSE
  BY <1>3 DEF Writer, WriterOk, WriterFails, WriterWGDone, WriterLoad,
       WriterStore, WriterCheck
<1>4. CASE Pipeline
  BY <1>4 DEF Pipeline, PipeFlowFails, PipeReport, PipeTakeDone, PipeRange,
       PipeSendDone, PipeEnd, PipeSkip, PipeSend
<1> QED
  BY <1>1, <1>2, <1>3, <1>4 DEF Next

LEMMA OwedStep ==
  TypeInv /\ RunInv /\ FreshInv /\ OwedInv /\ EarlierInv /\ [Next]_vars
    => OwedInv' /\ EarlierInv'
<1> SUFFICES ASSUME TypeInv, RunInv, FreshInv, OwedInv, EarlierInv, [Next]_vars
             PROVE  OwedInv' /\ EarlierInv'
  OBVIOUS
<1>1. CASE UNCHANGED handVars
  <2>1. CASE pipe' = "route" => pipe = "route"
    BY <1>1, <2>1, OwedKept
  <2>2. CASE pipe' = "route" /\ pipe # "route"
    BY <2>2, RouteBegins, OwedTakeDoc
  <2> QED
    BY <2>1, <2>2
<1> QED
  BY <1>1, HandCases, OwedTakeDoc, OwedSkip, OwedSend

LEMMA TransferInvInit == Init => TransferInv
BY DEF Init, TransferInv, OwedInv, FreshInv, EarlierInv, Received, InHand

LEMMA TransferInvariance == Spec => [](IInv /\ TransferInv)
<1>1. IInv /\ TransferInv /\ [Next]_vars => TransferInv'
  BY FreshStep, OwedStep DEF IInv, TransferInv
<1> QED
  BY <1>1, TransferInvInit, Invariance, PTL DEF Spec

-----------------------------------------------------------------------------
(* The step simulation *)

Open == {"null", "launched", "run", "send", "report"}

LEMMA OpenSame ==
  ASSUME \A r \in Readers : (rpc'[r] \in Open) = (rpc[r] \in Open)
  PROVE  OpenReaders' = OpenReaders
BY DEF OpenReaders, Open

LEMMA ToldSame ==
  ASSUME \A w \in Writers : WriterTold(w)' = WriterTold(w)
  PROVE  ToldWriters' = ToldWriters
BY DEF ToldWriters

LEMMA TInit == Init => T!Init
<1> SUFFICES ASSUME Init PROVE T!Init
  OBVIOUS
<1>1. OpenReaders = Readers
  BY DEF Init, OpenReaders
<1>2. ToldWriters = {}
  BY DEF Init, ToldWriters, WriterTold
<1>3. owed = {} /\ got = [w \in Writers |-> {}] /\ released = FALSE
  BY DEF Init
<1> QED
  BY <1>1, <1>2, <1>3 DEF T!Init

LEMMA TReceived == T!Received = Received
BY DEF T!Received, Received

(* What has not been received is exactly what is in hand. *)
LEMMA WaitingIsInHand ==
  ASSUME IInv, TransferInv
  PROVE  owed \ Received = InHand
<1>1. InHand \cap Received = {}
  <2> SUFFICES ASSUME NEW x \in InHand, x \in Received PROVE FALSE
    OBVIOUS
  <2>1. pipe = "route" /\ \E k \in next..Len(ops) : x = Item(k)
    BY DEF InHand
  <2>2. PICK k \in next..Len(ops) : x = Item(k)
    BY <2>1
  <2>3. next \in Nat /\ Len(ops) \in Nat /\ doc[2] \in Nat
    BY DEF IInv, TypeInv
  <2>4. x[1] = doc[1] /\ x[2] = doc[2] /\ x[3] = k
    BY <2>2 DEF Item
  <2>5. doc[2] < doc[2] \/ (doc[2] = doc[2] /\ k < next)
    BY <2>1, <2>4 DEF TransferInv, EarlierInv
  <2> QED
    BY <2>2, <2>3, <2>5
<1> QED
  BY <1>1 DEF IInv, HandInv, TransferInv, OwedInv

LEMMA TTakeDoc ==
  ASSUME IInv, TransferInv, NEW r \in Readers, PipeTakeDoc(r)
  PROVE  T!Route(r)
<1>1. PICK out \in FlowResults : owed' = owed \cup Routed(<<r, emitted[r]>>, out)
  BY DEF PipeTakeDoc
<1>2. /\ pipe = "select" /\ rpc[r] = "send" /\ rpc' = [rpc EXCEPT ![r] = "run"]
      /\ UNCHANGED <<wpc, got, released>>
  BY DEF PipeTakeDoc
<1>3. rpc \in [Readers -> ReaderPcs] /\ emitted \in [Readers -> Nat]
  BY DEF IInv, TypeInv
<1>4. OpenReaders' = OpenReaders
  BY <1>2, <1>3, OpenSame DEF Open
<1>5. ToldWriters' = ToldWriters
  BY <1>2, ToldSame DEF WriterTold
<1>6. r \in OpenReaders
  BY <1>2 DEF OpenReaders
<1>7. owed \subseteq Received
  BY <1>2 DEF IInv, HandInv, InHand
<1>8. \A x \in Routed(<<r, emitted[r]>>, out) : x[1] = r /\ x[2] = emitted[r]
  BY DEF Routed
<1>9. \A y \in owed : y[1] = r => y[2] < emitted[r]
  BY <1>2 DEF TransferInv, FreshInv
<1>10. Routed(<<r, emitted[r]>>, out) \subseteq T!Items
  BY <1>3, RoutedTyped DEF T!Items, Items
<1>11. /\ \A x \in owed' \ owed : x \in T!Items /\ x[1] = r
       /\ \A x \in owed' \ owed, y \in owed : y[1] = r => y[2] < x[2]
  BY <1>1, <1>8, <1>9, <1>10
<1> QED
  BY <1>1, <1>2, <1>4, <1>5, <1>6, <1>7, <1>11, TReceived DEF T!Route

LEMMA TSend ==
  ASSUME IInv, TransferInv, NEW w \in Writers, PipeSend(w)
  PROVE  T!Deliver(w)
<1>1. /\ pipe = "route" /\ ops[next] \in Mapped /\ wpc[w] = "recv"
      /\ wpc' = [wpc EXCEPT ![w] = "write"] /\ UNCHANGED <<rpc, owed, released>>
      /\ got' = [got EXCEPT ![w] = @ \cup {Item(next)}]
  BY DEF PipeSend
<1>2. /\ wpc \in [Writers -> WriterPcs] /\ next \in 1..Len(ops) /\ Len(ops) \in Nat
  BY <1>1 DEF IInv, TypeInv
<1>3. OpenReaders' = OpenReaders
  BY <1>1, OpenSame
<1>4. \A v \in Writers : WriterTold(v)' = WriterTold(v)
  BY <1>1, <1>2 DEF WriterTold
<1>5. ToldWriters' = ToldWriters
  BY <1>4, ToldSame
<1>6. w \notin ToldWriters
  BY <1>1 DEF ToldWriters, WriterTold
<1>7. Item(next) \in InHand
  BY <1>1, <1>2 DEF InHand
<1>8. ASSUME NEW y \in InHand PROVE Item(next) = y \/ T!Before(Item(next), y)
  <2>1. PICK k \in next..Len(ops) : y = Item(k)
    BY <1>1, <1>8 DEF InHand
  <2>2. k = next \/ next < k
    BY <1>2, <2>1
  <2>3. /\ Item(next)[1] = y[1] /\ Item(next)[2] = y[2]
        /\ Item(next)[3] = next /\ y[3] = k
    BY <2>1 DEF Item
  <2> QED
    BY <2>1, <2>2, <2>3 DEF T!Before
<1>9. \E x \in owed \ Received :
        /\ \A y \in owed \ Received : x = y \/ T!Before(x, y)
        /\ got' = [got EXCEPT ![w] = @ \cup {x}]
  BY <1>1, <1>7, <1>8, WaitingIsInHand
<1> QED
  BY <1>1, <1>3, <1>5, <1>6, <1>9, TReceived DEF T!Deliver

LEMMA TFinish ==
  ASSUME IInv, NEW r \in Readers, ReaderReturn(r) \/ ReaderReport(r)
  PROVE  T!Finish(r)
<1>1. /\ rpc[r] \in Open /\ rpc' = [rpc EXCEPT ![r] = "wgDone"]
      /\ UNCHANGED <<owed, got, wpc, released>>
  BY DEF ReaderReturn, ReaderReport, Open
<1>2. rpc \in [Readers -> ReaderPcs]
  BY DEF IInv, TypeInv
<1>3. r \in OpenReaders
  BY <1>1 DEF OpenReaders, Open
<1>4. OpenReaders' = OpenReaders \ {r}
  BY <1>1, <1>2 DEF OpenReaders
<1>5. ToldWriters' = ToldWriters
  BY <1>1, ToldSame DEF WriterTold
<1> QED
  BY <1>1, <1>3, <1>4, <1>5 DEF T!Finish

LEMMA TTell ==
  ASSUME IInv, NEW w \in Writers, PipeSendDone(w)
  PROVE  T!Tell(w)
<1>1. /\ pipe = "done" /\ wpc[w] = "recv" /\ wpc' = [wpc EXCEPT ![w] = "wgDone"]
      /\ UNCHANGED <<rpc, owed, got, released>>
  BY DEF PipeSendDone
<1>2. wpc \in [Writers -> WriterPcs]
  BY DEF IInv, TypeInv
<1>3. ReadDone /\ owed \subseteq Received
  BY <1>1 DEF IInv, CommandInv, CommandTaken
<1>4. OpenReaders = {}
  BY <1>3 DEF IInv, ReadCountInv, CountedReaders, ReaderCounted, OpenReaders
<1>5. OpenReaders' = OpenReaders
  BY <1>1, OpenSame
<1>6. w \notin ToldWriters
  BY <1>1 DEF ToldWriters, WriterTold
<1>7. ToldWriters' = ToldWriters \cup {w}
  BY <1>1, <1>2 DEF ToldWriters, WriterTold
<1> QED
  BY <1>1, <1>3, <1>4, <1>5, <1>6, <1>7, TReceived DEF T!Tell

LEMMA TLetGo ==
  ASSUME IInv, ControlRelease
  PROVE  T!LetGo
<1>1. WriteDone /\ released' = TRUE /\ UNCHANGED <<rpc, wpc, owed, got>>
  BY DEF ControlRelease
<1>2. ToldWriters = Writers
  BY <1>1 DEF IInv, WriteCountInv, CountedWriters, WriterCounted, ToldWriters, WriterTold
<1>3. OpenReaders' = OpenReaders /\ ToldWriters' = ToldWriters
  BY <1>1, OpenSame, ToldSame DEF WriterTold
<1> QED
  BY <1>1, <1>2, <1>3 DEF T!LetGo

(* Every other step is invisible. *)
LEMMA TStutter ==
  ASSUME IInv, [Next]_vars,
         \A r \in Readers : ~PipeTakeDoc(r) /\ ~ReaderReturn(r) /\ ~ReaderReport(r),
         \A w \in Writers : ~PipeSend(w) /\ ~PipeSendDone(w),
         ~ControlRelease
  PROVE  UNCHANGED T!vars
<1>0. rpc \in [Readers -> ReaderPcs] /\ wpc \in [Writers -> WriterPcs]
  BY DEF IInv, TypeInv
<1> DEFINE Same == /\ UNCHANGED <<owed, got, released>>
                   /\ \A r \in Readers : (rpc'[r] \in Open) = (rpc[r] \in Open)
                   /\ \A w \in Writers : WriterTold(w)' = WriterTold(w)
<1>1. ASSUME Run \/ Control \/ RecorderEnd \/ User \/ UNCHANGED vars PROVE Same
  <2>1. UNCHANGED <<owed, got, released, rpc, wpc>>
    BY <1>1 DEF Run, RunInit, RunInitFails, RunInitOk, LaunchPipeline,
       RunSetsState, Control, ControlTick, ControlStopReader, ControlReaderStopped,
       ControlSourcesStopped, ControlAgain, ControlEnd,
       RecorderEnd, User, UserStop, UserStopped, vars
  <2> QED
    BY <2>1 DEF WriterTold
<1>2. ASSUME NEW r \in Readers, LaunchReader(r) \/ Reader(r) PROVE Same
  <2>1. UNCHANGED <<owed, got, released, wpc>>
    BY <1>2 DEF LaunchReader, Reader, ReaderBegin, ReaderEmit, ReaderReturn, ReaderFail,
       ReaderReport, ReaderWGDone, ReaderLoad, ReaderStore, ReaderCheck, ReaderPanic
  <2>2. \E pc \in ReaderPcs : /\ rpc' = [rpc EXCEPT ![r] = pc]
                              /\ (pc \in Open) = (rpc[r] \in Open)
    BY <1>2 DEF LaunchReader, Reader, ReaderBegin, ReaderEmit, ReaderFail,
       ReaderWGDone, ReaderLoad, ReaderStore, ReaderCheck, ReaderPanic, ReaderPcs, Open
  <2>3. \A s \in Readers : (rpc'[s] \in Open) = (rpc[s] \in Open)
    BY <1>0, <2>2
  <2> QED
    BY <2>1, <2>3 DEF WriterTold
<1>3. ASSUME NEW w \in Writers, LaunchWriter(w) \/ Writer(w) PROVE Same
  <2>1. UNCHANGED <<owed, got, released, rpc>>
    BY <1>3 DEF LaunchWriter, Writer, WriterOk, WriterFails, WriterWGDone,
         WriterLoad, WriterStore, WriterCheck
  <2>2. \E pc \in WriterPcs :
          /\ wpc' = [wpc EXCEPT ![w] = pc]
          /\ (pc \in {"wgDone", "load", "store", "check", "end"}) = WriterTold(w)
    BY <1>3 DEF LaunchWriter, Writer, WriterOk, WriterFails, WriterWGDone,
         WriterLoad, WriterStore, WriterCheck, WriterTold, WriterPcs
  <2>3. \A v \in Writers : WriterTold(v)' = WriterTold(v)
    BY <1>0, <2>2 DEF WriterTold
  <2> QED
    BY <2>1, <2>3
<1>4. ASSUME NEW r \in Readers, PipeFlowFails(r) \/ PipeTakeDone(r) PROVE Same
  <2>1. UNCHANGED <<owed, got, released, wpc>>
    BY <1>4 DEF PipeFlowFails, PipeTakeDone
  <2>2. \A s \in Readers : (rpc'[s] \in Open) = (rpc[s] \in Open)
    BY <1>0, <1>4 DEF PipeFlowFails, PipeTakeDone, Open
  <2> QED
    BY <2>1, <2>2 DEF WriterTold
<1>5. ASSUME PipeReport \/ PipeSkip \/ PipeRange \/ PipeEnd PROVE Same
  <2>1. UNCHANGED <<owed, got, released, rpc, wpc>>
    BY <1>5 DEF PipeReport, PipeSkip, PipeRange, PipeEnd
  <2> QED
    BY <2>1 DEF WriterTold
<1>6. Same
  BY <1>1, <1>2, <1>3, <1>4, <1>5 DEF Next, Launch, Pipeline
<1>7. OpenReaders' = OpenReaders /\ ToldWriters' = ToldWriters
  BY <1>6, OpenSame, ToldSame
<1> QED
  BY <1>6, <1>7 DEF T!vars

LEMMA TStep == IInv /\ TransferInv /\ [Next]_vars => [T!Next]_(T!vars)
<1> SUFFICES ASSUME IInv, TransferInv, [Next]_vars PROVE [T!Next]_(T!vars)
  OBVIOUS
<1>1. ASSUME NEW r \in Readers, PipeTakeDoc(r) \/ ReaderReturn(r) \/ ReaderReport(r)
      PROVE  T!Next
  BY <1>1, TTakeDoc, TFinish DEF T!Next
<1>2. ASSUME NEW w \in Writers, PipeSend(w) \/ PipeSendDone(w) PROVE T!Next
  BY <1>2, TSend, TTell DEF T!Next
<1>3. CASE ControlRelease
  BY <1>3, TLetGo DEF T!Next
<1> QED
  BY <1>1, <1>2, <1>3, TStutter

-----------------------------------------------------------------------------
(* A task implements the abstract transfer, whatever its goroutines do, with any
   number of sources, targets and documents (task.go:407-484, 633-655). *)
THEOREM TaskImplementsTransfer == Spec => ImplementsTransfer
<1>1. Spec => T!Init
  BY TInit DEF Spec
<1>2. Spec => [][T!Next]_(T!vars)
  BY TStep, TransferInvariance, PTL DEF Spec
<1> QED
  BY <1>1, <1>2 DEF ImplementsTransfer, T!Spec

(* Each target receives the ops of one source in the order the source read the
   documents and RunningFlow made the ops (task.go:471-483, 634-655). *)
THEOREM OrderIsKept == Spec => SourceOrder
<1>1. ASSUME IInv, TransferInv, [Next]_vars
      PROVE  [\A w \in Writers : \A x \in got'[w] \ got[w], y \in got[w] :
                y[1] = x[1] => y[2] < x[2] \/ (y[2] = x[2] /\ y[3] < x[3])]_got
  <2>1. CASE got' = got
    BY <2>1
  <2>2. ASSUME NEW w \in Writers, PipeSend(w)
        PROVE  \A v \in Writers : \A x \in got'[v] \ got[v], y \in got[v] :
                 y[1] = x[1] => y[2] < x[2] \/ (y[2] = x[2] /\ y[3] < x[3])
    <3>1. pipe = "route" /\ got' = [got EXCEPT ![w] = @ \cup {Item(next)}]
      BY <2>2 DEF PipeSend
    <3>2. got \in [Writers -> SUBSET Items]
      BY <1>1 DEF IInv, TypeInv
    <3>3. \A v \in Writers : \A x \in got'[v] \ got[v] : x = Item(next)
      BY <3>1, <3>2
    <3>4. \A v \in Writers : got[v] \subseteq Received
      BY DEF Received
    <3>5. Item(next)[1] = doc[1] /\ Item(next)[2] = doc[2] /\ Item(next)[3] = next
      BY DEF Item
    <3>6. \A y \in Received : y[1] = doc[1] => y[2] < doc[2] \/ (y[2] = doc[2] /\ y[3] < next)
      BY <1>1, <3>1 DEF TransferInv, EarlierInv
    <3> QED
      BY <3>3, <3>4, <3>5, <3>6
  <2>3. got' = got \/ \E w \in Writers : PipeSend(w)
    BY <1>1, HandCases DEF IInv, handVars, PipeTakeDoc, PipeSkip
  <2> QED
    BY <2>1, <2>2, <2>3
<1> QED
  BY <1>1, TransferInvariance, PTL DEF Spec, SourceOrder

-----------------------------------------------------------------------------
(* Where no two targets map the same alias, every target reads a channel of its
   own. *)

Disjoint == \A v, w \in Writers : v # w => DocumentSet[v] \cap DocumentSet[w] = {}

LEMMA OwnChannel ==
  ASSUME Disjoint, NEW w \in Writers, NEW a \in DocumentSet[w]
  PROVE  writeOpCMap(a) = w
<1> DEFINE P(v) == /\ a \in DocumentSet[v]
                   /\ \A u \in Writers : a \in DocumentSet[u] => TargetIndex[u] <= TargetIndex[v]
<1>1. \A v \in Writers : a \in DocumentSet[v] => v = w
  BY DEF Disjoint
<1>2. TargetIndex[w] \in Nat
  BY TaskAssumption
<1>3. P(w)
  BY <1>1, <1>2
<1>4. \A v \in Writers : P(v) => v = w
  BY <1>1
<1>5. (CHOOSE v \in Writers : P(v)) = w
  BY <1>3, <1>4
<1> QED
  BY <1>5 DEF writeOpCMap

OwnInv == /\ \A w \in Writers : chanOf[w] = w
          /\ RightTarget

LEMMA ChanCases ==
  ASSUME [Next]_vars
  PROVE  chanOf' = chanOf \/ \E w \in Writers : LaunchWriter(w)
<1>1. CASE Run \/ Control \/ RecorderEnd \/ User \/ UNCHANGED vars
  BY <1>1 DEF Run, RunInit, RunInitFails, RunInitOk, LaunchPipeline,
       RunSetsState, Control, ControlTick, ControlStopReader, ControlReaderStopped,
       ControlSourcesStopped, ControlAgain, ControlRelease, ControlEnd,
       RecorderEnd, User, UserStop, UserStopped, vars
<1>2. ASSUME NEW r \in Readers, LaunchReader(r) \/ Reader(r) PROVE chanOf' = chanOf
  BY <1>2 DEF LaunchReader, Reader, ReaderBegin, ReaderEmit, ReaderReturn, ReaderFail,
       ReaderReport, ReaderWGDone, ReaderLoad, ReaderStore, ReaderCheck, ReaderPanic
<1>3. ASSUME NEW w \in Writers, Writer(w) PROVE chanOf' = chanOf
  BY <1>3 DEF Writer, WriterOk, WriterFails, WriterWGDone, WriterLoad,
       WriterStore, WriterCheck
<1>4. CASE Pipeline
  BY <1>4 DEF Pipeline, PipeTakeDoc, PipeFlowFails, PipeReport, PipeTakeDone,
       PipeRange, PipeSendDone, PipeEnd, PipeSkip, PipeSend
<1> QED
  BY <1>1, <1>2, <1>3, <1>4 DEF Next, Launch

(* When no alias is mapped twice, a target receives only ops whose alias it maps
   (task.go:232-280, 637-649). *)
THEOREM OwnOpsOnly == ASSUME Disjoint PROVE Spec => []RightTarget
<1>1. Init => OwnInv
  BY DEF Init, OwnInv, RightTarget
<1>2. ASSUME IInv, OwnInv, [Next]_vars PROVE OwnInv'
  <2>1. ASSUME NEW w \in Writers PROVE chanOf'[w] = w
    <3>1. CASE chanOf' = chanOf
      BY <1>2, <3>1 DEF OwnInv
    <3>2. ASSUME NEW v \in Writers, LaunchWriter(v) PROVE chanOf'[w] = w
      <4>1. PICK a \in DocumentSet[v] : chanOf' = [chanOf EXCEPT ![v] = writeOpCMap(a)]
        BY <3>2 DEF LaunchWriter
      <4>2. writeOpCMap(a) = v
        BY OwnChannel
      <4>3. DOMAIN chanOf = Writers
        BY <1>2 DEF IInv, TypeInv
      <4> QED
        BY <1>2, <4>1, <4>2, <4>3 DEF OwnInv
    <3> QED
      BY <1>2, <3>1, <3>2, ChanCases
  <2>2. RightTarget'
    <3>1. CASE got' = got
      BY <1>2, <3>1 DEF OwnInv, RightTarget
    <3>2. ASSUME NEW w \in Writers, PipeSend(w) PROVE RightTarget'
      <4>1. /\ ops[next] \in Mapped /\ chanOf[w] = writeOpCMap(ops[next])
            /\ got' = [got EXCEPT ![w] = @ \cup {Item(next)}]
        BY <3>2 DEF PipeSend
      <4>2. PICK v \in Writers : ops[next] \in DocumentSet[v]
        BY <4>1 DEF Mapped
      <4>3. v = w
        BY <1>2, <4>1, <4>2, OwnChannel DEF OwnInv
      <4>4. Item(next)[4] = ops[next]
        BY DEF Item
      <4>5. got \in [Writers -> SUBSET Items]
        BY <1>2 DEF IInv, TypeInv
      <4>6. \A u \in Writers : \A x \in got'[u] : x \in got[u] \/ (u = w /\ x = Item(next))
        BY <4>1, <4>5
      <4> QED
        BY <1>2, <4>2, <4>3, <4>4, <4>6 DEF OwnInv, RightTarget
    <3> QED
      BY <1>2, <3>1, <3>2, HandCases DEF IInv, handVars, PipeTakeDoc, PipeSkip
  <2> QED
    BY <2>1, <2>2 DEF OwnInv
<1>3. OwnInv => RightTarget
  BY DEF OwnInv
<1> QED
  BY <1>1, <1>2, <1>3, Invariance, PTL DEF Spec
=============================================================================
