----------------------------- MODULE TaskProofs -----------------------------
EXTENDS TaskInv, FiniteSetTheorems, TLAPS

USE DEF flagVars, countVars, readerVars, writerVars, pipeVars, ctlVars

LEMMA TypeInvInit == Init => TypeInv
<1> SUFFICES ASSUME Init PROVE TypeInv
  OBVIOUS
<1> USE DEF Init
<1>1. /\ rpc \in [Readers -> ReaderPcs] /\ wpc \in [Writers -> WriterPcs]
      /\ pipe \in PipePcs /\ State \in States
  BY DEF ReaderPcs, WriterPcs, PipePcs, States
<1>2. /\ readerExitF \in [Readers -> BOOLEAN]
      /\ readTmp \in [Readers -> Nat] /\ emitted \in [Readers -> Nat]
      /\ DOMAIN chanOf = Writers /\ writeTmp \in [Writers -> Nat]
  OBVIOUS
<1>3. doc \in (Readers \cup {NoReader}) \X Nat /\ ops \in Seq(Aliases) /\ next \in Nat
  OBVIOUS
<1>4. owed \subseteq Items /\ got \in [Writers -> SUBSET Items]
  OBVIOUS
<1>5. /\ taskWG \in Int /\ ReadDoneCount \in Nat /\ WriteDoneCount \in Nat
      /\ FullReadCount \in Nat /\ FailedPipeLineCount \in Nat
      /\ FailedDeliveryCount \in Nat
  OBVIOUS
<1>6. /\ exitF \in BOOLEAN /\ errF \in BOOLEAN /\ released \in BOOLEAN
      /\ ReadDone \in BOOLEAN /\ WriteDone \in BOOLEAN
  OBVIOUS
<1>7. /\ run \in {"null", "init", "launch", "launched", "end"}
      /\ recorder \in {"null", "run", "end"}
      /\ user \in {"idle", "waiting", "stopped"}
      /\ ctl \in {"null", "loop", "stopSource", "check", "released", "end"}
      /\ toStop \subseteq Readers /\ stopping \in Readers \cup {NoReader}
      /\ pipe # "route"
  OBVIOUS
<1> HIDE DEF Init
<1> QED
  BY <1>1, <1>2, <1>3, <1>4, <1>5, <1>6, <1>7 DEF TypeInv

LEMMA RoutedTyped ==
  ASSUME NEW r \in Readers, NEW n \in Nat, NEW out \in FlowResults
  PROVE  Routed(<<r, n>>, out) \subseteq Items
<1>1. out \in Seq(Aliases)
  BY TaskAssumption
<1> QED
  BY <1>1 DEF Routed, Items

LEMMA TypeInvStep == TypeInv /\ [Next]_vars => TypeInv'
<1> SUFFICES ASSUME TypeInv, [Next]_vars PROVE TypeInv'
  OBVIOUS
<1> USE DEF TypeInv, States, ReaderPcs, WriterPcs, PipePcs
<1>1. CASE Run
  <2>1. CASE RunInit
    BY <2>1 DEF RunInit
  <2>2. CASE RunInitFails
    BY <2>2 DEF RunInitFails
  <2>3. CASE RunInitOk
    BY <2>3 DEF RunInitOk
  <2>4. CASE LaunchPipeline
    BY <2>4 DEF LaunchPipeline
  <2>5. CASE RunSetsState
    BY <2>5 DEF RunSetsState
  <2> QED
    BY <1>1, <2>1, <2>2, <2>3, <2>4, <2>5 DEF Run
<1>2. ASSUME NEW w \in Writers, LaunchWriter(w) PROVE TypeInv'
  <2>1. DOMAIN chanOf' = Writers
    BY <1>2 DEF LaunchWriter
  <2>2. wpc' \in [Writers -> WriterPcs]
    BY <1>2 DEF LaunchWriter
  <2> QED
    BY <1>2, <2>1, <2>2 DEF LaunchWriter
<1>3. ASSUME NEW r \in Readers, LaunchReader(r) PROVE TypeInv'
  BY <1>3 DEF LaunchReader
<1>4. ASSUME NEW r \in Readers, Reader(r) PROVE TypeInv'
  <2>1. CASE ReaderBegin(r)
    BY <2>1 DEF ReaderBegin
  <2>2. CASE ReaderEmit(r)
    BY <2>2 DEF ReaderEmit
  <2>3. CASE ReaderReturn(r)
    BY <2>3 DEF ReaderReturn
  <2>4. CASE ReaderFail(r)
    BY <2>4 DEF ReaderFail
  <2>5. CASE ReaderReport(r)
    BY <2>5 DEF ReaderReport
  <2>6. CASE ReaderWGDone(r)
    BY <2>6 DEF ReaderWGDone
  <2>7. CASE ReaderLoad(r)
    BY <2>7 DEF ReaderLoad
  <2>8. CASE ReaderStore(r)
    BY <2>8 DEF ReaderStore
  <2>9. CASE ReaderCheck(r)
    <3>1. rpc' \in [Readers -> ReaderPcs] /\ ReadDone' \in BOOLEAN
      BY <2>9 DEF ReaderCheck
    <3> QED
      BY <2>9, <3>1 DEF ReaderCheck
  <2>10. CASE ReaderPanic(r)
    BY <2>10 DEF ReaderPanic
  <2> QED
    BY <1>4, <2>1, <2>2, <2>3, <2>4, <2>5, <2>6, <2>7, <2>8, <2>9, <2>10 DEF Reader
<1>5. ASSUME NEW w \in Writers, Writer(w) PROVE TypeInv'
  <2>1. CASE WriterOk(w)
    BY <2>1 DEF WriterOk
  <2>2. CASE WriterFails(w)
    BY <2>2 DEF WriterFails
  <2>3. CASE WriterWGDone(w)
    BY <2>3 DEF WriterWGDone
  <2>4. CASE WriterLoad(w)
    BY <2>4 DEF WriterLoad
  <2>5. CASE WriterStore(w)
    BY <2>5 DEF WriterStore
  <2>6. CASE WriterCheck(w)
    <3>1. WriteDone' \in BOOLEAN
      BY <2>6 DEF WriterCheck
    <3> QED
      BY <2>6, <3>1 DEF WriterCheck
  <2> QED
    BY <1>5, <2>1, <2>2, <2>3, <2>4, <2>5, <2>6 DEF Writer
<1>6. CASE Pipeline
  <2>1. ASSUME NEW r \in Readers, PipeTakeDoc(r) PROVE TypeInv'
    <3>1. PICK out \in FlowResults :
            /\ doc' = <<r, emitted[r]>> /\ ops' = out /\ next' = 1
            /\ pipe' = IF out = <<>> THEN "select" ELSE "route"
            /\ owed' = owed \cup Routed(<<r, emitted[r]>>, out)
      BY <2>1 DEF PipeTakeDoc
    <3>2. out \in Seq(Aliases)
      BY TaskAssumption
    <3>3. Routed(<<r, emitted[r]>>, out) \subseteq Items
      BY RoutedTyped
    <3>4. owed' \subseteq Items
      BY <3>1, <3>3
    <3>5. out # <<>> => Len(out) >= 1
      BY <3>2
    <3>6. pipe' = "route" => doc'[1] \in Readers /\ next' \in 1..Len(ops')
      BY <3>1, <3>2, <3>5
    <3>7. doc' \in (Readers \cup {NoReader}) \X Nat
      BY <3>1
    <3>8. ops' \in Seq(Aliases) /\ next' \in Nat /\ pipe' \in PipePcs
      BY <3>1, <3>2
    <3>9. rpc' \in [Readers -> ReaderPcs] /\ FullReadCount' \in Nat
      BY <2>1 DEF PipeTakeDoc
    <3>10. UNCHANGED <<State, taskWG, flagVars, FailedPipeLineCount,
                 FailedDeliveryCount, run, recorder, user, readerExitF,
                 readTmp, emitted, ReadDone, ReadDoneCount, writerVars,
                 cmdLeft, ctlVars, got>>
      BY <2>1 DEF PipeTakeDoc
    <3> QED
      BY <3>4, <3>6, <3>7, <3>8, <3>9, <3>10
  <2>2. ASSUME NEW r \in Readers, PipeFlowFails(r) PROVE TypeInv'
    BY <2>2 DEF PipeFlowFails
  <2>3. ASSUME NEW r \in Readers, PipeTakeDone(r) PROVE TypeInv'
    BY <2>3 DEF PipeTakeDone
  <2>4. ASSUME NEW w \in Writers, PipeSend(w) PROVE TypeInv'
    <3>1. Item(next) \in Items
      BY <2>4 DEF PipeSend, Item, Items
    <3>2. got' \in [Writers -> SUBSET Items]
      BY <2>4, <3>1 DEF PipeSend
    <3>3. pipe' = "route" => doc'[1] \in Readers /\ next' \in 1..Len(ops')
      BY <2>4 DEF PipeSend
    <3> QED
      BY <2>4, <3>2, <3>3 DEF PipeSend
  <2>5. ASSUME NEW w \in Writers, PipeSendDone(w) PROVE TypeInv'
    BY <2>5 DEF PipeSendDone
  <2>6. CASE PipeReport
    BY <2>6 DEF PipeReport
  <2>7. CASE PipeSkip
    BY <2>7 DEF PipeSkip
  <2>8. CASE PipeRange
    BY <2>8 DEF PipeRange
  <2>9. CASE PipeEnd
    BY <2>9 DEF PipeEnd
  <2> QED
    BY <1>6, <2>1, <2>2, <2>3, <2>4, <2>5, <2>6, <2>7, <2>8, <2>9 DEF Pipeline
<1>7. CASE Control
  <2>1. CASE ControlTick
    BY <2>1 DEF ControlTick
  <2>2. ASSUME NEW r \in Readers, ControlStopReader(r) PROVE TypeInv'
    BY <2>2 DEF ControlStopReader
  <2>3. CASE ControlReaderStopped
    BY <2>3 DEF ControlReaderStopped
  <2>4. CASE ControlSourcesStopped
    BY <2>4 DEF ControlSourcesStopped
  <2>5. CASE ControlAgain
    BY <2>5 DEF ControlAgain
  <2>6. CASE ControlRelease
    BY <2>6 DEF ControlRelease
  <2>7. CASE ControlEnd
    BY <2>7 DEF ControlEnd
  <2> QED
    BY <1>7, <2>1, <2>2, <2>3, <2>4, <2>5, <2>6, <2>7 DEF Control
<1>8. CASE RecorderEnd
  BY <1>8 DEF RecorderEnd
<1>9. CASE User
  <2>1. CASE UserStop
    BY <2>1 DEF UserStop
  <2>2. CASE UserStopped
    BY <2>2 DEF UserStopped
  <2> QED
    BY <1>9, <2>1, <2>2 DEF User
<1>10. CASE UNCHANGED vars
  BY <1>10 DEF vars
<1> QED
  BY <1>1, <1>2, <1>3, <1>4, <1>5, <1>6, <1>7, <1>8, <1>9, <1>10 DEF Next, Launch

-----------------------------------------------------------------------------
(* The steps that touch the goroutines' places, the wait group or the done
   counters, and a frame for all others. *)

countCore == <<rpc, wpc, taskWG, readTmp, ReadDone, ReadDoneCount, writeTmp,
               WriteDone, WriteDoneCount>>

LEMMA CountFrame ==
  ASSUME \/ Run \/ Control \/ RecorderEnd \/ User \/ UNCHANGED vars
         \/ PipeReport \/ PipeSkip \/ PipeRange \/ PipeEnd
  PROVE  UNCHANGED countCore
<1> USE DEF countCore
<1>1. CASE Run
  BY <1>1 DEF Run, RunInit, RunInitFails, RunInitOk, LaunchPipeline, RunSetsState
<1>2. CASE Control
  BY <1>2 DEF Control, ControlTick, ControlStopReader, ControlReaderStopped,
              ControlSourcesStopped, ControlAgain, ControlRelease, ControlEnd
<1>3. CASE RecorderEnd \/ User \/ UNCHANGED vars
  BY <1>3 DEF RecorderEnd, User, UserStop, UserStopped, vars
<1>4. CASE PipeReport \/ PipeSkip \/ PipeRange \/ PipeEnd
  BY <1>4 DEF PipeReport, PipeSkip, PipeRange, PipeEnd
<1> QED
  BY <1>1, <1>2, <1>3, <1>4

LEMMA CountCases ==
  ASSUME [Next]_vars
  PROVE  \/ UNCHANGED countCore
         \/ \E r \in Readers :
              \/ LaunchReader(r) \/ Reader(r)
              \/ PipeTakeDoc(r) \/ PipeFlowFails(r) \/ PipeTakeDone(r)
         \/ \E w \in Writers :
              LaunchWriter(w) \/ Writer(w) \/ PipeSend(w) \/ PipeSendDone(w)
BY CountFrame DEF Next, Launch, Pipeline

LEMMA HoldingFinite ==
  /\ IsFiniteSet(HoldingReaders) /\ Cardinality(HoldingReaders) \in Nat
  /\ IsFiniteSet(HoldingWriters) /\ Cardinality(HoldingWriters) \in Nat
  /\ IsFiniteSet(CountedReaders) /\ Cardinality(CountedReaders) \in Nat
  /\ IsFiniteSet(CountedWriters) /\ Cardinality(CountedWriters) \in Nat
<1>1. /\ HoldingReaders \in SUBSET Readers /\ CountedReaders \in SUBSET Readers
      /\ HoldingWriters \in SUBSET Writers /\ CountedWriters \in SUBSET Writers
  BY DEF HoldingReaders, CountedReaders, HoldingWriters, CountedWriters
<1>2. \A S \in SUBSET Readers : IsFiniteSet(S)
  BY TaskAssumption, FS_Subset
<1>3. \A S \in SUBSET Writers : IsFiniteSet(S)
  BY TaskAssumption, FS_Subset
<1> QED
  BY <1>1, <1>2, <1>3, FS_CardinalityType

-----------------------------------------------------------------------------
(* taskWG counts the goroutines that have not called Done. *)

LEMMA WGInit == Init => WGInv
<1> SUFFICES ASSUME Init PROVE WGInv
  OBVIOUS
<1>1. HoldingReaders = {} /\ HoldingWriters = {}
  BY DEF Init, HoldingReaders, HoldingWriters, ReaderHolds, WriterHolds,
         ReaderLive, WriterLive
<1> QED
  BY <1>1, FS_EmptySet DEF Init, WGInv

LEMMA WGStep == TypeInv /\ WGInv /\ [Next]_vars => WGInv'
<1> SUFFICES ASSUME TypeInv, WGInv, [Next]_vars PROVE WGInv'
  OBVIOUS
<1> USE DEF HoldingReaders, HoldingWriters, ReaderHolds, WriterHolds,
            ReaderLive, WriterLive
<1>0. rpc \in [Readers -> ReaderPcs] /\ wpc \in [Writers -> WriterPcs] /\ taskWG \in Int
  BY DEF TypeInv
<1>1. ASSUME HoldingReaders' = HoldingReaders, HoldingWriters' = HoldingWriters,
             taskWG' = taskWG
      PROVE  WGInv'
  BY <1>1 DEF WGInv
<1>2. CASE UNCHANGED countCore
  BY <1>1, <1>2 DEF countCore
<1>3. ASSUME NEW r \in Readers, LaunchReader(r) PROVE WGInv'
  <2>1. /\ HoldingReaders' = HoldingReaders \cup {r} /\ r \notin HoldingReaders
        /\ HoldingWriters' = HoldingWriters /\ taskWG' = taskWG + 1
    BY <1>0, <1>3 DEF LaunchReader
  <2> HIDE DEF HoldingReaders, HoldingWriters
  <2>2. Cardinality(HoldingReaders \cup {r}) = Cardinality(HoldingReaders) + 1
    BY <2>1, HoldingFinite, FS_AddElement
  <2> QED
    BY <2>1, <2>2, HoldingFinite, <1>0 DEF WGInv
<1>4. ASSUME NEW w \in Writers, LaunchWriter(w) PROVE WGInv'
  <2>1. /\ HoldingWriters' = HoldingWriters \cup {w} /\ w \notin HoldingWriters
        /\ HoldingReaders' = HoldingReaders /\ taskWG' = taskWG + 1
    BY <1>0, <1>4 DEF LaunchWriter
  <2> HIDE DEF HoldingReaders, HoldingWriters
  <2>2. Cardinality(HoldingWriters \cup {w}) = Cardinality(HoldingWriters) + 1
    BY <2>1, HoldingFinite, FS_AddElement
  <2> QED
    BY <2>1, <2>2, HoldingFinite, <1>0 DEF WGInv
<1>5. ASSUME NEW r \in Readers, Reader(r) PROVE WGInv'
  <2>1. CASE ReaderWGDone(r)
    <3>1. /\ HoldingReaders' = HoldingReaders \ {r} /\ r \in HoldingReaders
          /\ HoldingWriters' = HoldingWriters /\ taskWG' = taskWG - 1
      BY <1>0, <2>1 DEF ReaderWGDone
    <3> HIDE DEF HoldingReaders, HoldingWriters
    <3>2. Cardinality(HoldingReaders \ {r}) = Cardinality(HoldingReaders) - 1
      BY <3>1, HoldingFinite, FS_RemoveElement
    <3> QED
      BY <3>1, <3>2, HoldingFinite, <1>0 DEF WGInv
  <2>2. CASE ReaderBegin(r) \/ ReaderEmit(r) \/ ReaderReturn(r) \/ ReaderFail(r) \/ ReaderReport(r)
    BY <1>0, <1>1, <2>2 DEF ReaderBegin, ReaderEmit, ReaderReturn, ReaderFail, ReaderReport
  <2>3. CASE ReaderLoad(r) \/ ReaderStore(r) \/ ReaderCheck(r) \/ ReaderPanic(r)
    BY <1>0, <1>1, <2>3 DEF ReaderLoad, ReaderStore, ReaderCheck, ReaderPanic
  <2> QED
    BY <1>5, <2>1, <2>2, <2>3 DEF Reader
<1>6. ASSUME NEW w \in Writers, Writer(w) PROVE WGInv'
  <2>1. CASE WriterWGDone(w)
    <3>1. /\ HoldingWriters' = HoldingWriters \ {w} /\ w \in HoldingWriters
          /\ HoldingReaders' = HoldingReaders /\ taskWG' = taskWG - 1
      BY <1>0, <2>1 DEF WriterWGDone
    <3> HIDE DEF HoldingReaders, HoldingWriters
    <3>2. Cardinality(HoldingWriters \ {w}) = Cardinality(HoldingWriters) - 1
      BY <3>1, HoldingFinite, FS_RemoveElement
    <3> QED
      BY <3>1, <3>2, HoldingFinite, <1>0 DEF WGInv
  <2>2. CASE WriterOk(w) \/ WriterFails(w)
    BY <1>0, <1>1, <2>2 DEF WriterOk, WriterFails
  <2>3. CASE WriterLoad(w) \/ WriterStore(w) \/ WriterCheck(w)
    BY <1>0, <1>1, <2>3 DEF WriterLoad, WriterStore, WriterCheck
  <2> QED
    BY <1>6, <2>1, <2>2, <2>3 DEF Writer
<1>7. ASSUME NEW r \in Readers, PipeTakeDoc(r) \/ PipeFlowFails(r) \/ PipeTakeDone(r)
      PROVE  WGInv'
  BY <1>0, <1>1, <1>7 DEF PipeTakeDoc, PipeFlowFails, PipeTakeDone
<1>8. ASSUME NEW w \in Writers, PipeSend(w) \/ PipeSendDone(w) PROVE WGInv'
  BY <1>0, <1>1, <1>8 DEF PipeSend, PipeSendDone
<1> QED
  BY <1>2, <1>3, <1>4, <1>5, <1>6, <1>7, <1>8, CountCases

-----------------------------------------------------------------------------
(* The unlocked counters never run ahead of the stored increments. *)

LEMMA CountInit == Init => ReadCountInv /\ WriteCountInv /\ ReleaseInv
BY HoldingFinite DEF Init, ReadCountInv, WriteCountInv, ReleaseInv

(* Only a stored increment adds to the counted sources. *)
LEMMA ReadCountKept ==
  ASSUME TypeInv, ReadCountInv,
         CountedReaders' = CountedReaders, ReadDoneCount' = ReadDoneCount,
         ReadDone' = ReadDone, readTmp' = readTmp,
         \A x \in Readers :
           rpc'[x] \in {"store", "check", "sendDone"} => rpc'[x] = rpc[x]
  PROVE  ReadCountInv'
BY DEF ReadCountInv

LEMMA ReadCountStep == TypeInv /\ ReadCountInv /\ ReleaseInv /\ [Next]_vars => ReadCountInv'
<1> SUFFICES ASSUME TypeInv, ReadCountInv, ReleaseInv, [Next]_vars
             PROVE  ReadCountInv'
  OBVIOUS
<1>0. /\ rpc \in [Readers -> ReaderPcs] /\ readTmp \in [Readers -> Nat]
      /\ ReadDoneCount \in Nat /\ ReadDone \in BOOLEAN
      /\ Cardinality(CountedReaders) \in Nat
  BY HoldingFinite DEF TypeInv
<1>1. CASE UNCHANGED countCore
  <2>1. CountedReaders' = CountedReaders
    BY <1>1 DEF countCore, CountedReaders, ReaderCounted
  <2> QED
    BY <1>1, <2>1, ReadCountKept DEF countCore
<1>2. ASSUME NEW r \in Readers, LaunchReader(r) PROVE ReadCountInv'
  <2>1. CountedReaders' = CountedReaders
    BY <1>0, <1>2 DEF LaunchReader, CountedReaders, ReaderCounted
  <2> QED
    BY <1>0, <1>2, <2>1, ReadCountKept DEF LaunchReader
<1>3. ASSUME NEW w \in Writers,
             LaunchWriter(w) \/ Writer(w) \/ PipeSend(w) \/ PipeSendDone(w)
      PROVE  ReadCountInv'
  <2>1. UNCHANGED <<rpc, readTmp, ReadDone, ReadDoneCount>>
    BY <1>3 DEF LaunchWriter, PipeSend, PipeSendDone, Writer, WriterOk,
                WriterFails, WriterWGDone, WriterLoad, WriterStore, WriterCheck
  <2>2. CountedReaders' = CountedReaders
    BY <2>1 DEF CountedReaders, ReaderCounted
  <2> QED
    BY <2>1, <2>2, ReadCountKept
<1>4. ASSUME NEW r \in Readers, PipeTakeDoc(r) \/ PipeFlowFails(r) \/ PipeTakeDone(r)
      PROVE  ReadCountInv'
  <2>1. /\ UNCHANGED <<readTmp, ReadDone, ReadDoneCount>>
        /\ \/ rpc' = [rpc EXCEPT ![r] = "run"] /\ rpc[r] = "send"
           \/ rpc' = [rpc EXCEPT ![r] = "end"] /\ rpc[r] = "sendDone"
    BY <1>4 DEF PipeTakeDoc, PipeFlowFails, PipeTakeDone
  <2>2. CountedReaders' = CountedReaders
    BY <1>0, <2>1 DEF CountedReaders, ReaderCounted
  <2> QED
    BY <1>0, <2>1, <2>2, ReadCountKept
<1>5. ASSUME NEW r \in Readers, Reader(r) PROVE ReadCountInv'
  <2>1. CASE \/ ReaderBegin(r) \/ ReaderEmit(r) \/ ReaderReturn(r) \/ ReaderFail(r)
             \/ ReaderReport(r) \/ ReaderWGDone(r) \/ ReaderPanic(r)
    <3>1. /\ UNCHANGED <<readTmp, ReadDone, ReadDoneCount>>
          /\ \/ \E pc \in {"run", "send", "report", "wgDone", "load"} :
                  rpc' = [rpc EXCEPT ![r] = pc] /\ ~ReaderCounted(r)
             \/ rpc' = [rpc EXCEPT ![r] = "end"] /\ rpc[r] = "sendDone"
      BY <2>1 DEF ReaderBegin, ReaderEmit, ReaderReturn, ReaderFail,
                  ReaderReport, ReaderWGDone, ReaderPanic, ReaderCounted
    <3>2. CountedReaders' = CountedReaders
      BY <1>0, <3>1 DEF CountedReaders, ReaderCounted
    <3> QED
      BY <1>0, <3>1, <3>2, ReadCountKept
  <2>2. CASE ReaderLoad(r)
    <3>1. CountedReaders' = CountedReaders
      BY <1>0, <2>2 DEF ReaderLoad, CountedReaders, ReaderCounted
    <3> QED
      BY <1>0, <2>2, <3>1 DEF ReaderLoad, ReadCountInv
  <2>3. CASE ReaderStore(r)
    <3>1. /\ CountedReaders' = CountedReaders \cup {r}
          /\ r \notin CountedReaders /\ readTmp[r] <= Cardinality(CountedReaders)
      BY <1>0, <2>3 DEF ReaderStore, CountedReaders, ReaderCounted, ReadCountInv
    <3>2. Cardinality(CountedReaders') = Cardinality(CountedReaders) + 1
      BY <3>1, HoldingFinite, FS_AddElement
    <3>3. ~ReadDone
      BY <3>1 DEF ReadCountInv
    <3> QED
      BY <1>0, <2>3, <3>1, <3>2, <3>3 DEF ReaderStore, ReadCountInv
  <2>4. CASE ReaderCheck(r)
    <3>1. /\ CountedReaders' = CountedReaders
          /\ UNCHANGED <<readTmp, ReadDoneCount>>
      BY <1>0, <2>4 DEF ReaderCheck, CountedReaders, ReaderCounted
    <3>2. PICK seen \in {readTmp[r] + 1, ReadDoneCount} :
            IF seen = Len0(Readers)
            THEN rpc' = [rpc EXCEPT ![r] = "sendDone"] /\ ReadDone' = TRUE
            ELSE rpc' = [rpc EXCEPT ![r] = "end"] /\ UNCHANGED ReadDone
      BY <2>4 DEF ReaderCheck
    <3>3. CASE seen # Len0(Readers)
      BY <1>0, <3>1, <3>2, <3>3 DEF ReadCountInv
    <3>4. CASE seen = Len0(Readers)
      <4>1. CountedReaders = Readers
        <5>1. CASE released
          BY <5>1 DEF ReleaseInv, ReadCountInv
        <5>2. CASE ~released
          <6>1. Cardinality(Readers) <= Cardinality(CountedReaders)
            BY <1>0, <2>4, <3>2, <3>4, <5>2 DEF Len0, ReaderCheck, ReadCountInv
          <6>2. CountedReaders \in SUBSET Readers
            BY DEF CountedReaders
          <6>3. /\ Cardinality(CountedReaders) <= Cardinality(Readers)
                /\ Cardinality(Readers) = Cardinality(CountedReaders) => Readers = CountedReaders
            BY <6>2, FS_Subset, TaskAssumption
          <6>4. Cardinality(Readers) \in Nat
            BY FS_CardinalityType, TaskAssumption
          <6> QED
            BY <1>0, <6>1, <6>3, <6>4
        <5> QED
          BY <5>1, <5>2
      <4> QED
        BY <1>0, <3>1, <3>2, <3>4, <4>1 DEF ReadCountInv
    <3> QED
      BY <3>3, <3>4
  <2> QED
    BY <1>5, <2>1, <2>2, <2>3, <2>4 DEF Reader
<1> QED
  BY <1>1, <1>2, <1>3, <1>4, <1>5, CountCases

LEMMA WriteCountKept ==
  ASSUME TypeInv, WriteCountInv,
         CountedWriters' = CountedWriters, WriteDoneCount' = WriteDoneCount,
         WriteDone' = WriteDone, writeTmp' = writeTmp,
         \A x \in Writers : wpc'[x] \in {"store", "check"} => wpc'[x] = wpc[x]
  PROVE  WriteCountInv'
BY DEF WriteCountInv

LEMMA WriteCountStep == TypeInv /\ WriteCountInv /\ ReleaseInv /\ [Next]_vars => WriteCountInv'
<1> SUFFICES ASSUME TypeInv, WriteCountInv, ReleaseInv, [Next]_vars
             PROVE  WriteCountInv'
  OBVIOUS
<1>0. /\ wpc \in [Writers -> WriterPcs] /\ writeTmp \in [Writers -> Nat]
      /\ WriteDoneCount \in Nat /\ WriteDone \in BOOLEAN
      /\ Cardinality(CountedWriters) \in Nat
  BY HoldingFinite DEF TypeInv
<1>1. CASE UNCHANGED countCore
  <2>1. CountedWriters' = CountedWriters
    BY <1>1 DEF countCore, CountedWriters, WriterCounted
  <2> QED
    BY <1>1, <2>1, WriteCountKept DEF countCore
<1>2. ASSUME NEW r \in Readers,
             \/ LaunchReader(r) \/ Reader(r)
             \/ PipeTakeDoc(r) \/ PipeFlowFails(r) \/ PipeTakeDone(r)
      PROVE  WriteCountInv'
  <2>1. UNCHANGED <<wpc, writeTmp, WriteDone, WriteDoneCount>>
    <3>1. CASE LaunchReader(r) \/ PipeTakeDoc(r) \/ PipeFlowFails(r) \/ PipeTakeDone(r)
      BY <3>1 DEF LaunchReader, PipeTakeDoc, PipeFlowFails, PipeTakeDone
    <3>2. CASE Reader(r)
      BY <3>2 DEF Reader, ReaderBegin, ReaderEmit, ReaderReturn, ReaderFail,
                  ReaderReport, ReaderWGDone, ReaderLoad, ReaderStore,
                  ReaderCheck, ReaderPanic
    <3> QED
      BY <1>2, <3>1, <3>2
  <2>2. CountedWriters' = CountedWriters
    BY <2>1 DEF CountedWriters, WriterCounted
  <2> QED
    BY <2>1, <2>2, WriteCountKept
<1>3. ASSUME NEW w \in Writers,
             \/ LaunchWriter(w) \/ PipeSend(w) \/ PipeSendDone(w)
             \/ WriterOk(w) \/ WriterFails(w) \/ WriterWGDone(w)
      PROVE  WriteCountInv'
  <2>1. /\ UNCHANGED <<writeTmp, WriteDone, WriteDoneCount>>
        /\ ~WriterCounted(w)
        /\ \E pc \in {"recv", "write", "wgDone", "load"} : wpc' = [wpc EXCEPT ![w] = pc]
    BY <1>3 DEF LaunchWriter, PipeSend, PipeSendDone, WriterOk, WriterFails,
                WriterWGDone, WriterCounted
  <2>2. CountedWriters' = CountedWriters
    BY <1>0, <2>1 DEF CountedWriters, WriterCounted
  <2> QED
    BY <1>0, <2>1, <2>2, WriteCountKept
<1>4. ASSUME NEW w \in Writers, WriterLoad(w) PROVE WriteCountInv'
  <2>1. CountedWriters' = CountedWriters
    BY <1>0, <1>4 DEF WriterLoad, CountedWriters, WriterCounted
  <2> QED
    BY <1>0, <1>4, <2>1 DEF WriterLoad, WriteCountInv
<1>5. ASSUME NEW w \in Writers, WriterStore(w) PROVE WriteCountInv'
  <2>1. /\ CountedWriters' = CountedWriters \cup {w}
        /\ w \notin CountedWriters /\ writeTmp[w] <= Cardinality(CountedWriters)
    BY <1>0, <1>5 DEF WriterStore, CountedWriters, WriterCounted, WriteCountInv
  <2>2. Cardinality(CountedWriters') = Cardinality(CountedWriters) + 1
    BY <2>1, HoldingFinite, FS_AddElement
  <2>3. ~WriteDone
    BY <2>1 DEF WriteCountInv
  <2> QED
    BY <1>0, <1>5, <2>1, <2>2, <2>3 DEF WriterStore, WriteCountInv
<1>6. ASSUME NEW w \in Writers, WriterCheck(w) PROVE WriteCountInv'
  <2>1. /\ CountedWriters' = CountedWriters \cup {w} /\ w \in CountedWriters
        /\ UNCHANGED <<writeTmp, WriteDoneCount>>
        /\ wpc' = [wpc EXCEPT ![w] = "end"]
    BY <1>0, <1>6 DEF WriterCheck, CountedWriters, WriterCounted
  <2>2. CountedWriters' = CountedWriters
    BY <2>1
  <2>3. PICK seen \in {writeTmp[w] + 1, WriteDoneCount} :
          WriteDone' = (WriteDone \/ seen = Len0(Writers))
    BY <1>6 DEF WriterCheck
  <2>4. CASE seen # Len0(Writers)
    <3>1. WriteDone' = WriteDone
      BY <1>0, <2>3, <2>4
    <3> QED
      BY <1>0, <2>1, <2>2, <3>1, WriteCountKept
  <2>5. CASE seen = Len0(Writers)
    <3>1. CountedWriters = Writers
      <4>1. CASE released
        BY <4>1 DEF ReleaseInv, WriteCountInv
      <4>2. CASE ~released
        <5>1. Cardinality(Writers) <= Cardinality(CountedWriters)
          BY <1>0, <1>6, <2>3, <2>5, <4>2 DEF Len0, WriterCheck, WriteCountInv
        <5>2. CountedWriters \in SUBSET Writers
          BY DEF CountedWriters
        <5>3. /\ Cardinality(CountedWriters) <= Cardinality(Writers)
              /\ Cardinality(Writers) = Cardinality(CountedWriters) => Writers = CountedWriters
          BY <5>2, FS_Subset, TaskAssumption
        <5>4. Cardinality(Writers) \in Nat
          BY FS_CardinalityType, TaskAssumption
        <5> QED
          BY <1>0, <5>1, <5>3, <5>4
      <4> QED
        BY <4>1, <4>2
    <3> QED
      BY <1>0, <2>1, <2>2, <3>1 DEF WriteCountInv
  <2> QED
    BY <2>4, <2>5
<1> QED
  BY <1>1, <1>2, <1>3, <1>4, <1>5, <1>6, CountCases DEF Writer

(* Both flags stay set, and Release finds both set. *)
LEMMA ReleaseStep == TypeInv /\ ReleaseInv /\ [Next]_vars => ReleaseInv'
<1> SUFFICES ASSUME TypeInv, ReleaseInv, [Next]_vars PROVE ReleaseInv'
  OBVIOUS
<1>0. ReadDone \in BOOLEAN /\ WriteDone \in BOOLEAN
  BY DEF TypeInv
<1>1. CASE ControlRelease
  BY <1>1 DEF ControlRelease, ReleaseInv
<1>2. ASSUME NEW r \in Readers, ReaderCheck(r) PROVE ReleaseInv'
  BY <1>0, <1>2 DEF ReaderCheck, ReleaseInv
<1>3. ASSUME NEW w \in Writers, WriterCheck(w) PROVE ReleaseInv'
  BY <1>0, <1>3 DEF WriterCheck, ReleaseInv
<1>4. ASSUME UNCHANGED <<released, ReadDone, WriteDone>> PROVE ReleaseInv'
  BY <1>4 DEF ReleaseInv
<1>5. CASE Run \/ RecorderEnd \/ User \/ UNCHANGED vars
  BY <1>4, <1>5 DEF Run, RunInit, RunInitFails, RunInitOk, LaunchPipeline,
       RunSetsState, RecorderEnd, User, UserStop, UserStopped, vars
<1>6. CASE Launch
  BY <1>4, <1>6 DEF Launch, LaunchWriter, LaunchReader
<1>7. CASE Pipeline
  BY <1>4, <1>7 DEF Pipeline, PipeTakeDoc, PipeFlowFails, PipeReport, PipeSkip,
       PipeSend, PipeTakeDone, PipeRange, PipeSendDone, PipeEnd
<1>8. CASE Control
  BY <1>1, <1>4, <1>8 DEF Control, ControlTick, ControlStopReader,
       ControlReaderStopped, ControlSourcesStopped, ControlAgain, ControlEnd
<1>9. ASSUME NEW r \in Readers, Reader(r) PROVE ReleaseInv'
  BY <1>2, <1>4, <1>9 DEF Reader, ReaderBegin, ReaderEmit, ReaderReturn,
       ReaderFail, ReaderReport, ReaderWGDone, ReaderLoad, ReaderStore, ReaderPanic
<1>10. ASSUME NEW w \in Writers, Writer(w) PROVE ReleaseInv'
  BY <1>3, <1>4, <1>10 DEF Writer, WriterOk, WriterFails, WriterWGDone,
       WriterLoad, WriterStore
<1> QED
  BY <1>5, <1>6, <1>7, <1>8, <1>9, <1>10 DEF Next

-----------------------------------------------------------------------------
(* What is routed to a target is in the pipeline's hand until it is received. *)

LEMMA HandKept ==
  ASSUME HandInv, owed' = owed, got' = got, ops' = ops, doc' = doc, next' = next,
         pipe = "route" => pipe' = "route"
  PROVE  HandInv'
<1>1. Received' = Received
  BY DEF Received
<1>2. InHand \subseteq InHand'
  BY DEF InHand, Item
<1> QED
  BY <1>1, <1>2 DEF HandInv

LEMMA HandInit == Init => HandInv
BY DEF Init, HandInv

LEMMA HandTakeDoc ==
  ASSUME TypeInv, HandInv, NEW r \in Readers, PipeTakeDoc(r)
  PROVE  HandInv'
<1>1. PICK out \in FlowResults :
        /\ doc' = <<r, emitted[r]>> /\ ops' = out /\ next' = 1
        /\ pipe' = IF out = <<>> THEN "select" ELSE "route"
        /\ owed' = owed \cup Routed(<<r, emitted[r]>>, out)
  BY DEF PipeTakeDoc
<1>2. out \in Seq(Aliases)
  BY TaskAssumption
<1>3. pipe = "select" /\ got' = got
  BY DEF PipeTakeDoc
<1>4. InHand = {} /\ Received' = Received
  BY <1>3 DEF InHand, Received
<1>5. Routed(<<r, emitted[r]>>, out) \subseteq InHand'
  <2>1. CASE out = <<>>
    BY <2>1 DEF Routed
  <2>2. CASE out # <<>>
    <3>1. DOMAIN out = 1..Len(out)
      BY <1>2
    <3>2. InHand' = {<<r, emitted[r], k, out[k]>> : k \in {j \in 1..Len(out) : out[j] \in Mapped}}
      BY <1>1, <2>2 DEF InHand, Item, Mapped
    <3> QED
      BY <3>1, <3>2 DEF Routed
  <2> QED
    BY <2>1, <2>2
<1> QED
  BY <1>1, <1>4, <1>5 DEF HandInv

LEMMA HandSkip ==
  ASSUME TypeInv, HandInv, PipeSkip
  PROVE  HandInv'
<1>1. /\ pipe = "route" /\ ops[next] \notin Mapped /\ next' = next + 1
      /\ pipe' = IF next = Len(ops) THEN "select" ELSE "route"
      /\ ops' = ops /\ doc' = doc /\ owed' = owed /\ got' = got
  BY DEF PipeSkip
<1>2. next \in 1..Len(ops) /\ Len(ops) \in Nat
  BY <1>1 DEF TypeInv
<1>3. ASSUME NEW x \in InHand PROVE x \in InHand'
  <2>1. PICK j \in next..Len(ops) : ops[j] \in Mapped /\ x = Item(j)
    BY <1>1, <1>3 DEF InHand
  <2>2. j # next
    BY <1>1, <2>1
  <2>3. pipe' = "route" /\ j \in (next + 1)..Len(ops)
    BY <1>1, <1>2, <2>1, <2>2
  <2> QED
    BY <1>1, <2>1, <2>3 DEF InHand, Item, Mapped
<1>4. Received' = Received
  BY <1>1 DEF Received
<1> QED
  BY <1>1, <1>3, <1>4 DEF HandInv

LEMMA HandSend ==
  ASSUME TypeInv, HandInv, NEW w \in Writers, PipeSend(w)
  PROVE  HandInv'
<1>1. /\ pipe = "route" /\ next' = next + 1
      /\ pipe' = IF next = Len(ops) THEN "select" ELSE "route"
      /\ ops' = ops /\ doc' = doc /\ owed' = owed
      /\ got' = [got EXCEPT ![w] = @ \cup {Item(next)}]
  BY DEF PipeSend
<1>2. next \in 1..Len(ops) /\ Len(ops) \in Nat /\ got \in [Writers -> SUBSET Items]
  BY <1>1 DEF TypeInv
<1>3. Item(next) \in Received'
  BY <1>1, <1>2 DEF Received
<1>4. Received \subseteq Received'
  <2>1. \A v \in Writers : got[v] \subseteq got'[v]
    BY <1>1, <1>2
  <2> QED
    BY <2>1 DEF Received
<1>5. ASSUME NEW x \in InHand, x # Item(next) PROVE x \in InHand'
  <2>1. PICK j \in next..Len(ops) : ops[j] \in Mapped /\ x = Item(j)
    BY <1>1, <1>5 DEF InHand
  <2>2. j # next
    BY <1>5, <2>1
  <2>3. pipe' = "route" /\ j \in (next + 1)..Len(ops)
    BY <1>1, <1>2, <2>1, <2>2
  <2> QED
    BY <1>1, <2>1, <2>3 DEF InHand, Item, Mapped
<1> QED
  BY <1>1, <1>3, <1>4, <1>5 DEF HandInv

(* Every other step leaves the documents where they are. *)
handVars == <<owed, got, ops, doc, next>>

LEMMA HandCases ==
  ASSUME RunInv, [Next]_vars
  PROVE  \/ UNCHANGED handVars /\ (pipe = "route" => pipe' = "route")
         \/ (\E r \in Readers : PipeTakeDoc(r)) \/ PipeSkip
         \/ \E w \in Writers : PipeSend(w)
<1> USE DEF handVars
<1>1. CASE Run \/ Control
  BY <1>1 DEF RunInv, Run, RunInit, RunInitFails, RunInitOk, LaunchPipeline,
       RunSetsState, Control, ControlTick, ControlStopReader, ControlReaderStopped,
       ControlSourcesStopped, ControlAgain, ControlRelease, ControlEnd
<1>2. CASE RecorderEnd \/ User \/ UNCHANGED vars \/ Launch
  BY <1>2 DEF RecorderEnd, User, UserStop, UserStopped, vars, Launch,
              LaunchReader, LaunchWriter
<1>3. CASE Pipeline
  BY <1>3 DEF Pipeline, PipeFlowFails, PipeReport, PipeTakeDone, PipeRange,
              PipeSendDone, PipeEnd
<1>4. ASSUME NEW r \in Readers, Reader(r)
      PROVE  UNCHANGED handVars /\ pipe' = pipe
  BY <1>4 DEF Reader, ReaderBegin, ReaderEmit, ReaderReturn, ReaderFail,
       ReaderReport, ReaderWGDone, ReaderLoad, ReaderStore, ReaderCheck, ReaderPanic
<1>5. ASSUME NEW w \in Writers, Writer(w)
      PROVE  UNCHANGED handVars /\ pipe' = pipe
  BY <1>5 DEF Writer, WriterOk, WriterFails, WriterWGDone, WriterLoad,
       WriterStore, WriterCheck
<1> QED
  BY <1>1, <1>2, <1>3, <1>4, <1>5 DEF Next

LEMMA HandStep == TypeInv /\ HandInv /\ RunInv /\ [Next]_vars => HandInv'
<1> SUFFICES ASSUME TypeInv, HandInv, RunInv, [Next]_vars PROVE HandInv'
  OBVIOUS
<1>1. CASE UNCHANGED handVars /\ (pipe = "route" => pipe' = "route")
  BY <1>1, HandKept DEF handVars
<1> QED
  BY <1>1, HandTakeDoc, HandSkip, HandSend, HandCases

-----------------------------------------------------------------------------
(* How far Run has come. *)

LEMMA RunInvInit == Init => RunInv
BY DEF Init, RunInv

LEMMA RunInvStep == TypeInv /\ RunInv /\ [Next]_vars => RunInv'
<1> SUFFICES ASSUME TypeInv, RunInv, [Next]_vars PROVE RunInv'
  OBVIOUS
<1>0. rpc \in [Readers -> ReaderPcs] /\ wpc \in [Writers -> WriterPcs]
  BY DEF TypeInv
<1> USE DEF RunInv
<1>1. CASE Run
  <2>1. CASE RunInit
    BY <2>1 DEF RunInit
  <2>2. CASE RunInitFails
    BY <2>2 DEF RunInitFails
  <2>3. CASE RunInitOk
    BY <2>3 DEF RunInitOk
  <2>4. CASE LaunchPipeline
    BY <2>4 DEF LaunchPipeline
  <2>5. CASE RunSetsState
    BY <2>5 DEF RunSetsState
  <2> QED
    BY <1>1, <2>1, <2>2, <2>3, <2>4, <2>5 DEF Run
<1>2. ASSUME NEW w \in Writers, LaunchWriter(w) PROVE RunInv'
  BY <1>0, <1>2 DEF LaunchWriter
<1>3. ASSUME NEW r \in Readers, LaunchReader(r) PROVE RunInv'
  BY <1>0, <1>3 DEF LaunchReader
<1>4. ASSUME NEW r \in Readers, Reader(r) PROVE RunInv'
  <2>1. /\ UNCHANGED <<wpc, run, user, ctl, pipe>> /\ rpc[r] # "null"
        /\ \E pc \in ReaderPcs : rpc' = [rpc EXCEPT ![r] = pc] /\ pc # "null"
        /\ State' \in {State, "TaskStop"}
    <3>1. CASE ReaderBegin(r) \/ ReaderEmit(r) \/ ReaderReturn(r) \/ ReaderFail(r)
      BY <3>1 DEF ReaderBegin, ReaderEmit, ReaderReturn, ReaderFail, ReaderPcs
    <3>2. CASE ReaderReport(r) \/ ReaderWGDone(r) \/ ReaderLoad(r) \/ ReaderStore(r)
      BY <3>2 DEF ReaderReport, ReaderWGDone, ReaderLoad, ReaderStore, ReaderPcs
    <3>3. CASE ReaderCheck(r) \/ ReaderPanic(r)
      BY <3>3 DEF ReaderCheck, ReaderPanic, ReaderPcs
    <3> QED
      BY <1>4, <3>1, <3>2, <3>3 DEF Reader
  <2> QED
    BY <1>0, <2>1
<1>5. ASSUME NEW w \in Writers, Writer(w) \/ PipeSend(w) \/ PipeSendDone(w)
      PROVE  RunInv'
  <2>1. /\ UNCHANGED <<rpc, State, run, user, ctl>> /\ wpc[w] # "null"
        /\ \E pc \in WriterPcs : wpc' = [wpc EXCEPT ![w] = pc] /\ pc # "null"
        /\ pipe = "null" => pipe' = "null"
    <3>1. CASE WriterOk(w) \/ WriterFails(w) \/ WriterWGDone(w) \/ WriterLoad(w)
      BY <3>1 DEF WriterOk, WriterFails, WriterWGDone, WriterLoad, WriterPcs
    <3>2. CASE WriterStore(w) \/ WriterCheck(w)
      BY <3>2 DEF WriterStore, WriterCheck, WriterPcs
    <3>3. CASE PipeSend(w) \/ PipeSendDone(w)
      BY <3>3 DEF PipeSend, PipeSendDone, WriterPcs
    <3> QED
      BY <1>5, <3>1, <3>2, <3>3 DEF Writer
  <2> QED
    BY <1>0, <2>1
<1>6. ASSUME NEW r \in Readers, PipeTakeDoc(r) \/ PipeFlowFails(r) \/ PipeTakeDone(r)
      PROVE  RunInv'
  <2>1. /\ UNCHANGED <<wpc, State, run, user, ctl>> /\ rpc[r] # "null"
        /\ \E pc \in ReaderPcs : rpc' = [rpc EXCEPT ![r] = pc] /\ pc # "null"
        /\ pipe # "null"
    BY <1>6 DEF PipeTakeDoc, PipeFlowFails, PipeTakeDone, ReaderPcs
  <2> QED
    BY <1>0, <2>1
<1>7. CASE PipeReport \/ PipeSkip \/ PipeRange \/ PipeEnd
  BY <1>7 DEF PipeReport, PipeSkip, PipeRange, PipeEnd
<1>8. CASE Control
  BY <1>8 DEF Control, ControlTick, ControlStopReader, ControlReaderStopped,
       ControlSourcesStopped, ControlAgain, ControlRelease, ControlEnd
<1>9. CASE RecorderEnd \/ UNCHANGED vars
  BY <1>9 DEF RecorderEnd, vars
<1>10. CASE User
  BY <1>10 DEF User, UserStop, UserStopped
<1> QED
  BY <1>1, <1>2, <1>3, <1>4, <1>5, <1>6, <1>7, <1>8, <1>9, <1>10
     DEF Next, Launch, Pipeline

-----------------------------------------------------------------------------
(* Nothing follows the ReadDone command. *)

LEMMA CommandInit == Init => CommandInv
BY DEF Init, CommandInv, CommandTaken, WriterTold

LEMMA CommandKept ==
  ASSUME CommandInv, CommandTaken' => CommandTaken, owed' = owed, got' = got,
         ReadDone => ReadDone', pipe' = pipe \/ pipe' \notin {"null", "route", "report"}
  PROVE  CommandInv'
<1>1. Received' = Received
  BY DEF Received
<1> QED
  BY <1>1 DEF CommandInv

LEMMA CommandStep ==
  TypeInv /\ ReadCountInv /\ HandInv /\ CommandInv /\ RunInv /\ [Next]_vars => CommandInv'
<1> SUFFICES ASSUME TypeInv, ReadCountInv, HandInv, CommandInv, RunInv, [Next]_vars
             PROVE  CommandInv'
  OBVIOUS
<1>0. /\ rpc \in [Readers -> ReaderPcs] /\ wpc \in [Writers -> WriterPcs]
      /\ ReadDone \in BOOLEAN
  BY DEF TypeInv
<1>1. CASE Run
  <2>1. CASE LaunchPipeline
    <3>1. ~CommandTaken
      BY <2>1 DEF LaunchPipeline, RunInv, CommandInv
    <3>2. ~CommandTaken'
      BY <2>1, <3>1 DEF LaunchPipeline, CommandTaken, WriterTold
    <3> QED
      BY <3>2 DEF CommandInv
  <2>2. CASE RunInit \/ RunInitFails \/ RunInitOk \/ RunSetsState
    BY <2>2, CommandKept DEF RunInit, RunInitFails, RunInitOk, RunSetsState,
         CommandTaken, WriterTold
  <2> QED
    BY <1>1, <2>1, <2>2 DEF Run
<1>2. CASE Control \/ RecorderEnd \/ User \/ UNCHANGED vars
  <2>1. UNCHANGED <<pipe, wpc, ReadDone, owed, got>>
    BY <1>2 DEF Control, ControlTick, ControlStopReader, ControlReaderStopped,
         ControlSourcesStopped, ControlAgain, ControlRelease, ControlEnd,
         RecorderEnd, User, UserStop, UserStopped, vars
  <2> QED
    BY <2>1, CommandKept DEF CommandTaken, WriterTold
<1>3. ASSUME NEW r \in Readers, LaunchReader(r) \/ Reader(r) PROVE CommandInv'
  <2>1. UNCHANGED <<pipe, wpc, owed, got>> /\ (ReadDone => ReadDone')
    <3>1. CASE LaunchReader(r)
      BY <3>1 DEF LaunchReader
    <3>2. CASE ReaderCheck(r)
      BY <3>2 DEF ReaderCheck
    <3>3. CASE Reader(r) /\ ~ReaderCheck(r)
      BY <3>3 DEF Reader, ReaderBegin, ReaderEmit, ReaderReturn, ReaderFail,
           ReaderReport, ReaderWGDone, ReaderLoad, ReaderStore, ReaderPanic
    <3> QED
      BY <1>3, <3>1, <3>2, <3>3
  <2> QED
    BY <2>1, CommandKept DEF CommandTaken, WriterTold
<1>4. ASSUME NEW w \in Writers, LaunchWriter(w) \/ Writer(w) PROVE CommandInv'
  <2>1. UNCHANGED <<pipe, ReadDone, owed, got>>
    BY <1>4 DEF LaunchWriter, Writer, WriterOk, WriterFails, WriterWGDone,
         WriterLoad, WriterStore, WriterCheck
  <2>2. \E pc \in WriterPcs :
          /\ wpc' = [wpc EXCEPT ![w] = pc]
          /\ pc \in {"recv", "write"} \/ WriterTold(w)
    BY <1>4 DEF LaunchWriter, Writer, WriterOk, WriterFails, WriterWGDone,
         WriterLoad, WriterStore, WriterCheck, WriterTold, WriterPcs
  <2>3. \A v \in Writers : WriterTold(v)' => WriterTold(v)
    BY <1>0, <2>2 DEF WriterTold
  <2> QED
    BY <2>1, <2>3, CommandKept DEF CommandTaken
<1>5. ASSUME NEW r \in Readers, PipeTakeDoc(r) \/ PipeFlowFails(r) PROVE CommandInv'
  <2>1. ~ReadDone
    BY <1>5 DEF PipeTakeDoc, PipeFlowFails, ReadCountInv, CountedReaders, ReaderCounted
  <2>2. ~CommandTaken
    BY <2>1 DEF CommandInv
  <2>3. wpc' = wpc /\ pipe' \in {"select", "route", "report"}
    BY <1>5 DEF PipeTakeDoc, PipeFlowFails
  <2>4. ~CommandTaken'
    BY <2>2, <2>3 DEF CommandTaken, WriterTold
  <2> QED
    BY <2>4 DEF CommandInv
<1>6. CASE PipeReport \/ PipeSkip
  <2>1. ~CommandTaken
    BY <1>6 DEF PipeReport, PipeSkip, CommandInv
  <2>2. wpc' = wpc /\ pipe' \in {"select", "route"}
    BY <1>6 DEF PipeReport, PipeSkip
  <2>3. ~CommandTaken'
    BY <2>1, <2>2 DEF CommandTaken, WriterTold
  <2> QED
    BY <2>3 DEF CommandInv
<1>7. ASSUME NEW w \in Writers, PipeSend(w) PROVE CommandInv'
  <2>1. ~CommandTaken
    BY <1>7 DEF PipeSend, CommandInv
  <2>2. wpc' = [wpc EXCEPT ![w] = "write"] /\ pipe' \in {"select", "route"}
    BY <1>7 DEF PipeSend
  <2>3. ~CommandTaken'
    BY <1>0, <2>1, <2>2 DEF CommandTaken, WriterTold
  <2> QED
    BY <2>3 DEF CommandInv
<1>8. ASSUME NEW r \in Readers, PipeTakeDone(r) PROVE CommandInv'
  <2>1. ReadDone' /\ pipe' = "range" /\ owed' = owed /\ got' = got /\ pipe = "select"
    BY <1>8 DEF PipeTakeDone, ReadCountInv
  <2>2. Received' = Received /\ owed \subseteq Received
    BY <2>1 DEF Received, HandInv, InHand
  <2> QED
    BY <2>1, <2>2 DEF CommandInv
<1>9. CASE PipeRange \/ PipeEnd
  <2>1. /\ UNCHANGED <<wpc, ReadDone, owed, got>> /\ pipe' \in {"select", "done", "end"}
        /\ pipe = "range" \/ pipe' = "end"
    BY <1>9 DEF PipeRange, PipeEnd
  <2> QED
    BY <2>1, CommandKept DEF CommandTaken, WriterTold
<1>10. ASSUME NEW w \in Writers, PipeSendDone(w) PROVE CommandInv'
  <2>1. /\ UNCHANGED <<ReadDone, owed, got>> /\ pipe' \in {"select", "done"}
        /\ pipe = "done"
    BY <1>10 DEF PipeSendDone
  <2> QED
    BY <2>1, CommandKept DEF CommandTaken
<1> QED
  BY <1>1, <1>2, <1>3, <1>4, <1>5, <1>6, <1>7, <1>8, <1>9, <1>10
     DEF Next, Launch, Pipeline

-----------------------------------------------------------------------------
(* What Stop has waited for. *)

LEMMA StopInit == Init => StopIsComplete
BY DEF Init, StopIsComplete

(* With the wait group at zero no goroutine is inside Run any more. *)
LEMMA WaitReturns ==
  ASSUME TypeInv, WGInv, taskWG = 0
  PROVE  /\ \A r \in Readers : ~ReaderLive(r)
         /\ \A w \in Writers : ~WriterLive(w)
<1>1. Cardinality(HoldingReaders) = 0 /\ Cardinality(HoldingWriters) = 0
  BY HoldingFinite DEF WGInv
<1>2. HoldingReaders = {} /\ HoldingWriters = {}
  BY <1>1, HoldingFinite, FS_EmptySet
<1> QED
  BY <1>2 DEF HoldingReaders, HoldingWriters, ReaderHolds, WriterHolds

(* A finished launch is not begun again, and no goroutine enters Run twice. *)
LEMMA StopStep ==
  /\ TypeInv /\ WGInv /\ ReadCountInv /\ CommandInv /\ RunInv /\ StopIsComplete
  /\ [Next]_vars
  => StopIsComplete'
<1> SUFFICES ASSUME TypeInv, WGInv, ReadCountInv, CommandInv, RunInv,
                    StopIsComplete, [Next]_vars
             PROVE  StopIsComplete'
  OBVIOUS
<1>0. rpc \in [Readers -> ReaderPcs] /\ wpc \in [Writers -> WriterPcs]
  BY DEF TypeInv
<1> USE DEF StopIsComplete
<1>1. CASE UserStopped
  <2>1. /\ \A r \in Readers : ~ReaderLive(r)
        /\ \A w \in Writers : ~WriterLive(w)
    BY <1>1, WaitReturns DEF UserStopped
  <2>2. run # "launch"
    <3>1. SUFFICES ASSUME run = "launch" PROVE FALSE
      OBVIOUS
    <3>2. \A w \in Writers : wpc[w] # "null"
      BY <1>1, <3>1 DEF RunInv, UserStopped
    <3>3. \A w \in Writers : WriterTold(w)
      BY <1>0, <2>1, <3>2 DEF WriterTold, WriterLive, WriterPcs
    <3>4. CommandTaken
      BY <3>3, TaskAssumption DEF CommandTaken
    <3> QED
      BY <3>1, <3>4 DEF CommandInv, RunInv
  <2>3. UNCHANGED <<rpc, wpc, run>>
    BY <1>1 DEF UserStopped
  <2> QED
    BY <2>1, <2>2, <2>3 DEF ReaderLive, WriterLive
<1>2. ASSUME user = "stopped", user' = user, run # "launch" => run' # "launch",
             \A r \in Readers : ReaderLive(r)' => ReaderLive(r),
             \A w \in Writers : WriterLive(w)' => WriterLive(w)
      PROVE  StopIsComplete'
  BY <1>2
<1>3. CASE user # "stopped" /\ ~UserStopped
  <2>1. user' # "stopped"
    <3>1. CASE Run \/ Control \/ RecorderEnd \/ UserStop \/ UNCHANGED vars \/ Launch
      BY <1>3, <3>1 DEF Run, RunInit, RunInitFails, RunInitOk, LaunchPipeline,
           RunSetsState, Control, ControlTick, ControlStopReader,
           ControlReaderStopped, ControlSourcesStopped, ControlAgain,
           ControlRelease, ControlEnd, RecorderEnd, UserStop, vars, Launch,
           LaunchReader, LaunchWriter
    <3>2. CASE Pipeline
      BY <1>3, <3>2 DEF Pipeline, PipeTakeDoc, PipeFlowFails, PipeReport,
           PipeSkip, PipeSend, PipeTakeDone, PipeRange, PipeSendDone, PipeEnd
    <3>3. ASSUME NEW r \in Readers, Reader(r) PROVE user' # "stopped"
      BY <1>3, <3>3 DEF Reader, ReaderBegin, ReaderEmit, ReaderReturn, ReaderFail,
           ReaderReport, ReaderWGDone, ReaderLoad, ReaderStore, ReaderCheck,
           ReaderPanic
    <3>4. ASSUME NEW w \in Writers, Writer(w) PROVE user' # "stopped"
      BY <1>3, <3>4 DEF Writer, WriterOk, WriterFails, WriterWGDone, WriterLoad,
           WriterStore, WriterCheck
    <3> QED
      BY <1>3, <3>1, <3>2, <3>3, <3>4 DEF Next, User
  <2> QED
    BY <2>1
<1>4. CASE user = "stopped"
  <2>1. CASE Run
    BY <1>2, <1>4, <2>1 DEF Run, RunInit, RunInitFails, RunInitOk,
         LaunchPipeline, RunSetsState, RunInv, ReaderLive, WriterLive
  <2>2. CASE Control \/ RecorderEnd \/ UNCHANGED vars
    BY <1>2, <1>4, <2>2 DEF Control, ControlTick, ControlStopReader,
         ControlReaderStopped, ControlSourcesStopped, ControlAgain,
         ControlRelease, ControlEnd, RecorderEnd, vars, ReaderLive, WriterLive
  <2>3. CASE Launch \/ User
    BY <1>4, <2>3 DEF Launch, LaunchReader, LaunchWriter, User, UserStop, UserStopped
  <2>4. ASSUME NEW r \in Readers,
               Reader(r) \/ PipeTakeDoc(r) \/ PipeFlowFails(r) \/ PipeTakeDone(r)
        PROVE  StopIsComplete'
    <3>1. ~ReaderLive(r)
      BY <1>4
    <3>2. UNCHANGED <<wpc, user, run>>
      BY <2>4 DEF Reader, ReaderBegin, ReaderEmit, ReaderReturn, ReaderFail,
           ReaderReport, ReaderWGDone, ReaderLoad, ReaderStore, ReaderCheck,
           ReaderPanic, PipeTakeDoc, PipeFlowFails, PipeTakeDone
    <3>3. \E pc \in {"load", "store", "check", "sendDone", "end"} : rpc' = [rpc EXCEPT ![r] = pc]
      BY <2>4, <3>1 DEF ReaderLive, Reader, ReaderBegin, ReaderEmit,
           ReaderReturn, ReaderFail, ReaderReport, ReaderWGDone, ReaderLoad,
           ReaderStore, ReaderCheck, ReaderPanic, PipeTakeDoc, PipeFlowFails,
           PipeTakeDone
    <3> QED
      BY <1>0, <1>2, <1>4, <3>2, <3>3 DEF ReaderLive, WriterLive
  <2>5. ASSUME NEW w \in Writers, Writer(w) \/ PipeSend(w) \/ PipeSendDone(w)
        PROVE  StopIsComplete'
    <3>1. ~WriterLive(w)
      BY <1>4
    <3>2. UNCHANGED <<rpc, user, run>>
      BY <2>5 DEF Writer, WriterOk, WriterFails, WriterWGDone, WriterLoad,
           WriterStore, WriterCheck, PipeSend, PipeSendDone
    <3>3. \E pc \in {"load", "store", "check", "end"} : wpc' = [wpc EXCEPT ![w] = pc]
      BY <2>5, <3>1 DEF WriterLive, Writer, WriterOk, WriterFails, WriterWGDone,
           WriterLoad, WriterStore, WriterCheck, PipeSend, PipeSendDone
    <3> QED
      BY <1>0, <1>2, <1>4, <3>2, <3>3 DEF ReaderLive, WriterLive
  <2>6. CASE PipeReport \/ PipeSkip \/ PipeRange \/ PipeEnd
    BY <1>2, <1>4, <2>6 DEF PipeReport, PipeSkip, PipeRange, PipeEnd,
         ReaderLive, WriterLive
  <2> QED
    BY <2>1, <2>2, <2>3, <2>4, <2>5, <2>6 DEF Next, Pipeline
<1> QED
  BY <1>1, <1>3, <1>4

-----------------------------------------------------------------------------
(* The conjunction of these parts holds in every reachable state of a task,
   with any number of sources and targets: no part is inductive by itself. *)
THEOREM Invariance == Spec => []IInv
<1>1. Init => IInv
  BY TypeInvInit, WGInit, CountInit, HandInit, CommandInit, RunInvInit, StopInit
     DEF IInv
<1>2. IInv /\ [Next]_vars => IInv'
  BY TypeInvStep, WGStep, ReadCountStep, WriteCountStep, ReleaseStep, HandStep,
     CommandStep, RunInvStep, StopStep
     DEF IInv
<1> QED
  BY <1>1, <1>2, PTL DEF Spec

(* Every variable keeps its type; above all the wait group never goes below
   zero, which in Go is a panic (task.go:358-362, 410-421). *)
THEOREM TypeCorrect == Spec => []TypeOK
<1>1. IInv => TypeOK
  <2> SUFFICES ASSUME IInv PROVE TypeOK
    OBVIOUS
  <2>1. taskWG \in Nat
    BY HoldingFinite DEF IInv, WGInv
  <2> QED
    BY <2>1 DEF IInv, TypeInv, TypeOK
<1> QED
  BY <1>1, Invariance, PTL

(* The done flags are never early: whatever the unlocked counters lose, ReadDone
   and WriteDone are set only when every source, every target, has left
   imp.Run and counted itself (task.go:361-367, 421-427). *)
THEOREM FlagsAreNeverEarly == Spec => []FlagsNotEarly
<1>1. IInv => FlagsNotEarly
  BY DEF IInv, ReadCountInv, WriteCountInv, CountedReaders, CountedWriters, FlagsNotEarly
<1> QED
  BY <1>1, Invariance, PTL

(* Release finds no goroutine that still uses what it takes away: no source and
   no target is inside imp.Run and the pipeline holds no document
   (task.go:191-208). *)
THEOREM ReleaseSafety == Spec => []ReleaseIsSafe
<1>1. IInv => ReleaseIsSafe
  <2> SUFFICES ASSUME IInv, released PROVE ReleaseIsSafe
    BY DEF ReleaseIsSafe
  <2>1. /\ \A r \in Readers : ReaderCounted(r)
        /\ \A w \in Writers : WriterCounted(w)
    BY DEF IInv, ReleaseInv, ReadCountInv, WriteCountInv, CountedReaders, CountedWriters
  <2>2. CommandTaken
    BY <2>1, TaskAssumption DEF WriterCounted, WriterTold, CommandTaken
  <2>3. pipe \notin {"route", "report"}
    BY <2>2 DEF IInv, CommandInv
  <2> QED
    BY <2>1, <2>3 DEF ReleaseIsSafe, ReaderCounted, WriterCounted, ReaderLive, WriterLive
<1> QED
  BY <1>1, Invariance, PTL

(* A target is told that the reading is done only when no source can emit and
   every op that some target maps has been received (task.go:425-426, 445-484,
   633-655). *)
THEOREM NothingIsLost == Spec => []NothingLost
<1>1. IInv => NothingLost
  <2> SUFFICES ASSUME IInv, NEW w \in Writers, WriterTold(w)
               PROVE  /\ \A r \in Readers : ~ReaderLive(r)
                      /\ owed \subseteq UNION {got[v] : v \in Writers}
    BY DEF NothingLost
  <2>1. ReadDone /\ owed \subseteq Received
    BY DEF IInv, CommandInv, CommandTaken
  <2>2. \A r \in Readers : ReaderCounted(r)
    BY <2>1 DEF IInv, ReadCountInv, CountedReaders
  <2> QED
    BY <2>1, <2>2 DEF ReaderCounted, ReaderLive, Received
<1> QED
  BY <1>1, Invariance, PTL

(* When Stop returns no source and no target is inside imp.Run, and none will be
   started any more (task.go:214-217). *)
THEOREM StopWaits == Spec => []StopIsComplete
BY Invariance, PTL DEF IInv
=============================================================================
