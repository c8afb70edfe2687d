------------------------------ MODULE TaskInv ------------------------------
(***************************************************************************)
(* The inductive invariant behind the safety properties of Task.  It is    *)
(* kept apart from Task so that TLC can check it on small instances before *)
(* TaskProofs proves it for every instance.                                *)
(***************************************************************************)
EXTENDS Task

(* The sources and targets whose increment has been stored. *)
CountedReaders == {r \in Readers : ReaderCounted(r)}
CountedWriters == {w \in Writers : WriterCounted(w)}

(* Those that hold a unit of taskWG. *)
ReaderHolds(r) == ReaderLive(r) \/ rpc[r] = "wgDone"
WriterHolds(w) == WriterLive(w) \/ wpc[w] = "wgDone"
HoldingReaders == {r \in Readers : ReaderHolds(r)}
HoldingWriters == {w \in Writers : WriterHolds(w)}

(* TypeOK, without the claim that taskWG never goes below zero, and with the
   place of the op in hand. *)
TypeInv ==
  /\ State \in States /\ taskWG \in Int
  /\ exitF \in BOOLEAN /\ errF \in BOOLEAN /\ released \in BOOLEAN
  /\ FullReadCount \in Nat /\ FailedPipeLineCount \in Nat
  /\ FailedDeliveryCount \in Nat
  /\ run \in {"null", "init", "launch", "launched", "end"}
  /\ recorder \in {"null", "run", "end"}
  /\ user \in {"idle", "waiting", "stopped"}
  /\ rpc \in [Readers -> ReaderPcs]
  /\ readerExitF \in [Readers -> BOOLEAN]
  /\ readTmp \in [Readers -> Nat] /\ emitted \in [Readers -> Nat]
  /\ ReadDone \in BOOLEAN /\ ReadDoneCount \in Nat
  /\ wpc \in [Writers -> WriterPcs]
  /\ DOMAIN chanOf = Writers
  /\ writeTmp \in [Writers -> Nat]
  /\ WriteDone \in BOOLEAN /\ WriteDoneCount \in Nat
  /\ pipe \in PipePcs
  /\ doc \in (Readers \cup {NoReader}) \X Nat
  /\ ops \in Seq(Aliases) /\ next \in Nat
  /\ ctl \in {"null", "loop", "stopSource", "check", "released", "end"}
  /\ toStop \subseteq Readers /\ stopping \in Readers \cup {NoReader}
  /\ owed \subseteq Items /\ got \in [Writers -> SUBSET Items]
  /\ pipe = "route" => doc[1] \in Readers /\ next \in 1..Len(ops)

(* taskWG counts exactly the goroutines that have not called Done. *)
WGInv ==
  taskWG = Cardinality(HoldingReaders) + Cardinality(HoldingWriters)

(* However many increments are lost, the counter and every register copy of it
   stay within the number of stored increments; so a comparison with the
   number of sources that succeeds finds all of them counted. *)
ReadCountInv ==
  /\ ReadDoneCount <= Cardinality(CountedReaders)
  /\ \A r \in Readers :
       /\ rpc[r] = "store" => readTmp[r] <= Cardinality(CountedReaders)
       /\ rpc[r] = "check" => readTmp[r] + 1 <= Cardinality(CountedReaders)
       /\ rpc[r] = "sendDone" => ReadDone
  /\ ReadDone => CountedReaders = Readers

WriteCountInv ==
  /\ WriteDoneCount <= Cardinality(CountedWriters)
  /\ \A w \in Writers :
       /\ wpc[w] = "store" => writeTmp[w] <= Cardinality(CountedWriters)
       /\ wpc[w] = "check" => writeTmp[w] + 1 <= Cardinality(CountedWriters)
  /\ WriteDone => CountedWriters = Writers

ReleaseInv == released => ReadDone /\ WriteDone

(* The items routed to a target and not received yet are in the pipeline's
   hand. *)
InHand == IF pipe = "route"
          THEN {Item(k) : k \in {j \in next..Len(ops) : ops[j] \in Mapped}}
          ELSE {}
Received == UNION {got[w] : w \in Writers}
HandInv == owed \subseteq Received \cup InHand

(* From the moment the pipeline takes the ReadDone command there is nothing
   left to read, to route or to receive. *)
CommandTaken == pipe \in {"range", "done"} \/ \E w \in Writers : WriterTold(w)
CommandInv ==
  CommandTaken => ReadDone /\ pipe \notin {"null", "route", "report"} /\ owed \subseteq Received

(* How far Run has come, and what a Stop can have seen of it: the user finds
   the state TaskStop before the end of Run only when a source has failed, so
   after every target was launched. *)
RunInv ==
  /\ run \in {"null", "init"} =>
       /\ \A r \in Readers : rpc[r] = "null"
       /\ \A w \in Writers : wpc[w] = "null"
       /\ State \notin {"TaskRun", "TaskStop"} /\ user = "idle"
  /\ run \in {"null", "init", "launch"} => pipe = "null"
  /\ run # "end" => ctl = "null"
  /\ \A r \in Readers : rpc[r] # "null" => \A w \in Writers : wpc[w] # "null"
  /\ (run = "launch" /\ (State \in {"TaskRun", "TaskStop"} \/ user # "idle")) =>
       \A w \in Writers : wpc[w] # "null"

IInv ==
  /\ TypeInv /\ WGInv /\ ReadCountInv /\ WriteCountInv /\ ReleaseInv
  /\ HandInv /\ CommandInv /\ RunInv /\ StopIsComplete
=============================================================================
