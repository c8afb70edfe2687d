---------------------------- MODULE BatchWriter ----------------------------
(***************************************************************************)
(* One target that writes in batches: Run and Write of                     *)
(* datalink/terms/mongodb_writer.go, elasticsearch_writer.go and           *)
(* clickhouse_wirter.go.  Run collects ops in a slice and hands it to a    *)
(* goroutine that calls Write, when it holds "limit" ops or a timer fires; *)
(* it waits for the goroutine or for a deadline, after which the slice is  *)
(* cut to length 0 and filled again, while the Write that missed its       *)
(* deadline may still be reading it.                                       *)
(*                                                                         *)
(* The database is outside: a call may succeed, fail for some or all of    *)
(* its documents (an error does not tell which took effect), or never      *)
(* return.                                                                 *)
(***************************************************************************)
EXTENDS Naturals, Sequences, SequencesExt, FiniteSets

CONSTANTS
  Writers,    \* the kinds of target looked at
  Limit,      \* the configured limit, at least 1
  BulkLimit,  \* Elasticsearch's auto_bulk: the limit while ops come fast, 0 without
  OptionType, \* the option type of each op, in the order of the channel
  Unmapped,   \* the ops whose document set the target does not map
  Unsplit,    \* those it maps to a name MongoDB cannot split into database and collection
  MaxEmpty,   \* bound: flushes of an empty cache that a ticker causes
  MaxLate     \* bound: writes that miss their deadline

MaxOps == Len(OptionType)
Ops == 1..MaxOps

ASSUME BatchAssumption ==
  /\ Writers \subseteq {"mongodb", "elasticsearch", "clickhouse"}
  /\ Limit \in Nat \ {0} /\ BulkLimit \in Nat
  /\ OptionType \in Seq({"insert", "update", "delete"})
  /\ Unmapped \subseteq Ops /\ Unsplit \subseteq Ops /\ MaxEmpty \in Nat /\ MaxLate \in Nat

VARIABLES
  Writer,   \* the kind of this target; it never changes
  pc,       \* Run: select, flush, wait, final (the write at the end), release, end, crash
  taken,    \* ops received so far
  exitF,
  limit,
  timer,    \* the timer is running: a ticker always, a timer until it has fired
  heap,     \* the arrays behind the slices, by allocation; 0 is an empty slot
  cacheList,\* the slice: [arr, len], arr = 0 before the first op
  expired,
  w,        \* the writes that were started, in order
  client, released, errC,
  FailedDeliveryCount,
  applied,  \* history: the ops that took effect
  late      \* history: the writes that missed their deadline

run == <<Writer, pc, taken, exitF, limit, timer, cacheList, expired>>
vars == <<run, heap, w, client, released, errC, FailedDeliveryCount, applied, late>>

(* A write: the ops it has read, and the positions among them of those gathered
   and of those that are being sent, call by call.  batch is the content of the
   slice when it was started (history). *)
NewWrite(batch) ==
  [st |-> "begin", slice |-> [arr |-> 0, len |-> 0], read |-> <<>>, got |-> {},
   todo |-> {}, failed |-> 0, batch |-> batch]

Content(s) == IF s.arr = 0 THEN <<>> ELSE SubSeq(heap[s.arr], 1, s.len)

Init ==
  /\ Writer \in Writers
  /\ pc = "select" /\ taken = 0 /\ exitF = FALSE /\ limit = Limit /\ timer = TRUE
  /\ heap = <<>> /\ cacheList = [arr |-> 0, len |-> 0] /\ expired = FALSE
  /\ w = <<>> /\ client = FALSE /\ released = FALSE /\ errC = TRUE
  /\ FailedDeliveryCount = 0 /\ applied = {} /\ late = {}

-----------------------------------------------------------------------------
(* Run *)

(* append: in place while the array has room, else to a copy of twice the
   capacity. *)
Grow(a, n) ==
  LET old == Content(cacheList)
      cap == IF a = 0 THEN 1 ELSE 2 * Len(heap[a])
  IN  [i \in 1..cap |-> IF i <= Len(old) THEN old[i] ELSE IF i = Len(old) + 1 THEN n ELSE 0]

(* Variant: an op is put behind the last slot of a full array. *)
AppendOpPastEnd(n) ==
  LET a == cacheList.arr
      l == cacheList.len + 1
  IN  IF a # 0 /\ l <= Len(heap[a]) + 1
      THEN heap' = [heap EXCEPT ![a][l] = n] /\ cacheList' = [arr |-> a, len |-> l]
      ELSE heap' = Append(heap, Grow(a, n)) /\ cacheList' = [arr |-> Len(heap) + 1, len |-> l]

AppendOp(n) ==
  LET a == cacheList.arr
      l == cacheList.len + 1
  IN  IF a # 0 /\ l <= Len(heap[a])
      THEN heap' = [heap EXCEPT ![a][l] = n] /\ cacheList' = [arr |-> a, len |-> l]
      ELSE heap' = Append(heap, Grow(a, n)) /\ cacheList' = [arr |-> Len(heap) + 1, len |-> l]

(* Variant: the cache is flushed when it holds more than limit ops. *)
TakeBeyond ==
  /\ pc = "select" /\ ~exitF /\ taken < MaxOps
  /\ taken' = taken + 1
  /\ AppendOp(taken + 1)
  /\ pc' = IF cacheList'.len > limit THEN "flush" ELSE "select"
  /\ UNCHANGED <<Writer, exitF, limit, timer, expired, w, client, released,
                 errC, FailedDeliveryCount, applied, late>>

Take ==
  /\ pc = "select" /\ ~exitF /\ taken < MaxOps
  /\ taken' = taken + 1
  /\ AppendOp(taken + 1)
  /\ pc' = IF cacheList'.len >= limit THEN "flush" ELSE "select"
  /\ UNCHANGED <<Writer, exitF, limit, timer, expired, w, client, released,
                 errC, FailedDeliveryCount, applied, late>>

TakeReadDone ==
  /\ pc = "select" /\ ~exitF
  /\ exitF' = TRUE
  /\ UNCHANGED <<Writer, pc, taken, limit, timer, heap, cacheList, expired, w,
                 client, released, errC, FailedDeliveryCount, applied, late>>

(* The bound on empty flushes; MongoDB's timer fires once anyway. *)
EmptyFlush ==
  cacheList.len > 0 \/ Writer = "mongodb"
    \/ Cardinality({k \in DOMAIN w : w[k].batch = <<>>}) < MaxEmpty

(* Variant: the timer of Elasticsearch and ClickHouse fires once, too. *)
TickOnce ==
  /\ pc = "select" /\ ~exitF /\ timer
  /\ EmptyFlush
  /\ pc' = "flush" /\ timer' = FALSE
  /\ UNCHANGED <<Writer, taken, exitF, limit, heap, cacheList, expired, w,
                 client, released, errC, FailedDeliveryCount, applied, late>>

(* The timer fires: the cache is flushed, be it empty. *)
Tick ==
  /\ pc = "select" /\ ~exitF /\ timer
  /\ EmptyFlush
  /\ pc' = "flush" /\ timer' = (Writer # "mongodb")
  /\ UNCHANGED <<Writer, taken, exitF, limit, heap, cacheList, expired, w,
                 client, released, errC, FailedDeliveryCount, applied, late>>

(* The deadline is set and the goroutine started.  With auto_bulk the speed of
   the last batch sets the limit: 1 or BulkLimit. *)
StartWrite ==
  /\ pc = "flush"
  /\ limit' \in IF BulkLimit = 0 \/ Writer # "elasticsearch" THEN {limit} ELSE {1, BulkLimit}
  /\ w' = Append(w, NewWrite(Content(cacheList)))
  /\ pc' = "wait" /\ expired' = FALSE
  /\ UNCHANGED <<Writer, taken, exitF, timer, heap, cacheList, client, released,
                 errC, FailedDeliveryCount, applied, late>>

Expire ==
  /\ pc = "wait" /\ ~expired /\ Cardinality(late) < MaxLate
  /\ expired' = TRUE /\ late' = late \cup {Len(w)}
  /\ UNCHANGED <<Writer, pc, taken, exitF, limit, timer, cacheList, heap, w,
                 client, released, errC, FailedDeliveryCount, applied>>

(* cacheList[:0]: the same array will be filled again. *)
ResetCache == cacheList' = [cacheList EXCEPT !.len = 0]

(* Variant: the cache is kept after a write. *)
SelectDoneKeeps ==
  /\ pc = "wait" /\ (w[Len(w)].st = "ret" \/ expired)
  /\ FailedDeliveryCount' = FailedDeliveryCount + w[Len(w)].failed
  /\ pc' = "select"
  /\ UNCHANGED <<Writer, taken, exitF, limit, timer, cacheList, expired, heap,
                 w, client, released, errC, applied, late>>

(* Variant: Run does not wait for the goroutine it has started. *)
SelectNoWait ==
  /\ pc = "wait"
  /\ FailedDeliveryCount' = FailedDeliveryCount + w[Len(w)].failed
  /\ pc' = "select" /\ ResetCache
  /\ UNCHANGED <<Writer, taken, exitF, limit, timer, expired, heap, w, client,
                 released, errC, applied, late>>

(* ctx.Done: the goroutine has cancelled the context, or it has expired. *)
SelectDone ==
  /\ pc = "wait" /\ (w[Len(w)].st = "ret" \/ expired)
  /\ FailedDeliveryCount' = FailedDeliveryCount + w[Len(w)].failed
  /\ pc' = "select" /\ ResetCache
  /\ UNCHANGED <<Writer, taken, exitF, limit, timer, expired, heap, w, client,
                 released, errC, applied, late>>

SelectTimeout ==
  /\ pc = "wait" /\ expired
  /\ FailedDeliveryCount' = FailedDeliveryCount + cacheList.len
  /\ pc' = "select" /\ ResetCache
  /\ UNCHANGED <<Writer, taken, exitF, limit, timer, expired, heap, w, client,
                 released, errC, applied, late>>

(* The rest of the cache is written by Run itself: without a deadline, its
   failures not counted. *)
FinalWrite ==
  /\ pc = "select" /\ exitF
  /\ w' = Append(w, NewWrite(Content(cacheList)))
  /\ pc' = "final"
  /\ UNCHANGED <<Writer, taken, exitF, limit, timer, cacheList, expired, heap,
                 client, released, errC, FailedDeliveryCount, applied, late>>

RunRelease ==
  /\ pc = "final" /\ w[Len(w)].st = "ret"
  /\ pc' = "release" /\ client' = FALSE /\ released' = TRUE
  /\ UNCHANGED <<Writer, taken, exitF, limit, timer, cacheList, expired, heap,
                 w, errC, FailedDeliveryCount, applied, late>>

RunEnd ==
  /\ pc = "release"
  /\ pc' = "end" /\ errC' = FALSE
  /\ UNCHANGED <<Writer, taken, exitF, limit, timer, cacheList, expired, heap,
                 w, client, released, FailedDeliveryCount, applied, late>>

-----------------------------------------------------------------------------
(* Write k *)

Set(k, st) == [w EXCEPT ![k].st = st]

(* The goroutine reads the variable cacheList when it starts; Elasticsearch and
   ClickHouse return at once from an empty slice. *)
WriteBegin(k) ==
  /\ pc # "crash" /\ w[k].st = "begin"
  /\ w' = [w EXCEPT ![k].slice = cacheList,
                    ![k].st = IF Writer # "mongodb" /\ cacheList.len = 0 THEN "ret" ELSE "connect"]
  /\ UNCHANGED <<run, heap, client, released, errC, FailedDeliveryCount, applied, late>>

(* Variant: ops that could not be written for want of a connection are not counted. *)
WriteConnectUncounted(k) ==
  /\ pc # "crash" /\ w[k].st = "connect"
  /\ \/ w' = Set(k, "gather") /\ client' = TRUE
     \/ errC /\ w' = Set(k, "ret") /\ UNCHANGED client
  /\ UNCHANGED <<run, heap, released, errC, FailedDeliveryCount, applied, late>>

(* clientInstance; without a connection all ops have failed. *)
WriteConnect(k) ==
  /\ pc # "crash" /\ w[k].st = "connect"
  /\ \/ w' = Set(k, "gather") /\ client' = TRUE
     \/ errC /\ w' = [w EXCEPT ![k].st = "ret", ![k].failed = w[k].slice.len] /\ UNCHANGED client
  /\ UNCHANGED <<run, heap, released, errC, FailedDeliveryCount, applied, late>>

(* ClickHouse sends what it has gathered before it goes on to another type. *)
Closes(r, n) ==
  Writer = "clickhouse" /\ \E i \in r.got : OptionType[r.read[i]] # OptionType[n]

(* The next op is looked up.  MongoDB reports one without a document set and
   ClickHouse counts it too; Elasticsearch writes to an index named after the
   source. *)
WriteGather(k) ==
  LET i == Len(w[k].read) + 1
      n == heap[w[k].slice.arr][i]
      ok == Writer = "elasticsearch" \/ (n \notin Unmapped /\ ~released)
      closes == ok /\ Closes(w[k], n)
  IN  /\ pc # "crash" /\ w[k].st = "gather" /\ w[k].todo = {} /\ i <= w[k].slice.len
      /\ ok \/ errC
      /\ w' = [w EXCEPT ![k].read = Append(@, n),
                        ![k].got = IF ~ok THEN @ ELSE IF closes THEN {i} ELSE @ \cup {i},
                        ![k].todo = IF closes THEN w[k].got ELSE @,
                        ![k].failed = IF ok \/ Writer = "mongodb" THEN @ ELSE @ + 1]
      /\ UNCHANGED <<run, heap, client, released, errC, FailedDeliveryCount, applied, late>>

WriteGathered(k) ==
  /\ pc # "crash" /\ w[k].st = "gather" /\ w[k].todo = {} /\ Len(w[k].read) = w[k].slice.len
  /\ w' = [w EXCEPT ![k].todo = w[k].got, ![k].got = {}, ![k].st = "call"]
  /\ UNCHANGED <<run, heap, client, released, errC, FailedDeliveryCount, applied, late>>

(* The next call of a write.  MongoDB: the inserts in one, then update by update
   and delete by delete.  Elasticsearch: one bulk request.  ClickHouse: ops of
   one type, in one statement unless they are updates. *)
OfType(r, t) == {i \in r.todo : OptionType[r.read[i]] = t}
First(S) == {i \in S : \A j \in S : i <= j}

Turn(r) ==
  IF OfType(r, "insert") # {} THEN OfType(r, "insert")
  ELSE IF OfType(r, "update") # {} THEN OfType(r, "update") ELSE r.todo

Split(r) == {i \in Turn(r) : r.read[i] \notin Unsplit}
Skipped(r) == Turn(r) \ Split(r)

NextCall(r) ==
  CASE Writer = "mongodb" -> IF OfType(r, "insert") # {} THEN Split(r) ELSE First(Split(r))
    [] Writer = "elasticsearch" -> r.todo
    [] Writer = "clickhouse" -> IF OfType(r, "update") # {} THEN First(r.todo) ELSE r.todo

(* MongoDB takes the client anew from the writer for updates and deletes; after
   Release there is none, and nothing recovers the panic. *)
NoClient(k) ==
  Writer = "mongodb" /\ ~client /\ OfType(w[k], "insert") = {} /\ Split(w[k]) # {}

(* MongoDB: the groups of the turn whose name is not "database.collection" are
   reported and passed over.  They are not among the failed. *)
WriteSkip(k) ==
  /\ Writer = "mongodb" /\ pc # "crash" /\ w[k].todo # {} /\ Skipped(w[k]) # {} /\ errC
  /\ w' = [w EXCEPT ![k].todo = @ \ Skipped(w[k])]
  /\ UNCHANGED <<run, heap, client, released, errC, FailedDeliveryCount, applied, late>>

(* A call: the ops at F are reported as failed, of which those at G took effect
   all the same.  Only a bulk request fails for some of its ops. *)
WriteCall(k) ==
  LET sent == NextCall(w[k])
  IN  /\ pc # "crash" /\ w[k].todo # {} /\ sent # {} /\ ~NoClient(k)
      /\ \E F \in SUBSET sent :
           /\ F # {} => errC
           /\ Writer # "elasticsearch" => F \in {{}, sent}
           /\ \E G \in SUBSET F :
                applied' = applied \cup {w[k].read[i] : i \in (sent \ F) \cup G}
           /\ w' = [w EXCEPT ![k].todo = @ \ sent, ![k].failed = @ + Cardinality(F)]
      /\ UNCHANGED <<run, heap, client, released, errC, FailedDeliveryCount, late>>

WritePanics(k) ==
  /\ pc # "crash" /\ w[k].todo # {} /\ NoClient(k)
  /\ pc' = "crash"
  /\ UNCHANGED <<Writer, taken, exitF, limit, timer, cacheList, expired, heap,
                 w, client, released, errC, FailedDeliveryCount, applied, late>>

WriteReturn(k) ==
  /\ pc # "crash" /\ w[k].st = "call" /\ w[k].todo = {}
  /\ w' = Set(k, "ret")
  /\ UNCHANGED <<run, heap, client, released, errC, FailedDeliveryCount, applied, late>>

-----------------------------------------------------------------------------
Write(k) ==
  \/ WriteBegin(k) \/ WriteConnect(k) \/ WriteGather(k) \/ WriteGathered(k)
  \/ WriteSkip(k) \/ WriteCall(k) \/ WritePanics(k) \/ WriteReturn(k)

Select == SelectDone \/ SelectTimeout
End == FinalWrite \/ RunRelease \/ RunEnd

Next ==
  \/ Take \/ TakeReadDone \/ Tick \/ StartWrite \/ Expire \/ Select \/ End
  \/ \E k \in DOMAIN w : Write(k)

Spec == Init /\ [][Next]_vars

(* Run is scheduled and its timers fire; the database owes no answer. *)
FairSpec ==
  /\ Spec
  /\ WF_vars(StartWrite) /\ WF_vars(Expire) /\ WF_vars(Select) /\ WF_vars(End)
  /\ WF_vars(Tick)

-----------------------------------------------------------------------------
(* Properties *)

(* The batches Run has finished with; the one written at the end is not among
   them. *)
Finished == IF pc \in {"select", "flush"} THEN DOMAIN w ELSE 1..(Len(w) - 1)

InBatches(K) == UNION {ToSet(w[k].batch) : k \in K}

Fits(s, arrays) ==
  /\ s \in [arr : 0..Len(arrays), len : Nat]
  /\ s.len <= IF s.arr = 0 THEN 0 ELSE Len(arrays[s.arr])

(* The variables hold values of their types; the slices fit their arrays. *)
TypeOK ==
  /\ pc \in {"select", "flush", "wait", "final", "release", "end", "crash"}
  /\ Writer \in Writers /\ taken \in 0..MaxOps /\ limit \in {Limit, 1, BulkLimit}
  /\ {exitF, timer, expired, client, released, errC} \subseteq BOOLEAN
  /\ heap \in Seq(Seq(0..MaxOps)) /\ Fits(cacheList, heap)
  /\ \A k \in DOMAIN w : /\ w[k].st \in {"begin", "connect", "gather", "call", "ret"}
                         /\ Fits(w[k].slice, heap)
                         /\ w[k].read \in Seq(0..MaxOps) /\ w[k].batch \in Seq(0..MaxOps)
  /\ late \subseteq DOMAIN w

(* A full cache never waits for its next op or for the timer
   (mongodb_writer.go:108-111, also when auto_bulk has changed the limit,
   elasticsearch_writer.go:129-143). *)
CacheBelowLimit == pc = "select" => cacheList.len < limit

Cached == IF pc \in {"select", "flush"} THEN Content(cacheList) ELSE <<>>
Ascends(s) == \A i, j \in DOMAIN s : i < j => s[i] < s[j]
Before(s, t) == \A i \in DOMAIN s : \A j \in DOMAIN t : s[i] < t[j]

(* Every op received is in exactly one batch, in its order, or still in the
   cache, however the slice is grown and cut (mongodb_writer.go:107-146). *)
BatchesPartition ==
  pc # "crash" =>
    /\ InBatches(DOMAIN w) \cup ToSet(Cached) = 1..taken
    /\ Ascends(Cached)
    /\ \A k \in DOMAIN w :
         /\ Ascends(w[k].batch) /\ Before(w[k].batch, Cached)
         /\ \A l \in DOMAIN w : k < l => Before(w[k].batch, w[l].batch)

(* Of the ops in batches Run has finished in time, those that never took effect
   are in the counter, but for the ones MongoDB has no document set for, or one
   whose name it cannot split: these it only reports (mongodb_writer.go:125-136,
   186-190, 223-226, 257-260, 279-282); and a write counts no op twice. *)
FailuresCounted ==
  LET uncounted == IF Writer = "mongodb" THEN Unmapped \cup Unsplit ELSE {}
  IN  /\ Cardinality(InBatches(Finished \ late) \ (applied \cup uncounted)) <= FailedDeliveryCount
      /\ \A k \in DOMAIN w : w[k].failed <= w[k].slice.len

(* A Write reads the batch it was started with although the next ops are put
   into the same array, and meets a client although Release takes it away: only
   one that has missed its deadline may read others or panic
   (mongodb_writer.go:127-145, 263, 285). *)
OnlyLateGoWrong ==
  /\ \A k \in DOMAIN w \ late : /\ IsPrefix(w[k].read, w[k].batch)
                               /\ w[k].st = "call" => w[k].read = w[k].batch
  /\ pc = "crash" => \E k \in late : w[k].todo # {} /\ NoClient(k)

(* MongoDB writes the inserts of a batch before its updates, and these before
   its deletes: m may take effect before the older op n. *)
GoesFirst(m, n) ==
  /\ Writer = "mongodb"
  /\ <<OptionType[m], OptionType[n]>> \in
       {<<"insert", "update">>, <<"insert", "delete">>, <<"update", "delete">>}

Overtakes(m, n) ==
  GoesFirst(m, n) /\ \E k \in DOMAIN w : {m, n} \subseteq ToSet(w[k].batch)

(* The ops a Write past its deadline has read. *)
ReadLate == UNION {ToSet(w[k].read) : k \in late}

(* Ops take effect in the order of the channel, within a batch and across
   batches, but for those a Write past its deadline has read, be they of its
   batch or not; only MongoDB lets an op overtake another one, of the same batch
   and of a later kind
   (mongodb_writer.go:221-300, clickhouse_wirter.go:237-272,
   elasticsearch_writer.go:247-296). *)
InOrder ==
  [][\A n \in applied' \ (applied \cup ReadLate) : \A m \in applied \ ReadLate :
       m <= n \/ Overtakes(m, n)]_vars

(* An incomplete batch does not wait for ever for the ops that would fill it
   (mongodb_writer.go:73: written every five seconds at the latest). *)
FlushedInTime == (pc = "select" /\ cacheList.len > 0) ~> pc # "select"

(* That holds of the targets that use a ticker (elasticsearch_writer.go:88-93,
   clickhouse_wirter.go:95-100). *)
TickersFlush == (Writer # "mongodb" /\ pc = "select" /\ cacheList.len > 0) ~> pc # "select"
=============================================================================
