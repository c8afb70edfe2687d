------------------------------- MODULE Resume -------------------------------
(***************************************************************************)
(* A source that follows the change log of a data store and can be stopped,*)
(* crash and start again: the binlog and the field readers of              *)
(* terms/mysql_reader.go, terms/mongodb_reader.go, terms/kafka_reader.go.  *)
(* What matters is the order of four things: taking a position, copying    *)
(* the tables, handing a change to the pipeline, and writing the position  *)
(* to the resume file - which truncates the file before it fills it.       *)
(*                                                                         *)
(* Changes are numbered in the order of the log.  A position p of the two  *)
(* MySQL readers means that the changes up to p are done; one of MongoDB   *)
(* or Kafka names the change that was read last and is read again.  The    *)
(* field reader has no log: it reads one time window after the other, here *)
(* one change per window.                                                  *)
(***************************************************************************)
EXTENDS Integers, FiniteSets

CONSTANTS
  Confs,       \* the configurations of a source: kind, mode, resume
  NRows,       \* the rows of the tables, in the order of the copy: 1..NRows
  RowOf,       \* RowOf[i]: the row change i is about
  InitLog,     \* the changes made before the task first runs
  InitOldest,  \* those of them the store has already dropped from its log
  MaxTry,      \* failures of the stream the MySQL readers put up with: 3
  MaxLog,      \* bound: changes in all
  MaxTroubles  \* bound: crashes, errors, stops and resets together

ASSUME ResumeAssumption ==
  /\ Confs \subseteq [kind : {"mysql", "field", "mongodb", "kafka"},
                      mode : {"stream", "replica"}, resume : BOOLEAN]
  /\ NRows \in Nat /\ MaxLog \in Nat /\ RowOf \in [1..MaxLog -> 1..NRows]
  /\ InitLog \in 1..MaxLog /\ InitOldest \in 0..(InitLog - 1)
  /\ MaxTry \in Nat \ {0}
  /\ MaxTroubles \in Nat

VARIABLES
  conf,              \* chosen once
  head, oldest,      \* the store: changes made, changes dropped from the log
  file, committed,   \* the resume file; the offset Kafka keeps for the group
  pc,                \* the goroutine of Stream or Replica
  mem,               \* masterInfo.pos, prevTime, resumeAt, Offset
  nxt, hand, row,    \* next change to read, change in hand, next row to copy
  exitF, try,
  wgStuck,           \* the field reader's WaitGroup has missed a Done
  saver, saverPos,   \* the goroutine that saves the position on a ticker
  old, oldPos,       \* the same goroutines of the instances that ran before
  seen,              \* history: changes the reader is done with: the pipeline has
                     \*   got their effect, or they could not be read and are skipped
  origin,            \* history: changes up to here need not be delivered
  why,               \* history: what the resume cannot make up for
  crashes, others    \* history: crashes so far; errors, stops and resets so far

storeVars  == <<conf, head, oldest>>
diskVars   == <<file, committed>>
readerVars == <<pc, mem, nxt, hand, row, exitF, try, wgStuck>>
saverVars  == <<saver, saverPos, old, oldPos>>
histVars   == <<seen, origin, why, crashes, others>>
vars == <<storeVars, diskVars, readerVars, saverVars, histVars>>

-----------------------------------------------------------------------------
Missing == -2   \* there is no resume file
Torn    == -1   \* it is empty or does not parse; also the zero position
Unset   == -1   \* the task has not run yet

Slots == 1..MaxTroubles   \* an instance that is followed by another has had its trouble

Kind(k)  == conf.kind = k
Replica  == conf.mode = "replica"
Watching == pc \in {"watch", "send", "trunc", "write"}

(* What ioutil.WriteFile leaves behind: it truncates first, and when another
   goroutine has written between truncation and write the longer text of the
   two shows through at the end. *)
Written(p) == IF file = Torn THEN {p} ELSE {p, Torn}

(* canal.SyncedPosition: what the canal has finished with. *)
SyncedPosition == IF pc = "send" THEN nxt - 2 ELSE nxt - 1

Position == IF Kind("mysql") THEN SyncedPosition ELSE mem

(* The rows' state at this moment: every change made so far is in it. *)
RowState(k) == {i \in 1..head : RowOf[i] = k}

(* The first run of a stream begins with the next change, a replica owes all
   there is; without a resume file every run is a first one. *)
Origin(first) ==
  IF Replica /\ ~Kind("kafka") THEN 0
  ELSE IF origin = Unset \/ (~Replica /\ ~conf.resume) THEN first
  ELSE origin

(* The next change is no longer in the log. *)
OutOfLog == nxt <= oldest /\ ~Kind("field")

(* A stream that finds no usable position goes on from the newest change. *)
Blind(valid) ==
  IF ~Replica /\ conf.resume /\ origin # Unset /\ ~valid
  THEN why \cup {"blind"} ELSE why

(* The field reader takes the existing file for a finished copy. *)
Cut == IF pc = "copy" /\ Kind("field") /\ conf.resume THEN why \cup {"cut"} ELSE why

-----------------------------------------------------------------------------
Init ==
  /\ conf \in Confs
  /\ head = InitLog /\ oldest = InitOldest
  /\ file = Missing /\ committed = 0
  /\ pc = "down" /\ mem = 0 /\ nxt = 1 /\ hand = 0 /\ row = 1
  /\ exitF = FALSE /\ try = 1 /\ wgStuck = FALSE
  /\ saver = "off" /\ saverPos = 0
  /\ old = [i \in Slots |-> "off"] /\ oldPos = [i \in Slots |-> 0]
  /\ seen = {} /\ origin = Unset /\ why = {}
  /\ crashes = 0 /\ others = 0

MayFail  == crashes + others < MaxTroubles
Trouble  == MayFail /\ others' = others + 1 /\ UNCHANGED crashes
CrashNow == MayFail /\ crashes' = crashes + 1 /\ UNCHANGED others

(* The store: somebody changes a row; the log is shortened, whoever reads it.  An
   oplog keeps its newest entry. *)
Change ==
  /\ head < MaxLog
  /\ head' = head + 1
  /\ UNCHANGED <<conf, oldest, diskVars, readerVars, saverVars, histVars>>

Purge ==
  /\ oldest' \in (oldest + 1)..(IF Kind("mongodb") THEN head - 1 ELSE head)
  /\ UNCHANGED <<conf, head, diskVars, readerVars, saverVars, histVars>>

-----------------------------------------------------------------------------
(* A new instance: New...Reader reads the file, Stream or Replica begins *)

(* The position lies in a log the master still has. *)
AnyBinlog(p) == p <= head   \* Variant: dropped logs and no position at all
ExistsBinlog(p) == oldest <= p /\ p <= head

(* The binlog reader: a position that exists, or else the master's position,
   taken before the copy that a replica then makes.  A query that fails says
   that the position does not exist. *)
OpenCanal ==
  LET p == IF conf.resume /\ file >= 0 THEN file ELSE Torn
  IN /\ pc = "down" /\ Kind("mysql")
     /\ \E valid \in {ExistsBinlog(p), FALSE} :
          LET start == IF valid THEN p ELSE head
          IN /\ pc' = IF Replica /\ ~valid THEN "copy"
                      ELSE IF conf.resume THEN "trunc" ELSE "watch"
             /\ mem' = start /\ nxt' = start + 1
             /\ why' = Blind(valid)
             /\ IF valid = ExistsBinlog(p) THEN UNCHANGED <<crashes, others>> ELSE Trouble
     /\ origin' = Origin(head)
     /\ UNCHANGED <<storeVars, diskVars, hand, row, exitF, try, wgStuck,
                    saverVars, seen>>

(* The field reader: without a file it creates one with the present time. *)
OpenField ==
  LET exists == conf.resume /\ file # Missing
      start  == IF ~exists THEN head ELSE IF file = Torn THEN 0 ELSE file
  IN /\ pc = "down" /\ Kind("field")
     /\ pc' = IF exists THEN "watch"
              ELSE IF conf.resume THEN "create"
              ELSE IF Replica THEN "copy" ELSE "watch"
     /\ saver' = IF exists THEN "idle" ELSE saver
     /\ mem' = start /\ nxt' = start + 1
     /\ origin' = Origin(head) /\ why' = Blind(exists)
     /\ UNCHANGED <<storeVars, diskVars, hand, row, exitF, try, wgStuck,
                    saverPos, old, oldPos, seen, crashes, others>>

FieldCreate ==
  /\ pc = "create"
  /\ pc' = "created" /\ file' = Torn
  /\ UNCHANGED <<storeVars, committed, mem, nxt, hand, row, exitF, try,
                 wgStuck, saverVars, histVars>>

FieldCreated ==
  /\ pc = "created"
  /\ file' \in Written(mem)
  /\ pc' = IF Replica THEN "copy" ELSE "watch"
  /\ saver' = IF Replica THEN saver ELSE "idle"
  /\ UNCHANGED <<storeVars, committed, mem, nxt, hand, row, exitF, try,
                 wgStuck, saverPos, old, oldPos, histVars>>

(* InitResumeFile: a position outside the oplog is replaced by the newest one
   and calls for a copy, which only a replica makes. *)
OpenMongo ==
  LET p     == IF conf.resume /\ file >= 0 THEN file ELSE Torn
      valid == oldest < p /\ p <= head
  IN /\ pc = "down" /\ Kind("mongodb")
     /\ pc' = IF Replica /\ ~valid THEN "copy" ELSE "watch"
     /\ mem' = IF valid THEN p ELSE head
     /\ nxt' = IF conf.resume THEN mem' ELSE head + 1
     /\ saver' = IF conf.resume /\ pc' = "watch" THEN "idle" ELSE saver
     /\ origin' = Origin(head) /\ why' = Blind(valid)
     /\ UNCHANGED <<storeVars, diskVars, hand, row, exitF, try, wgStuck,
                    saverPos, old, oldPos, seen, crashes, others>>

(* The group named in the file goes on where it has committed; a group without
   a commit starts at the offset of the file, a new one at the first message
   kept, or at the end if a stream that is not to resume is configured so. *)
OpenKafka ==
  LET known == conf.resume /\ file >= 0
      first == oldest + 1
      want  == IF known /\ committed > 0 THEN {committed}
               ELSE IF known /\ file > 0 THEN {file}
               ELSE IF ~Replica /\ ~conf.resume THEN {first, head + 1}
               ELSE {first}
  IN /\ pc = "down" /\ Kind("kafka")
     /\ pc' = "watch"
     /\ nxt' \in {IF n < first THEN first ELSE n : n \in want}
     /\ mem' = IF known THEN file ELSE 0
     /\ committed' = IF known THEN committed ELSE 0
     /\ saver' = IF conf.resume THEN "idle" ELSE saver
     /\ origin' = Origin(nxt' - 1)
     /\ why' = IF \E i \in (origin' + 1)..oldest : i \notin seen
               THEN why \cup {"blind"} ELSE why
     /\ UNCHANGED <<storeVars, file, hand, row, exitF, try, wgStuck, saverPos,
                    old, oldPos, seen, crashes, others>>

(* No connection; the field reader creates its file first.  The binlog replica
   goes on with a nil canal and panics: its goroutine is gone, exitF is not set
   and the monitor keeps Run waiting. *)
OpenFails ==
  /\ pc = "down" /\ Trouble
  /\ Kind("field") => file # Missing \/ ~conf.resume
  /\ IF Kind("mysql") /\ Replica
     THEN pc' = "hung" /\ UNCHANGED exitF
     ELSE pc' = "ended" /\ exitF' = TRUE
  /\ UNCHANGED <<storeVars, diskVars, mem, nxt, hand, row, try, wgStuck,
                 saverVars, seen, origin, why>>

-----------------------------------------------------------------------------
(* The copy of the tables *)

(* One row is read and handed over.  MySQL looks at exitF after the row when it
   copies page by page, and not at all when it copies in one query. *)
CopyRow ==
  /\ pc = "copy" /\ row <= NRows /\ (Kind("mongodb") => ~exitF)
  /\ seen' = seen \cup RowState(row)
  /\ row' = row + 1
  /\ pc' \in IF exitF THEN {"ended", "copy"} ELSE {"copy"}
  /\ why' = IF pc' = "ended" THEN Cut ELSE why
  /\ UNCHANGED <<storeVars, diskVars, mem, nxt, hand, exitF, try, wgStuck,
                 saverVars, origin, crashes, others>>

(* A MongoDB row that cannot be decoded is passed over, and a cursor that breaks
   ends its collection as if all of it had been read: the copy goes on behind
   the rows it has not got.  What was made of them before the position is lost;
   the stream brings what comes after it. *)
CopySkips ==
  /\ pc = "copy" /\ Kind("mongodb") /\ row <= NRows /\ Trouble
  /\ row' \in (row + 1)..(NRows + 1)
  /\ LET lost == {i \in 1..(nxt - 1) : RowOf[i] \in row..(row' - 1)}
     IN seen' = seen \cup lost
  /\ UNCHANGED <<storeVars, diskVars, pc, mem, nxt, hand, exitF, try, wgStuck,
                 saverVars, origin, why>>

(* MongoDB looks before the row, MySQL again after the last one. *)
CopyCancel ==
  /\ pc = "copy" /\ exitF /\ (Kind("mongodb") <=> row <= NRows)
  /\ pc' = "ended" /\ why' = Cut
  /\ UNCHANGED <<storeVars, diskVars, mem, nxt, hand, row, exitF, try,
                 wgStuck, saverVars, seen, origin, crashes, others>>

(* A query fails: with MongoDB the one that opens the cursor of a collection. *)
CopyFails ==
  /\ pc = "copy" /\ Trouble
  /\ pc' = "ended" /\ exitF' = TRUE /\ why' = Cut
  /\ UNCHANGED <<storeVars, diskVars, mem, nxt, hand, row, try, wgStuck,
                 saverVars, seen, origin>>

(* Variant: the position is taken after the copy. *)
CopyEndThenPosition ==
  /\ pc = "copy" /\ row > NRows
  /\ pc' = IF Kind("mysql") /\ conf.resume THEN "trunc" ELSE "watch"
  /\ nxt' = head + 1
  /\ saver' = IF conf.resume /\ (Kind("field") \/ (Kind("mongodb") /\ ~exitF))
              THEN "idle" ELSE saver
  /\ UNCHANGED <<storeVars, diskVars, mem, hand, row, exitF, try, wgStuck,
                 saverPos, old, oldPos, histVars>>

(* The stream is opened, whether a Stop has come after the last row or not: at
   the position taken before the copy, but for the MongoDB reader without a
   resume file, which has taken none. *)
CopyEnd ==
  /\ pc = "copy" /\ row > NRows
  /\ pc' = IF Kind("mysql") /\ conf.resume THEN "trunc" ELSE "watch"
  /\ nxt' = IF Kind("mongodb") /\ ~conf.resume THEN head + 1 ELSE nxt
  /\ saver' = IF conf.resume /\ (Kind("field") \/ (Kind("mongodb") /\ ~exitF))
              THEN "idle" ELSE saver
  /\ UNCHANGED <<storeVars, diskVars, mem, hand, row, exitF, try, wgStuck,
                 saverPos, old, oldPos, histVars>>

-----------------------------------------------------------------------------
(* The stream *)

(* Variant: the newest change is not read. *)
FetchBelowHead ==
  /\ pc = "watch" /\ nxt < head /\ ~OutOfLog
  /\ hand' = nxt /\ nxt' = nxt + 1 /\ pc' = "send"
  /\ mem' = IF conf.resume /\ (Kind("mongodb") \/ Kind("kafka")) THEN nxt ELSE mem
  /\ UNCHANGED <<storeVars, diskVars, row, exitF, try, wgStuck, saverVars, histVars>>

(* The next change is read and decoded.  MongoDB and Kafka note its position
   before it is handed over. *)
Fetch ==
  /\ pc = "watch" /\ nxt <= head /\ ~OutOfLog
  /\ hand' = nxt /\ nxt' = nxt + 1 /\ pc' = "send"
  /\ mem' = IF conf.resume /\ (Kind("mongodb") \/ Kind("kafka")) THEN nxt ELSE mem
  /\ UNCHANGED <<storeVars, diskVars, row, exitF, try, wgStuck, saverVars, histVars>>

(* It cannot be decoded, or is not what it should be: the reader reports that
   and reads on. *)
SkipChange ==
  /\ pc = "watch" /\ nxt <= head /\ ~OutOfLog /\ ~Kind("field") /\ Trouble
  /\ nxt' = nxt + 1
  /\ seen' = seen \cup {nxt}
  /\ mem' = IF conf.resume /\ Kind("kafka") THEN nxt ELSE mem
  /\ pc' = IF Kind("mysql") /\ conf.resume THEN "trunc" ELSE "watch"
  /\ UNCHANGED <<storeVars, diskVars, hand, row, exitF, try, wgStuck, saverVars,
                 origin, why>>

(* Kafka's client goes on with the first message kept. *)
SkipPurged ==
  /\ pc = "watch" /\ Kind("kafka") /\ OutOfLog
  /\ nxt' = oldest + 1
  /\ why' = IF \E i \in (origin + 1)..oldest : i \notin seen
            THEN why \cup {"blind"} ELSE why
  /\ UNCHANGED <<storeVars, diskVars, pc, mem, hand, row, exitF, try, wgStuck,
                 saverVars, seen, origin, crashes, others>>

(* opC <- op: the pipeline takes the change.  The binlog reader then saves the
   position (OnPosSynced), the field reader moves its window on. *)
HandOver ==
  /\ pc = "send"
  /\ seen' = seen \cup {hand} /\ hand' = 0
  /\ pc' = IF Kind("mysql") /\ conf.resume THEN "trunc" ELSE "watch"
  /\ mem' = IF Kind("field") THEN hand ELSE mem
  /\ UNCHANGED <<storeVars, diskVars, nxt, row, exitF, try, wgStuck,
                 saverVars, origin, why, crashes, others>>

(* SetPos and savePos in the reader's own goroutine. *)
SaveTruncates ==
  /\ pc = "trunc"
  /\ mem' = nxt - 1 /\ file' = Torn /\ pc' = "write"
  /\ UNCHANGED <<storeVars, committed, nxt, hand, row, exitF, try, wgStuck,
                 saverVars, histVars>>

SaveWrites ==
  /\ pc = "write"
  /\ file' \in Written(nxt - 1) /\ pc' = "watch"
  /\ saver' = IF saver = "off" THEN "idle" ELSE saver
  /\ UNCHANGED <<storeVars, committed, mem, nxt, hand, row, exitF, try,
                 wgStuck, saverPos, old, oldPos, histVars>>

(* The stream breaks.  The MySQL readers start it again from the position in
   memory, MaxTry times in all; the field reader leaves its WaitGroup behind,
   unless the error came before it had entered it.  MongoDB polls the broken
   stream on, but ends when it cannot be opened; Kafka ends. *)
StreamBreaks ==
  /\ pc = "watch"
  /\ \/ /\ Kind("mysql") \/ Kind("field")
        /\ try' = try + 1
        /\ wgStuck' \in {wgStuck, Kind("field")}
        /\ IF try' <= MaxTry
           THEN nxt' = mem + 1 /\ UNCHANGED <<pc, exitF>>
           ELSE /\ pc' = IF wgStuck' THEN "closing" ELSE "ended"
                /\ exitF' = (exitF \/ ~wgStuck') /\ UNCHANGED nxt
        /\ UNCHANGED committed
     \/ /\ Kind("mongodb") /\ pc' \in {"stuck", "ended"}
        /\ exitF' = (exitF \/ pc' = "ended")
        /\ UNCHANGED <<nxt, try, wgStuck, committed>>
     \/ /\ Kind("kafka") /\ pc' = "ended" /\ exitF' = TRUE /\ committed' = nxt
        /\ UNCHANGED <<nxt, try, wgStuck>>
  /\ UNCHANGED <<storeVars, file, mem, hand, row, saverVars, seen, origin, why>>

StreamError == StreamBreaks /\ Trouble

(* It always does when its position has been dropped from the log. *)
StreamLost ==
  /\ ~Kind("kafka") /\ OutOfLog
  /\ StreamBreaks /\ UNCHANGED <<crashes, others>>

(* Variant: the monitor of the reader only looks after a live goroutine. *)
EndOfWatchOnly ==
  /\ pc = "watch" /\ exitF
  /\ pc' = IF wgStuck THEN "closing" ELSE "ended"
  /\ committed' = IF Kind("kafka") THEN nxt ELSE committed
  /\ UNCHANGED <<storeVars, file, mem, nxt, hand, row, exitF, try, wgStuck,
                 saverVars, histVars>>

(* The loop finds exitF set.  The field reader first waits for its WaitGroup. *)
End ==
  /\ pc \in {"watch", "stuck", "hung"} /\ exitF
  /\ pc' = IF wgStuck THEN "closing" ELSE "ended"
  /\ committed' = IF Kind("kafka") THEN nxt ELSE committed
  /\ UNCHANGED <<storeVars, file, mem, nxt, hand, row, exitF, try, wgStuck,
                 saverVars, histVars>>

(* Variant: everything there is to read is committed. *)
CommitAll ==
  /\ Kind("kafka") /\ pc \in {"watch", "send"}
  /\ committed' = head + 1
  /\ UNCHANGED <<storeVars, file, readerVars, saverVars, histVars>>

(* The client commits on its own, every second, what ReadMessage returned. *)
Commit ==
  /\ Kind("kafka") /\ pc \in {"watch", "send"}
  /\ committed' = nxt
  /\ UNCHANGED <<storeVars, file, readerVars, saverVars, histVars>>

-----------------------------------------------------------------------------
(* The goroutine that saves on a ticker: autoRun, timerSavePos *)

(* Variant: the position of the change in hand is saved. *)
SaverTickAhead ==
  /\ saver = "idle"
  /\ saver' = "set" /\ saverPos' = IF Kind("mysql") THEN nxt - 1 ELSE mem
  /\ UNCHANGED <<storeVars, diskVars, readerVars, old, oldPos, histVars>>

SaverTick ==
  /\ saver = "idle"
  /\ saver' = "set" /\ saverPos' = Position
  /\ UNCHANGED <<storeVars, diskVars, readerVars, old, oldPos, histVars>>

(* The binlog and the Kafka reader store the value back into memory first. *)
SaverTruncates ==
  /\ saver = "set"
  /\ saver' = "write" /\ file' = Torn
  /\ mem' = IF Kind("mysql") \/ Kind("kafka") THEN saverPos ELSE mem
  /\ UNCHANGED <<storeVars, committed, pc, nxt, hand, row, exitF, try,
                 wgStuck, saverPos, old, oldPos, histVars>>

(* After its write it looks whether the instance has ended; the one of the
   field reader does not, but hangs in Close when the reader does. *)
SaverWrites ==
  /\ saver = "write"
  /\ file' \in Written(saverPos)
  /\ saver' = IF \/ pc = "ended" /\ ~Kind("field")
                 \/ exitF /\ (wgStuck \/ Kind("mongodb"))
              THEN "off" ELSE "idle"
  /\ saverPos' = 0
  /\ UNCHANGED <<storeVars, committed, readerVars, old, oldPos, histVars>>

(* The former instances' savers: each may write once more, those of the field
   reader write for ever. *)
OldTruncates(i) ==
  /\ old[i] = "idle"
  /\ old' = [old EXCEPT ![i] = "write"] /\ file' = Torn
  /\ UNCHANGED <<storeVars, committed, readerVars, saver, saverPos, oldPos, histVars>>

OldWrites(i) ==
  /\ old[i] = "write"
  /\ file' \in Written(oldPos[i])
  /\ IF Kind("field")
     THEN old' = [old EXCEPT ![i] = "idle"] /\ UNCHANGED oldPos
     ELSE old' = [old EXCEPT ![i] = "off"] /\ oldPos' = [oldPos EXCEPT ![i] = 0]
  /\ UNCHANGED <<storeVars, committed, readerVars, saver, saverPos, histVars>>

-----------------------------------------------------------------------------
(* The user and the process *)

Stop ==
  /\ pc \notin {"down", "ended"} /\ ~exitF /\ Trouble
  /\ exitF' = TRUE
  /\ UNCHANGED <<storeVars, diskVars, pc, mem, nxt, hand, row, try, wgStuck,
                 saverVars, seen, origin, why>>

(* A new instance is about to be made; the saver of the one that ended may still
   be at work, beside those of its predecessors. *)
Fresh ==
  /\ pc' = "down" /\ mem' = 0 /\ nxt' = 1 /\ hand' = 0 /\ row' = 1
  /\ exitF' = FALSE /\ try' = 1 /\ wgStuck' = FALSE
  /\ saver' = "off" /\ saverPos' = 0

Restart ==
  /\ pc = "ended" /\ Fresh
  /\ IF saver = "off" THEN UNCHANGED <<old, oldPos>>
     ELSE \E i \in Slots :
            /\ old[i] = "off" /\ \A j \in 1..(i - 1) : old[j] # "off"
            /\ old' = [old EXCEPT ![i] = IF saver = "write" THEN "write" ELSE "idle"]
            /\ oldPos' = [oldPos EXCEPT ![i] = IF saver = "idle" THEN Position ELSE saverPos]
  /\ UNCHANGED <<storeVars, diskVars, histVars>>

(* The process dies: the files and what Kafka keeps remain. *)
Crash ==
  /\ pc # "down" /\ CrashNow
  /\ Fresh /\ old' = [i \in Slots |-> "off"] /\ oldPos' = [i \in Slots |-> 0]
  /\ why' = Cut
  /\ UNCHANGED <<storeVars, diskVars, seen, origin>>

(* TaskReset on a stopped task: the resume files go, and the user empties the
   target.  A saver that is still alive may write the file again. *)
Reset ==
  /\ pc \in {"down", "ended"} /\ origin # Unset /\ Trouble
  /\ file' = Missing /\ seen' = {} /\ origin' = Unset
  /\ why' = IF saver # "off" \/ \E i \in Slots : old[i] # "off" THEN {"reset"} ELSE {}
  /\ UNCHANGED <<storeVars, committed, readerVars, saverVars>>

-----------------------------------------------------------------------------
Open   == OpenCanal \/ OpenField \/ OpenMongo \/ OpenKafka
Copy   == CopyRow \/ CopyCancel \/ CopyEnd
Stream ==
  \/ Fetch \/ SkipPurged \/ HandOver \/ SaveTruncates \/ SaveWrites
  \/ StreamLost \/ End
Saver  == SaverTruncates \/ SaverWrites

Next ==
  \/ Change \/ Purge
  \/ OpenCanal \/ OpenField \/ FieldCreate \/ FieldCreated \/ OpenMongo \/ OpenKafka
  \/ OpenFails
  \/ CopyRow \/ CopySkips \/ CopyCancel \/ CopyFails \/ CopyEnd
  \/ Fetch \/ SkipChange \/ SkipPurged \/ HandOver \/ SaveTruncates \/ SaveWrites
  \/ StreamError \/ StreamLost \/ End \/ Commit
  \/ SaverTick \/ SaverTruncates \/ SaverWrites
  \/ \E i \in Slots : OldTruncates(i) \/ OldWrites(i)
  \/ Stop \/ Restart \/ Crash \/ Reset

Spec == Init /\ [][Next]_vars

(* The store answers, the pipeline takes what it is handed (Task), and a
   process that died is started again with its tasks (Loop).  Nobody has to
   change a row, to stop, to restart an ended task or to reset it. *)
Fairness ==
  WF_vars(Open \/ FieldCreate \/ FieldCreated \/ Copy \/ Stream)

FairSpec == Spec /\ Fairness

-----------------------------------------------------------------------------
(* Properties *)

Positions == -2..MaxLog

(* The variables hold values of their types. *)
TypeOK ==
  /\ conf \in Confs /\ head \in 0..MaxLog /\ oldest \in 0..MaxLog
  /\ file \in Positions /\ committed \in 0..(MaxLog + 1)
  /\ pc \in {"down", "create", "created", "copy", "trunc", "write", "watch",
             "send", "stuck", "hung", "closing", "ended"}
  /\ mem \in 0..MaxLog /\ nxt \in 0..(MaxLog + 1) /\ hand \in 0..MaxLog
  /\ row \in 1..(NRows + 1) /\ exitF \in BOOLEAN /\ try \in 1..(MaxTry + 1)
  /\ wgStuck \in BOOLEAN
  /\ saver \in {"off", "idle", "set", "write"} /\ saverPos \in 0..MaxLog
  /\ old \in [Slots -> {"off", "idle", "write"}] /\ oldPos \in [Slots -> 0..MaxLog]
  /\ seen \subseteq 1..MaxLog /\ origin \in -1..MaxLog
  /\ why \subseteq {"blind", "cut", "reset"}
  /\ crashes \in Nat /\ others \in Nat /\ crashes + others <= MaxTroubles

(* The sources that take their position before they copy, and save it after
   they have handed over what it covers. *)
Exact == Kind("mysql") \/ Kind("field") \/ (Kind("mongodb") /\ (conf.resume \/ ~Replica))

(* The changes up to n that the pipeline has not got, though the reader has not
   skipped them as unreadable. *)
Gap(n) == {i \in (origin + 1)..n : i \notin seen}

(* However a source is stopped, crashes in the middle of a copy or of a save,
   has its stream broken or its log shortened: when it follows the log again
   there is no change behind it that the pipeline has not got
   (mysql_reader.go:393-485, 581-635, mongodb_reader.go:271-345, 689-721).
   Excepted are what the reader itself has passed over (CopySkips, SkipChange),
   a stream whose position was lost, a field replica whose copy was cut short,
   and a reset under a saver that was still alive. *)
NoGap == Watching /\ why = {} /\ Exact => Gap(nxt - 1) \subseteq {hand}

(* The resume file never claims a change the pipeline has not got, but for those
   the reader has passed over: what a crash leaves on disk is safe to start from
   (mysql_reader.go:1261-1267, 1294-1342, mongodb_reader.go:519-543, 724-745). *)
FileNotAhead ==
  file >= 0 /\ why = {} /\ Exact /\ origin # Unset
  /\ ~(Kind("field") /\ pc = "copy") =>
    Gap(IF Kind("mongodb") THEN file - 1 ELSE file) = {}

(* Kafka's client commits what it has returned, handed over or not: every
   crash may cost the one message in hand, and no more
   (kafka_reader.go:292-305). *)
LossPerCrash ==
  Watching /\ why = {} /\ Kind("kafka") =>
    Cardinality(Gap(nxt - 1) \ {hand}) <= crashes

Dead == pc \in {"ended", "closing", "stuck", "hung"}

(* When the store comes to rest, a source that is not stopped and has not given
   up brings the pipeline everything it owes and can read
   (mysql_reader.go:611-633, mongodb_reader.go:499-544). *)
CatchesUp ==
  head = MaxLog ~>
    \/ Gap(head) = {} /\ origin # Unset
    \/ Dead \/ why # {} \/ ~Exact

(* A Stop comes to its end, whatever the reader is doing - unless an error of
   the field reader has left its WaitGroup behind
   (mysql_reader.go:189-249, 1507-1546, task.go:536-540). *)
StopReturns == exitF ~> pc \in {"ended", "down"} \/ wgStuck

(* "replica ... first the full tables, then stream, guaranteeing a complete
   copy of the data" (docs/guide/03.source.md:42). *)
ReplicaIsComplete ==
  Replica /\ pc = "watch" /\ nxt > head => 1..head \subseteq seen
=============================================================================
