---------------------------- MODULE ResumeProofs ----------------------------
(***************************************************************************)
(* Proofs about module Resume: its types, that no change is skipped, that  *)
(* the resume file claims nothing the pipeline has not got, and what a     *)
(* crash costs with Kafka (the inductive invariants are in ResumeInv).     *)
(* One lemma per part of the invariant, with a step for each action.       *)
(***************************************************************************)
EXTENDS ResumeInv, FiniteSetTheorems, TLAPS

USE DEF storeVars, diskVars, readerVars, saverVars, histVars

(* The bound on what goes wrong. *)
LEMMA Troubles ==
  ASSUME TypeInv, Trouble \/ CrashNow
  PROVE  crashes' \in Nat /\ others' \in Nat /\ crashes' + others' <= MaxTroubles
  BY ResumeAssumption DEF TypeInv, TypeOK, Trouble, CrashNow, MayFail

(* The source that is looked at is one of those configured. *)
LEMMA Configuration ==
  ASSUME TypeInv
  PROVE  /\ conf.kind \in {"mysql", "field", "mongodb", "kafka"}
         /\ conf.mode \in {"stream", "replica"} /\ conf.resume \in BOOLEAN
  BY ResumeAssumption DEF TypeInv, TypeOK

(* Where the copy or the stream of a new source may begin. *)
LEMMA Origins ==
  ASSUME TypeInv, PlaceInv, NEW f \in 0..MaxLog
  PROVE  /\ Origin(f) \in 0..MaxLog
         /\ origin # Unset /\ (Replica \/ conf.resume) => Origin(f) = origin \/ Kind("kafka")
         /\ ~Replica /\ (~conf.resume \/ origin = Unset) => Origin(f) = f
         /\ Replica /\ ~Kind("kafka") => Origin(f) = 0
  <1>1. /\ origin \in -1..MaxLog /\ MaxLog \in Nat /\ InitLog \in 1..MaxLog
        /\ Replica /\ ~Kind("kafka") => origin = -1 \/ origin = 0
    BY ResumeAssumption DEF TypeInv, TypeOK, PlaceInv, Unset
  <1>2. Replica \in BOOLEAN /\ Kind("kafka") \in BOOLEAN /\ conf.resume \in BOOLEAN
    BY Configuration DEF Replica, Kind
  <1>3. CASE Replica /\ ~Kind("kafka")
    <2>1. Origin(f) = 0
      BY <1>3 DEF Origin
    <2> QED
      BY <1>1, <1>2, <1>3, <2>1 DEF Unset
  <1>4. CASE ~(Replica /\ ~Kind("kafka")) /\ (origin = Unset \/ (~Replica /\ ~conf.resume))
    <2>1. Origin(f) = f
      BY <1>4 DEF Origin
    <2> QED
      BY <1>1, <1>2, <1>4, <2>1 DEF Unset
  <1>5. CASE ~(Replica /\ ~Kind("kafka")) /\ ~(origin = Unset \/ (~Replica /\ ~conf.resume))
    <2>1. Origin(f) = origin
      BY <1>5 DEF Origin
    <2> QED
      BY <1>1, <1>2, <1>5, <2>1 DEF Unset
  <1> QED
    BY <1>3, <1>4, <1>5

LEMMA Blinds ==
  ASSUME TypeInv, NEW valid \in BOOLEAN
  PROVE  /\ Blind(valid) \subseteq {"blind", "cut", "reset"}
         /\ Blind(valid) = {} =>
              why = {} /\ (valid \/ Replica \/ ~conf.resume \/ origin = Unset)
  <1>1. why \subseteq {"blind", "cut", "reset"}
    BY DEF TypeInv, TypeOK
  <1>2. why \cup {"blind"} # {}
    OBVIOUS
  <1> QED
    BY <1>1, <1>2 DEF Blind

(* What each kind of source has in hand when it has been opened, by what its
   resume file held. *)
LEMMA CanalOpens ==
  ASSUME TypeInv, PlaceInv, OpenCanal
  PROVE  /\ pc = "down" /\ Kind("mysql") /\ pc' \in {"copy", "trunc", "watch"}
         /\ origin' = Origin(head)
         /\ crashes' \in Nat /\ others' \in Nat /\ crashes' + others' <= MaxTroubles
         /\ why' \subseteq {"blind", "cut", "reset"} /\ (why' = {} => why = {})
         /\ UNCHANGED <<storeVars, diskVars, hand, row, exitF, try, wgStuck, saverVars, seen>>
         /\ \/ /\ conf.resume /\ file >= 0 /\ file <= head
               /\ mem' = file /\ nxt' = file + 1 /\ pc' = "trunc"
            \/ /\ mem' = head /\ nxt' = head + 1
               /\ pc' = IF Replica THEN "copy" ELSE IF conf.resume THEN "trunc" ELSE "watch"
               /\ why' = {} => Replica \/ ~conf.resume \/ origin = Unset
  <1> DEFINE p == IF conf.resume /\ file >= 0 THEN file ELSE Torn
             E == ExistsBinlog(p)
  <1>1. E => conf.resume /\ file >= 0 /\ p = file /\ file <= head
    BY ResumeAssumption DEF TypeInv, TypeOK, Positions, ExistsBinlog, Torn
  <1>2. E \in BOOLEAN
    BY DEF ExistsBinlog
  <1> HIDE DEF E
  <1>3. PICK valid \in {E, FALSE} :
          /\ pc' = IF Replica /\ ~valid THEN "copy"
                   ELSE IF conf.resume THEN "trunc" ELSE "watch"
          /\ mem' = (IF valid THEN p ELSE head)
          /\ nxt' = (IF valid THEN p ELSE head) + 1
          /\ why' = Blind(valid)
          /\ IF valid = E THEN UNCHANGED <<crashes, others>> ELSE Trouble
    BY DEF OpenCanal, E
  <1>4. valid \in BOOLEAN
    BY <1>2, <1>3
  <1>5. crashes' \in Nat /\ others' \in Nat /\ crashes' + others' <= MaxTroubles
    BY <1>3, Troubles DEF TypeInv, TypeOK
  <1>6. /\ why' \subseteq {"blind", "cut", "reset"}
        /\ why' = {} => why = {} /\ (valid \/ Replica \/ ~conf.resume \/ origin = Unset)
    BY <1>3, <1>4, Blinds
  <1>7. /\ pc = "down" /\ Kind("mysql") /\ origin' = Origin(head)
        /\ UNCHANGED <<storeVars, diskVars, hand, row, exitF, try, wgStuck, saverVars, seen>>
    BY DEF OpenCanal
  <1>8. CASE valid
    <2>1. /\ mem' = file /\ nxt' = file + 1 /\ pc' = "trunc"
          /\ conf.resume /\ file >= 0 /\ file <= head
      BY <1>1, <1>2, <1>3, <1>8, Configuration DEF Replica
    <2> QED
      BY <2>1, <1>5, <1>6, <1>7
  <1>9. CASE ~valid
    <2>1. /\ mem' = head /\ nxt' = head + 1
          /\ pc' = IF Replica THEN "copy" ELSE IF conf.resume THEN "trunc" ELSE "watch"
      BY <1>3, <1>4, <1>9, Configuration DEF Replica
    <2>2. why' = {} => Replica \/ ~conf.resume \/ origin = Unset
      BY <1>6, <1>9
    <2> QED
      BY <2>1, <2>2, <1>5, <1>6, <1>7
  <1> QED
    BY <1>4, <1>8, <1>9

LEMMA FieldOpens ==
  ASSUME TypeInv, PlaceInv, OpenField
  PROVE  /\ pc = "down" /\ Kind("field") /\ pc' \in {"copy", "create", "watch"}
         /\ origin' = Origin(head) /\ nxt' = mem' + 1
         /\ why' \subseteq {"blind", "cut", "reset"} /\ (why' = {} => why = {})
         /\ UNCHANGED <<storeVars, diskVars, hand, row, exitF, try, wgStuck,
                        saverPos, old, oldPos, seen, crashes, others>>
         /\ \/ /\ conf.resume /\ file # Missing /\ pc' = "watch" /\ saver' = "idle"
               /\ mem' \in 0..MaxLog /\ (mem' = 0 \/ (file >= 0 /\ mem' = file))
            \/ /\ mem' = head /\ saver' = saver
               /\ \/ conf.resume /\ file = Missing /\ pc' = "create"
                  \/ ~conf.resume /\ pc' = IF Replica THEN "copy" ELSE "watch"
               /\ why' = {} => Replica \/ ~conf.resume \/ origin = Unset
  <1> DEFINE exists == conf.resume /\ file # Missing
             start  == IF ~exists THEN head ELSE IF file = Torn THEN 0 ELSE file
  <1>1. /\ pc = "down" /\ Kind("field") /\ origin' = Origin(head)
        /\ UNCHANGED <<storeVars, diskVars, hand, row, exitF, try, wgStuck,
                       saverPos, old, oldPos, seen, crashes, others>>
        /\ pc' = IF exists THEN "watch"
                 ELSE IF conf.resume THEN "create"
                 ELSE IF Replica THEN "copy" ELSE "watch"
        /\ saver' = IF exists THEN "idle" ELSE saver
        /\ mem' = start /\ nxt' = start + 1 /\ why' = Blind(exists)
    BY DEF OpenField
  <1>2. /\ why' \subseteq {"blind", "cut", "reset"}
        /\ why' = {} => why = {} /\ (exists \/ Replica \/ ~conf.resume \/ origin = Unset)
    BY <1>1, Blinds
  <1>3. CASE exists
    <2>1. MaxLog \in Nat /\ file \in -2..MaxLog
      BY ResumeAssumption DEF TypeInv, TypeOK, Positions
    <2>2. /\ file = Torn => start = 0
          /\ file # Torn => start = file /\ file >= 0
      BY <1>3, <2>1 DEF Torn, Missing
    <2>3. start \in 0..MaxLog /\ (start = 0 \/ (file >= 0 /\ start = file))
      BY <2>1, <2>2
    <2> HIDE DEF start
    <2>4. mem' \in 0..MaxLog /\ (mem' = 0 \/ (file >= 0 /\ mem' = file)) /\ nxt' = mem' + 1
      BY <1>1, <2>3
    <2>5. conf.resume /\ file # Missing /\ pc' = "watch" /\ saver' = "idle"
      BY <1>1, <1>3
    <2> QED
      BY <1>1, <1>2, <2>4, <2>5
  <1>4. CASE ~exists
    <2>1. start = head
      BY <1>4
    <2> HIDE DEF start
    <2> QED
      BY <1>1, <1>2, <1>4, <2>1, Configuration DEF Replica
  <1> QED
    BY <1>3, <1>4

LEMMA MongoOpens ==
  ASSUME TypeInv, PlaceInv, OpenMongo
  PROVE  /\ pc = "down" /\ Kind("mongodb") /\ pc' \in {"copy", "watch"}
         /\ origin' = Origin(head) /\ nxt' = IF conf.resume THEN mem' ELSE head + 1
         /\ saver' = (IF conf.resume /\ pc' = "watch" THEN "idle" ELSE saver)
         /\ why' \subseteq {"blind", "cut", "reset"} /\ (why' = {} => why = {})
         /\ UNCHANGED <<storeVars, diskVars, hand, row, exitF, try, wgStuck,
                        saverPos, old, oldPos, seen, crashes, others>>
         /\ \/ /\ conf.resume /\ file >= 1 /\ file <= head
               /\ mem' = file /\ pc' = "watch"
            \/ /\ mem' = head /\ pc' = IF Replica THEN "copy" ELSE "watch"
               /\ why' = {} => Replica \/ ~conf.resume \/ origin = Unset
  <1> DEFINE p     == IF conf.resume /\ file >= 0 THEN file ELSE Torn
             valid == oldest < p /\ p <= head
  <1>1. valid => conf.resume /\ file >= 1 /\ p = file /\ file <= head
    BY ResumeAssumption DEF TypeInv, TypeOK, Positions, Torn
  <1>2. valid \in BOOLEAN
    OBVIOUS
  <1>3. /\ pc = "down" /\ Kind("mongodb") /\ origin' = Origin(head)
        /\ UNCHANGED <<storeVars, diskVars, hand, row, exitF, try, wgStuck,
                       saverPos, old, oldPos, seen, crashes, others>>
        /\ pc' = (IF Replica /\ ~valid THEN "copy" ELSE "watch")
        /\ mem' = (IF valid THEN p ELSE head)
        /\ nxt' = (IF conf.resume THEN mem' ELSE head + 1)
        /\ saver' = (IF conf.resume /\ pc' = "watch" THEN "idle" ELSE saver)
        /\ why' = Blind(valid)
    BY DEF OpenMongo
  <1> HIDE DEF valid, p
  <1>4. /\ why' \subseteq {"blind", "cut", "reset"}
        /\ why' = {} => why = {} /\ (valid \/ Replica \/ ~conf.resume \/ origin = Unset)
    BY <1>2, <1>3, Blinds
  <1> QED
    BY <1>1, <1>2, <1>3, <1>4

LEMMA KafkaOpens ==
  ASSUME TypeInv, PlaceInv, OpenKafka
  PROVE  /\ pc = "down" /\ Kind("kafka") /\ pc' = "watch"
         /\ origin' \in 0..MaxLog
         /\ nxt' \in 1..(MaxLog + 1) /\ mem' \in 0..MaxLog /\ committed' \in 0..(MaxLog + 1)
         /\ saver' = (IF conf.resume THEN "idle" ELSE saver)
         /\ why' \subseteq {"blind", "cut", "reset"}
         /\ UNCHANGED <<storeVars, file, hand, row, exitF, try, wgStuck, saverPos,
                        old, oldPos, seen, crashes, others>>
  <1> DEFINE known == conf.resume /\ file >= 0
             first == oldest + 1
             want  == IF known /\ committed > 0 THEN {committed}
                      ELSE IF known /\ file > 0 THEN {file}
                      ELSE IF ~Replica /\ ~conf.resume THEN {first, head + 1}
                      ELSE {first}
  <1>1. /\ pc = "down" /\ Kind("kafka") /\ pc' = "watch"
        /\ nxt' \in {IF n < first THEN first ELSE n : n \in want}
        /\ mem' = (IF known THEN file ELSE 0)
        /\ committed' = (IF known THEN committed ELSE 0)
        /\ saver' = (IF conf.resume THEN "idle" ELSE saver)
        /\ origin' = Origin(nxt' - 1)
        /\ why' = (IF \E i \in (origin' + 1)..oldest : i \notin seen
                   THEN why \cup {"blind"} ELSE why)
        /\ UNCHANGED <<storeVars, file, hand, row, exitF, try, wgStuck, saverPos,
                       old, oldPos, seen, crashes, others>>
    BY DEF OpenKafka
  <1>2. first \in 1..(MaxLog + 1) /\ want \subseteq 1..(MaxLog + 1)
    <2>1. /\ MaxLog \in Nat /\ file \in -2..MaxLog /\ head \in 0..MaxLog
          /\ oldest \in 0..MaxLog /\ committed \in 0..(MaxLog + 1)
      BY ResumeAssumption DEF TypeInv, TypeOK, Positions
    <2>2. first \in 1..(MaxLog + 1) /\ head + 1 \in 1..(MaxLog + 1)
      BY <2>1
    <2>3. file > 0 => file \in 1..(MaxLog + 1)
      BY <2>1
    <2>4. committed > 0 => committed \in 1..(MaxLog + 1)
      BY <2>1
    <2> HIDE DEF first
    <2>5. \/ want = {committed} /\ committed > 0
          \/ want = {file} /\ file > 0
          \/ want = {first, head + 1}
          \/ want = {first}
      OBVIOUS
    <2> QED
      BY <2>2, <2>3, <2>4, <2>5
  <1>3. nxt' \in 1..(MaxLog + 1)
    BY <1>1, <1>2
  <1>4. nxt' - 1 \in 0..MaxLog
    <2>1. MaxLog \in Nat
      BY ResumeAssumption
    <2>2. \A n \in 1..(MaxLog + 1) : n - 1 \in 0..MaxLog
      BY <2>1
    <2> QED
      BY <1>3, <2>2
  <1>5. origin' \in 0..MaxLog
    BY <1>1, <1>4, Origins
  <1>6. mem' \in 0..MaxLog /\ committed' \in 0..(MaxLog + 1)
    <2>1. /\ MaxLog \in Nat /\ file \in -2..MaxLog /\ committed \in 0..(MaxLog + 1)
      BY ResumeAssumption DEF TypeInv, TypeOK, Positions
    <2>2. ((mem' = file /\ file >= 0) \/ mem' = 0) /\ committed' \in {committed, 0}
      BY <1>1
    <2> QED
      BY <2>1, <2>2
  <1>7. why' \subseteq {"blind", "cut", "reset"}
    <2>1. why' = why \cup {"blind"} \/ why' = why
      BY <1>1
    <2> QED
      BY <2>1 DEF TypeInv, TypeOK
  <1> HIDE DEF known, first, want
  <1> QED
    BY <1>1, <1>3, <1>5, <1>6, <1>7

(* Every step keeps the types. *)
LEMMA TypeStep ==
  ASSUME TypeInv, PlaceInv, [Next]_vars
  PROVE  TypeInv'
  <1>1. CASE Change
    BY <1>1, ResumeAssumption DEF Change, TypeInv, TypeOK
  <1>2. CASE Purge
    BY <1>2, ResumeAssumption DEF Purge, TypeInv, TypeOK
  <1>3. CASE OpenCanal
    <2>0. MaxLog \in Nat /\ head \in 1..MaxLog /\ file \in -2..MaxLog
      BY ResumeAssumption DEF TypeInv, TypeOK, Positions
    <2>1. origin' \in 0..MaxLog
      BY <1>3, <2>0, CanalOpens, Origins
    <2>2. mem' \in 0..MaxLog /\ nxt' \in 1..(MaxLog + 1)
      BY <1>3, <2>0, CanalOpens
    <2>3. /\ why' \subseteq {"blind", "cut", "reset"}
          /\ crashes' \in Nat /\ others' \in Nat /\ crashes' + others' <= MaxTroubles
          /\ pc' \in {"copy", "trunc", "watch"} /\ pc = "down"
          /\ committed' = committed /\ saver' = saver
      BY <1>3, CanalOpens
    <2>4. UNCHANGED <<storeVars, file, hand, row, exitF, try, wgStuck, saverPos,
                      old, oldPos, seen>>
      BY <1>3, CanalOpens
    <2>5. UNCHANGED <<conf, head, oldest, file, hand, row, exitF, try, wgStuck, saverPos,
                      old, oldPos, seen>>
      BY <2>4
    <2>6. TypeOK'
      BY <2>1, <2>2, <2>3, <2>5 DEF TypeInv, TypeOK
    <2> QED
      BY <2>2, <2>3, <2>5, <2>6 DEF TypeInv
  <1>4. CASE OpenField
    <2>0. MaxLog \in Nat /\ head \in 1..MaxLog /\ file \in -2..MaxLog
      BY ResumeAssumption DEF TypeInv, TypeOK, Positions
    <2>1. origin' \in 0..MaxLog
      BY <1>4, <2>0, FieldOpens, Origins
    <2>2. mem' \in 0..MaxLog /\ nxt' \in 1..(MaxLog + 1)
      BY <1>4, <2>0, FieldOpens
    <2>3. /\ why' \subseteq {"blind", "cut", "reset"}
          /\ pc' \in {"copy", "create", "watch"} /\ pc = "down" /\ saver' \in {saver, "idle"}
          /\ committed' = committed /\ crashes' = crashes /\ others' = others
      BY <1>4, FieldOpens
    <2>4. UNCHANGED <<storeVars, file, hand, row, exitF, try, wgStuck, saverPos,
                      old, oldPos, seen>>
      BY <1>4, FieldOpens
    <2>5. UNCHANGED <<conf, head, oldest, file, hand, row, exitF, try, wgStuck, saverPos,
                      old, oldPos, seen>>
      BY <2>4
    <2>6. TypeOK'
      BY <2>1, <2>2, <2>3, <2>5 DEF TypeInv, TypeOK
    <2> QED
      BY <2>2, <2>3, <2>5, <2>6 DEF TypeInv
  <1>5. CASE FieldCreate
    BY <1>5, ResumeAssumption DEF FieldCreate, TypeInv, TypeOK, Torn, Positions
  <1>6. CASE FieldCreated
    BY <1>6, ResumeAssumption DEF FieldCreated, Written, TypeInv, TypeOK, Torn, Positions
  <1>7. CASE OpenMongo
    <2>0. MaxLog \in Nat /\ head \in 1..MaxLog /\ file \in -2..MaxLog
      BY ResumeAssumption DEF TypeInv, TypeOK, Positions
    <2>1. origin' \in 0..MaxLog
      BY <1>7, <2>0, MongoOpens, Origins
    <2>2. mem' \in 0..MaxLog /\ nxt' \in 1..(MaxLog + 1)
      BY <1>7, <2>0, MongoOpens
    <2>3. /\ why' \subseteq {"blind", "cut", "reset"}
          /\ pc' \in {"copy", "watch"} /\ pc = "down" /\ saver' \in {saver, "idle"}
          /\ committed' = committed /\ crashes' = crashes /\ others' = others
      BY <1>7, MongoOpens
    <2>4. UNCHANGED <<storeVars, file, hand, row, exitF, try, wgStuck, saverPos,
                      old, oldPos, seen>>
      BY <1>7, MongoOpens
    <2>5. UNCHANGED <<conf, head, oldest, file, hand, row, exitF, try, wgStuck, saverPos,
                      old, oldPos, seen>>
      BY <2>4
    <2>6. TypeOK'
      BY <2>1, <2>2, <2>3, <2>5 DEF TypeInv, TypeOK
    <2> QED
      BY <2>2, <2>3, <2>5, <2>6 DEF TypeInv
  <1>8. CASE OpenKafka
    <2>0. MaxLog \in Nat /\ head \in 1..MaxLog /\ file \in -2..MaxLog
      BY ResumeAssumption DEF TypeInv, TypeOK, Positions
    <2>1. origin' \in 0..MaxLog
      BY <1>8, <2>0, KafkaOpens
    <2>2. mem' \in 0..MaxLog /\ nxt' \in 1..(MaxLog + 1)
      BY <1>8, <2>0, KafkaOpens
    <2>3. /\ why' \subseteq {"blind", "cut", "reset"}
          /\ pc' = "watch" /\ pc = "down" /\ saver' \in {saver, "idle"}
          /\ committed' \in 0..(MaxLog + 1) /\ crashes' = crashes /\ others' = others
      BY <1>8, KafkaOpens
    <2>4. UNCHANGED <<storeVars, file, hand, row, exitF, try, wgStuck, saverPos,
                      old, oldPos, seen>>
      BY <1>8, KafkaOpens
    <2>5. UNCHANGED <<conf, head, oldest, file, hand, row, exitF, try, wgStuck, saverPos,
                      old, oldPos, seen>>
      BY <2>4
    <2>6. TypeOK'
      BY <2>1, <2>2, <2>3, <2>5 DEF TypeInv, TypeOK
    <2> QED
      BY <2>2, <2>3, <2>5, <2>6 DEF TypeInv
  <1>9. CASE OpenFails
    <2>1. crashes' \in Nat /\ others' \in Nat /\ crashes' + others' <= MaxTroubles
      BY <1>9, Troubles DEF OpenFails
    <2>2. /\ pc = "down" /\ pc' \in {"hung", "ended"}
          /\ UNCHANGED <<conf, head, oldest, file, committed, mem, nxt, hand, row, try, wgStuck,
                         saver, saverPos, old, oldPos, seen, origin, why>>
      BY <1>9 DEF OpenFails
    <2>3. exitF' \in BOOLEAN
      BY <1>9 DEF OpenFails, TypeInv, TypeOK
    <2>4. TypeOK'
      BY <2>1, <2>2, <2>3 DEF TypeInv, TypeOK
    <2> QED
      BY <2>2, <2>4 DEF TypeInv
  <1>10. CASE CopyRow
    <2>1. seen' \subseteq 1..MaxLog
      <3>1. MaxLog \in Nat /\ head \in 0..MaxLog /\ seen \subseteq 1..MaxLog
        BY ResumeAssumption DEF TypeInv, TypeOK
      <3>2. RowState(row) \subseteq 1..MaxLog
        BY <3>1 DEF RowState
      <3> QED
        BY <1>10, <3>1, <3>2 DEF CopyRow
    <2>2. why' \subseteq {"blind", "cut", "reset"}
      BY <1>10 DEF CopyRow, Cut, TypeInv, TypeOK
    <2>3. row' \in 1..(NRows + 1) /\ pc = "copy" /\ pc' \in {"ended", "copy"}
      BY <1>10, ResumeAssumption DEF CopyRow, TypeInv, TypeOK
    <2>4. UNCHANGED <<conf, head, oldest, file, committed, mem, nxt, hand, exitF, try, wgStuck,
                      saver, saverPos, old, oldPos, origin, crashes, others>>
      BY <1>10 DEF CopyRow
    <2>5. TypeOK'
      BY <2>1, <2>2, <2>3, <2>4 DEF TypeInv, TypeOK
    <2> QED
      BY <2>3, <2>4, <2>5 DEF TypeInv
  <1>11. CASE CopyCancel
    BY <1>11 DEF CopyCancel, Cut, TypeInv, TypeOK
  <1>12. CASE CopyFails
    BY <1>12, ResumeAssumption DEF CopyFails, Cut, Trouble, MayFail, TypeInv, TypeOK
  <1>13. CASE CopyEnd
    BY <1>13, ResumeAssumption DEF CopyEnd, TypeInv, TypeOK
  <1>14. CASE Fetch
    BY <1>14, ResumeAssumption DEF Fetch, TypeInv, TypeOK
  <1>15. CASE HandOver
    BY <1>15, ResumeAssumption DEF HandOver, TypeInv, TypeOK
  <1>16. CASE SaveTruncates
    BY <1>16, ResumeAssumption DEF SaveTruncates, TypeInv, TypeOK, Torn, Positions
  <1>17. CASE SaveWrites
    BY <1>17, ResumeAssumption DEF SaveWrites, Written, TypeInv, TypeOK, Torn, Positions
  <1>18. CASE StreamBreaks /\ (Trouble \/ UNCHANGED <<crashes, others>>)
    <2>1. crashes' \in Nat /\ others' \in Nat /\ crashes' + others' <= MaxTroubles
      BY <1>18, Troubles DEF TypeInv, TypeOK
    <2>2. /\ MaxTry \in Nat \ {0} /\ MaxLog \in Nat
          /\ try \in 1..MaxTry /\ nxt \in 1..(MaxLog + 1)
          /\ mem \in 0..MaxLog /\ committed \in 0..(MaxLog + 1)
      BY <1>18, ResumeAssumption DEF StreamBreaks, TypeInv, TypeOK
    <2>3. /\ pc = "watch" /\ pc' \in {"watch", "closing", "ended", "stuck"}
          /\ UNCHANGED <<conf, head, oldest, file, mem, hand, row, saver, saverPos, old, oldPos,
                         seen, origin, why>>
      BY <1>18 DEF StreamBreaks
    <2>4. exitF' \in BOOLEAN /\ wgStuck' \in BOOLEAN
      BY <1>18 DEF StreamBreaks, TypeInv, TypeOK, Kind
    <2>5. nxt' \in 1..(MaxLog + 1) /\ committed' \in 0..(MaxLog + 1)
      BY <1>18, <2>2 DEF StreamBreaks
    <2>6. /\ try' \in 1..(MaxTry + 1)
          /\ pc' \notin {"closing", "ended"} => try' <= MaxTry
      BY <1>18, <2>2 DEF StreamBreaks
    <2>7. TypeOK'
      BY <2>1, <2>3, <2>4, <2>5, <2>6 DEF TypeInv, TypeOK
    <2> QED
      BY <2>3, <2>5, <2>6, <2>7 DEF TypeInv
  <1>19. CASE End
    BY <1>19 DEF End, TypeInv, TypeOK
  <1>20. CASE Commit
    BY <1>20 DEF Commit, TypeInv, TypeOK
  <1>21. CASE SaverTick
    BY <1>21, ResumeAssumption DEF SaverTick, Position, SyncedPosition, TypeInv, TypeOK
  <1>22. CASE SaverTruncates
    BY <1>22, ResumeAssumption DEF SaverTruncates, TypeInv, TypeOK, Torn, Positions
  <1>23. CASE SaverWrites
    BY <1>23, ResumeAssumption DEF SaverWrites, Written, TypeInv, TypeOK, Torn, Positions
  <1>24. CASE \E k \in Slots : OldTruncates(k)
    BY <1>24, ResumeAssumption DEF OldTruncates, TypeInv, TypeOK, Torn, Positions
  <1>25. CASE \E k \in Slots : OldWrites(k)
    BY <1>25, ResumeAssumption DEF OldWrites, Written, TypeInv, TypeOK, Torn, Positions
  <1>26. CASE Stop
    BY <1>26, ResumeAssumption DEF Stop, Trouble, MayFail, TypeInv, TypeOK
  <1>27. CASE Restart
    <2>1. /\ old \in [Slots -> {"off", "idle", "write"}] /\ oldPos \in [Slots -> 0..MaxLog]
          /\ saverPos \in 0..MaxLog
      BY DEF TypeInv, TypeOK
    <2>2. old' \in [Slots -> {"off", "idle", "write"}] /\ oldPos' \in [Slots -> 0..MaxLog]
      <3>1. Position \in 0..MaxLog
        BY ResumeAssumption DEF Position, SyncedPosition, TypeInv, TypeOK
      <3>2. CASE saver = "off"
        BY <1>27, <2>1, <3>2 DEF Restart
      <3>3. CASE saver # "off"
        <4>1. PICK i \in Slots :
                /\ old' = [old EXCEPT ![i] = IF saver = "write" THEN "write" ELSE "idle"]
                /\ oldPos' = [oldPos EXCEPT ![i] = IF saver = "idle" THEN Position ELSE saverPos]
          BY <1>27, <3>3 DEF Restart
        <4> QED
          BY <2>1, <3>1, <4>1
      <3> QED
        BY <3>2, <3>3
    <2>3. UNCHANGED <<conf, head, oldest, file, committed, seen, origin, why, crashes, others>>
      BY <1>27 DEF Restart
    <2>4. /\ pc' = "down" /\ mem' = 0 /\ nxt' = 1 /\ hand' = 0 /\ row' = 1
          /\ try' = 1 /\ saver' = "off" /\ saverPos' = 0
      BY <1>27 DEF Restart, Fresh
    <2>5. exitF' \in BOOLEAN /\ wgStuck' \in BOOLEAN
      BY <1>27 DEF Restart, Fresh
    <2>6. TypeOK'
      BY <2>1, <2>2, <2>3, <2>4, <2>5, ResumeAssumption DEF TypeInv, TypeOK
    <2> QED
      BY <2>3, <2>4, <2>6, ResumeAssumption DEF TypeInv
  <1>28. CASE Crash
    <2>1. crashes' \in Nat /\ others' \in Nat /\ crashes' + others' <= MaxTroubles
      BY <1>28, Troubles DEF Crash
    <2>2. why' \subseteq {"blind", "cut", "reset"}
      BY <1>28 DEF Crash, Cut, TypeInv, TypeOK
    <2>3. /\ UNCHANGED <<conf, head, oldest, file, committed, seen, origin>>
          /\ old' \in [Slots -> {"off", "idle", "write"}] /\ oldPos' \in [Slots -> 0..MaxLog]
      BY <1>28, ResumeAssumption DEF Crash
    <2>4. /\ pc' = "down" /\ mem' = 0 /\ nxt' = 1 /\ hand' = 0 /\ row' = 1
          /\ try' = 1 /\ saver' = "off" /\ saverPos' = 0
      BY <1>28 DEF Crash, Fresh
    <2>5. exitF' \in BOOLEAN /\ wgStuck' \in BOOLEAN
      BY <1>28 DEF Crash, Fresh
    <2>6. /\ mem' \in 0..MaxLog /\ nxt' \in 0..(MaxLog + 1) /\ hand' \in 0..MaxLog
          /\ row' \in 1..(NRows + 1) /\ try' \in 1..(MaxTry + 1) /\ saverPos' \in 0..MaxLog
      BY <2>4, ResumeAssumption
    <2>7. TypeOK'
      BY <2>1, <2>2, <2>3, <2>4, <2>5, <2>6 DEF TypeInv, TypeOK
    <2> QED
      BY <2>3, <2>4, <2>7, ResumeAssumption DEF TypeInv
  <1>29. CASE Reset
    BY <1>29, ResumeAssumption DEF Reset, Trouble, MayFail, TypeInv, TypeOK, Missing,
       Unset, Positions
  <1>30. CASE UNCHANGED vars
    BY <1>30 DEF vars, TypeInv, TypeOK
  <1>31. CASE CopySkips
    <2>1. crashes' \in Nat /\ others' \in Nat /\ crashes' + others' <= MaxTroubles
      BY <1>31, Troubles DEF CopySkips
    <2>2. seen' \subseteq 1..MaxLog
      <3>1. nxt \in 0..(MaxLog + 1) /\ MaxLog \in Nat /\ seen \subseteq 1..MaxLog
        BY ResumeAssumption DEF TypeInv, TypeOK
      <3>2. 1..(nxt - 1) \subseteq 1..MaxLog
        BY <3>1
      <3>3. seen' \subseteq seen \cup 1..(nxt - 1)
        BY <1>31 DEF CopySkips
      <3> QED
        BY <3>1, <3>2, <3>3
    <2>3. row' \in 1..(NRows + 1) /\ pc = "copy"
      BY <1>31, ResumeAssumption DEF CopySkips, TypeInv, TypeOK
    <2>4. UNCHANGED <<conf, head, oldest, file, committed, pc, mem, nxt, hand, exitF, try,
                      wgStuck, saver, saverPos, old, oldPos, origin, why>>
      BY <1>31 DEF CopySkips
    <2>5. TypeOK'
      BY <2>1, <2>2, <2>3, <2>4 DEF TypeInv, TypeOK
    <2> QED
      BY <2>3, <2>4, <2>5 DEF TypeInv
  <1>32. CASE SkipChange
    BY <1>32, ResumeAssumption DEF SkipChange, Trouble, MayFail, TypeInv, TypeOK
  <1>33. CASE SkipPurged
    BY <1>33, ResumeAssumption DEF SkipPurged, OutOfLog, TypeInv, TypeOK
  <1> QED
    BY <1>1, <1>2, <1>3, <1>4, <1>5, <1>6, <1>7, <1>8, <1>9, <1>10, <1>11,
       <1>12, <1>13, <1>14, <1>15, <1>16, <1>17, <1>18, <1>19, <1>20, <1>21,
       <1>22, <1>23, <1>24, <1>25, <1>26, <1>27, <1>28, <1>29, <1>30,
       <1>31, <1>32, <1>33 DEF Next, StreamError, StreamLost

(* Every step keeps each reader to the points its code has. *)
LEMMA PlaceStep ==
  ASSUME TypeInv, PlaceInv, [Next]_vars
  PROVE  PlaceInv'
  <1>1. CASE Change
    BY <1>1 DEF Change, PlaceInv, Starting, Kind, Replica
  <1>2. CASE Purge
    BY <1>2 DEF Purge, PlaceInv, Starting, Kind, Replica
  <1>3. CASE OpenCanal
    <2>1. head \in 0..MaxLog
      BY DEF TypeInv, TypeOK
    <2>2. Replica /\ ~Kind("kafka") => origin' = 0
      BY <1>3, <2>1, CanalOpens, Origins
    <2>3. /\ pc = "down" /\ Kind("mysql") /\ pc' \in {"copy", "trunc", "watch"}
          /\ pc' = "copy" => Replica
          /\ pc' = "trunc" => conf.resume
      BY <1>3, Configuration, CanalOpens DEF Replica
    <2>4. UNCHANGED <<conf, file, row, saver>>
      BY <1>3, CanalOpens
    <2> QED
      BY <2>2, <2>3, <2>4 DEF PlaceInv, Starting, Kind, Replica
  <1>4. CASE OpenField
    <2>1. head \in 0..MaxLog
      BY DEF TypeInv, TypeOK
    <2>2. Replica /\ ~Kind("kafka") => origin' = 0
      BY <1>4, <2>1, FieldOpens, Origins
    <2>3. /\ pc = "down" /\ Kind("field") /\ pc' \in {"copy", "create", "watch"}
          /\ pc' = "copy" => Replica /\ ~conf.resume
          /\ pc' = "create" => conf.resume
          /\ saver' # saver => pc' = "watch"
      BY <1>4, Configuration, FieldOpens DEF Replica
    <2>4. UNCHANGED <<conf, file, row>>
      BY <1>4, FieldOpens
    <2> QED
      BY <2>2, <2>3, <2>4 DEF PlaceInv, Starting, Kind, Replica
  <1>5. CASE FieldCreate
    BY <1>5 DEF FieldCreate, PlaceInv, Starting, Kind, Replica, Missing, Torn
  <1>6. CASE FieldCreated
    BY <1>6 DEF FieldCreated, Written, TypeInv, TypeOK, PlaceInv, Starting, Kind, Replica,
       Missing, Torn
  <1>7. CASE OpenMongo
    <2>1. head \in 0..MaxLog
      BY DEF TypeInv, TypeOK
    <2>2. Replica /\ ~Kind("kafka") => origin' = 0
      BY <1>7, <2>1, MongoOpens, Origins
    <2>3. /\ pc = "down" /\ Kind("mongodb") /\ pc' \in {"copy", "watch"}
          /\ pc' = "copy" => Replica
          /\ saver' # saver => pc' = "watch"
      BY <1>7, Configuration, MongoOpens DEF Replica
    <2>4. UNCHANGED <<conf, file, row>>
      BY <1>7, MongoOpens
    <2> QED
      BY <2>2, <2>3, <2>4 DEF PlaceInv, Starting, Kind, Replica
  <1>8. CASE OpenKafka
    <2>1. /\ pc = "down" /\ Kind("kafka") /\ pc' = "watch"
          /\ UNCHANGED <<conf, file, row>>
      BY <1>8, KafkaOpens
    <2> QED
      BY <2>1 DEF PlaceInv, Starting, Kind, Replica
  <1>9. CASE OpenFails
    BY <1>9 DEF OpenFails, Trouble, MayFail, PlaceInv, Kind, Replica
  <1>10. CASE CopyRow
    BY <1>10 DEF CopyRow, RowState, Cut, PlaceInv, Starting, Kind, Replica
  <1>11. CASE CopyCancel
    BY <1>11 DEF CopyCancel, Cut, PlaceInv, Starting
  <1>12. CASE CopyFails
    BY <1>12 DEF CopyFails, Cut, Trouble, MayFail, PlaceInv, Starting
  <1>13. CASE CopyEnd
    BY <1>13 DEF CopyEnd, PlaceInv, Starting, Kind
  <1>14. CASE Fetch
    BY <1>14 DEF Fetch, PlaceInv, Starting, Kind, Replica
  <1>15. CASE HandOver
    BY <1>15 DEF HandOver, PlaceInv, Starting, Kind, Replica
  <1>16. CASE SaveTruncates
    BY <1>16 DEF SaveTruncates, PlaceInv, Starting, Kind, Replica
  <1>17. CASE SaveWrites
    BY <1>17 DEF SaveWrites, Written, PlaceInv, Starting, Kind, Replica
  <1>18. CASE StreamBreaks /\ (Trouble \/ UNCHANGED <<crashes, others>>)
    BY <1>18 DEF StreamBreaks, Trouble, MayFail, PlaceInv, Starting, Kind, Replica
  <1>19. CASE End
    BY <1>19 DEF End, PlaceInv, Starting, Kind, Replica
  <1>20. CASE Commit
    BY <1>20 DEF Commit, PlaceInv, Starting, Kind
  <1>21. CASE SaverTick
    BY <1>21 DEF SaverTick, PlaceInv, Starting, Kind, Replica
  <1>22. CASE SaverTruncates
    BY <1>22 DEF SaverTruncates, PlaceInv, Starting, Kind, Replica
  <1>23. CASE SaverWrites
    BY <1>23 DEF SaverWrites, Written, PlaceInv, Starting, Kind, Replica
  <1>24. CASE \E k \in Slots : OldTruncates(k)
    BY <1>24 DEF OldTruncates, PlaceInv, Starting, Kind, Replica, Missing, Torn
  <1>25. CASE \E k \in Slots : OldWrites(k)
    BY <1>25 DEF OldWrites, Written, TypeInv, TypeOK, PlaceInv, Starting, Kind, Replica,
       Missing, Torn
  <1>26. CASE Stop
    BY <1>26 DEF Stop, Trouble, MayFail, PlaceInv, Starting, Kind, Replica
  <1>27. CASE Restart
    BY <1>27 DEF Restart, Fresh, PlaceInv, Kind, Replica
  <1>28. CASE Crash
    BY <1>28 DEF Crash, Fresh, Cut, CrashNow, MayFail, PlaceInv, Kind, Replica
  <1>29. CASE Reset
    BY <1>29 DEF Reset, Trouble, MayFail, PlaceInv, Starting
  <1>30. CASE UNCHANGED vars
    BY <1>30 DEF vars, PlaceInv, Starting, Kind, Replica
  <1>31. CASE CopySkips
    BY <1>31 DEF CopySkips, Trouble, MayFail, PlaceInv, Starting, Kind, Replica
  <1>32. CASE SkipChange
    BY <1>32 DEF SkipChange, Trouble, MayFail, PlaceInv, Starting, Kind, Replica
  <1>33. CASE SkipPurged
    BY <1>33 DEF SkipPurged, PlaceInv, Starting, Kind, Replica
  <1> QED
    BY <1>1, <1>2, <1>3, <1>4, <1>5, <1>6, <1>7, <1>8, <1>9, <1>10, <1>11,
       <1>12, <1>13, <1>14, <1>15, <1>16, <1>17, <1>18, <1>19, <1>20, <1>21,
       <1>22, <1>23, <1>24, <1>25, <1>26, <1>27, <1>28, <1>29, <1>30,
       <1>31, <1>32, <1>33 DEF Next, StreamError, StreamLost

(* A source that has not run has nothing to start from, and no saver. *)
LEMMA FirstStep ==
  ASSUME TypeInv, PlaceInv, FirstInv, [Next]_vars
  PROVE  FirstInv'
  <1>1. CASE Change
    BY <1>1 DEF Change, FirstInv, Alone, Exact, Kind, Replica
  <1>2. CASE Purge
    BY <1>2 DEF Purge, FirstInv, Alone, Exact, Kind, Replica
  <1>3. CASE OpenCanal
    <2>1. head \in 0..MaxLog
      BY DEF TypeInv, TypeOK
    <2>2. origin' # Unset
      BY <1>3, <2>1, CanalOpens, Origins DEF Unset
    <2>3. Kind("mysql") /\ UNCHANGED <<conf, file, saver, old>>
      BY <1>3, CanalOpens
    <2> QED
      BY <2>2, <2>3 DEF FirstInv, Alone, PlaceInv, Kind, Missing
  <1>4. CASE OpenField
    <2>1. head \in 0..MaxLog
      BY DEF TypeInv, TypeOK
    <2>2. origin' # Unset
      BY <1>4, <2>1, FieldOpens, Origins DEF Unset
    <2>3. /\ UNCHANGED <<conf, file, old>> /\ (why' = {} => why = {})
          /\ saver' # saver => conf.resume /\ file # Missing
      BY <1>4, FieldOpens
    <2> QED
      BY <2>2, <2>3 DEF FirstInv, Alone, PlaceInv, Kind, Missing
  <1>5. CASE FieldCreate
    BY <1>5 DEF FieldCreate, PlaceInv, FirstInv, Alone, Exact, Missing, Torn
  <1>6. CASE FieldCreated
    BY <1>6 DEF FieldCreated, Written, TypeInv, TypeOK, PlaceInv, FirstInv, Alone, Exact, Missing,
       Torn
  <1>7. CASE OpenMongo
    <2>1. head \in 0..MaxLog
      BY DEF TypeInv, TypeOK
    <2>2. origin' # Unset
      BY <1>7, <2>1, MongoOpens, Origins DEF Unset
    <2>3. /\ UNCHANGED <<conf, file, old>> /\ Kind("mongodb")
          /\ saver' # saver => conf.resume
      BY <1>7, MongoOpens
    <2> QED
      BY <2>2, <2>3 DEF FirstInv, Alone, PlaceInv, Kind, Missing
  <1>8. CASE OpenKafka
    <2>1. head \in 0..MaxLog
      BY DEF TypeInv, TypeOK
    <2>2. origin' # Unset
      BY <1>8, KafkaOpens, ResumeAssumption DEF Unset
    <2>3. /\ UNCHANGED <<conf, file, old>> /\ Kind("kafka")
          /\ saver' # saver => conf.resume
      BY <1>8, KafkaOpens
    <2> QED
      BY <2>2, <2>3 DEF FirstInv, Alone, PlaceInv, Kind, Missing
  <1>9. CASE OpenFails
    BY <1>9 DEF OpenFails, Trouble, MayFail, FirstInv, Alone, Exact, Kind
  <1>10. CASE CopyRow
    BY <1>10 DEF CopyRow, RowState, Cut, FirstInv, Alone, Exact, Kind, Replica
  <1>11. CASE CopyCancel
    BY <1>11 DEF CopyCancel, Cut, FirstInv, Alone, Exact, Kind
  <1>12. CASE CopyFails
    BY <1>12 DEF CopyFails, Cut, Trouble, MayFail, FirstInv, Alone, Exact, Kind
  <1>13. CASE CopyEnd
    BY <1>13 DEF CopyEnd, PlaceInv, FirstInv, Alone, Exact, Kind, Replica
  <1>14. CASE Fetch
    BY <1>14 DEF Fetch, FirstInv, Alone, Exact, Kind, Replica
  <1>15. CASE HandOver
    BY <1>15 DEF HandOver, FirstInv, Alone, Exact, Kind, Replica
  <1>16. CASE SaveTruncates
    BY <1>16 DEF SaveTruncates, PlaceInv, FirstInv, Alone, Exact, Missing, Torn
  <1>17. CASE SaveWrites
    BY <1>17 DEF SaveWrites, Written, PlaceInv, FirstInv, Alone, Exact, Kind
  <1>18. CASE StreamBreaks /\ (Trouble \/ UNCHANGED <<crashes, others>>)
    BY <1>18 DEF StreamBreaks, Trouble, MayFail, FirstInv, Alone, Exact, Kind, Replica
  <1>19. CASE End
    <2>1. pc' \in {"ended", "closing"} /\ (pc' = "closing" => wgStuck)
      BY <1>19 DEF End
    <2>2. pc \in {"watch", "stuck", "hung"} /\ UNCHANGED <<conf, file, saver, old, origin, why>>
      BY <1>19 DEF End
    <2>3. pc = "hung" => ~wgStuck
      BY DEF PlaceInv
    <2> QED
      BY <2>1, <2>2, <2>3 DEF FirstInv, Alone, Exact, Kind, Replica
  <1>20. CASE Commit
    BY <1>20 DEF Commit, FirstInv, Alone, Exact, Kind
  <1>21. CASE SaverTick
    BY <1>21 DEF SaverTick, FirstInv, Alone, Exact, Kind
  <1>22. CASE SaverTruncates
    BY <1>22 DEF SaverTruncates, FirstInv, Alone, Exact, Kind, Missing, Torn
  <1>23. CASE SaverWrites
    BY <1>23 DEF SaverWrites, Written, TypeInv, TypeOK, FirstInv, Alone, Exact, Kind, Missing,
       Torn
  <1>24. CASE \E k \in Slots : OldTruncates(k)
    BY <1>24 DEF OldTruncates, FirstInv, Alone, Exact, Kind, Missing, Torn
  <1>25. CASE \E k \in Slots : OldWrites(k)
    BY <1>25 DEF OldWrites, Written, TypeInv, TypeOK, FirstInv, Alone, Exact, Kind, Missing, Torn
  <1>26. CASE Stop
    BY <1>26 DEF Stop, Trouble, MayFail, FirstInv, Alone, Exact, Kind, Replica
  <1>27. CASE Restart
    BY <1>27 DEF Restart, Fresh, FirstInv, Alone, Exact, Kind
  <1>28. CASE Crash
    BY <1>28 DEF Crash, Fresh, Cut, CrashNow, MayFail, FirstInv, Alone, Exact, Kind
  <1>29. CASE Reset
    BY <1>29 DEF Reset, Trouble, MayFail, FirstInv, Alone
  <1>30. CASE UNCHANGED vars
    BY <1>30 DEF vars, FirstInv, Alone, Exact, Kind, Replica
  <1>31. CASE CopySkips
    BY <1>31 DEF CopySkips, Trouble, MayFail, FirstInv, Alone, Exact, Kind, Replica
  <1>32. CASE SkipChange
    BY <1>32 DEF SkipChange, Trouble, MayFail, FirstInv, Alone, Exact, Kind, Replica
  <1>33. CASE SkipPurged
    BY <1>33 DEF SkipPurged, FirstInv, Alone, Exact, Kind, Replica
  <1> QED
    BY <1>1, <1>2, <1>3, <1>4, <1>5, <1>6, <1>7, <1>8, <1>9, <1>10, <1>11,
       <1>12, <1>13, <1>14, <1>15, <1>16, <1>17, <1>18, <1>19, <1>20, <1>21,
       <1>22, <1>23, <1>24, <1>25, <1>26, <1>27, <1>28, <1>29, <1>30,
       <1>31, <1>32, <1>33 DEF Next, StreamError, StreamLost

(* The rows copied are as new as the position taken before the copy. *)
LEMMA CopyStep ==
  ASSUME TypeInv, PlaceInv, FirstInv, CopyInv, [Next]_vars
  PROVE  CopyInv'
  <1>1. CASE Change
    BY <1>1 DEF Change, TypeInv, TypeOK, CopyInv, Alone, Sound, Exact, Starting, Got, Kind,
       Replica
  <1>2. CASE Purge
    BY <1>2 DEF Purge, CopyInv, Alone, Sound, Exact, Starting, Got, Kind, Replica
  <1>3. CASE OpenCanal
    <2>1. /\ Kind("mysql") /\ pc = "down" /\ conf' = conf /\ row' = row
          /\ pc' = "copy" => Replica /\ mem' = head /\ nxt' = head + 1
          /\ pc' \in {"copy", "trunc", "watch"} /\ head' = head
      BY <1>3, Configuration, CanalOpens DEF Replica
    <2>2. row' = 1 /\ head \in 0..MaxLog /\ MaxLog \in Nat
      BY <2>1, ResumeAssumption DEF PlaceInv, TypeInv, TypeOK
    <2>3. \A i \in 1..head : ~(RowOf[i] < 1)
      BY <2>2, ResumeAssumption
    <2>4. pc' = "copy" => nxt' - 1 = head /\ mem' = nxt' - 1 /\ Replica
      BY <2>1, <2>2
    <2> QED
      BY <2>1, <2>2, <2>3, <2>4 DEF CopyInv, Starting, Kind, Replica
  <1>4. CASE OpenField
    <2>1. /\ Kind("field") /\ pc = "down" /\ row' = row
          /\ UNCHANGED <<conf, head, old, file>>
          /\ why' = {} => why = {}
          /\ pc' \in {"copy", "create", "watch"}
          /\ pc' = "copy" => Replica /\ ~conf.resume
          /\ pc' = "create" => conf.resume /\ file = Missing
          /\ pc' # "watch" => mem' = head /\ nxt' = head + 1
          /\ pc' # "watch" /\ why' = {} => Replica \/ ~conf.resume \/ origin = Unset
      BY <1>4, Configuration, FieldOpens DEF Replica
    <2>2. row' = 1 /\ head \in 0..MaxLog /\ MaxLog \in Nat
      BY <2>1, ResumeAssumption DEF PlaceInv, TypeInv, TypeOK
    <2>3. \A i \in 1..head : ~(RowOf[i] < 1)
      BY <2>2, ResumeAssumption
    <2>4. pc' # "watch" => nxt' - 1 = head /\ mem' = nxt' - 1
      BY <2>1, <2>2
    <2>5. why' = {} /\ pc' # "watch" => Alone
      BY <2>1 DEF FirstInv
    <2>6. why' = {} /\ pc' # "watch" /\ ~Replica => origin' = head
      BY <1>4, <2>1, <2>2, FieldOpens, Origins
    <2> QED
      BY <2>1, <2>2, <2>3, <2>4, <2>5, <2>6 DEF CopyInv, Alone, Starting, Kind, Replica, Sound,
         Got, Has
  <1>5. CASE FieldCreate
    BY <1>5 DEF FieldCreate, CopyInv, Alone, Sound, Exact, Starting, Got, Kind, Replica
  <1>6. CASE FieldCreated
    BY <1>6 DEF FieldCreated, Written, CopyInv, Alone, Sound, Exact, Starting, Kind, Replica
  <1>7. CASE OpenMongo
    <2>1. /\ Kind("mongodb") /\ pc = "down" /\ row' = row /\ conf' = conf /\ head' = head
          /\ pc' \in {"copy", "watch"}
          /\ pc' = "copy" => Replica /\ mem' = head
          /\ nxt' = IF conf.resume THEN mem' ELSE head + 1
      BY <1>7, Configuration, MongoOpens DEF Replica
    <2>2. row' = 1 /\ head \in 0..MaxLog /\ MaxLog \in Nat
      BY <2>1, ResumeAssumption DEF PlaceInv, TypeInv, TypeOK
    <2>3. \A i \in 1..head : ~(RowOf[i] < 1)
      BY <2>2, ResumeAssumption
    <2>4. Sound' /\ pc' = "copy" => conf.resume
      BY <2>1 DEF Sound, Exact, Kind, Replica
    <2>5. conf.resume /\ pc' = "copy" => nxt' = head /\ mem' = nxt' /\ nxt' - 1 <= head
      BY <2>1, <2>2
    <2> QED
      BY <2>1, <2>2, <2>3, <2>4, <2>5 DEF CopyInv, Starting, Kind, Replica
  <1>8. CASE OpenKafka
    BY <1>8, KafkaOpens DEF CopyInv, Starting
  <1>9. CASE OpenFails
    BY <1>9 DEF OpenFails, Trouble, MayFail, CopyInv, Starting
  <1>10. CASE CopyRow
    BY <1>10, ResumeAssumption DEF CopyRow, RowState, Cut, TypeInv, TypeOK, CopyInv, Alone, Sound,
       Exact, Starting, Got, Has, Kind, Replica
  <1>11. CASE CopyCancel
    BY <1>11 DEF CopyCancel, Cut, CopyInv, Starting
  <1>12. CASE CopyFails
    BY <1>12 DEF CopyFails, Cut, Trouble, MayFail, CopyInv, Starting
  <1>13. CASE CopyEnd
    BY <1>13 DEF CopyEnd, CopyInv, Starting
  <1>14. CASE Fetch
    BY <1>14 DEF Fetch, CopyInv, Starting
  <1>15. CASE HandOver
    BY <1>15 DEF HandOver, CopyInv, Starting
  <1>16. CASE SaveTruncates
    BY <1>16 DEF SaveTruncates, CopyInv, Starting
  <1>17. CASE SaveWrites
    BY <1>17 DEF SaveWrites, Written, CopyInv, Starting
  <1>18. CASE StreamBreaks /\ (Trouble \/ UNCHANGED <<crashes, others>>)
    BY <1>18 DEF StreamBreaks, Trouble, MayFail, CopyInv, Starting
  <1>19. CASE End
    BY <1>19 DEF End, CopyInv, Starting
  <1>20. CASE Commit
    BY <1>20 DEF Commit, CopyInv, Starting
  <1>21. CASE SaverTick
    BY <1>21 DEF SaverTick, CopyInv, Alone, Sound, Exact, Starting, Got, Kind, Replica
  <1>22. CASE SaverTruncates
    BY <1>22 DEF SaverTruncates, PlaceInv, CopyInv, Starting
  <1>23. CASE SaverWrites
    BY <1>23 DEF SaverWrites, Written, CopyInv, Alone, Sound, Exact, Starting, Got, Kind, Replica
  <1>24. CASE \E k \in Slots : OldTruncates(k)
    BY <1>24 DEF OldTruncates, CopyInv, Alone, Sound, Exact, Starting, Got, Kind, Replica
  <1>25. CASE \E k \in Slots : OldWrites(k)
    BY <1>25 DEF OldWrites, Written, CopyInv, Alone, Sound, Exact, Starting, Got, Kind, Replica
  <1>26. CASE Stop
    BY <1>26 DEF Stop, Trouble, MayFail, CopyInv, Alone, Sound, Exact, Starting, Got, Kind,
       Replica
  <1>27. CASE Restart
    BY <1>27 DEF Restart, Fresh, CopyInv, Starting
  <1>28. CASE Crash
    BY <1>28 DEF Crash, Fresh, Cut, CrashNow, MayFail, CopyInv, Starting
  <1>29. CASE Reset
    BY <1>29 DEF Reset, Trouble, MayFail, CopyInv, Starting
  <1>30. CASE UNCHANGED vars
    BY <1>30 DEF vars, CopyInv, Alone, Sound, Exact, Starting, Got, Kind, Replica
  <1>31. CASE CopySkips
    BY <1>31, ResumeAssumption DEF CopySkips, Trouble, MayFail, TypeInv, TypeOK, CopyInv, Alone,
       Sound, Exact, Starting, Got, Has, Kind, Replica
  <1>32. CASE SkipChange
    BY <1>32 DEF SkipChange, CopyInv, Starting
  <1>33. CASE SkipPurged
    BY <1>33 DEF SkipPurged, CopyInv, Starting
  <1> QED
    BY <1>1, <1>2, <1>3, <1>4, <1>5, <1>6, <1>7, <1>8, <1>9, <1>10, <1>11,
       <1>12, <1>13, <1>14, <1>15, <1>16, <1>17, <1>18, <1>19, <1>20, <1>21,
       <1>22, <1>23, <1>24, <1>25, <1>26, <1>27, <1>28, <1>29, <1>30,
       <1>31, <1>32, <1>33 DEF Next, StreamError, StreamLost

(* File and savers claim only what the pipeline has got.  A former life of the
   source may still be saving. *)
LEMMA DiskStep ==
  ASSUME RInv, [Next]_vars
  PROVE  DiskInv'
  <1>1. CASE Change
    BY <1>1 DEF Change, RInv, DiskInv, Claim, Sound, Exact, Got, Kind, Replica
  <1>2. CASE Purge
    BY <1>2 DEF Purge, RInv, DiskInv, Claim, Sound, Exact, Got, Kind, Replica
  <1>3. CASE OpenCanal
    BY <1>3, CanalOpens, Origins DEF RInv, TypeInv, TypeOK, FirstInv, Alone, DiskInv, Claim,
       Sound, Exact, Got, Kind, Missing
  <1>4. CASE OpenField
    BY <1>4, FieldOpens, Origins DEF RInv, TypeInv, TypeOK, FirstInv, Alone, DiskInv, Claim,
       Sound, Exact, Got, Kind, Missing
  <1>5. CASE FieldCreate
    BY <1>5 DEF FieldCreate, RInv, DiskInv, Claim, Sound, Exact, Got, Kind, Replica, Torn
  <1>6. CASE FieldCreated
    <2>1. file' \in {mem, Torn}
      BY <1>6 DEF FieldCreated, Written
    <2>2. UNCHANGED <<conf, seen, origin, why>>
      BY <1>6 DEF FieldCreated
    <2>3. Sound' => Sound
      BY <2>2 DEF Sound, Exact, Kind, Replica
    <2>4. /\ nxt \in Int /\ origin \in Int /\ mem \in Nat /\ saverPos \in Nat
          /\ \A i \in Slots : oldPos[i] \in Nat
          /\ ~(Torn >= 0)
      BY ResumeAssumption DEF RInv, TypeInv, TypeOK, Torn
    <2>5. /\ Kind("field") /\ pc = "created" /\ pc' = (IF Replica THEN "copy" ELSE "watch")
          /\ mem' = mem
      BY <1>6 DEF FieldCreated, RInv, PlaceInv
    <2>6. Sound /\ ~Replica => Got(mem)
      BY <2>4, <2>5 DEF RInv, CopyInv, Starting, Kind
    <2>7. Sound' =>
            (file >= 0 => IF Kind("field") /\ pc = "copy" THEN file = mem ELSE Claim(file))'
      BY <2>1, <2>2, <2>3, <2>4, <2>5, <2>6 DEF Claim, Got, Has, Kind, Replica
    <2>8. Sound' => (saver \in {"set", "write"} => Claim(saverPos))'
      BY <1>6, <2>2, <2>3, <2>4 DEF FieldCreated, RInv, DiskInv, Claim, Got, Has, Kind
    <2>9. Sound' => (\A i \in Slots : old[i] # "off" => Claim(oldPos[i]))'
      BY <1>6, <2>2, <2>3, <2>4 DEF FieldCreated, RInv, DiskInv, Claim, Got, Has, Kind
    <2> QED
      BY <2>7, <2>8, <2>9 DEF DiskInv
  <1>7. CASE OpenMongo
    BY <1>7, MongoOpens, Origins DEF RInv, TypeInv, TypeOK, FirstInv, Alone, DiskInv, Claim,
       Sound, Exact, Got, Kind, Missing
  <1>8. CASE OpenKafka
    BY <1>8, KafkaOpens DEF RInv, DiskInv, Sound, Exact, Kind
  <1>9. CASE OpenFails
    BY <1>9 DEF OpenFails, Trouble, MayFail, RInv, DiskInv, Claim, Sound, Exact, Got, Kind,
       Replica
  <1>10. CASE CopyRow
    BY <1>10 DEF CopyRow, RowState, Cut, RInv, FirstInv, Alone, DiskInv, Claim, Sound, Exact, Got,
       Has, Kind, Missing
  <1>11. CASE CopyCancel
    BY <1>11 DEF CopyCancel, Cut, RInv, FirstInv, Alone, DiskInv, Claim, Sound, Exact, Got, Kind,
       Missing
  <1>12. CASE CopyFails
    BY <1>12 DEF CopyFails, Cut, Trouble, MayFail, RInv, FirstInv, Alone, DiskInv, Claim, Sound,
       Exact, Got, Kind, Missing
  <1>13. CASE CopyEnd
    BY <1>13, ResumeAssumption DEF CopyEnd, RInv, TypeInv, TypeOK, CopyInv, DiskInv, Claim,
       Sound, Exact, Starting, Got, Has, Kind, Replica, Unset
  <1>14. CASE Fetch
    BY <1>14 DEF Fetch, RInv, DiskInv, Claim, Sound, Exact, Got, Kind, Replica
  <1>15. CASE HandOver
    BY <1>15 DEF HandOver, RInv, DiskInv, Claim, Sound, Exact, Got, Has, Kind, Replica
  <1>16. CASE SaveTruncates
    BY <1>16 DEF SaveTruncates, RInv, DiskInv, Claim, Sound, Exact, Got, Kind, Replica,
       Torn
  <1>17. CASE SaveWrites
    <2>1. file' \in {nxt - 1, Torn}
      BY <1>17 DEF SaveWrites, Written
    <2>2. UNCHANGED <<conf, seen, origin, why>>
      BY <1>17 DEF SaveWrites
    <2>3. Sound' => Sound
      BY <2>2 DEF Sound, Exact, Kind, Replica
    <2>4. /\ nxt \in Int /\ origin \in Int /\ mem \in Nat /\ saverPos \in Nat
          /\ \A i \in Slots : oldPos[i] \in Nat
          /\ ~(Torn >= 0)
      BY ResumeAssumption DEF RInv, TypeInv, TypeOK, Torn
    <2>5. /\ Kind("mysql") /\ pc' = "watch" /\ pc = "write" /\ hand = 0
      BY <1>17 DEF SaveWrites, RInv, PlaceInv, TypeInv
    <2>6. Sound => Got(nxt - 1)
      <3>1. SUFFICES ASSUME Sound, NEW i \in (origin + 1)..(nxt - 1) PROVE i \in seen
        BY DEF Got, Has
      <3>2. i # 0 /\ (i \in seen \/ i = hand)
        BY <2>4, <2>5, <3>1, ResumeAssumption DEF RInv, StreamInv, Watching, TypeInv,
           TypeOK, Sound, Unset
      <3> QED
        BY <2>5, <3>2
    <2>7. Sound' =>
            (file >= 0 => IF Kind("field") /\ pc = "copy" THEN file = mem ELSE Claim(file))'
      BY <2>1, <2>2, <2>3, <2>4, <2>5, <2>6 DEF Claim, Got, Has, Kind
    <2>8. Sound' => (saver \in {"set", "write"} => Claim(saverPos))'
      BY <1>17, <2>2, <2>3, <2>4 DEF SaveWrites, RInv, DiskInv, Claim, Got, Has, Kind
    <2>9. Sound' => (\A i \in Slots : old[i] # "off" => Claim(oldPos[i]))'
      BY <1>17, <2>2, <2>3, <2>4 DEF SaveWrites, RInv, DiskInv, Claim, Got, Has, Kind
    <2> QED
      BY <2>7, <2>8, <2>9 DEF DiskInv
  <1>18. CASE StreamBreaks /\ (Trouble \/ UNCHANGED <<crashes, others>>)
    BY <1>18 DEF StreamBreaks, Trouble, MayFail, RInv, DiskInv, Claim, Sound, Exact, Got,
       Kind, Replica
  <1>19. CASE End
    BY <1>19 DEF End, RInv, DiskInv, Claim, Sound, Exact, Got, Kind, Replica
  <1>20. CASE Commit
    BY <1>20 DEF Commit, DiskInv, Sound, Exact, Kind
  <1>21. CASE SaverTick
    BY <1>21 DEF SaverTick, RInv, DiskInv, StreamInv, Claim, Sound, Exact, Got, Kind,
       Replica
  <1>22. CASE SaverTruncates
    BY <1>22 DEF SaverTruncates, RInv, DiskInv, Claim, Sound, Exact, Got, Kind, Replica,
       Torn
  <1>23. CASE SaverWrites
    <2>1. file' \in {saverPos, Torn}
      BY <1>23 DEF SaverWrites, Written
    <2>2. UNCHANGED <<conf, seen, origin, why>>
      BY <1>23 DEF SaverWrites
    <2>3. Sound' => Sound
      BY <2>2 DEF Sound, Exact, Kind, Replica
    <2>4. /\ nxt \in Int /\ origin \in Int /\ mem \in Nat /\ saverPos \in Nat
          /\ \A i \in Slots : oldPos[i] \in Nat
          /\ ~(Torn >= 0)
      BY ResumeAssumption DEF RInv, TypeInv, TypeOK, Torn
    <2>5. saver = "write" /\ pc' = pc /\ mem' = mem /\ (Sound => Claim(saverPos))
      BY <1>23 DEF SaverWrites, RInv, DiskInv
    <2>6. Sound => ~(Kind("field") /\ pc = "copy")
      BY <2>5 DEF RInv, PlaceInv, Starting
    <2>7. Sound' =>
            (file >= 0 => IF Kind("field") /\ pc = "copy" THEN file = mem ELSE Claim(file))'
      BY <2>1, <2>2, <2>3, <2>4, <2>5, <2>6 DEF Claim, Got, Has, Kind
    <2>8. Sound' => (saver \in {"set", "write"} => Claim(saverPos))'
      BY <1>23, <2>2, <2>3, <2>4 DEF SaverWrites, RInv, DiskInv, Claim, Got, Has, Kind
    <2>9. Sound' => (\A i \in Slots : old[i] # "off" => Claim(oldPos[i]))'
      BY <1>23, <2>2, <2>3, <2>4 DEF SaverWrites, RInv, DiskInv, Claim, Got, Has, Kind
    <2> QED
      BY <2>7, <2>8, <2>9 DEF DiskInv
  <1>24. CASE \E k \in Slots : OldTruncates(k)
    BY <1>24, ResumeAssumption DEF OldTruncates, RInv, TypeInv, TypeOK, FirstInv, Alone, CopyInv,
       DiskInv, StreamInv, Claim, Sound, Exact, Starting, Got, Has, Kind, Replica, Missing,
       Torn, Unset
  <1>25. CASE \E k \in Slots : OldWrites(k)
    <2>0. PICK k \in Slots : OldWrites(k)
      BY <1>25
    <2>1. file' \in {oldPos[k], Torn}
      BY <2>0 DEF OldWrites, Written
    <2>2. UNCHANGED <<conf, seen, origin, why>>
      BY <1>25 DEF OldWrites
    <2>3. Sound' => Sound
      BY <2>2 DEF Sound, Exact, Kind, Replica
    <2>4. /\ nxt \in Int /\ origin \in Int /\ mem \in Nat /\ saverPos \in Nat
          /\ \A i \in Slots : oldPos[i] \in Nat
          /\ ~(Torn >= 0)
      BY ResumeAssumption DEF RInv, TypeInv, TypeOK, Torn
    <2>5. old[k] = "write" /\ pc' = pc /\ mem' = mem /\ (Sound => Claim(oldPos[k]))
      BY <2>0 DEF OldWrites, RInv, DiskInv
    <2>6. Sound => ~(Kind("field") /\ pc = "copy")
      BY <2>5 DEF RInv, CopyInv, Alone, Starting
    <2>7. Sound' =>
            (file >= 0 => IF Kind("field") /\ pc = "copy" THEN file = mem ELSE Claim(file))'
      BY <2>1, <2>2, <2>3, <2>4, <2>5, <2>6 DEF Claim, Got, Has, Kind
    <2>8. Sound' => (saver \in {"set", "write"} => Claim(saverPos))'
      BY <1>25, <2>2, <2>3, <2>4 DEF OldWrites, RInv, DiskInv, Claim, Got, Has, Kind
    <2>9. ASSUME Sound', NEW i \in Slots, old'[i] # "off" PROVE Claim(oldPos[i])'
      <3>1. Claim(oldPos[i]) /\ oldPos'[i] = oldPos[i]
        <4>1. old[i] # "off" /\ oldPos'[i] = oldPos[i]
          BY <2>0, <2>9 DEF OldWrites, RInv, TypeInv, TypeOK
        <4> QED
          BY <2>3, <2>9, <4>1 DEF RInv, DiskInv
      <3> QED
        BY <2>2, <2>4, <3>1 DEF Claim, Got, Has, Kind
    <2> QED
      BY <2>7, <2>8, <2>9 DEF DiskInv
  <1>26. CASE Stop
    BY <1>26 DEF Stop, Trouble, MayFail, RInv, DiskInv, Claim, Sound, Exact, Got, Kind,
       Replica
  <1>27. CASE Restart
    BY <1>27 DEF Restart, Fresh, RInv, TypeInv, TypeOK, DiskInv, StreamInv, Claim, Sound,
       Exact, Got, Kind, Replica
  <1>28. CASE Crash
    BY <1>28 DEF Crash, Fresh, Cut, CrashNow, MayFail, RInv, FirstInv, Alone, DiskInv, Claim,
       Sound, Exact, Got, Kind, Missing
  <1>29. CASE Reset
    BY <1>29 DEF Reset, Trouble, MayFail, DiskInv, Sound
  <1>30. CASE UNCHANGED vars
    BY <1>30 DEF vars, RInv, DiskInv, Claim, Sound, Exact, Got, Kind, Replica
  <1>31. CASE CopySkips
    BY <1>31 DEF CopySkips, Trouble, MayFail, RInv, DiskInv, Claim, Sound, Exact, Got, Has,
       Kind, Replica
  <1>32. CASE SkipChange
    BY <1>32 DEF SkipChange, Trouble, MayFail, RInv, DiskInv, Claim, Sound, Exact, Got, Has,
       Kind, Replica
  <1>33. CASE SkipPurged
    BY <1>33 DEF SkipPurged, DiskInv, Sound, Exact, Kind
  <1> QED
    BY <1>1, <1>2, <1>3, <1>4, <1>5, <1>6, <1>7, <1>8, <1>9, <1>10, <1>11,
       <1>12, <1>13, <1>14, <1>15, <1>16, <1>17, <1>18, <1>19, <1>20, <1>21,
       <1>22, <1>23, <1>24, <1>25, <1>26, <1>27, <1>28, <1>29, <1>30,
       <1>31, <1>32, <1>33 DEF Next, StreamError, StreamLost

(* Behind the next change at most the one in hand is missing. *)
LEMMA StreamStep ==
  ASSUME RInv, [Next]_vars
  PROVE  StreamInv'
  <1>1. CASE Change
    BY <1>1 DEF Change, RInv, Position, SyncedPosition, StreamInv, Claim, Watching, Sound,
       Exact, Got, Kind, Replica
  <1>2. CASE Purge
    BY <1>2 DEF Purge, RInv, Position, SyncedPosition, StreamInv, Claim, Watching, Sound,
       Exact, Got, Kind, Replica
  <1>3. CASE OpenCanal
    BY <1>3, CanalOpens, Origins DEF RInv, TypeInv, TypeOK, PlaceInv, FirstInv, DiskInv,
       StreamInv, Claim, Watching, Sound, Exact, Got, Has, Kind, Missing, Positions
  <1>4. CASE OpenField
    BY <1>4, FieldOpens, Origins DEF RInv, Position, TypeInv, TypeOK, FirstInv, DiskInv,
       StreamInv, Claim, Watching, Sound, Exact, Got, Has, Kind
  <1>5. CASE FieldCreate
    BY <1>5 DEF FieldCreate, RInv, PlaceInv, StreamInv, Watching, Starting
  <1>6. CASE FieldCreated
    BY <1>6 DEF FieldCreated, Written, RInv, Position, PlaceInv, CopyInv, StreamInv, Claim,
       Watching, Sound, Exact, Starting, Got, Has, Kind
  <1>7. CASE OpenMongo
    BY <1>7, MongoOpens, Origins DEF RInv, Position, TypeInv, TypeOK, PlaceInv, FirstInv,
       DiskInv, StreamInv, Claim, Watching, Sound, Exact, Got, Has, Kind, Missing,
       Positions
  <1>8. CASE OpenKafka
    BY <1>8, KafkaOpens DEF RInv, StreamInv, Sound, Exact, Kind
  <1>9. CASE OpenFails
    BY <1>9 DEF OpenFails, Trouble, MayFail, RInv, PlaceInv, StreamInv, Watching
  <1>10. CASE CopyRow
    BY <1>10 DEF CopyRow, RowState, Cut, RInv, PlaceInv, StreamInv, Watching, Starting
  <1>11. CASE CopyCancel
    BY <1>11 DEF CopyCancel, Cut, RInv, PlaceInv, StreamInv, Watching, Starting
  <1>12. CASE CopyFails
    BY <1>12 DEF CopyFails, Cut, Trouble, MayFail, RInv, PlaceInv, StreamInv, Watching,
       Starting
  <1>13. CASE CopyEnd
    <2>1. /\ pc = "copy" /\ row > NRows /\ pc' \in {"trunc", "watch"}
          /\ pc' = "trunc" => Kind("mysql")
          /\ ~(Kind("mongodb") /\ ~conf.resume) => nxt' = nxt
          /\ UNCHANGED <<conf, head, mem, hand, seen, origin, why>>
      BY <1>13 DEF CopyEnd
    <2>2. Replica /\ ~Kind("kafka") /\ origin \in {Unset, 0} /\ hand = 0
      BY <2>1 DEF RInv, PlaceInv, TypeInv
    <2>3. Sound' => Sound /\ nxt' = nxt /\ origin = 0
      BY <2>1, <2>2 DEF Sound, Exact, Kind, Replica
    <2>4. /\ nxt \in 1..(MaxLog + 1) /\ NRows \in Nat /\ MaxLog \in Nat /\ row \in Nat
          /\ RowOf \in [1..MaxLog -> 1..NRows]
      BY ResumeAssumption DEF RInv, TypeInv, TypeOK
    <2>5. Sound => Has(seen, 0, nxt - 1)
      <3>1. SUFFICES ASSUME Sound, NEW i \in 1..(nxt - 1) PROVE i \in seen
        BY DEF Has
      <3>2. RowOf[i] < row
        BY <2>1, <2>4
      <3> QED
        BY <2>1, <2>2, <3>1, <3>2 DEF RInv, CopyInv, Starting
    <2>6. Sound => mem = IF Kind("mongodb") THEN nxt ELSE nxt - 1
      BY <2>1 DEF RInv, CopyInv, Starting
    <2>7. Sound' => Got(nxt - 1)'
      BY <2>1, <2>3, <2>5 DEF Got
    <2>8. Sound' => \A i \in (origin' + 1)..(nxt' - 1) : i \in seen'
      BY <2>7 DEF Got, Has
    <2>9. Sound' /\ ~Kind("mongodb")' => Got(mem)'
      BY <2>1, <2>3, <2>5, <2>6 DEF Got, Kind
    <2>10. Sound' => Claim(Position)'
      <3>1. Sound' => Position' = IF Kind("mysql") THEN nxt - 1 ELSE mem
        BY <2>1, <2>3 DEF Position, SyncedPosition, Kind
      <3>2. Sound' => (IF Kind("mongodb") THEN Position' - 1 ELSE Position') = nxt - 1
        BY <2>3, <2>4, <2>6, <3>1 DEF Kind
      <3> QED
        BY <2>1, <2>3, <2>5, <3>2 DEF Claim, Got, Kind
    <2> QED
      BY <2>8, <2>9, <2>10 DEF StreamInv
  <1>14. CASE Fetch
    BY <1>14 DEF Fetch, RInv, Position, SyncedPosition, TypeInv, TypeOK, StreamInv, Claim,
       Watching, Sound, Exact, Got, Has, Kind, Replica, Unset
  <1>15. CASE HandOver
    BY <1>15 DEF HandOver, RInv, Position, SyncedPosition, TypeInv, StreamInv, Claim,
       Watching, Sound, Exact, Got, Has, Kind, Replica
  <1>16. CASE SaveTruncates
    BY <1>16 DEF SaveTruncates, RInv, Position, SyncedPosition, TypeInv, TypeOK, StreamInv,
       Claim, Watching, Sound, Exact, Got, Has, Kind, Replica, Unset
  <1>17. CASE SaveWrites
    BY <1>17 DEF SaveWrites, Written, RInv, Position, SyncedPosition, TypeInv, TypeOK,
       PlaceInv, StreamInv, Claim, Watching, Sound, Exact, Got, Has, Kind
  <1>18. CASE StreamBreaks /\ (Trouble \/ UNCHANGED <<crashes, others>>)
    BY <1>18 DEF StreamBreaks, Trouble, MayFail, RInv, Position, SyncedPosition, TypeInv,
       TypeOK, StreamInv, Claim, Watching, Sound, Exact, Got, Has, Kind, Replica
  <1>19. CASE End
    BY <1>19 DEF End, RInv, Position, SyncedPosition, StreamInv, Claim, Watching, Sound,
       Exact, Got, Kind, Replica
  <1>20. CASE Commit
    BY <1>20 DEF Commit, StreamInv, Sound, Exact, Kind
  <1>21. CASE SaverTick
    BY <1>21 DEF SaverTick, Position, SyncedPosition, RInv, StreamInv, Claim, Watching,
       Sound, Exact, Got, Kind, Replica
  <1>22. CASE SaverTruncates
    BY <1>22 DEF SaverTruncates, RInv, Position, SyncedPosition, DiskInv, StreamInv, Claim,
       Watching, Sound, Exact, Got, Kind, Replica
  <1>23. CASE SaverWrites
    BY <1>23 DEF SaverWrites, Written, RInv, Position, SyncedPosition, StreamInv, Claim,
       Watching, Sound, Exact, Got, Kind, Replica
  <1>24. CASE \E k \in Slots : OldTruncates(k)
    BY <1>24 DEF OldTruncates, RInv, Position, SyncedPosition, StreamInv, Claim, Watching,
       Sound, Exact, Got, Kind, Replica
  <1>25. CASE \E k \in Slots : OldWrites(k)
    BY <1>25 DEF OldWrites, Written, RInv, Position, SyncedPosition, StreamInv, Claim,
       Watching, Sound, Exact, Got, Kind, Replica
  <1>26. CASE Stop
    BY <1>26 DEF Stop, Trouble, MayFail, RInv, Position, SyncedPosition, StreamInv, Claim,
       Watching, Sound, Exact, Got, Kind, Replica
  <1>27. CASE Restart
    BY <1>27 DEF Restart, Fresh, StreamInv, Watching
  <1>28. CASE Crash
    BY <1>28 DEF Crash, Fresh, Cut, CrashNow, MayFail, StreamInv, Watching
  <1>29. CASE Reset
    BY <1>29 DEF Reset, Trouble, MayFail, StreamInv, Sound
  <1>30. CASE UNCHANGED vars
    BY <1>30 DEF vars, RInv, Position, SyncedPosition, StreamInv, Claim, Watching, Sound,
       Exact, Got, Kind, Replica
  <1>31. CASE CopySkips
    BY <1>31 DEF CopySkips, Trouble, MayFail, RInv, PlaceInv, StreamInv, Watching, Starting
  <1>32. CASE SkipChange
    BY <1>32 DEF SkipChange, Trouble, MayFail, RInv, Position, SyncedPosition, TypeInv, TypeOK,
       StreamInv, Claim, Watching, Sound, Exact, Got, Has, Kind, Replica, Unset
  <1>33. CASE SkipPurged
    BY <1>33 DEF SkipPurged, StreamInv, Sound, Exact, Kind
  <1> QED
    BY <1>1, <1>2, <1>3, <1>4, <1>5, <1>6, <1>7, <1>8, <1>9, <1>10, <1>11,
       <1>12, <1>13, <1>14, <1>15, <1>16, <1>17, <1>18, <1>19, <1>20, <1>21,
       <1>22, <1>23, <1>24, <1>25, <1>26, <1>27, <1>28, <1>29, <1>30,
       <1>31, <1>32, <1>33 DEF Next, StreamError, StreamLost

LEMMA InitInv == Init => RInv
  <1> SUFFICES ASSUME Init PROVE RInv
    OBVIOUS
  <1>1. MaxLog \in Nat /\ InitLog \in 1..MaxLog /\ InitOldest \in 0..(InitLog - 1)
        /\ MaxTry \in Nat \ {0} /\ NRows \in Nat /\ MaxTroubles \in Nat
    BY ResumeAssumption
  <1>2. exitF \in BOOLEAN /\ wgStuck \in BOOLEAN
    BY DEF Init
  <1>3. TypeOK
    BY <1>1, <1>2 DEF Init, TypeOK, Positions, Missing, Unset
  <1>4. TypeInv
    BY <1>1, <1>3 DEF Init, TypeInv
  <1>5. PlaceInv /\ FirstInv
    BY DEF Init, PlaceInv, FirstInv, Alone, Starting, Missing, Unset
  <1>6. CopyInv /\ DiskInv /\ StreamInv
    BY DEF Init, CopyInv, DiskInv, StreamInv, Sound, Unset
  <1> QED
    BY <1>4, <1>5, <1>6 DEF RInv

(* The parts together are kept by every step. *)
LEMMA Inductive == RInv /\ [Next]_vars => RInv'
  <1> SUFFICES ASSUME RInv, [Next]_vars PROVE RInv'
    OBVIOUS
  <1>1. TypeInv /\ PlaceInv /\ FirstInv /\ CopyInv
    BY DEF RInv
  <1>2. TypeInv' /\ PlaceInv'
    BY <1>1, TypeStep, PlaceStep
  <1>3. FirstInv' /\ CopyInv'
    BY <1>1, FirstStep, CopyStep
  <1>4. DiskInv' /\ StreamInv'
    BY DiskStep, StreamStep
  <1> QED
    BY <1>2, <1>3, <1>4 DEF RInv

(* The inductive invariant, for any configurations, tables and log, and any
   number of crashes, errors, stops and resets. *)
THEOREM Invariance == Spec => []RInv
  <1>1. Init => RInv
    BY InitInv
  <1>2. RInv /\ [Next]_vars => RInv'
    BY Inductive
  <1> QED
    BY <1>1, <1>2, PTL DEF Spec

(* For any set of configurations and any bounds the variables keep their
   types: the MySQL readers never try more often than MaxTry, and a position
   never lies beyond the log (mysql_reader.go:581-635). *)
THEOREM TypeCorrect == Spec => []TypeOK
  <1>1. RInv => TypeOK
    BY DEF RInv, TypeInv
  <1> QED
    BY <1>1, Invariance, PTL

(* However often a source is stopped, crashes, has its stream broken or its
   log shortened, and wherever in a copy or a save that happens: when it
   follows the log again no change behind it is missing, but for the
   exceptions NoGap names (mysql_reader.go:393-485, 581-635,
   mongodb_reader.go:271-345, 689-721). *)
THEOREM NothingSkipped == Spec => []NoGap
  <1>1. RInv => NoGap
    <2>1. SUFFICES ASSUME RInv, Watching, why = {}, Exact,
                          NEW i \in Gap(nxt - 1)
                   PROVE  i = hand
      BY DEF NoGap
    <2>2. origin # Unset
      BY <2>1 DEF RInv, FirstInv, Watching
    <2>3. i \in (origin + 1)..(nxt - 1) /\ i \notin seen
      BY <2>1 DEF Gap
    <2> QED
      BY <2>1, <2>2, <2>3 DEF RInv, StreamInv, Sound
  <1> QED
    BY <1>1, Invariance, PTL

(* What a crash leaves in the resume file never claims a change the pipeline
   has not got and the reader has not skipped: the file is written after the
   hand-over, and a file that a crash has cut short claims nothing (mysql_reader.go:1261-1267, 1294-1342,
   mongodb_reader.go:519-543, 724-745). *)
THEOREM FileIsSafe == Spec => []FileNotAhead
  <1>1. RInv => FileNotAhead
    <2>1. SUFFICES ASSUME RInv, file >= 0, Sound, ~(Kind("field") /\ pc = "copy")
                   PROVE  Gap(IF Kind("mongodb") THEN file - 1 ELSE file) = {}
      BY DEF FileNotAhead, Sound
    <2>2. Claim(file)
      BY <2>1 DEF RInv, DiskInv
    <2> QED
      BY <2>2 DEF Claim, Got, Has, Gap
  <1> QED
    BY <1>1, Invariance, PTL

(* A set of changes is finite. *)
LEMMA MissedFinite ==
  ASSUME origin \in Int
  PROVE  \A n \in Int : IsFiniteSet(Missed(n)) /\ Cardinality(Missed(n)) \in Nat
  <1> SUFFICES ASSUME NEW n \in Int
               PROVE  IsFiniteSet(Missed(n)) /\ Cardinality(Missed(n)) \in Nat
    OBVIOUS
  <1>1. IsFiniteSet((origin + 1)..(n - 1))
    BY FS_Interval
  <1>2. Missed(n) \subseteq (origin + 1)..(n - 1)
    BY DEF Missed
  <1>3. IsFiniteSet(Missed(n))
    BY <1>1, <1>2, FS_Subset
  <1> QED
    BY <1>3, FS_CardinalityType

(* Before the first change there is nothing to miss. *)
LEMMA NoneMissed ==
  ASSUME origin \in Nat, crashes \in Nat
  PROVE  \A n \in Int : n <= 1 => Few(n)
  <1> SUFFICES ASSUME NEW n \in Int, n <= 1 PROVE Few(n)
    OBVIOUS
  <1>1. Missed(n) = {}
    BY DEF Missed
  <1> QED
    BY <1>1, FS_EmptySet DEF Few

(* A step that hands over, or keeps, what it holds makes nothing be missed. *)
LEMMA KeepsFew ==
  ASSUME origin \in Nat, origin' = origin, seen \subseteq seen', crashes \in Nat,
         crashes' = crashes, hand' = hand \/ hand = 0 \/ hand \in seen'
  PROVE  \A n \in Int : Few(n) => Few(n)'
  <1> SUFFICES ASSUME NEW n \in Int, Few(n) PROVE Few(n)'
    OBVIOUS
  <1>1. Missed(n)' \subseteq Missed(n)
    BY DEF Missed
  <1>2. IsFiniteSet(Missed(n)) /\ Cardinality(Missed(n)) \in Nat
    BY MissedFinite
  <1>3. Cardinality(Missed(n)') <= Cardinality(Missed(n)) /\ IsFiniteSet(Missed(n)')
    BY <1>1, <1>2, FS_Subset
  <1>4. Cardinality(Missed(n)') \in Nat
    BY <1>3, FS_CardinalityType
  <1> QED
    BY <1>2, <1>3, <1>4 DEF Few

(* A crash costs the change in hand. *)
LEMMA CrashCosts ==
  ASSUME origin \in Nat, origin' = origin, seen' = seen, crashes \in Nat,
         crashes' = crashes + 1
  PROVE  \A n \in Int : Few(n) => Few(n)'
  <1> SUFFICES ASSUME NEW n \in Int, Few(n) PROVE Few(n)'
    OBVIOUS
  <1>1. Missed(n)' \subseteq Missed(n) \cup {hand}
    BY DEF Missed
  <1>2. IsFiniteSet(Missed(n)) /\ Cardinality(Missed(n)) \in Nat
    BY MissedFinite
  <1>3. /\ IsFiniteSet(Missed(n) \cup {hand})
        /\ Cardinality(Missed(n) \cup {hand}) <= Cardinality(Missed(n)) + 1
    BY <1>2, FS_AddElement
  <1>4. /\ IsFiniteSet(Missed(n)')
        /\ Cardinality(Missed(n)') <= Cardinality(Missed(n) \cup {hand})
    BY <1>1, <1>3, FS_Subset
  <1>5. Cardinality(Missed(n)') \in Nat /\ Cardinality(Missed(n) \cup {hand}) \in Nat
    BY <1>3, <1>4, FS_CardinalityType
  <1> QED
    BY <1>2, <1>3, <1>4, <1>5 DEF Few

(* Where the Kafka reader begins: the changes before it are in the pipeline, or
   it goes on where the file or the group says. *)
LEMMA KafkaStarts ==
  ASSUME TypeInv, PlaceInv, FirstInv, KafkaInv, OpenKafka, why' = {}
  PROVE  /\ Few(file)' /\ Few(committed)' /\ Few(mem)' /\ Few(nxt)'
         /\ \A k \in Slots : old'[k] # "off" => Few(oldPos[k])'
  <1>1. /\ pc = "down" /\ Kind("kafka") /\ origin' \in Nat
        /\ nxt' \in Nat /\ nxt' >= 1 /\ mem' \in Nat /\ committed' \in Nat
        /\ UNCHANGED <<storeVars, file, hand, saverPos, old, oldPos, seen, crashes>>
    BY KafkaOpens, ResumeAssumption
  <1>2. /\ file \in Int /\ committed \in Nat /\ oldest \in Nat /\ head \in Nat /\ hand = 0
        /\ (\A k \in Slots : oldPos[k] \in Nat)
        /\ crashes \in Nat /\ origin \in Int /\ origin >= -1
    BY <1>1, ResumeAssumption DEF TypeInv, TypeOK, Positions
  <1> DEFINE known == conf.resume /\ file >= 0
             first == oldest + 1
             want  == IF known /\ committed > 0 THEN {committed}
                      ELSE IF known /\ file > 0 THEN {file}
                      ELSE IF ~Replica /\ ~conf.resume THEN {first, head + 1}
                      ELSE {first}
  <1>3. /\ nxt' \in {IF n < first THEN first ELSE n : n \in want}
        /\ mem' = (IF known THEN file ELSE 0)
        /\ committed' = (IF known THEN committed ELSE 0)
        /\ origin' = Origin(nxt' - 1)
        /\ why' = (IF \E i \in (origin' + 1)..oldest : i \notin seen
                   THEN why \cup {"blind"} ELSE why)
    BY DEF OpenKafka
  <1>4. why = {} /\ \A i \in (origin' + 1)..oldest : i \in seen
    BY <1>3
  <1>5. ~conf.resume => file = Missing /\ Alone
    BY DEF FirstInv
  <1>6. \A n \in Int : n <= 1 => Few(n)'
    <2>1. ASSUME NEW n \in Int, n <= 1 PROVE Few(n)'
      <3>1. Missed(n)' = {}
        BY <1>1, <2>1 DEF Missed
      <3> QED
        BY <1>1, <1>2, <3>1, FS_EmptySet DEF Few
    <2> QED
      BY <2>1
  <1>7. CASE origin = Unset \/ (~Replica /\ ~conf.resume)
    <2>1. origin' = nxt' - 1
      BY <1>1, <1>3, <1>7 DEF Origin
    <2>2. file = Missing /\ Alone
      BY <1>1, <1>4, <1>5, <1>7 DEF KafkaInv
    <2>3. mem' = 0 /\ committed' = 0 /\ file' = -2 /\ \A k \in Slots : old'[k] = "off"
      BY <1>1, <1>3, <2>2 DEF Missing, Alone
    <2>4. Missed(nxt)' = {}
      BY <1>1, <2>1 DEF Missed
    <2>5. Few(nxt)'
      BY <1>1, <1>2, <2>4, FS_EmptySet DEF Few
    <2> QED
      BY <1>6, <2>3, <2>5
  <1>8. CASE origin # Unset /\ (Replica \/ conf.resume)
    <2>1. origin' = origin /\ origin \in Nat
      BY <1>1, <1>2, <1>3, <1>8 DEF Origin, Unset
    <2>2. /\ Few(file) /\ Few(committed)
          /\ \A k \in Slots : old[k] # "off" => Few(oldPos[k])
      BY <1>1, <1>4, <1>8 DEF KafkaInv
    <2>3. \A n \in Int : Few(n) => Few(n)'
      BY <1>1, <1>2, <2>1, KeepsFew
    <2>4. Few(file)' /\ \A k \in Slots : old'[k] # "off" => Few(oldPos[k])'
      BY <1>1, <1>2, <2>2, <2>3
    <2>5. Few(mem)' /\ Few(committed)'
      BY <1>1, <1>2, <1>3, <1>6, <2>2, <2>3
    <2>6. ASSUME NEW n \in Int, n = first PROVE Few(n)'
      <3>1. n - 1 = oldest /\ seen' = seen /\ crashes' = crashes
        BY <1>1, <1>2, <2>6
      <3>2. Missed(n)' = {}
        BY <1>4, <3>1 DEF Missed
      <3> QED
        BY <1>2, <3>1, <3>2, FS_EmptySet DEF Few
    <2>7. \A n \in want : Few(n)' \/ n = first
      BY <1>2, <1>8, <2>2, <2>3
    <2>8. PICK n \in want : nxt' = (IF n < first THEN first ELSE n)
      BY <1>3
    <2>9. Few(nxt)'
      <3>1. nxt' = n \/ nxt' = first
        BY <2>8
      <3>2. n \in Int /\ first \in Int
        BY <1>2
      <3> HIDE DEF first, want
      <3> QED
        BY <2>6, <2>7, <3>1, <3>2
    <2> QED
      BY <2>4, <2>5, <2>9
  <1> QED
    BY <1>7, <1>8

(* Every step keeps what the Kafka reader claims within the crashes. *)
LEMMA KafkaStep ==
  ASSUME RInv, KafkaInv, [Next]_vars
  PROVE  KafkaInv'
  <1> USE DEF RInv
  <1> DEFINE Olds == \E k \in Slots : OldTruncates(k) \/ OldWrites(k)
             quiet == \/ Change \/ Purge \/ OpenFails \/ StreamError \/ StreamLost \/ End
                      \/ Commit \/ SaverTick \/ SaverTruncates \/ SaverWrites
                      \/ Olds \/ Stop \/ Restart \/ UNCHANGED vars
  <1>1. SUFFICES ASSUME Kind("kafka")', why' = {}
                 PROVE  IF origin' = Unset
                        THEN /\ file' = Missing /\ saver' = "off" /\ Alone'
                             /\ pc' \in {"down", "ended"}
                        ELSE /\ Few(file)' /\ Few(committed)' /\ Few(mem)' /\ Few(nxt)'
                             /\ saver' \in {"set", "write"} => Few(saverPos)'
                             /\ \A k \in Slots : old'[k] # "off" => Few(oldPos[k])'
    BY DEF KafkaInv
  <1>2. conf' = conf /\ Kind("kafka")
    <2>1. conf' = conf
      BY DEF Next, Change, Purge, OpenCanal, OpenField, FieldCreate, FieldCreated, OpenMongo,
         OpenKafka, OpenFails, CopyRow, CopySkips, CopyCancel, CopyFails, CopyEnd, Fetch,
         SkipChange, SkipPurged, HandOver, SaveTruncates, SaveWrites, StreamBreaks,
         StreamError, StreamLost, End, Commit, SaverTick, SaverTruncates, SaverWrites,
         OldTruncates, OldWrites, Stop, Restart, Crash, Reset, vars
    <2> QED
      BY <1>1, <2>1 DEF Kind
  <1>3. /\ file \in Int /\ committed \in Int /\ mem \in Int /\ nxt \in Nat
        /\ saverPos \in Int /\ crashes \in Nat /\ \A k \in Slots : oldPos[k] \in Int
        /\ origin \in Int /\ (origin # Unset => origin \in Nat)
        /\ (pc # "send" => hand = 0) /\ oldest \in Nat
    BY ResumeAssumption DEF TypeInv, TypeOK, Positions, Unset
  <1>4. pc \notin {"create", "created", "copy", "trunc", "write"}
    BY <1>2 DEF PlaceInv, Kind
  <1>5. CASE Reset
    <2>1. /\ origin' = Unset /\ file' = Missing /\ pc' = pc /\ pc \in {"down", "ended"}
          /\ saver' = saver /\ old' = old
          /\ why' = IF saver # "off" \/ \E i \in Slots : old[i] # "off" THEN {"reset"} ELSE {}
      BY <1>5 DEF Reset
    <2>2. saver = "off" /\ \A i \in Slots : old[i] = "off"
      BY <1>1, <2>1
    <2> QED
      BY <2>1, <2>2 DEF Alone
  <1>6. CASE OpenKafka
    <2>1. origin' # Unset /\ saver' \in {"off", "idle"}
      BY <1>6, KafkaOpens, ResumeAssumption DEF Unset, PlaceInv
    <2> QED
      BY <1>1, <1>6, <2>1, KafkaStarts
  <1>7. CASE Crash
    <2>1. /\ why = {} /\ origin' = origin /\ seen' = seen /\ file' = file
          /\ committed' = committed /\ crashes' = crashes + 1
          /\ pc' = "down" /\ mem' = 0 /\ nxt' = 1 /\ saver' = "off"
          /\ \A k \in Slots : old'[k] = "off"
      BY <1>1, <1>2, <1>7 DEF Crash, CrashNow, Fresh, Cut, Kind
    <2>2. CASE origin = Unset
      BY <1>2, <2>1, <2>2 DEF KafkaInv, Alone
    <2>3. CASE origin # Unset
      <3>1. Few(file) /\ Few(committed) /\ Few(0) /\ Few(1)
        BY <1>2, <1>3, <2>1, <2>3, NoneMissed DEF KafkaInv
      <3>2. \A n \in Int : Few(n) => Few(n)'
        BY <1>3, <2>1, <2>3, CrashCosts
      <3> QED
        BY <1>3, <2>1, <2>3, <3>1, <3>2
    <2> QED
      BY <2>2, <2>3
  <1>8. CASE quiet \/ Fetch \/ SkipChange \/ SkipPurged \/ HandOver
    <2>1. why = {} /\ origin' = origin /\ crashes' = crashes /\ seen \subseteq seen'
      <3>1. CASE SkipPurged
        BY <1>1, <3>1 DEF SkipPurged
      <3>2. CASE Fetch \/ SkipChange \/ HandOver
        BY <1>1, <3>2 DEF Fetch, SkipChange, HandOver, Trouble
      <3>3. CASE quiet
        BY <1>1, <3>3 DEF Change, Purge, OpenFails, StreamBreaks, StreamError, StreamLost, End,
           Commit, SaverTick, SaverTruncates, SaverWrites, OldTruncates, OldWrites, Stop,
           Restart, Trouble, vars
      <3> QED
        BY <1>8, <3>1, <3>2, <3>3
    <2>2. CASE origin = Unset
      <3>1. file = Missing /\ saver = "off" /\ Alone /\ pc \in {"down", "ended"}
        BY <1>2, <2>1, <2>2 DEF KafkaInv
      <3>2. ~(Fetch \/ SkipChange \/ SkipPurged \/ HandOver \/ Olds)
        BY <3>1 DEF Fetch, SkipChange, SkipPurged, HandOver, OldTruncates, OldWrites, Alone
      <3>3. file' = file /\ saver' = "off" /\ old' = old /\ pc' \in {"down", "ended"}
        BY <1>2, <1>8, <3>1, <3>2 DEF Change, Purge, OpenFails, StreamBreaks, StreamError,
           StreamLost, End, Commit, SaverTick, SaverTruncates, SaverWrites, Stop, Restart,
           Fresh, Trouble, vars, Kind
      <3> QED
        BY <2>1, <2>2, <3>1, <3>3 DEF Alone
    <2>3. CASE origin # Unset
      <3>1. /\ Few(file) /\ Few(committed) /\ Few(mem) /\ Few(nxt)
            /\ saver \in {"set", "write"} => Few(saverPos)
            /\ \A k \in Slots : old[k] # "off" => Few(oldPos[k])
            /\ Few(0) /\ Few(1) /\ Few(-1)
        BY <1>2, <1>3, <2>1, <2>3, NoneMissed DEF KafkaInv
      <3>2. hand' = hand \/ hand = 0 \/ hand \in seen'
        <4>1. CASE Fetch \/ SkipChange \/ SkipPurged \/ HandOver
          BY <1>3, <4>1 DEF Fetch, SkipChange, SkipPurged, HandOver
        <4>2. CASE quiet
          BY <1>3, <4>2 DEF Change, Purge, OpenFails, StreamBreaks, StreamError, StreamLost,
             End, Commit, SaverTick, SaverTruncates, SaverWrites, OldTruncates, OldWrites,
             Stop, Restart, Fresh, vars
        <4> QED
          BY <1>8, <4>1, <4>2
      <3>3. \A n \in Int : Few(n) => Few(n)'
        BY <1>3, <2>1, <2>3, <3>2, KeepsFew
      <3>4. CASE Fetch \/ SkipChange
        <4>1. /\ nxt' = nxt + 1 /\ (mem' = nxt \/ mem' = mem)
              /\ hand' = nxt \/ nxt \in seen'
              /\ UNCHANGED <<file, committed, saver, saverPos, old, oldPos>>
          BY <3>4 DEF Fetch, SkipChange
        <4>2. PICK n \in Nat : n = nxt
          BY <1>3
        <4>3. Few(n)'
          BY <3>1, <3>3, <4>2
        <4>4. \A i : i \in (origin + 1)..n /\ i # n <=> i \in (origin + 1)..(n - 1) /\ i # n
          BY <1>3
        <4>5. Missed(nxt)' = Missed(n)'
          <5>1. nxt' - 1 = n /\ (hand' = n \/ n \in seen') /\ origin' = origin
            BY <2>1, <4>1, <4>2
          <5>2. \A i : i \notin seen' /\ i # hand' => i # n
            BY <5>1
          <5> QED
            BY <4>4, <5>1, <5>2 DEF Missed
        <4>6. Few(nxt)'
          BY <4>3, <4>5 DEF Few
        <4> QED
          BY <1>3, <2>1, <2>3, <3>1, <3>3, <4>1, <4>6
      <3>5. CASE HandOver
        <4>1. /\ mem' = mem
              /\ UNCHANGED <<file, committed, nxt, saver, saverPos, old, oldPos>>
          BY <1>2, <3>5 DEF HandOver, Kind
        <4> QED
          BY <1>3, <2>1, <2>3, <3>1, <3>3, <4>1
      <3>6. CASE SkipPurged
        <4>1. /\ nxt' = oldest + 1 /\ seen' = seen /\ mem' = mem
              /\ UNCHANGED <<file, committed, saver, saverPos, old, oldPos>>
              /\ \A i \in (origin + 1)..oldest : i \in seen
          BY <1>1, <3>6 DEF SkipPurged
        <4>2. Missed(nxt)' = {}
          <5>1. nxt' - 1 = oldest
            BY <1>3, <4>1
          <5> QED
            BY <2>1, <4>1, <5>1 DEF Missed
        <4>3. Few(nxt)'
          BY <1>3, <2>1, <4>2, FS_EmptySet DEF Few
        <4> QED
          BY <1>3, <2>1, <2>3, <3>1, <3>3, <4>1, <4>3
      <3>7. CASE quiet
        <4>1. \/ file' \in {file, -1} \/ (saver = "write" /\ file' = saverPos)
              \/ \E k \in Slots : old[k] # "off" /\ file' = oldPos[k]
          <5>1. CASE Olds
            BY <5>1 DEF OldTruncates, OldWrites, Written, Torn
          <5>2. CASE quiet /\ ~Olds
            BY <5>2 DEF Change, Purge, OpenFails, StreamBreaks, StreamError, StreamLost, End,
               Commit, SaverTick, SaverTruncates, SaverWrites, Stop, Restart, Trouble, vars,
               Written, Torn
          <5> QED
            BY <3>7, <5>1, <5>2
        <4>2. committed' \in {committed, nxt}
          BY <1>2, <3>7 DEF Change, Purge, OpenFails, StreamBreaks, StreamError, StreamLost,
             End, Commit, SaverTick, SaverTruncates, SaverWrites, OldTruncates, OldWrites,
             Stop, Restart, Trouble, vars, Kind
        <4>3. mem' \in {mem, 0} \/ (saver = "set" /\ mem' = saverPos)
          BY <1>2, <3>7 DEF Change, Purge, OpenFails, StreamBreaks, StreamError, StreamLost,
             End, Commit, SaverTick, SaverTruncates, SaverWrites, OldTruncates, OldWrites,
             Stop, Restart, Fresh, Trouble, vars
        <4>4. nxt' \in {nxt, 1}
          BY <1>2, <3>7 DEF Change, Purge, OpenFails, StreamBreaks, StreamError, StreamLost,
             End, Commit, SaverTick, SaverTruncates, SaverWrites, OldTruncates, OldWrites,
             Stop, Restart, Fresh, Trouble, vars, Kind
        <4>5. saver' \in {"set", "write"} =>
                saverPos' = mem \/ (saver \in {"set", "write"} /\ saverPos' = saverPos)
          BY <1>2, <3>7 DEF Change, Purge, OpenFails, StreamBreaks, StreamError, StreamLost,
             End, Commit, SaverTick, SaverTruncates, SaverWrites, OldTruncates, OldWrites,
             Stop, Restart, Fresh, Trouble, vars, Position, Kind
        <4>6. ASSUME NEW k \in Slots, old'[k] # "off"
              PROVE  \/ old[k] # "off" /\ oldPos'[k] = oldPos[k]
                     \/ saver \in {"set", "write"} /\ oldPos'[k] = saverPos
                     \/ oldPos'[k] = mem
          <5>0. /\ old \in [Slots -> {"off", "idle", "write"}] /\ oldPos \in [Slots -> 0..MaxLog]
                /\ saver \in {"off", "idle", "set", "write"} /\ Position = mem
            BY <1>2 DEF Position, Kind, TypeInv, TypeOK
          <5>1. CASE Restart
            <6>1. CASE saver = "off"
              BY <4>6, <5>1, <6>1 DEF Restart
            <6>2. CASE saver # "off"
              <7>1. PICK i \in Slots :
                      /\ old' = [old EXCEPT ![i] = IF saver = "write" THEN "write" ELSE "idle"]
                      /\ oldPos' = [oldPos EXCEPT ![i] =
                                      IF saver = "idle" THEN Position ELSE saverPos]
                BY <5>1, <6>2 DEF Restart
              <7>2. CASE i = k
                BY <5>0, <6>2, <7>1, <7>2
              <7>3. CASE i # k
                BY <4>6, <5>0, <7>1, <7>3
              <7> QED
                BY <7>2, <7>3
            <6> QED
              BY <6>1, <6>2
          <5>2. CASE Olds
            <6>1. PICK i \in Slots : OldTruncates(i) \/ OldWrites(i)
              BY <5>2
            <6>2. old[k] # "off" /\ oldPos'[k] = oldPos[k]
              BY <1>2, <4>6, <5>0, <6>1 DEF OldTruncates, OldWrites, Kind
            <6> QED
              BY <6>2
          <5>3. CASE quiet /\ ~Restart /\ ~Olds
            <6>1. old' = old /\ oldPos' = oldPos
              BY <5>3 DEF Change, Purge, OpenFails, StreamBreaks, StreamError, StreamLost,
                 End, Commit, SaverTick, SaverTruncates, SaverWrites, Stop, vars
            <6> QED
              BY <4>6, <6>1
          <5> QED
            BY <3>7, <5>1, <5>2, <5>3
        <4> HIDE DEF quiet
        <4>7. Few(file)' /\ Few(committed)' /\ Few(mem)' /\ Few(nxt)'
          BY <1>3, <3>1, <3>3, <4>1, <4>2, <4>3, <4>4
        <4>8. saver' \in {"set", "write"} => Few(saverPos)'
          BY <1>3, <3>1, <3>3, <4>5
        <4>9. ASSUME NEW k \in Slots, old'[k] # "off" PROVE Few(oldPos[k])'
          BY <1>3, <3>1, <3>3, <4>6, <4>9
        <4> QED
          BY <2>1, <2>3, <4>7, <4>8, <4>9
      <3> QED
        BY <1>8, <3>4, <3>5, <3>6, <3>7
    <2> QED
      BY <2>2, <2>3
  <1>9. ~(OpenCanal \/ OpenField \/ OpenMongo \/ FieldCreate \/ FieldCreated \/ CopyRow
          \/ CopySkips \/ CopyCancel \/ CopyFails \/ CopyEnd \/ SaveTruncates \/ SaveWrites)
    BY <1>2, <1>4 DEF OpenCanal, OpenField, OpenMongo, FieldCreate, FieldCreated, CopyRow,
       CopySkips, CopyCancel, CopyFails, CopyEnd, SaveTruncates, SaveWrites, Kind
  <1> QED
    BY <1>5, <1>6, <1>7, <1>8, <1>9 DEF Next

(* Kafka's client commits what it has returned, handed over or not: whatever
   the log, the savers and the restarts, each crash costs at most the message
   in hand (kafka_reader.go:292-305). *)
THEOREM OnePerCrash == Spec => []LossPerCrash
  <1>1. Init => KafkaInv
    BY DEF Init, KafkaInv, Alone
  <1>2. RInv /\ KafkaInv /\ [Next]_vars => KafkaInv'
    BY KafkaStep
  <1>3. RInv /\ KafkaInv => LossPerCrash
    <2>1. SUFFICES ASSUME KafkaInv, Watching, why = {}, Kind("kafka")
                   PROVE  Cardinality(Gap(nxt - 1) \ {hand}) <= crashes
      BY DEF LossPerCrash
    <2>2. Few(nxt)
      BY <2>1 DEF KafkaInv, Watching
    <2>3. Gap(nxt - 1) \ {hand} = Missed(nxt)
      BY DEF Gap, Missed
    <2> QED
      BY <2>2, <2>3 DEF Few
  <1> QED
    BY <1>1, <1>2, <1>3, Invariance, PTL DEF Spec
=============================================================================
