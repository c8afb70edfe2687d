----------------------------- MODULE SpaceProofs -----------------------------
(***************************************************************************)
(* Proofs about module Space: its types, and that an op is in one place    *)
(* only (the inductive invariant is in SpaceInv).                          *)
(*                                                                         *)
(* Most steps move no op (StillSteps); the others have a lemma each, which *)
(* says what leaves which place and where it goes.                         *)
(***************************************************************************)
EXTENDS SpaceInv, TLAPS

USE DEF taskVars

(* A space that a step leaves alone holds the same ops, in the same places. *)
LEMMA SameOwned ==
  ASSUME NEW s \in Spaces, SameSpace(s), NEW o \in Ops
  PROVE  /\ Packed(s, o)' <=> Packed(s, o)
         /\ Queued(s, o)' <=> Queued(s, o)
         /\ Owns(s, o)' <=> Owns(s, o)
  BY DEF SameSpace, Packed, Queued, Owns

LEMMA SameApart ==
  ASSUME NEW s \in Spaces, SameSpace(s), SpaceApart(s)
  PROVE  SpaceApart(s)'
  BY SameOwned DEF SpaceApart, SameSpace

(* A step within one space moves nothing between source, pipeline and spaces. *)
LEMMA OutsideKept ==
  ASSUME OutsideApart, HeldInv, source'.msg = source.msg, pipe'.msg = pipe.msg, fate' = fate,
         \A s \in Spaces : \A o \in Ops : Owns(s, o)' <=> Owns(s, o)
  PROVE  OutsideApart' /\ HeldInv'
  BY DEF OutsideApart, HeldInv

(* A step that moves nothing keeps the parts of the invariant that say where
   the ops are. *)
LEMMA StillKeeps ==
  ASSUME InsideApart, OutsideApart, HeldInv, Still
  PROVE  InsideApart' /\ OutsideApart' /\ HeldInv'
  <1>1. \A s \in Spaces : \A o \in Ops : Owns(s, o)' <=> Owns(s, o)
    BY SameOwned DEF Still
  <1>2. InsideApart'
    BY SameApart DEF InsideApart, Still
  <1> QED
    BY <1>1, <1>2, OutsideKept DEF Still

(* The messages "space out" sends have their type. *)
LEMMA MsgType ==
  ASSUME NEW to \in {"out", "err"}, NEW ok \in BOOLEAN, NEW o \in Ops, NEW parts \in SUBSET Ops
  PROVE  Msg(to, ok, o, parts) \in Msgs
  BY DEF Msg, Msgs

LEMMA OutChange ==
  ASSUME NEW s \in Spaces, outGo \in [Spaces -> OutStates], NEW packs \in SUBSET Msgs,
         NEW queue \in SUBSET Msgs, NEW c \in {"send"}
  PROVE  [outGo EXCEPT ![s].pc = c, ![s].queue = queue, ![s].packs = packs]
           \in [Spaces -> OutStates]
  <1>1. outGo[s] \in OutStates
    OBVIOUS
  <1>2. [outGo[s] EXCEPT !.pc = c, !.queue = queue, !.packs = packs] \in OutStates
    BY <1>1 DEF OutStates
  <1> DEFINE x == [outGo[s] EXCEPT !.pc = c, !.queue = queue, !.packs = packs]
  <1>3. [outGo EXCEPT ![s] = x] \in [Spaces -> OutStates]
    BY <1>2
  <1> QED
    BY <1>3

(* Every step keeps the types.  What the goroutines have in hand is needed: the
   message the pipeline goroutine hands to a space is one op. *)
LEMMA TypeStep ==
  ASSUME TypeOK, HandInv, [Next]_vars
  PROVE  TypeOK'
  <1>1. ASSUME NEW o \in Ops, SourceSend(o)
        PROVE  TypeOK'
    BY <1>1 DEF SourceSend, Becomes, TypeOK, HandInv
  <1>2. CASE SourceEnds
    BY <1>2 DEF SourceEnds, TypeOK, HandInv
  <1>3. CASE Stop
    BY <1>3 DEF Stop, TypeOK, HandInv
  <1>4. CASE StopReturn
    BY <1>4 DEF StopReturn, TypeOK, HandInv
  <1>5. CASE Release
    BY <1>5 DEF Release, TypeOK, HandInv
  <1>6. CASE PipeTakeOp
    BY <1>6 DEF PipeTakeOp, TypeOK, HandInv
  <1>7. CASE PipeTakeDone
    BY <1>7 DEF PipeTakeDone, TypeOK, HandInv
  <1>8. CASE PipeSendDone
    BY <1>8 DEF PipeSendDone, Waiting, TypeOK, HandInv
  <1>9. ASSUME NEW s \in Spaces, PipeGive(s)
        PROVE  TypeOK'
    BY <1>9 DEF PipeGive, Waiting, Becomes, TypeOK, HandInv
  <1>10. CASE PipeFlowEnds
    BY <1>10 DEF PipeFlowEnds, Waiting, Becomes, TypeOK, HandInv
  <1>11. CASE PipeFlow
    BY <1>11 DEF PipeFlow, TypeOK, HandInv
  <1>12. CASE PipeRoute
    BY <1>12 DEF PipeRoute, Waiting, Becomes, TypeOK, HandInv
  <1>13. CASE PipeReport
    BY <1>13 DEF PipeReport, Waiting, Becomes, TypeOK, HandInv
  <1>14. CASE PipeTick
    BY <1>14 DEF PipeTick, TypeOK, HandInv
  <1>15. ASSUME NEW s \in Spaces, StopSpace(s)
        PROVE  TypeOK'
    BY <1>15 DEF StopSpace, TypeOK, HandInv
  <1>16. ASSUME NEW s \in Spaces, StopSpaceEnd(s)
        PROVE  TypeOK'
    BY <1>16 DEF StopSpaceEnd, Becomes, TypeOK, HandInv
  <1>17. CASE PipeEnd
    BY <1>17 DEF PipeEnd, TypeOK, HandInv
  <1>18. ASSUME NEW s \in Spaces, InAdd(s)
        PROVE  TypeOK'
    <2>1. PICK more \in SUBSET Ops : outGo' = [outGo EXCEPT ![s].todo = @ \cup more]
      <3>1. inGo[s].msg \subseteq Ops
        BY DEF TypeOK
      <3>2. PICK seen \in SUBSET inGo[s].msg :
              outGo' = [outGo EXCEPT ![s].todo =
                          @ \cup {o \in seen : DocumentSet[o] = MainSet[s]}]
        BY <1>18 DEF InAdd
      <3> QED
        BY <3>1, <3>2
    <2>0. outGo \in [Spaces -> OutStates]
      BY DEF TypeOK
    <2>2. outGo' \in [Spaces -> OutStates]
      BY <2>0, <2>1 DEF OutStates
    <2> QED
      BY <1>18, <2>2 DEF InAdd, Waiting, TypeOK
  <1>19. ASSUME NEW s \in Spaces, MapRace(s)
        PROVE  TypeOK'
    <2>1. outGo \in [Spaces -> OutStates]
      BY DEF TypeOK
    <2>2. outGo' \in [Spaces -> OutStates]
      BY <1>19, <2>1 DEF OutStates, MapRace
    <2>3. TypeOK /\ HandInv
      OBVIOUS
    <2> QED
      BY <1>19, <2>2, <2>3 DEF TypeOK, HandInv, MapRace
  <1>20. ASSUME NEW s \in Spaces, InEnd(s)
        PROVE  TypeOK'
    BY <1>20 DEF InEnd, TypeOK, HandInv
  <1>21. ASSUME NEW s \in Spaces, OutTimeoutTick(s)
        PROVE  TypeOK'
    <2>1. outGo \in [Spaces -> OutStates]
      BY DEF TypeOK
    <2>2. outGo' \in [Spaces -> OutStates]
      BY <1>21, <2>1 DEF OutStates, OutTimeoutTick
    <2>3. TypeOK /\ HandInv
      OBVIOUS
    <2> QED
      BY <1>21, <2>2, <2>3 DEF TypeOK, HandInv, OutTimeoutTick
  <1>22. ASSUME NEW s \in Spaces, OutTimeout(s)
        PROVE  TypeOK'
    <2>1. PICK late \in SUBSET (base[s] \ expired), queue \in SUBSET Msgs :
            /\ expired' = expired \cup late
            /\ base' = [base EXCEPT ![s] = @ \ (base[s] \ (expired \cup late))]
            /\ outGo' = [outGo EXCEPT ![s].pc = "send", ![s].queue = queue]
      <3>1. base[s] \subseteq Ops
        BY DEF TypeOK
      <3>2. PICK late \in SUBSET (base[s] \ expired) :
            /\ expired' = expired \cup late
            /\ base' = [base EXCEPT ![s] = @ \ (base[s] \ (expired \cup late))]
            /\ outGo' = [outGo EXCEPT ![s].pc = "send", ![s].queue =
                 {Msg(IF conf.save THEN "out" ELSE "err", TRUE, o, {}) :
                    o \in base[s] \ (expired \cup late)}]
        BY <1>22 DEF OutTimeout
      <3>3. {Msg(IF conf.save THEN "out" ELSE "err", TRUE, o, {}) :
               o \in base[s] \ (expired \cup late)} \subseteq Msgs
        BY <3>1, MsgType
      <3> QED
        BY <3>2, <3>3
    <2>0. outGo \in [Spaces -> OutStates]
      BY DEF TypeOK
    <2>2. outGo' \in [Spaces -> OutStates]
      BY <2>0, <2>1 DEF OutStates
    <2> QED
      BY <1>22, <2>1, <2>2 DEF OutTimeout, TypeOK
  <1>23. ASSUME NEW s \in Spaces, OutMatchTick(s)
        PROVE  TypeOK'
    <2>1. Mains(s) \subseteq Ops
      BY DEF TypeOK, Mains
    <2>0. outGo \in [Spaces -> OutStates]
      BY DEF TypeOK
    <2>2. outGo' \in [Spaces -> OutStates]
      BY <1>23, <2>0, <2>1 DEF OutMatchTick, OutStates
    <2> QED
      BY <1>23, <2>2 DEF OutMatchTick, TypeOK
  <1>24. ASSUME NEW s \in Spaces, NEW m \in Ops, OutMatchMain(s, m)
        PROVE  TypeOK'
    <2>1. PICK x \in Msgs, parts \in SUBSET Ops :
            /\ outGo' = [outGo EXCEPT ![s].todo = @ \ {m}, ![s].packs = @ \cup {x}]
            /\ base' = [base EXCEPT ![s] = @ \ parts]
      <3>1. PICK p \in [DOMAIN Wheres[s] -> base[s]] :
              LET parts == {p[i] : i \in DOMAIN Wheres[s]}
                  ok    == conf.known \/ parts = {}
              IN  /\ outGo' = [outGo EXCEPT ![s].todo = @ \ {m},
                                   ![s].packs = @ \cup {Pack(m, ok, parts)}]
                  /\ base' = [base EXCEPT ![s] = @ \ parts]
        BY <1>24 DEF OutMatchMain, Picks
      <3> DEFINE parts == {p[i] : i \in DOMAIN Wheres[s]}
      <3>2. parts \in SUBSET Ops
        BY DEF TypeOK
      <3>3. Pack(m, conf.known \/ parts = {}, parts) \in Msgs
        BY <3>2, MsgType DEF Pack
      <3> QED
        BY <3>1, <3>2, <3>3
    <2>0. outGo \in [Spaces -> OutStates]
      BY DEF TypeOK
    <2>2. outGo' \in [Spaces -> OutStates]
      BY <2>0, <2>1 DEF OutStates
    <2> QED
      BY <1>24, <2>1, <2>2 DEF OutMatchMain, TypeOK
  <1>25. ASSUME NEW s \in Spaces, NEW m \in Ops, OutMatchNone(s, m)
        PROVE  TypeOK'
    <2>1. outGo \in [Spaces -> OutStates]
      BY DEF TypeOK
    <2>2. outGo' \in [Spaces -> OutStates]
      BY <1>25, <2>1 DEF OutStates, OutMatchNone
    <2>3. TypeOK /\ HandInv
      OBVIOUS
    <2> QED
      BY <1>25, <2>2, <2>3 DEF TypeOK, HandInv, OutMatchNone
  <1>26. ASSUME NEW s \in Spaces, OutMatchEnd(s)
        PROVE  TypeOK'
    <2>1. outGo \in [Spaces -> OutStates]
      BY DEF TypeOK
    <2>2. outGo' \in [Spaces -> OutStates]
      BY <1>26, <2>1 DEF OutStates, OutMatchEnd
    <2>3. TypeOK /\ HandInv
      OBVIOUS
    <2> QED
      BY <1>26, <2>2, <2>3 DEF TypeOK, HandInv, OutMatchEnd
  <1>27. ASSUME NEW s \in Spaces, OutDeliver(s)
        PROVE  TypeOK'
    <2>1. outGo[s].packs \subseteq Msgs
      BY DEF TypeOK, OutStates
    <2>0. outGo \in [Spaces -> OutStates]
      BY DEF TypeOK
    <2>2. outGo' \in [Spaces -> OutStates]
      BY <1>27, <2>0, <2>1, OutChange DEF OutDeliver
    <2> QED
      BY <1>27, <2>2 DEF OutDeliver, TypeOK
  <1>28. ASSUME NEW s \in Spaces, NEW q \in outGo[s].queue, OutSend(s, q)
        PROVE  TypeOK'
    <2>1. q \in Msgs
      BY DEF TypeOK, OutStates
    <2>0. outGo \in [Spaces -> OutStates]
      BY DEF TypeOK
    <2>2. outGo' \in [Spaces -> OutStates]
      BY <1>28, <2>0 DEF OutSend, OutStates
    <2>3. Content(q) \subseteq Ops
      BY <2>1 DEF Content, Msgs
    <2>4. pipe' \in [pc : {"select", "in", "done", "flow", "route", "report", "stop", "end",
                           "dead"},
                     msg : SUBSET Ops]
      BY <1>28, <2>1, <2>3 DEF OutSend
    <2> QED
      BY <1>28, <2>2, <2>4 DEF OutSend, Becomes, TypeOK
  <1>29. ASSUME NEW s \in Spaces, OutSent(s)
        PROVE  TypeOK'
    <2>1. outGo \in [Spaces -> OutStates]
      BY DEF TypeOK
    <2>2. outGo' \in [Spaces -> OutStates]
      BY <1>29, <2>1 DEF OutStates, OutSent
    <2>3. TypeOK /\ HandInv
      OBVIOUS
    <2> QED
      BY <1>29, <2>2, <2>3 DEF TypeOK, HandInv, OutSent
  <1>30. CASE UNCHANGED vars
    BY <1>30 DEF vars, TypeOK, HandInv
  <1> QED
    BY <1>1, <1>2, <1>3, <1>4, <1>5, <1>6, <1>7, <1>8, <1>9, <1>10, <1>11, <1>12,
       <1>13, <1>14, <1>15, <1>16, <1>17, <1>18, <1>19, <1>20, <1>21, <1>22, <1>23,
       <1>24, <1>25, <1>26, <1>27, <1>28, <1>29, <1>30 DEF Next, Around, PipeStep,
       PipeSelect, In, OutStep, OutSelect, Send

(* Every step keeps what the goroutines have in hand at each point. *)
LEMMA HandStep ==
  ASSUME TypeOK, HandInv, [Next]_vars
  PROVE  HandInv'
  <1>1. ASSUME NEW o \in Ops, SourceSend(o)
        PROVE  HandInv'
    BY <1>1 DEF SourceSend, Becomes, TypeOK, HandInv
  <1>2. CASE SourceEnds
    BY <1>2 DEF SourceEnds, TypeOK, HandInv
  <1>3. CASE Stop
    BY <1>3 DEF Stop, TypeOK, HandInv
  <1>4. CASE StopReturn
    BY <1>4 DEF StopReturn, TypeOK, HandInv
  <1>5. CASE Release
    BY <1>5 DEF Release, TypeOK, HandInv
  <1>6. CASE PipeTakeOp
    BY <1>6 DEF PipeTakeOp, TypeOK, HandInv
  <1>7. CASE PipeTakeDone
    BY <1>7 DEF PipeTakeDone, TypeOK, HandInv
  <1>8. CASE PipeSendDone
    BY <1>8 DEF PipeSendDone, Waiting, TypeOK, HandInv
  <1>9. ASSUME NEW s \in Spaces, PipeGive(s)
        PROVE  HandInv'
    BY <1>9 DEF PipeGive, Waiting, Becomes, TypeOK, HandInv
  <1>10. CASE PipeFlowEnds
    BY <1>10 DEF PipeFlowEnds, Waiting, Becomes, TypeOK, HandInv
  <1>11. CASE PipeFlow
    BY <1>11 DEF PipeFlow, TypeOK, HandInv
  <1>12. CASE PipeRoute
    BY <1>12 DEF PipeRoute, Waiting, Becomes, TypeOK, HandInv
  <1>13. CASE PipeReport
    BY <1>13 DEF PipeReport, Waiting, Becomes, TypeOK, HandInv
  <1>14. CASE PipeTick
    BY <1>14 DEF PipeTick, TypeOK, HandInv
  <1>15. ASSUME NEW s \in Spaces, StopSpace(s)
        PROVE  HandInv'
    BY <1>15 DEF StopSpace, TypeOK, HandInv
  <1>16. ASSUME NEW s \in Spaces, StopSpaceEnd(s)
        PROVE  HandInv'
    BY <1>16 DEF StopSpaceEnd, Becomes, TypeOK, HandInv
  <1>17. CASE PipeEnd
    BY <1>17 DEF PipeEnd, TypeOK, HandInv
  <1>18. ASSUME NEW s \in Spaces, InAdd(s)
        PROVE  HandInv'
    BY <1>18 DEF InAdd, Waiting, TypeOK, HandInv
  <1>19. ASSUME NEW s \in Spaces, MapRace(s)
        PROVE  HandInv'
    <2>1. \A t \in Spaces : /\ inGo'[t].pc = "dead" /\ outGo'[t].pc = "dead"
      BY <1>19 DEF MapRace, TypeOK, OutStates
    <2>2. /\ source'.msg = source.msg /\ source'.pc = "dead"
          /\ pipe'.msg = pipe.msg /\ pipe'.pc = "dead"
      BY <1>19 DEF MapRace, TypeOK
    <2> QED
      BY <2>1, <2>2 DEF HandInv
  <1>20. ASSUME NEW s \in Spaces, InEnd(s)
        PROVE  HandInv'
    BY <1>20 DEF InEnd, TypeOK, HandInv
  <1>21. ASSUME NEW s \in Spaces, OutTimeoutTick(s)
        PROVE  HandInv'
    BY <1>21 DEF OutTimeoutTick, TypeOK, HandInv
  <1>22. ASSUME NEW s \in Spaces, OutTimeout(s)
        PROVE  HandInv'
    BY <1>22 DEF OutTimeout, Msg, Msgs, TypeOK, HandInv
  <1>23. ASSUME NEW s \in Spaces, OutMatchTick(s)
        PROVE  HandInv'
    BY <1>23 DEF OutMatchTick, Mains, TypeOK, HandInv
  <1>24. ASSUME NEW s \in Spaces, NEW m \in Ops, OutMatchMain(s, m)
        PROVE  HandInv'
    BY <1>24 DEF OutMatchMain, Picks, Related, Pack, Msg, Msgs, TypeOK, HandInv
  <1>25. ASSUME NEW s \in Spaces, NEW m \in Ops, OutMatchNone(s, m)
        PROVE  HandInv'
    BY <1>25 DEF OutMatchNone, TypeOK, HandInv
  <1>26. ASSUME NEW s \in Spaces, OutMatchEnd(s)
        PROVE  HandInv'
    BY <1>26 DEF OutMatchEnd, TypeOK, HandInv
  <1>27. ASSUME NEW s \in Spaces, OutDeliver(s)
        PROVE  HandInv'
    BY <1>27 DEF OutDeliver, TypeOK, HandInv
  <1>28. ASSUME NEW s \in Spaces, NEW q \in outGo[s].queue, OutSend(s, q)
        PROVE  HandInv'
    BY <1>28 DEF OutSend, Content, Becomes, Msg, Msgs, TypeOK, HandInv
  <1>29. ASSUME NEW s \in Spaces, OutSent(s)
        PROVE  HandInv'
    BY <1>29 DEF OutSent, TypeOK, HandInv
  <1>30. CASE UNCHANGED vars
    BY <1>30 DEF vars, TypeOK, HandInv
  <1> QED
    BY <1>1, <1>2, <1>3, <1>4, <1>5, <1>6, <1>7, <1>8, <1>9, <1>10, <1>11, <1>12,
       <1>13, <1>14, <1>15, <1>16, <1>17, <1>18, <1>19, <1>20, <1>21, <1>22, <1>23,
       <1>24, <1>25, <1>26, <1>27, <1>28, <1>29, <1>30 DEF Next, Around, PipeStep,
       PipeSelect, In, OutStep, OutSelect, Send

(* What OutMatchMain and OutTimeout take out of the base. *)
LEMMA MatchTakes ==
  ASSUME NEW s \in Spaces, NEW m \in Ops, OutMatchMain(s, m)
  PROVE  \E parts \in SUBSET base[s], ok \in BOOLEAN :
           /\ \A o \in parts : \E i \in DOMAIN Wheres[s] : DocumentSet[o] = Wheres[s][i].set
           /\ base' = [base EXCEPT ![s] = @ \ parts]
           /\ outGo' = [outGo EXCEPT ![s].todo = @ \ {m},
                          ![s].packs = @ \cup {Pack(m, ok, parts)}]
  <1>1. PICK p \in Picks(s, m) :
          LET parts == {p[i] : i \in DOMAIN Wheres[s]}
              ok    == conf.known \/ parts = {}
          IN  /\ outGo' = [outGo EXCEPT ![s].todo = @ \ {m},
                             ![s].packs = @ \cup {Pack(m, ok, parts)}]
              /\ base' = [base EXCEPT ![s] = @ \ parts]
    BY DEF OutMatchMain
  <1> DEFINE parts == {p[i] : i \in DOMAIN Wheres[s]}
             ok    == conf.known \/ parts = {}
  <1>2. \A i \in DOMAIN Wheres[s] : p[i] \in base[s] /\ DocumentSet[p[i]] = Wheres[s][i].set
    BY DEF Picks, Related
  <1>3. /\ parts \in SUBSET base[s]
        /\ \A o \in parts : \E i \in DOMAIN Wheres[s] : DocumentSet[o] = Wheres[s][i].set
    BY <1>2
  <1>4. ok \in BOOLEAN
    OBVIOUS
  <1> HIDE DEF parts, ok
  <1>5. /\ base' = [base EXCEPT ![s] = @ \ parts]
        /\ outGo' = [outGo EXCEPT ![s].todo = @ \ {m},
                       ![s].packs = @ \cup {Pack(m, ok, parts)}]
    BY <1>1 DEF parts, ok
  <1> QED
    BY <1>3, <1>4, <1>5

LEMMA TimeoutTakes ==
  ASSUME NEW s \in Spaces, OutTimeout(s)
  PROVE  \E out \in SUBSET base[s], to \in {"out", "err"} :
           /\ base' = [base EXCEPT ![s] = @ \ out]
           /\ outGo' = [outGo EXCEPT ![s].pc = "send",
                          ![s].queue = {Msg(to, TRUE, o, {}) : o \in out}]
  <1> DEFINE to == IF conf.save THEN "out" ELSE "err"
  <1>1. PICK late \in SUBSET (base[s] \ expired) :
          /\ base' = [base EXCEPT ![s] = @ \ (base[s] \ (expired \cup late))]
          /\ outGo' = [outGo EXCEPT ![s].pc = "send",
               ![s].queue = {Msg(to, TRUE, o, {}) : o \in base[s] \ (expired \cup late)}]
    BY Zenon DEF OutTimeout
  <1> DEFINE out == base[s] \ (expired \cup late)
  <1>2. out \in SUBSET base[s] /\ to \in {"out", "err"}
    OBVIOUS
  <1> HIDE DEF to
  <1>3. /\ base' = [base EXCEPT ![s] = @ \ out]
        /\ outGo' = [outGo EXCEPT ![s].pc = "send",
                       ![s].queue = {Msg(to, TRUE, o, {}) : o \in out}]
    BY <1>1
  <1> HIDE DEF out
  <1> QED
    BY <1>2, <1>3

(* The messages made of a set of expired ops hold one op each. *)
LEMMA OneEach ==
  ASSUME NEW out, NEW to, NEW queue,
         \A q : q \in queue <=> \E o \in out : q = Msg(to, TRUE, o, {})
  PROVE  /\ \A x : (\E q \in queue : x \in Content(q)) <=> x \in out
         /\ \A x : \A q, r \in queue : x \in Content(q) /\ x \in Content(r) => q = r
  <1>1. ASSUME NEW o
        PROVE  Content(Msg(to, TRUE, o, {})) = {o}
    BY DEF Content, Msg
  <1>2. ASSUME NEW x, NEW q \in queue, x \in Content(q)
        PROVE  x \in out /\ q = Msg(to, TRUE, x, {})
    <2>1. PICK o \in out : q = Msg(to, TRUE, o, {})
      OBVIOUS
    <2>2. x = o
      BY <1>1, <1>2, <2>1
    <2> QED
      BY <2>1, <2>2
  <1>3. ASSUME NEW x \in out
        PROVE  \E q \in queue : x \in Content(q)
    <2>1. x \in Content(Msg(to, TRUE, x, {}))
      BY <1>1
    <2> QED
      BY <2>1
  <1>4. \A x : (\E q \in queue : x \in Content(q)) <=> x \in out
    BY <1>2, <1>3
  <1>5. \A x : \A q, r \in queue : x \in Content(q) /\ x \in Content(r) => q = r
    BY <1>2
  <1> QED
    BY <1>4, <1>5

(* The steps that move an op; all others move none. *)
LEMMA StillSteps ==
  ASSUME TypeOK, HandInv, [Next]_vars
  PROVE  \/ Still
         \/ \E o \in Ops : SourceSend(o)
         \/ PipeTakeOp
         \/ \E s \in Spaces : PipeGive(s)
         \/ PipeFlowEnds
         \/ PipeRoute
         \/ PipeReport
         \/ \E s \in Spaces : StopSpaceEnd(s)
         \/ \E s \in Spaces : InAdd(s)
         \/ \E s \in Spaces : OutTimeout(s)
         \/ \E s \in Spaces : \E m \in Ops : OutMatchMain(s, m)
         \/ \E s \in Spaces : OutDeliver(s)
         \/ \E s \in Spaces : \E q \in outGo[s].queue : OutSend(s, q)
  <1>1. CASE SourceEnds
    BY <1>1 DEF SourceEnds, Still, SameSpace, TypeOK, OutStates, HandInv
  <1>2. CASE Stop
    BY <1>2 DEF Stop, Still, SameSpace, TypeOK, OutStates, HandInv
  <1>3. CASE StopReturn
    BY <1>3 DEF StopReturn, Still, SameSpace, TypeOK, OutStates, HandInv
  <1>4. CASE Release
    BY <1>4 DEF Release, Still, SameSpace, TypeOK, OutStates, HandInv
  <1>5. CASE PipeTakeDone
    BY <1>5 DEF PipeTakeDone, Still, SameSpace, TypeOK, OutStates, HandInv
  <1>6. CASE PipeSendDone
    BY <1>6 DEF PipeSendDone, Waiting, Still, SameSpace, TypeOK, OutStates, HandInv
  <1>7. CASE PipeFlow
    BY <1>7 DEF PipeFlow, Still, SameSpace, TypeOK, OutStates, HandInv
  <1>8. CASE PipeTick
    BY <1>8 DEF PipeTick, Still, SameSpace, TypeOK, OutStates, HandInv
  <1>9. ASSUME NEW s \in Spaces, StopSpace(s)
        PROVE  Still
    BY <1>9 DEF StopSpace, Still, SameSpace, TypeOK, OutStates, HandInv
  <1>10. CASE PipeEnd
    BY <1>10 DEF PipeEnd, Still, SameSpace, TypeOK, OutStates, HandInv
  <1>11. ASSUME NEW s \in Spaces, MapRace(s)
        PROVE  Still
    BY <1>11 DEF MapRace, Still, SameSpace, TypeOK, OutStates, HandInv
  <1>12. ASSUME NEW s \in Spaces, InEnd(s)
        PROVE  Still
    BY <1>12 DEF InEnd, Still, SameSpace, TypeOK, OutStates, HandInv
  <1>13. ASSUME NEW s \in Spaces, OutTimeoutTick(s)
        PROVE  Still
    BY <1>13 DEF OutTimeoutTick, Still, SameSpace, TypeOK, OutStates, HandInv
  <1>14. ASSUME NEW s \in Spaces, OutMatchTick(s)
        PROVE  Still
    BY <1>14 DEF OutMatchTick, Mains, Still, SameSpace, TypeOK, OutStates, HandInv
  <1>15. ASSUME NEW s \in Spaces, NEW m \in Ops, OutMatchNone(s, m)
        PROVE  Still
    BY <1>15 DEF OutMatchNone, Still, SameSpace, TypeOK, OutStates, HandInv
  <1>16. ASSUME NEW s \in Spaces, OutMatchEnd(s)
        PROVE  Still
    BY <1>16 DEF OutMatchEnd, Still, SameSpace, TypeOK, OutStates, HandInv
  <1>17. ASSUME NEW s \in Spaces, OutSent(s)
        PROVE  Still
    BY <1>17 DEF OutSent, Still, SameSpace, TypeOK, OutStates, HandInv
  <1>18. CASE UNCHANGED vars
    BY <1>18 DEF vars, Still, SameSpace
  <1> QED
    BY <1>1, <1>2, <1>3, <1>4, <1>5, <1>6, <1>7, <1>8, <1>9, <1>10, <1>11, <1>12,
       <1>13, <1>14, <1>15, <1>16, <1>17, <1>18 DEF Next, Around, PipeStep,
       PipeSelect, In, OutStep, OutSelect, Send

(* An op goes from the source to the pipeline goroutine, and from there to a
   space or out of the model. *)
LEMMA SourceSendMoves ==
  ASSUME SInv, NEW o \in Ops, SourceSend(o)
  PROVE  InsideApart' /\ OutsideApart' /\ HeldInv'
  <1>1. /\ source.msg = {} /\ source'.msg = {o} /\ pipe'.msg = pipe.msg
        /\ fate[o] = "unread" /\ \A x \in Ops : fate'[x] = IF x = o THEN "held" ELSE fate[x]
    BY DEF SInv, HandInv, SourceSend, Becomes, TypeOK
  <1>2. \A s \in Spaces : SameSpace(s)
    BY DEF SourceSend, SameSpace
  <1>3. \A s \in Spaces : \A x \in Ops : Owns(s, x)' <=> Owns(s, x)
    BY <1>2, SameOwned
  <1>4. InsideApart'
    BY <1>2, SameApart DEF SInv, InsideApart
  <1>5. o \notin pipe.msg /\ \A s \in Spaces : ~Owns(s, o)
    BY <1>1 DEF SInv, HeldInv
  <1>6. OutsideApart'
    BY <1>1, <1>3, <1>5 DEF SInv, OutsideApart
  <1>7. HeldInv'
    BY <1>1, <1>3, <1>5 DEF SInv, HeldInv
  <1> QED
    BY <1>4, <1>6, <1>7

LEMMA PipeTakeOpMoves ==
  ASSUME SInv, PipeTakeOp
  PROVE  InsideApart' /\ OutsideApart' /\ HeldInv'
  <1>1. pipe.msg = {} /\ source'.msg = {} /\ pipe'.msg = source.msg /\ fate' = fate
    BY DEF SInv, HandInv, PipeTakeOp
  <1>2. \A s \in Spaces : SameSpace(s)
    BY DEF PipeTakeOp, SameSpace
  <1>3. \A s \in Spaces : \A x \in Ops : Owns(s, x)' <=> Owns(s, x)
    BY <1>2, SameOwned
  <1>4. InsideApart'
    BY <1>2, SameApart DEF SInv, InsideApart
  <1>5. OutsideApart'
    BY <1>1, <1>3 DEF SInv, OutsideApart
  <1>6. HeldInv'
    BY <1>1, <1>3 DEF SInv, HeldInv
  <1> QED
    BY <1>4, <1>5, <1>6

LEMMA PipeDisposes ==
  ASSUME SInv, PipeFlowEnds \/ PipeRoute \/ PipeReport
  PROVE  InsideApart' /\ OutsideApart' /\ HeldInv'
  <1>1. /\ source'.msg = source.msg /\ pipe'.msg = {}
        /\ \E f \in {"flowed", "reported"} :
             \A x \in Ops : fate'[x] = IF x \in pipe.msg THEN f ELSE fate[x]
    BY DEF PipeFlowEnds, PipeRoute, PipeReport, Becomes, Waiting
  <1>2. \A s \in Spaces : SameSpace(s)
    BY DEF PipeFlowEnds, PipeRoute, PipeReport, SameSpace
  <1>3. \A s \in Spaces : \A x \in Ops : Owns(s, x)' <=> Owns(s, x)
    BY <1>2, SameOwned
  <1>4. InsideApart'
    BY <1>2, SameApart DEF SInv, InsideApart
  <1>5. OutsideApart'
    BY <1>1, <1>3 DEF SInv, OutsideApart
  <1>6. HeldInv'
    BY <1>1, <1>3 DEF SInv, HeldInv, OutsideApart
  <1> QED
    BY <1>4, <1>5, <1>6

LEMMA PipeGiveMoves ==
  ASSUME SInv, NEW s \in Spaces, PipeGive(s)
  PROVE  InsideApart' /\ OutsideApart' /\ HeldInv'
  <1>1. source'.msg = source.msg /\ pipe'.msg = {} /\ inGo[s].msg = {}
    BY DEF SInv, HandInv, PipeGive, Waiting
  <1>2. CASE pipe.msg \subseteq Skipped
    <2>1. \A x \in Ops : fate'[x] = IF x \in pipe.msg THEN "skipped" ELSE fate[x]
      BY <1>2 DEF PipeGive, Becomes
    <2>2. \A t \in Spaces : SameSpace(t)
      BY <1>2 DEF PipeGive, SameSpace
    <2>3. \A t \in Spaces : \A x \in Ops : Owns(t, x)' <=> Owns(t, x)
      BY <2>2, SameOwned
    <2>4. InsideApart'
      BY <2>2, SameApart DEF SInv, InsideApart
    <2>5. OutsideApart'
      BY <1>1, <2>3 DEF SInv, OutsideApart
    <2>6. HeldInv'
      BY <1>1, <2>1, <2>3 DEF SInv, HeldInv, OutsideApart
    <2> QED
      BY <2>4, <2>5, <2>6
  <1>3. CASE ~(pipe.msg \subseteq Skipped)
    <2>1. /\ inGo'[s].msg = pipe.msg /\ fate' = fate
          /\ base' = base /\ outGo' = outGo
      BY <1>3 DEF PipeGive, SInv, TypeOK
    <2>2. \A t \in Spaces : t # s => SameSpace(t)
      BY <1>3 DEF PipeGive, SameSpace, SInv, TypeOK
    <2>3. \A t \in Spaces : \A x \in Ops : t # s => (Owns(t, x)' <=> Owns(t, x))
      BY <2>2, SameOwned
    <2>4. \A x \in Ops : /\ Packed(s, x)' <=> Packed(s, x)
                         /\ Queued(s, x)' <=> Queued(s, x)
                         /\ Owns(s, x)' <=> Owns(s, x) \/ x \in pipe.msg
      BY <1>1, <2>1 DEF Packed, Queued, Owns
    <2>5. \A x \in pipe.msg : x \in Ops => x \notin base[s] /\ ~Packed(s, x) /\ ~Queued(s, x)
      BY DEF SInv, OutsideApart, Owns
    <2>6. SpaceApart(s)'
      BY <2>1, <2>4, <2>5 DEF SInv, InsideApart, SpaceApart
    <2>7. InsideApart'
      BY <2>2, <2>6, SameApart DEF SInv, InsideApart
    <2>8. OutsideApart'
      BY <1>1, <2>3, <2>4 DEF SInv, OutsideApart
    <2>9. HeldInv'
      BY <1>1, <2>1, <2>3, <2>4 DEF SInv, HeldInv
    <2> QED
      BY <2>7, <2>8, <2>9
  <1> QED
    BY <1>2, <1>3

(* BufferSpace.Stop drops the base; both goroutines have ended, and hold nothing. *)
LEMMA StopSpaceEndMoves ==
  ASSUME SInv, NEW s \in Spaces, StopSpaceEnd(s)
  PROVE  InsideApart' /\ OutsideApart' /\ HeldInv'
  <1>1. /\ inGo[s].msg = {} /\ outGo[s].packs = {} /\ outGo[s].queue = {}
        /\ source' = source /\ pipe' = pipe /\ inGo' = inGo /\ outGo' = outGo
        /\ \A x \in Ops : fate'[x] = IF x \in base[s] THEN "dropped" ELSE fate[x]
    BY DEF SInv, HandInv, StopSpaceEnd, Becomes
  <1>2. base'[s] = {} /\ \A t \in Spaces : t # s => base'[t] = base[t]
    BY DEF StopSpaceEnd, SInv, TypeOK
  <1>3. \A t \in Spaces : t # s => SameSpace(t)
    BY <1>1, <1>2 DEF SameSpace
  <1>4. \A t \in Spaces : \A x \in Ops : t # s => (Owns(t, x)' <=> Owns(t, x))
    BY <1>3, SameOwned
  <1>5. \A x \in Ops : ~Owns(s, x)' /\ (Owns(s, x) <=> x \in base[s])
    BY <1>1, <1>2 DEF Packed, Queued, Owns
  <1>6. SpaceApart(s)'
    BY <1>1, <1>2 DEF SpaceApart, Packed, Queued
  <1>7. InsideApart'
    BY <1>3, <1>6, SameApart DEF SInv, InsideApart
  <1>8. OutsideApart'
    BY <1>1, <1>4, <1>5 DEF SInv, OutsideApart
  <1>9. HeldInv'
    BY <1>1, <1>4, <1>5 DEF SInv, HeldInv, OutsideApart
  <1> QED
    BY <1>7, <1>8, <1>9

(* The steps within a space ... *)
LEMMA InAddMoves ==
  ASSUME SInv, NEW s \in Spaces, InAdd(s)
  PROVE  InsideApart' /\ OutsideApart' /\ HeldInv'
  <1>1. source' = source /\ pipe' = pipe /\ fate' = fate
    BY DEF InAdd
  <1>2. /\ inGo'[s].msg = {} /\ base'[s] = base[s] \cup inGo[s].msg
        /\ \A t \in Spaces : t # s => inGo'[t] = inGo[t] /\ base'[t] = base[t]
    BY DEF InAdd, Waiting, SInv, TypeOK
  <1>3. \A t \in Spaces : outGo'[t].packs = outGo[t].packs /\ outGo'[t].queue = outGo[t].queue
    BY DEF InAdd, SInv, TypeOK, OutStates
  <1>4. \A t \in Spaces : t # s => SameSpace(t)
    BY <1>2, <1>3 DEF SameSpace
  <1>5. \A x \in Ops : /\ Packed(s, x)' <=> Packed(s, x)
                       /\ Queued(s, x)' <=> Queued(s, x)
                       /\ Owns(s, x)' <=> Owns(s, x)
    BY <1>2, <1>3 DEF Packed, Queued, Owns
  <1>6. SpaceApart(s)'
    BY <1>2, <1>3, <1>5 DEF SInv, InsideApart, SpaceApart
  <1>7. InsideApart'
    BY <1>4, <1>6, SameApart DEF SInv, InsideApart
  <1>8. \A t \in Spaces : \A x \in Ops : Owns(t, x)' <=> Owns(t, x)
    BY <1>4, <1>5, SameOwned
  <1> QED
    BY <1>1, <1>7, <1>8, OutsideKept DEF SInv

LEMMA OutTimeoutMoves ==
  ASSUME SInv, NEW s \in Spaces, OutTimeout(s)
  PROVE  InsideApart' /\ OutsideApart' /\ HeldInv'
  <1>1. source' = source /\ pipe' = pipe /\ fate' = fate /\ inGo' = inGo
    BY DEF OutTimeout
  <1>2. PICK out \in SUBSET base[s], to \in {"out", "err"} :
          /\ base' = [base EXCEPT ![s] = @ \ out]
          /\ outGo' = [outGo EXCEPT ![s].pc = "send",
                         ![s].queue = {Msg(to, TRUE, o, {}) : o \in out}]
    BY TimeoutTakes
  <1> DEFINE queue == {Msg(to, TRUE, o, {}) : o \in out}
  <1>3. /\ base'[s] = base[s] \ out
        /\ \A t \in Spaces : t # s => base'[t] = base[t] /\ outGo'[t] = outGo[t]
    BY <1>2 DEF SInv, TypeOK
  <1>4. /\ \A x : (\E q \in queue : x \in Content(q)) <=> x \in out
        /\ \A x : \A q, r \in queue : x \in Content(q) /\ x \in Content(r) => q = r
    <2>1. \A q : q \in queue <=> \E o \in out : q = Msg(to, TRUE, o, {})
      OBVIOUS
    <2> HIDE DEF queue
    <2> QED
      BY <2>1, OneEach
  <1> HIDE DEF queue
  <1>5. outGo[s].queue = {}
    BY DEF OutTimeout, SInv, HandInv
  <1>6. outGo'[s].packs = outGo[s].packs /\ outGo'[s].queue = queue
    <2>1. outGo' = [outGo EXCEPT ![s].pc = "send", ![s].queue = queue]
      BY <1>2 DEF queue
    <2> QED
      BY <2>1 DEF SInv, TypeOK, OutStates
  <1>7. \A x \in Ops : /\ Packed(s, x)' <=> Packed(s, x)
                       /\ Queued(s, x)' <=> x \in out
                       /\ ~Queued(s, x)
                       /\ \A q, r \in queue : x \in Content(q) /\ x \in Content(r) => q = r
    BY <1>4, <1>5, <1>6 DEF Packed, Queued
  <1>8. SpaceApart(s)'
    BY <1>1, <1>3, <1>6, <1>7 DEF SInv, InsideApart, SpaceApart
  <1>9. \A t \in Spaces : t # s => SameSpace(t)
    BY <1>1, <1>3 DEF SameSpace
  <1>10. InsideApart'
    BY <1>8, <1>9, SameApart DEF SInv, InsideApart
  <1>11. \A x \in Ops : Owns(s, x)' <=> Owns(s, x)
    BY <1>1, <1>3, <1>7 DEF Owns
  <1>12. \A t \in Spaces : \A x \in Ops : Owns(t, x)' <=> Owns(t, x)
    BY <1>9, <1>11, SameOwned
  <1> QED
    BY <1>1, <1>10, <1>12, OutsideKept DEF SInv

LEMMA OutMatchMainMoves ==
  ASSUME SInv, NEW s \in Spaces, NEW m \in Ops, OutMatchMain(s, m)
  PROVE  InsideApart' /\ OutsideApart' /\ HeldInv'
  <1>1. source' = source /\ pipe' = pipe /\ fate' = fate /\ inGo' = inGo
    BY DEF OutMatchMain
  <1>2. PICK parts \in SUBSET base[s], ok \in BOOLEAN :
          /\ base' = [base EXCEPT ![s] = @ \ parts]
          /\ outGo' = [outGo EXCEPT ![s].todo = @ \ {m},
                         ![s].packs = @ \cup {Pack(m, ok, parts)}]
    BY MatchTakes
  <1> DEFINE q == Pack(m, ok, parts)
  <1>3. /\ base'[s] = base[s] \ parts
        /\ \A t \in Spaces : t # s => base'[t] = base[t] /\ outGo'[t] = outGo[t]
    BY <1>2 DEF SInv, TypeOK
  <1>4. /\ outGo'[s].packs = outGo[s].packs \cup {q}
        /\ outGo'[s].queue = outGo[s].queue
    BY <1>2 DEF SInv, TypeOK, OutStates
  <1>5. q.parts = parts
    BY DEF Pack, Msg
  <1> HIDE DEF q
  <1>6. \A x \in Ops : /\ Packed(s, x)' <=> Packed(s, x) \/ x \in parts
                       /\ Queued(s, x)' <=> Queued(s, x)
    BY <1>4, <1>5 DEF Packed, Queued
  <1>7. \A x \in parts : x \in Ops => ~\E r \in outGo[s].packs : x \in r.parts
    BY <1>2 DEF SInv, InsideApart, SpaceApart, Packed
  <1>8. \A x \in Ops : \A r, u \in outGo'[s].packs : x \in r.parts /\ x \in u.parts => r = u
    <2>1. \A x \in Ops : \A r, u \in outGo[s].packs : x \in r.parts /\ x \in u.parts => r = u
      BY DEF SInv, InsideApart, SpaceApart
    <2> QED
      BY <1>4, <1>5, <1>7, <2>1
  <1>9. SpaceApart(s)'
    BY <1>1, <1>2, <1>3, <1>4, <1>6, <1>8 DEF SInv, InsideApart, SpaceApart
  <1>10. \A t \in Spaces : t # s => SameSpace(t)
    BY <1>1, <1>3 DEF SameSpace
  <1>11. InsideApart'
    BY <1>9, <1>10, SameApart DEF SInv, InsideApart
  <1>12. \A x \in Ops : Owns(s, x)' <=> Owns(s, x)
    BY <1>1, <1>2, <1>3, <1>6 DEF Owns
  <1>13. \A t \in Spaces : \A x \in Ops : Owns(t, x)' <=> Owns(t, x)
    BY <1>10, <1>12, SameOwned
  <1> QED
    BY <1>1, <1>11, <1>13, OutsideKept DEF SInv

LEMMA OutDeliverMoves ==
  ASSUME SInv, NEW s \in Spaces, OutDeliver(s)
  PROVE  InsideApart' /\ OutsideApart' /\ HeldInv'
  <1> DEFINE mains == {q.main : q \in outGo[s].packs}
  <1>1. source' = source /\ pipe' = pipe /\ fate' = fate /\ inGo' = inGo
    BY DEF OutDeliver
  <1>2. /\ base'[s] = base[s] \ mains
        /\ \A t \in Spaces : t # s => base'[t] = base[t] /\ outGo'[t] = outGo[t]
    BY DEF OutDeliver, SInv, TypeOK
  <1>3. outGo'[s].packs = {} /\ outGo'[s].queue = outGo[s].packs /\ outGo[s].queue = {}
    BY DEF OutDeliver, SInv, TypeOK, OutStates, HandInv
  <1>4. mains \subseteq base[s]
    BY DEF SInv, MainInv, SpaceMains
  <1>5. \A x \in Ops : /\ ~Packed(s, x)'
                       /\ Queued(s, x)' <=> Packed(s, x) \/ x \in mains
                       /\ ~Queued(s, x)
    BY <1>3 DEF Packed, Queued, Content
  <1>6. \A x \in Ops : \A q, r \in outGo[s].packs : x \in Content(q) /\ x \in Content(r) => q = r
    <2>1. \A q, r \in outGo[s].packs : q.main = r.main => q = r
      BY DEF SInv, MainInv, SpaceMains
    <2>2. \A x \in Ops : \A q, r \in outGo[s].packs : x \in q.parts /\ x \in r.parts => q = r
      BY DEF SInv, InsideApart, SpaceApart
    <2>3. \A q, r \in outGo[s].packs : q.main \in Ops => q.main \notin r.parts
      BY <1>4 DEF SInv, InsideApart, SpaceApart, Packed
    <2> QED
      BY <2>1, <2>2, <2>3 DEF Content
  <1>7. SpaceApart(s)'
    BY <1>1, <1>2, <1>3, <1>4, <1>5, <1>6 DEF SInv, InsideApart, SpaceApart
  <1>8. \A t \in Spaces : t # s => SameSpace(t)
    BY <1>1, <1>2 DEF SameSpace
  <1>9. InsideApart'
    BY <1>7, <1>8, SameApart DEF SInv, InsideApart
  <1>10. \A x \in Ops : Owns(s, x)' <=> Owns(s, x)
    BY <1>1, <1>2, <1>4, <1>5 DEF Owns
  <1>11. \A t \in Spaces : \A x \in Ops : Owns(t, x)' <=> Owns(t, x)
    BY <1>8, <1>10, SameOwned
  <1> QED
    BY <1>1, <1>9, <1>11, OutsideKept DEF SInv

(* ... and the way back to the pipeline goroutine. *)
LEMMA OutSendMoves ==
  ASSUME SInv, NEW s \in Spaces, NEW q \in outGo[s].queue, OutSend(s, q)
  PROVE  InsideApart' /\ OutsideApart' /\ HeldInv'
  <1>1. source' = source /\ inGo' = inGo /\ base' = base /\ pipe.msg = {}
    BY DEF OutSend, SInv, HandInv
  <1>2. /\ pipe'.msg = IF q.ok THEN Content(q) ELSE {}
        /\ \A x \in Ops : fate'[x] = IF ~q.ok /\ x \in Content(q) THEN "nil" ELSE fate[x]
    BY DEF OutSend, Becomes
  <1>3. /\ outGo'[s].packs = outGo[s].packs /\ outGo'[s].queue = outGo[s].queue \ {q}
        /\ \A t \in Spaces : t # s => outGo'[t] = outGo[t]
    BY DEF OutSend, SInv, TypeOK, OutStates
  <1>4. \A x \in Ops : \A r \in outGo[s].queue : x \in Content(q) /\ x \in Content(r) => q = r
    BY DEF SInv, InsideApart, SpaceApart
  <1>5. \A x \in Ops : /\ Packed(s, x)' <=> Packed(s, x)
                       /\ Queued(s, x)' <=> Queued(s, x) /\ x \notin Content(q)
                       /\ x \in Content(q) => Queued(s, x)
    BY <1>3, <1>4 DEF Packed, Queued
  <1>6. \A x \in Ops : x \in Content(q) => Owns(s, x) /\ x \notin inGo[s].msg /\ x \notin base[s]
                                           /\ ~Packed(s, x)
    BY <1>5 DEF SInv, InsideApart, SpaceApart, Owns
  <1>7. \A x \in Ops : Owns(s, x)' <=> Owns(s, x) /\ x \notin Content(q)
    BY <1>1, <1>5, <1>6 DEF Owns
  <1>8. SpaceApart(s)'
    BY <1>1, <1>3, <1>5 DEF SInv, InsideApart, SpaceApart
  <1>9. \A t \in Spaces : t # s => SameSpace(t)
    BY <1>1, <1>3 DEF SameSpace
  <1>10. InsideApart'
    BY <1>8, <1>9, SameApart DEF SInv, InsideApart
  <1>11. \A t \in Spaces : \A x \in Ops : t # s => (Owns(t, x)' <=> Owns(t, x))
    BY <1>9, SameOwned
  <1>12. OutsideApart'
    BY <1>1, <1>2, <1>6, <1>7, <1>11 DEF SInv, OutsideApart
  <1>13. HeldInv'
    BY <1>1, <1>2, <1>6, <1>7, <1>11 DEF SInv, HeldInv, OutsideApart
  <1> QED
    BY <1>10, <1>12, <1>13

(* The main ops of the packs stay in the base: nothing else takes main ops out
   while "space out" looks for matches. *)
LEMMA SameMains ==
  ASSUME NEW s \in Spaces, SpaceMains(s), outGo'[s].packs = outGo[s].packs,
         outGo'[s].todo \subseteq outGo[s].todo,
         base[s] \subseteq base'[s] \/ outGo[s].packs = {}
  PROVE  SpaceMains(s)'
  BY DEF SpaceMains

LEMMA NewMains ==
  ASSUME NEW s \in Spaces, outGo'[s].packs = {},
         \A o \in outGo'[s].todo : DocumentSet[o] = MainSet[s]
  PROVE  SpaceMains(s)'
  BY DEF SpaceMains

LEMMA MainsStep ==
  ASSUME NoSelfJoin, SInv, [Next]_vars
  PROVE  MainInv'
  <1>0. TypeOK /\ HandInv /\ MainInv /\ InsideApart
    BY DEF SInv
  <1>1. CASE base' = base /\ outGo' = outGo
    BY <1>0, <1>1 DEF MainInv, SpaceMains
  <1>2. ASSUME NEW s \in Spaces, StopSpaceEnd(s)
        PROVE  MainInv'
    <2>1. outGo' = outGo /\ outGo[s].packs = {}
      BY <1>0, <1>2 DEF StopSpaceEnd, HandInv
    <2>2. \A t \in Spaces : t # s => base'[t] = base[t]
      BY <1>0, <1>2 DEF StopSpaceEnd, TypeOK
    <2> QED
      BY <1>0, <2>1, <2>2, SameMains DEF MainInv
  <1>3. ASSUME NEW s \in Spaces, InAdd(s)
        PROVE  MainInv'
    <2>1. PICK more \in SUBSET inGo[s].msg :
            /\ outGo' = [outGo EXCEPT ![s].todo = @ \cup more]
            /\ \A o \in more : DocumentSet[o] = MainSet[s]
      <3>1. PICK seen \in SUBSET inGo[s].msg :
              outGo' = [outGo EXCEPT ![s].todo =
                          @ \cup {o \in seen : DocumentSet[o] = MainSet[s]}]
        BY <1>3 DEF InAdd
      <3> DEFINE more == {o \in seen : DocumentSet[o] = MainSet[s]}
      <3>2. more \in SUBSET inGo[s].msg /\ \A o \in more : DocumentSet[o] = MainSet[s]
        OBVIOUS
      <3> HIDE DEF more
      <3>3. outGo' = [outGo EXCEPT ![s].todo = @ \cup more]
        BY <3>1 DEF more
      <3> QED
        BY <3>2, <3>3
    <2>2. /\ base[s] \subseteq base'[s]
          /\ \A t \in Spaces : t # s => base'[t] = base[t] /\ outGo'[t] = outGo[t]
      BY <1>0, <1>3, <2>1 DEF InAdd, TypeOK
    <2>3. outGo'[s].packs = outGo[s].packs /\ outGo'[s].todo = outGo[s].todo \cup more
      BY <1>0, <2>1 DEF TypeOK, OutStates
    <2>4. more \cap base[s] = {}
      BY <1>0 DEF InsideApart, SpaceApart, TypeOK
    <2>5. SpaceMains(s)'
      BY <1>0, <2>1, <2>2, <2>3, <2>4 DEF MainInv, SpaceMains
    <2> QED
      BY <1>0, <2>2, <2>5, SameMains DEF MainInv
  <1>4. ASSUME NEW s \in Spaces, MapRace(s)
        PROVE  MainInv'
    <2>1. \A t \in Spaces : /\ outGo'[t].packs = outGo[t].packs /\ outGo'[t].todo = outGo[t].todo
                            /\ base' = base
      BY <1>0, <1>4 DEF MapRace, TypeOK, OutStates
    <2> QED
      BY <1>0, <2>1, SameMains DEF MainInv
  <1>5. ASSUME NEW s \in Spaces, OutTimeoutTick(s) \/ OutMatchEnd(s) \/ OutSent(s)
                                 \/ \E m \in Ops : OutMatchNone(s, m)
        PROVE  MainInv'
    <2>1. base' = base /\ \A t \in Spaces : t # s => outGo'[t] = outGo[t]
      BY <1>0, <1>5 DEF OutTimeoutTick, OutMatchEnd, OutSent, OutMatchNone, TypeOK
    <2>2. outGo'[s].packs = outGo[s].packs /\ outGo'[s].todo \subseteq outGo[s].todo
      BY <1>0, <1>5 DEF OutTimeoutTick, OutMatchEnd, OutSent, OutMatchNone, TypeOK, OutStates
    <2> QED
      BY <1>0, <2>1, <2>2, SameMains DEF MainInv
  <1>6. ASSUME NEW s \in Spaces, NEW q \in outGo[s].queue, OutSend(s, q)
        PROVE  MainInv'
    <2>1. base' = base /\ \A t \in Spaces : t # s => outGo'[t] = outGo[t]
      BY <1>0, <1>6 DEF OutSend, TypeOK
    <2>2. outGo'[s].packs = outGo[s].packs /\ outGo'[s].todo \subseteq outGo[s].todo
      BY <1>0, <1>6 DEF OutSend, TypeOK, OutStates
    <2> QED
      BY <1>0, <2>1, <2>2, SameMains DEF MainInv
  <1>7. ASSUME NEW s \in Spaces, OutTimeout(s)
        PROVE  MainInv'
    <2>1. PICK out \in SUBSET base[s], to \in {"out", "err"} :
            /\ base' = [base EXCEPT ![s] = @ \ out]
            /\ outGo' = [outGo EXCEPT ![s].pc = "send",
                           ![s].queue = {Msg(to, TRUE, o, {}) : o \in out}]
      BY <1>7, TimeoutTakes
    <2>2. \A t \in Spaces : t # s => base'[t] = base[t] /\ outGo'[t] = outGo[t]
      BY <1>0, <2>1 DEF TypeOK
    <2>3. outGo[s].packs = {}
      BY <1>0, <1>7 DEF OutTimeout, HandInv
    <2>4. outGo'[s].packs = outGo[s].packs /\ outGo'[s].todo = outGo[s].todo
      BY <1>0, <2>1 DEF TypeOK, OutStates
    <2> QED
      BY <1>0, <2>2, <2>3, <2>4, SameMains DEF MainInv
  <1>8. ASSUME NEW s \in Spaces, OutMatchTick(s)
        PROVE  MainInv'
    <2>1. base' = base /\ \A t \in Spaces : t # s => outGo'[t] = outGo[t]
      BY <1>0, <1>8 DEF OutMatchTick, TypeOK
    <2>2. outGo'[s].packs = {} /\ outGo'[s].todo = Mains(s)
      BY <1>0, <1>8 DEF OutMatchTick, TypeOK, OutStates, HandInv
    <2>3. SpaceMains(s)'
      BY <2>2, NewMains DEF Mains
    <2> QED
      BY <1>0, <2>1, <2>3, SameMains DEF MainInv
  <1>9. ASSUME NEW s \in Spaces, OutDeliver(s)
        PROVE  MainInv'
    <2>1. \A t \in Spaces : t # s => base'[t] = base[t] /\ outGo'[t] = outGo[t]
      BY <1>0, <1>9 DEF OutDeliver, TypeOK
    <2>2. outGo'[s].packs = {} /\ outGo'[s].todo = outGo[s].todo
      BY <1>0, <1>9 DEF OutDeliver, TypeOK, OutStates
    <2>3. SpaceMains(s)'
      BY <1>0, <2>2, NewMains DEF MainInv, SpaceMains
    <2> QED
      BY <1>0, <2>1, <2>3, SameMains DEF MainInv
  <1>10. ASSUME NEW s \in Spaces, NEW m \in Ops, OutMatchMain(s, m)
         PROVE  MainInv'
    <2>1. PICK parts \in SUBSET base[s], ok \in BOOLEAN :
            /\ \A o \in parts : \E i \in DOMAIN Wheres[s] : DocumentSet[o] = Wheres[s][i].set
            /\ base' = [base EXCEPT ![s] = @ \ parts]
            /\ outGo' = [outGo EXCEPT ![s].todo = @ \ {m},
                           ![s].packs = @ \cup {Pack(m, ok, parts)}]
      BY <1>10, MatchTakes
    <2> DEFINE q == Pack(m, ok, parts)
    <2>2. q.main = m
      BY DEF Pack, Msg
    <2> HIDE DEF q
    <2>3. /\ base'[s] = base[s] \ parts
          /\ \A t \in Spaces : t # s => base'[t] = base[t] /\ outGo'[t] = outGo[t]
      BY <1>0, <2>1 DEF TypeOK
    <2>4. outGo'[s].packs = outGo[s].packs \cup {q} /\ outGo'[s].todo = outGo[s].todo \ {m}
      BY <1>0, <2>1 DEF TypeOK, OutStates, q
    <2>5. m \in outGo[s].todo /\ m \in base[s]
      BY <1>10 DEF OutMatchMain
    <2>6. \A o \in parts : DocumentSet[o] # MainSet[s]
      BY <2>1 DEF NoSelfJoin
    <2>7. SpaceMains(s)'
      BY <1>0, <2>2, <2>3, <2>4, <2>5, <2>6 DEF MainInv, SpaceMains
    <2> QED
      BY <1>0, <2>3, <2>7, SameMains DEF MainInv
  <1>11. \/ base' = base /\ outGo' = outGo
         \/ \E s \in Spaces :
              \/ StopSpaceEnd(s) \/ InAdd(s) \/ MapRace(s) \/ OutTimeout(s) \/ OutMatchTick(s)
              \/ OutTimeoutTick(s) \/ OutMatchEnd(s) \/ OutSent(s) \/ OutDeliver(s)
              \/ \E m \in Ops : OutMatchNone(s, m) \/ OutMatchMain(s, m)
              \/ \E q \in outGo[s].queue : OutSend(s, q)
    <2>1. CASE Around \/ StopReturn \/ Release \/ PipeSelect
      BY <2>1 DEF Around, SourceSend, SourceEnds, Stop, StopReturn, Release, PipeSelect,
                  PipeTakeOp, PipeTakeDone, PipeTick
    <2>2. CASE PipeStep
      BY <2>2 DEF PipeStep, PipeSendDone, PipeFlowEnds, PipeFlow, PipeRoute, PipeReport, PipeEnd,
                  PipeGive, StopSpace
    <2>3. ASSUME NEW s \in Spaces, InEnd(s)
          PROVE  base' = base /\ outGo' = outGo
      BY <2>3 DEF InEnd
    <2>4. CASE UNCHANGED vars
      BY <2>4 DEF vars
    <2> QED
      BY <2>1, <2>2, <2>3, <2>4 DEF Next, In, OutStep, OutSelect, Send
  <1> QED
    BY <1>1, <1>2, <1>3, <1>4, <1>5, <1>6, <1>7, <1>8, <1>9, <1>10, <1>11

(* The invariant holds at the start, and every step keeps its last three parts. *)
LEMMA InitInv ==
  ASSUME Init
  PROVE  SInv
  <1>1. TypeOK
    <2>1. outGo \in [Spaces -> OutStates]
      BY DEF Init, OutInit, OutStates
    <2> QED
      BY <2>1, SpaceAssumption DEF Init, TypeOK, Waiting
  <1>2. HandInv /\ MainInv
    BY DEF Init, HandInv, MainInv, SpaceMains, Waiting, OutInit
  <1>3. \A s \in Spaces : /\ inGo[s].msg = {} /\ base[s] = {}
                          /\ outGo[s].packs = {} /\ outGo[s].queue = {}
    BY DEF Init, Waiting, OutInit
  <1>4. \A s \in Spaces : \A o \in Ops : ~Packed(s, o) /\ ~Queued(s, o) /\ ~Owns(s, o)
    BY <1>3 DEF Packed, Queued, Owns
  <1>5. InsideApart
    BY <1>3, <1>4 DEF InsideApart, SpaceApart
  <1>6. OutsideApart /\ HeldInv
    BY <1>4 DEF OutsideApart, HeldInv, Init, Waiting
  <1> QED
    BY <1>1, <1>2, <1>5, <1>6 DEF SInv

LEMMA ContentsStep ==
  ASSUME SInv, [Next]_vars
  PROVE  InsideApart' /\ OutsideApart' /\ HeldInv'
  BY StillSteps, StillKeeps, SourceSendMoves, PipeTakeOpMoves, PipeDisposes, PipeGiveMoves,
     StopSpaceEndMoves, InAddMoves, OutTimeoutMoves, OutMatchMainMoves, OutDeliverMoves,
     OutSendMoves DEF SInv

(* The inductive invariant, for every set of spaces, ops and tasks in which no
   space relates its main set to itself (the code accepts such a configuration:
   an op may then be a main op and a related op at once, and leave twice). *)
THEOREM Invariance ==
  ASSUME NoSelfJoin
  PROVE  Spec => []SInv
  <1>1. Init => SInv
    BY InitInv
  <1>2. SInv /\ [Next]_vars => SInv'
    BY TypeStep, HandStep, MainsStep, ContentsStep DEF SInv
  <1> QED
    BY <1>1, <1>2, PTL DEF Spec

(* Types, with any configuration: in particular the bases and the hands of the
   "space in" goroutines hold inserted and updated ops only. *)
THEOREM TypeCorrect == Spec => []TypeOK
  <1> DEFINE Inv == TypeOK /\ HandInv
  <1>1. Init => Inv
    BY InitInv DEF SInv
  <1>2. Inv /\ [Next]_vars => Inv'
    BY TypeStep, HandStep
  <1> QED
    BY <1>1, <1>2, PTL DEF Spec

(* Places, read off the invariant. *)
LEMMA OnePlaceHolds ==
  ASSUME SInv
  PROVE  OnePlace
  <1> SUFFICES ASSUME NEW o \in Ops
               PROVE  IF fate[o] = "held" THEN \E p \in Places(o) : Places(o) = {p}
                                          ELSE Places(o) = {}
    BY DEF OnePlace
  <1>1. o \in source.msg => source.msg = {o}
    BY DEF SInv, HandInv
  <1>2. \A p : p \in Places(o) <=>
          \/ p = <<"source">> /\ o \in source.msg
          \/ p = <<"pipe">> /\ o \in pipe.msg
          \/ \E s \in Spaces : p = <<"in", s>> /\ o \in inGo[s].msg
          \/ \E s \in Spaces : p = <<"base", s>> /\ o \in base[s]
          \/ \E s \in Spaces : \E q \in outGo[s].packs : p = <<"pack", s, q>> /\ o \in q.parts
          \/ \E s \in Spaces : \E q \in outGo[s].queue : p = <<"queue", s, q>> /\ o \in Content(q)
    <2> DEFINE atSource == {<<"source">> : m \in {source.msg} \cap {{o}}}
               atPipe == {<<"pipe">> : x \in {o} \cap pipe.msg}
               inHand == {<<"in", s>> : s \in {t \in Spaces : o \in inGo[t].msg}}
               inBase == {<<"base", s>> : s \in {t \in Spaces : o \in base[t]}}
               inPack == UNION {{<<"pack", s, q>> : q \in {r \in outGo[s].packs : o \in r.parts}} :
                                  s \in Spaces}
               inQueue == UNION {{<<"queue", s, q>> :
                                    q \in {r \in outGo[s].queue : o \in Content(r)}} :
                                   s \in Spaces}
    <2>1. \A p : p \in atSource <=> p = <<"source">> /\ o \in source.msg
      BY <1>1
    <2>2. \A p : p \in atPipe <=> p = <<"pipe">> /\ o \in pipe.msg
      OBVIOUS
    <2>3. \A p : p \in inHand <=> \E s \in Spaces : p = <<"in", s>> /\ o \in inGo[s].msg
      OBVIOUS
    <2>4. \A p : p \in inBase <=> \E s \in Spaces : p = <<"base", s>> /\ o \in base[s]
      OBVIOUS
    <2>5. \A p : p \in inPack <=> \E s \in Spaces : \E q \in outGo[s].packs :
                                    p = <<"pack", s, q>> /\ o \in q.parts
      OBVIOUS
    <2>6. \A p : p \in inQueue <=> \E s \in Spaces : \E q \in outGo[s].queue :
                                     p = <<"queue", s, q>> /\ o \in Content(q)
      OBVIOUS
    <2>7. Places(o) = atSource \cup atPipe \cup inHand \cup inBase \cup inPack \cup inQueue
      BY DEF Places
    <2> HIDE DEF atSource, atPipe, inHand, inBase, inPack, inQueue
    <2> QED
      BY <2>1, <2>2, <2>3, <2>4, <2>5, <2>6, <2>7
  <1>3. \A s \in Spaces :
          Owns(s, o) <=> \/ o \in inGo[s].msg \/ o \in base[s]
                         \/ \E q \in outGo[s].packs : o \in q.parts
                         \/ \E q \in outGo[s].queue : o \in Content(q)
    BY DEF Owns, Packed, Queued
  <1>4. fate[o] # "held" => Places(o) = {}
    BY <1>2, <1>3 DEF SInv, HeldInv
  <1>5. ASSUME fate[o] = "held"
        PROVE  \E p : p \in Places(o)
    BY <1>2, <1>3, <1>5 DEF SInv, HeldInv
  <1>6. ASSUME NEW p \in Places(o), NEW x \in Places(o)
        PROVE  p = x
    BY <1>2, <1>3, <1>6 DEF SInv, OutsideApart, InsideApart, SpaceApart, Packed, Queued
  <1> QED
    BY <1>4, <1>5, <1>6

(* An op is in one place from the moment it is read until the space or the
   pipeline disposes of it, and in none after that, for any number of spaces,
   ops and joins: the two goroutines that work on a base neither lose an op nor
   hand it out twice. *)
THEOREM EachInOnePlace ==
  ASSUME NoSelfJoin
  PROVE  Spec => []OnePlace
  <1>1. SInv => OnePlace
    BY OnePlaceHolds
  <1> QED
    BY <1>1, Invariance, PTL
=============================================================================
