-------------------------------- MODULE Space --------------------------------
(***************************************************************************)
(* A task in space mode: runSpacePipeline of datalink/loop/task.go and the *)
(* join buffers of datalink/loop/space.go.  The pipeline goroutine hands   *)
(* the ops it reads to the spaces over one channel that all of them share. *)
(* A space keeps them in its base: goroutine "space in" adds, goroutine    *)
(* "space out" takes out what has timed out and what can be joined, and    *)
(* sends it back to the pipeline goroutine, which routes it to a target.   *)
(*                                                                         *)
(* Around them are one source, one target and a user who may stop the task *)
(* (module Task has these in detail).  The pause of a space is left out:   *)
(* nothing calls switchSpaceState.                                         *)
(***************************************************************************)
EXTENDS Naturals, Sequences, FiniteSets

CONSTANTS
  Spaces,      \* the spaces some task is configured with
  Ops,         \* the ops some source reads
  Tasks,       \* the tasks looked at: the spaces and the ops of each, whether their
               \* timeout_strategy is "save", and whether Pack knows their layer types
  DocumentSet, \* the document set of each op
  Skipped,     \* the ops that neither insert nor update
  MainSet,     \* the main set of each space
  Wheres,      \* the relate_sets_wheres of each space: records of a set, the
               \* pairs <<main, related>> that meet the condition
  NoLifetime   \* the spaces with lifetime 0

ASSUME SpaceAssumption ==
  /\ IsFiniteSet(Spaces) /\ IsFiniteSet(Ops)
  /\ Tasks \subseteq [spaces : SUBSET Spaces, ops : SUBSET Ops, save : BOOLEAN, known : BOOLEAN]
  /\ Skipped \subseteq Ops /\ NoLifetime \subseteq Spaces
  /\ DOMAIN DocumentSet = Ops /\ DOMAIN MainSet = Spaces /\ DOMAIN Wheres = Spaces
  /\ \A s \in Spaces : \A i \in DOMAIN Wheres[s] :
       Wheres[s][i].match \subseteq Ops \X Ops

VARIABLES
  conf,     \* the task's configuration; it never changes
  exitF,    \* the task's exitF
  user,     \* Task.Stop: idle, wait, done
  source,   \* run, send (an op is offered), done (ReadDone is offered), end
  target,   \* run, end
  released, \* Release is behind the task
  pipe,     \* the pipeline goroutine
  space,    \* of each space: run, stopping (exitF is set and Stop holds the lock), stopped;
            \* spaces of other tasks are stopped from the start
  inGo,     \* of each space: its goroutine "space in"
  outGo,    \* of each space: its goroutine "space out"
  base,     \* of each space: RelateDocumentSetsBase
  expired,  \* the ops whose lifetime was over when it was last looked at
  fate      \* history: what has become of each op

taskVars == <<conf, exitF, user, target, released>>
vars == <<taskVars, source, pipe, space, inGo, outGo, base, expired, fate>>

(* What goes through the channels: an op, or a main op with those joined to it.
   ok is FALSE for the nil that DeliverOp makes of a failed Pack. *)
Msg(to, ok, main, parts) == [to |-> to, ok |-> ok, main |-> main, parts |-> parts]
Content(q) == {q.main} \cup q.parts

Waiting == [pc |-> "select", msg |-> {}]
Mains(s) == {o \in base[s] : DocumentSet[o] = MainSet[s]}

(* The deferred calls of "space out" do not exist yet when a ticker without a
   period panics: exitWG keeps counting it. *)
OutInit(pc) == [pc |-> pc, todo |-> {}, packs |-> {}, queue |-> {}]

Becomes(S, f) == fate' = [o \in Ops |-> IF o \in S THEN f ELSE fate[o]]

Init ==
  /\ conf \in Tasks
  /\ exitF = FALSE /\ user = "idle" /\ target = "run" /\ released = FALSE
  /\ source = [pc |-> "run", msg |-> {}]
  /\ pipe = Waiting
  /\ space = [s \in Spaces |-> IF s \in conf.spaces THEN "run" ELSE "stopped"]
  /\ inGo = [s \in Spaces |-> IF s \in conf.spaces THEN Waiting ELSE [Waiting EXCEPT !.pc = "end"]]
  /\ outGo = [s \in Spaces |-> OutInit(IF s \notin conf.spaces THEN "end"
                                      ELSE IF s \in NoLifetime THEN "panic" ELSE "select")]
  /\ fate = [o \in Ops |-> IF o \in conf.ops THEN "unread" ELSE "absent"]
  /\ base = [s \in Spaces |-> {}]
  /\ expired = {}

-----------------------------------------------------------------------------
(* Source, target, user and the task's own end *)

SourceSend(o) ==
  /\ source.pc = "run" /\ fate[o] = "unread"
  /\ source' = [pc |-> "send", msg |-> {o}]
  /\ Becomes({o}, "held")
  /\ UNCHANGED <<taskVars, pipe, space, inGo, outGo, base, expired>>

(* A source fails, or has been stopped.  It is the last: taskWG.Done is called
   and the ReadDone command offered. *)
SourceEnds ==
  /\ source.pc = "run"
  /\ source' = [source EXCEPT !.pc = "done"]
  /\ UNCHANGED <<taskVars, pipe, space, inGo, outGo, base, expired, fate>>

(* Variant: Stop waits without having set exitF. *)
StopWaits ==
  /\ user = "idle" /\ user' = "wait"
  /\ UNCHANGED <<conf, exitF, source, target, released, pipe, space, inGo, outGo,
                 base, expired, fate>>

Stop ==
  /\ user = "idle"
  /\ user' = "wait" /\ exitF' = TRUE
  /\ UNCHANGED <<conf, source, target, released, pipe, space, inGo, outGo, base,
                 expired, fate>>

StopReturn ==
  /\ user = "wait" /\ source.pc \in {"done", "end"} /\ target = "end"
  /\ user' = "done"
  /\ UNCHANGED <<conf, exitF, source, target, released, pipe, space, inGo, outGo, base,
                 expired, fate>>

Release ==
  /\ target = "end" /\ ~released
  /\ released' = TRUE
  /\ UNCHANGED <<conf, exitF, user, source, target, pipe, space, inGo, outGo, base,
                 expired, fate>>

-----------------------------------------------------------------------------
(* The pipeline goroutine *)

PipeTakeOp ==
  /\ pipe.pc = "select" /\ source.pc = "send"
  /\ source' = [pc |-> "run", msg |-> {}]
  /\ pipe' = [pc |-> "in", msg |-> source.msg]
  /\ UNCHANGED <<taskVars, space, inGo, outGo, base, expired, fate>>

PipeTakeDone ==
  /\ pipe.pc = "select" /\ source.pc = "done"
  /\ source' = [source EXCEPT !.pc = "end"]
  /\ pipe' = [pc |-> "done", msg |-> {}]
  /\ UNCHANGED <<taskVars, space, inGo, outGo, base, expired, fate>>

PipeSendDone ==
  /\ pipe.pc = "done"
  /\ target' = "end" /\ pipe' = Waiting
  /\ UNCHANGED <<conf, exitF, user, released, source, space, inGo, outGo, base,
                 expired, fate>>

(* Variant: "space in" keeps ops of every type. *)
PipeGiveAll(s) ==
  /\ pipe.pc = "in" /\ inGo[s].pc = "select"
  /\ pipe' = Waiting
  /\ inGo' = [inGo EXCEPT ![s] = [pc |-> "base", msg |-> pipe.msg]]
  /\ UNCHANGED <<taskVars, source, space, outGo, base, expired, fate>>

(* Whichever space receives it first takes the op. *)
PipeGive(s) ==
  /\ pipe.pc = "in" /\ inGo[s].pc = "select"
  /\ pipe' = Waiting
  /\ IF pipe.msg \subseteq Skipped
     THEN Becomes(pipe.msg, "skipped") /\ UNCHANGED inGo
     ELSE /\ inGo' = [inGo EXCEPT ![s] = [pc |-> "base", msg |-> pipe.msg]]
          /\ UNCHANGED fate
  /\ UNCHANGED <<taskVars, source, space, outGo, base, expired>>

(* The flow of the pipeline fails or yields nothing to send ... *)
PipeFlowEnds ==
  /\ pipe.pc = "flow"
  /\ Becomes(pipe.msg, "flowed") /\ pipe' = Waiting
  /\ UNCHANGED <<taskVars, source, space, inGo, outGo, base, expired>>

(* ... or an op for the target, whose channel is gone after Release. *)
PipeFlow ==
  /\ pipe.pc = "flow"
  /\ pipe' = [pipe EXCEPT !.pc = "route"]
  /\ UNCHANGED <<taskVars, source, space, inGo, outGo, base, expired, fate>>

PipeRoute ==
  /\ pipe.pc = "route" /\ (target = "run" \/ released)
  /\ Becomes(pipe.msg, "flowed") /\ pipe' = Waiting
  /\ UNCHANGED <<taskVars, source, space, inGo, outGo, base, expired>>

(* The recorder of errors runs until Release. *)
PipeReport ==
  /\ pipe.pc = "report" /\ ~released
  /\ Becomes(pipe.msg, "reported") /\ pipe' = Waiting
  /\ UNCHANGED <<taskVars, source, space, inGo, outGo, base, expired>>

(* exitF is seen: the deferred function stops the spaces one by one. *)
PipeTick ==
  /\ pipe.pc = "select" /\ exitF
  /\ pipe' = [pc |-> "stop", msg |-> {}]
  /\ UNCHANGED <<taskVars, source, space, inGo, outGo, base, expired, fate>>

(* BufferSpace.Stop: lock, set exitF, wait for both goroutines, unlock. *)
StopSpace(s) ==
  /\ pipe.pc = "stop" /\ space[s] = "run"
  /\ \A t \in Spaces : space[t] # "stopping"
  /\ space' = [space EXCEPT ![s] = "stopping"]
  /\ UNCHANGED <<taskVars, source, pipe, inGo, outGo, base, expired, fate>>

StopSpaceEnd(s) ==
  /\ space[s] = "stopping" /\ inGo[s].pc = "end" /\ outGo[s].pc = "end"
  /\ space' = [space EXCEPT ![s] = "stopped"]
  /\ Becomes(base[s], "dropped") /\ base' = [base EXCEPT ![s] = {}]
  /\ UNCHANGED <<taskVars, source, pipe, inGo, outGo, expired>>

PipeEnd ==
  /\ pipe.pc = "stop" /\ \A s \in Spaces : space[s] = "stopped"
  /\ pipe' = [pipe EXCEPT !.pc = "end"]
  /\ UNCHANGED <<taskVars, source, space, inGo, outGo, base, expired, fate>>

-----------------------------------------------------------------------------
(* Goroutine "space in" *)

(* Variant: "space out" holds the lock while it sends. *)
InAddWaits(s) ==
  /\ inGo[s].pc = "base" /\ space[s] # "stopping" /\ outGo[s].pc # "send"
  /\ base' = [base EXCEPT ![s] = @ \cup inGo[s].msg]
  /\ inGo' = [inGo EXCEPT ![s] = Waiting]
  /\ UNCHANGED <<taskVars, source, pipe, space, outGo, expired, fate>>

(* BaseAddOne, under the lock.  "space out" may be iterating over the map
   without it: whether it comes across the new entry is open. *)
InAdd(s) ==
  /\ inGo[s].pc = "base" /\ space[s] # "stopping"
  /\ base' = [base EXCEPT ![s] = @ \cup inGo[s].msg]
  /\ inGo' = [inGo EXCEPT ![s] = Waiting]
  /\ \E seen \in IF outGo[s].pc = "match" THEN {{}, base'[s] \cap inGo[s].msg} ELSE {{}} :
       outGo' = [outGo EXCEPT ![s].todo =
                   @ \cup {o \in seen : DocumentSet[o] = MainSet[s]}]
  /\ UNCHANGED <<taskVars, source, pipe, space, expired, fate>>

(* The runtime ends a process that finds a map read and written at once. *)
MapRace(s) ==
  /\ inGo[s].pc = "base" /\ space[s] # "stopping"
  /\ outGo[s].pc \in {"timeout", "match"}
  /\ user' = "dead" /\ target' = "dead"
  /\ source' = [source EXCEPT !.pc = "dead"] /\ pipe' = [pipe EXCEPT !.pc = "dead"]
  /\ inGo' = [t \in Spaces |-> [inGo[t] EXCEPT !.pc = "dead"]]
  /\ outGo' = [t \in Spaces |-> [outGo[t] EXCEPT !.pc = "dead"]]
  /\ UNCHANGED <<conf, exitF, released, space, base, expired, fate>>

InEnd(s) ==
  /\ inGo[s].pc = "select" /\ space[s] # "run"
  /\ inGo' = [inGo EXCEPT ![s].pc = "end"]
  /\ UNCHANGED <<taskVars, source, pipe, space, outGo, base, expired, fate>>

-----------------------------------------------------------------------------
(* Goroutine "space out" *)

OutTimeoutTick(s) ==
  /\ outGo[s].pc = "select"
  /\ outGo' = [outGo EXCEPT ![s].pc = "timeout"]
  /\ UNCHANGED <<taskVars, source, pipe, space, inGo, base, expired, fate>>

(* TimeoutItem takes the lock when there is anything in the base, looks at the
   clock, by which some ops have expired, and skips these. *)
OutTimeout(s) ==
  /\ outGo[s].pc = "timeout"
  /\ base[s] # {} => space[s] # "stopping"
  /\ \E late \in SUBSET (base[s] \ expired) :
       LET out == base[s] \ (expired \cup late)
           to  == IF conf.save THEN "out" ELSE "err"
       IN  /\ expired' = expired \cup late
           /\ base' = [base EXCEPT ![s] = @ \ out]
           /\ outGo' = [outGo EXCEPT ![s].pc = "send",
                          ![s].queue = {Msg(to, TRUE, o, {}) : o \in out}]
  /\ UNCHANGED <<taskVars, source, pipe, space, inGo, fate>>

(* Variant: what has expired is no longer looked at. *)
OutMatchTickFresh(s) ==
  /\ outGo[s].pc = "select"
  /\ outGo' = [outGo EXCEPT ![s].pc = "match", ![s].todo = Mains(s) \ expired]
  /\ UNCHANGED <<taskVars, source, pipe, space, inGo, base, expired, fate>>

OutMatchTick(s) ==
  /\ outGo[s].pc = "select"
  /\ outGo' = [outGo EXCEPT ![s].pc = "match", ![s].todo = Mains(s)]
  /\ UNCHANGED <<taskVars, source, pipe, space, inGo, base, expired, fate>>

(* The related ops of the base that meet where i of space s for main m. *)
Related(s, m, i) ==
  {o \in base[s] : DocumentSet[o] = Wheres[s][i].set /\ <<m, o>> \in Wheres[s][i].match}

(* One related op for every where. *)
Picks(s, m) ==
  {p \in [DOMAIN Wheres[s] -> base[s]] : \A i \in DOMAIN Wheres[s] : p[i] \in Related(s, m, i)}

Pack(m, ok, parts) == Msg(IF ok THEN "out" ELSE "err", ok, m, parts)

(* Variant: the related ops stay in the base. *)
OutMatchMainKeeps(s, m) ==
  /\ outGo[s].pc = "match" /\ m \in outGo[s].todo \cap base[s]
  /\ DOMAIN Wheres[s] # {} => space[s] # "stopping"
  /\ \E p \in Picks(s, m) :
       LET parts == {p[i] : i \in DOMAIN Wheres[s]}
           ok    == conf.known \/ parts = {}
       IN  outGo' = [outGo EXCEPT ![s].todo = @ \ {m},
                       ![s].packs = @ \cup {Pack(m, ok, parts)}]
  /\ UNCHANGED <<taskVars, source, pipe, space, inGo, base, expired, fate>>

(* A main op with a related op for every where: these leave the base, under
   the lock.  (An op picked for two wheres takes the layout of one of them.) *)
OutMatchMain(s, m) ==
  /\ outGo[s].pc = "match" /\ m \in outGo[s].todo \cap base[s]
  /\ DOMAIN Wheres[s] # {} => space[s] # "stopping"
  /\ \E p \in Picks(s, m) :
       LET parts == {p[i] : i \in DOMAIN Wheres[s]}
           ok    == conf.known \/ parts = {}
       IN  /\ outGo' = [outGo EXCEPT ![s].todo = @ \ {m},
                          ![s].packs = @ \cup {Pack(m, ok, parts)}]
           /\ base' = [base EXCEPT ![s] = @ \ parts]
  /\ UNCHANGED <<taskVars, source, pipe, space, inGo, expired, fate>>

(* A main op without, or one that has been taken as a related op meanwhile. *)
OutMatchNone(s, m) ==
  /\ outGo[s].pc = "match" /\ m \in outGo[s].todo
  /\ m \notin base[s] \/ Picks(s, m) = {}
  /\ outGo' = [outGo EXCEPT ![s].todo = @ \ {m}]
  /\ UNCHANGED <<taskVars, source, pipe, space, inGo, base, expired, fate>>

(* Without a match the goroutine goes on to its select, past the test of exitF. *)
OutMatchEnd(s) ==
  /\ outGo[s].pc = "match" /\ outGo[s].todo = {}
  /\ outGo' = [outGo EXCEPT ![s].pc = IF outGo[s].packs = {} THEN "select" ELSE "deliver"]
  /\ UNCHANGED <<taskVars, source, pipe, space, inGo, base, expired, fate>>

(* DeliverOp: the main ops leave the base, under the lock, and are packed. *)
OutDeliver(s) ==
  /\ outGo[s].pc = "deliver" /\ space[s] # "stopping"
  /\ base' = [base EXCEPT ![s] = @ \ {q.main : q \in outGo[s].packs}]
  /\ outGo' = [outGo EXCEPT ![s].pc = "send", ![s].queue = outGo[s].packs, ![s].packs = {}]
  /\ UNCHANGED <<taskVars, source, pipe, space, inGo, expired, fate>>

(* To the pipeline goroutine, errors last; the nil of a failed Pack makes that
   goroutine panic. *)
OutSend(s, q) ==
  /\ outGo[s].pc = "send" /\ q \in outGo[s].queue
  /\ q.to = "err" => \A r \in outGo[s].queue : r.to = "err"
  /\ pipe.pc = "select"
  /\ pipe' = IF ~q.ok THEN [pc |-> "stop", msg |-> {}]
             ELSE [pc |-> IF q.to = "out" THEN "flow" ELSE "report", msg |-> Content(q)]
  /\ IF q.ok THEN UNCHANGED fate ELSE Becomes(Content(q), "nil")
  /\ outGo' = [outGo EXCEPT ![s].queue = @ \ {q}]
  /\ UNCHANGED <<taskVars, source, space, inGo, base, expired>>

(* Variant: without anything to send, the test of exitF is skipped. *)
OutSentContinues(s) ==
  /\ outGo[s].pc = "send" /\ outGo[s].queue = {}
  /\ outGo' = [outGo EXCEPT ![s].pc = "select"]
  /\ UNCHANGED <<taskVars, source, pipe, space, inGo, base, expired, fate>>

OutSent(s) ==
  /\ outGo[s].pc = "send" /\ outGo[s].queue = {}
  /\ outGo' = [outGo EXCEPT ![s].pc = IF space[s] = "run" THEN "select" ELSE "end"]
  /\ UNCHANGED <<taskVars, source, pipe, space, inGo, base, expired, fate>>

-----------------------------------------------------------------------------
Around == (\E o \in Ops : SourceSend(o)) \/ SourceEnds \/ Stop

(* What the pipeline goroutine does by itself, and where it waits at select. *)
PipeStep ==
  \/ PipeSendDone \/ PipeFlowEnds \/ PipeFlow \/ PipeRoute \/ PipeReport \/ PipeEnd
  \/ \E s \in Spaces : PipeGive(s) \/ StopSpace(s) \/ StopSpaceEnd(s)
PipeSelect == PipeTakeOp \/ PipeTakeDone \/ PipeTick

In(s) == InAdd(s) \/ InEnd(s)

OutStep(s) ==
  \/ OutTimeout(s) \/ OutMatchEnd(s) \/ OutDeliver(s) \/ OutSent(s)
  \/ \E m \in Ops : OutMatchMain(s, m) \/ OutMatchNone(s, m)
OutSelect(s) == OutTimeoutTick(s) \/ OutMatchTick(s)
Send(s) == \E q \in outGo[s].queue : OutSend(s, q)

Next ==
  \/ Around \/ StopReturn \/ Release \/ PipeStep \/ PipeSelect
  \/ \E s \in Spaces : In(s) \/ MapRace(s) \/ OutStep(s) \/ OutSelect(s) \/ Send(s)

Spec == Init /\ [][Next]_vars

(* Goroutines are scheduled, tickers tick, and a select with several cases
   ready, like a receiver of several senders, leaves none of them out for ever.
   A source ends when it is stopped; nobody must stop it, and it need not emit. *)
Fairness ==
  /\ WF_vars(exitF /\ SourceEnds) /\ WF_vars(StopReturn) /\ WF_vars(Release)
  /\ WF_vars(PipeStep)
  /\ SF_vars(PipeTick)
  /\ \A s \in Spaces :
       /\ WF_vars(In(s)) /\ WF_vars(OutStep(s))
       /\ SF_vars(OutTimeoutTick(s)) /\ SF_vars(OutMatchTick(s))
       /\ WF_vars(Send(s))

FairSpec == Spec /\ Fairness

-----------------------------------------------------------------------------
Msgs == [to : {"out", "err"}, ok : BOOLEAN, main : Ops, parts : SUBSET Ops]
OutStates ==
  [pc : {"select", "timeout", "match", "deliver", "send", "end", "panic", "dead"},
   todo : SUBSET Ops, packs : SUBSET Msgs, queue : SUBSET Msgs]

(* Types: a base holds inserted and updated ops only. *)
TypeOK ==
  /\ exitF \in BOOLEAN /\ user \in {"idle", "wait", "done", "dead"} /\ target \in {"run", "end", "dead"}
  /\ conf \in Tasks /\ released \in BOOLEAN
  /\ source \in [pc : {"run", "send", "done", "end", "dead"}, msg : SUBSET Ops]
  /\ pipe \in [pc : {"select", "in", "done", "flow", "route", "report", "stop", "end", "dead"},
               msg : SUBSET Ops]
  /\ space \in [Spaces -> {"run", "stopping", "stopped"}]
  /\ inGo \in [Spaces -> [pc : {"select", "base", "end", "dead"}, msg : SUBSET (Ops \ Skipped)]]
  /\ outGo \in [Spaces -> OutStates]
  /\ base \in [Spaces -> SUBSET (Ops \ Skipped)] /\ expired \subseteq Ops \ Skipped
  /\ fate \in [Ops -> {"absent", "unread", "held", "skipped", "flowed", "reported", "nil", "dropped"}]

(* Where an op is at present. *)
Places(o) ==
  {<<"source">> : m \in {source.msg} \cap {{o}}}
  \cup {<<"pipe">> : x \in {o} \cap pipe.msg}
  \cup {<<"in", s>> : s \in {t \in Spaces : o \in inGo[t].msg}}
  \cup {<<"base", s>> : s \in {t \in Spaces : o \in base[t]}}
  \cup (UNION {{<<"pack", s, q>> : q \in {r \in outGo[s].packs : o \in r.parts}} : s \in Spaces})
  \cup (UNION {{<<"queue", s, q>> : q \in {r \in outGo[s].queue : o \in Content(r)}} : s \in Spaces})

(* An op that has been read and not yet disposed of is in exactly one place,
   and one that has been disposed of in none: no op is lost on the way from the
   pipeline through a space and back, none leaves twice (expired, or joined to
   two main ops), although two goroutines work on each base. *)
OnePlace ==
  \A o \in Ops : IF fate[o] = "held" THEN \E p \in Places(o) : Places(o) = {p}
                                    ELSE Places(o) = {}

(* The process has died. *)
Dead == pipe.pc = "dead"

(* The pipeline goroutine always comes back to its select: it never waits for a
   space that waits for it.  Exceptions are the end, and a target or recorder
   that has ended with the task. *)
PipeReturns ==
  pipe.pc \in {"in", "flow", "route", "report"} ~>
    pipe.pc \in {"select", "stop"} \/ target = "end" \/ Dead

(* A main op for which every where has a related op in the same base does not
   stay there for ever: it is joined, or one of them leaves otherwise. *)
Joinable(s, m) == m \in base[s] /\ DocumentSet[m] = MainSet[s] /\ Picks(s, m) # {}

JoinsLeave ==
  \A s \in Spaces \ NoLifetime : \A m \in {o \in Ops : DocumentSet[o] = MainSet[s]} :
    Joinable(s, m) ~>
      ~Joinable(s, m) \/ pipe.pc \in {"stop", "end"} \/ target = "end" \/ Dead

(* BufferSpace.Stop of an empty space whose goroutines hold nothing comes to an
   end.  (With anything in the base, or in a goroutine's hand, it does not: the
   lock it holds, or the pipeline goroutine it runs in, is what they need.) *)
Empty(s) ==
  /\ base[s] = {} /\ inGo[s].msg = {}
  /\ outGo[s].pc # "panic" /\ outGo[s].queue = {}

EmptySpaceStops ==
  \A s \in Spaces : (space[s] = "stopping" /\ Empty(s)) ~> (space[s] = "stopped" \/ Dead)

(* Stop of the task returns, unless the pipeline goroutine has seen exitF before
   the ReadDone command, which then nobody takes to the target. *)
StopReturns ==
  user = "wait" ~>
    user = "done" \/ (pipe.pc \in {"stop", "end"} /\ target = "run") \/ Dead

(* Only ops whose lifetime has passed are timed out (space.go:269, "not expired":
   continue).  The code does not keep this. *)
OnlyExpiredTimeOut ==
  \A s \in Spaces : \A q \in outGo[s].queue :
    (q.ok /\ q.parts = {} /\ Wheres[s] # <<>>) => q.main \in expired
=============================================================================
