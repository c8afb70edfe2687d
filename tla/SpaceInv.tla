------------------------------ MODULE SpaceInv ------------------------------
(***************************************************************************)
(* The inductive invariant behind OnePlace of module Space, in named       *)
(* parts.  SpaceProofs proves it.                                          *)
(***************************************************************************)
EXTENDS Space

(* No related set of a space is its main set: an op that waits to be delivered
   as a main op is not joined to another one meanwhile. *)
NoSelfJoin ==
  \A s \in Spaces : \A i \in DOMAIN Wheres[s] : Wheres[s][i].set # MainSet[s]

(* What each goroutine has in hand at each point. *)
HandInv ==
  /\ source.msg = {} \/ \E o \in Ops : source.msg = {o}
  /\ source.pc \in {"run", "done", "end"} => source.msg = {}
  /\ source.pc = "send" => \E o \in Ops : source.msg = {o}
  /\ pipe.pc \in {"select", "done", "stop", "end"} => pipe.msg = {}
  /\ pipe.pc = "in" => \E o \in Ops : pipe.msg = {o}
  /\ \A s \in Spaces :
       /\ inGo[s].pc \in {"select", "end"} => inGo[s].msg = {}
       /\ outGo[s].pc \notin {"match", "deliver", "dead"} => outGo[s].packs = {}
       /\ outGo[s].pc \notin {"send", "dead"} => outGo[s].queue = {}

(* The main ops of the packs are still in the base, each in one pack only, and
   are not looked at again. *)
SpaceMains(s) ==
  /\ \A o \in outGo[s].todo : DocumentSet[o] = MainSet[s]
  /\ \A q \in outGo[s].packs :
       /\ q.main \in base[s] /\ q.main \notin outGo[s].todo
       /\ DocumentSet[q.main] = MainSet[s]
       /\ \A r \in outGo[s].packs : q.main = r.main => q = r
MainInv == \A s \in Spaces : SpaceMains(s)

(* Op o is in the packs of space s, as one of the related ops; in its queue. *)
Packed(s, o) == \E q \in outGo[s].packs : o \in q.parts
Queued(s, o) == \E q \in outGo[s].queue : o \in Content(q)

(* Space s holds op o: in the hand of "space in", in the base, or in those of
   "space out". *)
Owns(s, o) == o \in inGo[s].msg \/ o \in base[s] \/ Packed(s, o) \/ Queued(s, o)

(* Within a space, no op is in two places, nor in two messages of one place. *)
SpaceApart(s) ==
  \A o \in Ops :
    /\ o \in inGo[s].msg => o \notin base[s] /\ ~Packed(s, o) /\ ~Queued(s, o)
    /\ o \in base[s] => ~Packed(s, o) /\ ~Queued(s, o)
    /\ Packed(s, o) => ~Queued(s, o)
    /\ \A q, r \in outGo[s].packs : o \in q.parts /\ o \in r.parts => q = r
    /\ \A q, r \in outGo[s].queue : o \in Content(q) /\ o \in Content(r) => q = r
InsideApart == \A s \in Spaces : SpaceApart(s)

(* The source, the pipeline goroutine and the spaces have no op in common. *)
OutsideApart ==
  \A o \in Ops :
    /\ o \in source.msg => o \notin pipe.msg
    /\ o \in source.msg \cup pipe.msg => \A s \in Spaces : ~Owns(s, o)
    /\ \A s, t \in Spaces : s # t => ~(Owns(s, o) /\ Owns(t, o))

(* An op is held as long as it is somewhere. *)
HeldInv ==
  \A o \in Ops :
    fate[o] = "held" <=> o \in source.msg \/ o \in pipe.msg \/ \E s \in Spaces : Owns(s, o)

SInv == TypeOK /\ HandInv /\ MainInv /\ InsideApart /\ OutsideApart /\ HeldInv

(* A step leaves what a space holds where it is; it moves no op at all. *)
SameSpace(s) ==
  /\ inGo'[s].msg = inGo[s].msg /\ base'[s] = base[s]
  /\ outGo'[s].packs = outGo[s].packs /\ outGo'[s].queue = outGo[s].queue
Still ==
  /\ source'.msg = source.msg /\ pipe'.msg = pipe.msg /\ fate' = fate
  /\ \A s \in Spaces : SameSpace(s)
=============================================================================
