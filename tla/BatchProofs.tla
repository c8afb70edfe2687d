---------------------------- MODULE BatchProofs ----------------------------
(***************************************************************************)
(* Proofs about module BatchWriter: its types, that a full cache never     *)
(* waits, that the ops are partitioned into batches, and that only a write *)
(* past its deadline can go wrong (the inductive invariant is in           *)
(* BatchInv).                                                              *)
(*                                                                         *)
(* AppendOpSteps is the fact about append that the rest depends on; the    *)
(* lemmas named ...Fields say what each step leaves of its write; then     *)
(* each part of the invariant has a lemma.                                 *)
(***************************************************************************)
EXTENDS BatchInv, TLAPS, SequenceTheorems

USE DEF run

(* A slice of typed arrays holds the ops of its array, up to its length. *)
LEMMA SliceSeq ==
  ASSUME NEW h \in Seq(Seq(0..MaxOps)), NEW s, Fits(s, h)
  PROVE  /\ (IF s.arr = 0 THEN <<>> ELSE SubSeq(h[s.arr], 1, s.len)) \in Seq(0..MaxOps)
         /\ Len(IF s.arr = 0 THEN <<>> ELSE SubSeq(h[s.arr], 1, s.len)) = s.len
         /\ \A i \in 1..s.len :
              /\ s.arr # 0 /\ s.arr \in 1..Len(h) /\ i \in 1..Len(h[s.arr])
              /\ (IF s.arr = 0 THEN <<>> ELSE SubSeq(h[s.arr], 1, s.len))[i] = h[s.arr][i]
  <1> USE DEF Fits
  <1>1. CASE s.arr = 0
    <2>1. s.len = 0
      BY <1>1
    <2> QED
      BY <1>1, <2>1, EmptySeq
  <1>2. CASE s.arr # 0
    <2>1. s.arr \in 1..Len(h) /\ s.len \in Nat
      BY <1>2
    <2>2. h[s.arr] \in Seq(0..MaxOps)
      BY <2>1
    <2>3. s.len <= Len(h[s.arr]) /\ Len(h[s.arr]) \in Nat
      BY <1>2, <2>2, LenProperties
    <2>4. \A i \in 1..s.len : h[s.arr][i] \in 0..MaxOps
      <3> SUFFICES ASSUME NEW i \in 1..s.len
                   PROVE  h[s.arr][i] \in 0..MaxOps
        OBVIOUS
      <3>1. i \in 1..Len(h[s.arr])
        BY <2>1, <2>3
      <3> HIDE DEF MaxOps
      <3> QED
        BY <2>2, <3>1, ElementOfSeq
    <2>5. /\ SubSeq(h[s.arr], 1, s.len) \in Seq(0..MaxOps)
          /\ Len(SubSeq(h[s.arr], 1, s.len)) = IF 1 <= s.len THEN s.len - 1 + 1 ELSE 0
          /\ \A i \in 1..(s.len - 1 + 1) : SubSeq(h[s.arr], 1, s.len)[i] = h[s.arr][1 + i - 1]
      BY <2>1, <2>4, SubSeqProperties, Z3
    <2>6. Len(SubSeq(h[s.arr], 1, s.len)) = s.len
      BY <2>1, <2>5
    <2>7. \A i \in 1..s.len : SubSeq(h[s.arr], 1, s.len)[i] = h[s.arr][i]
      BY <2>1, <2>5
    <2>8. \A i \in 1..s.len : i \in 1..Len(h[s.arr])
      BY <2>1, <2>3
    <2> QED
      BY <1>2, <2>1, <2>5, <2>6, <2>7, <2>8
  <1> QED
    BY <1>1, <1>2

(* What is in the cache. *)
LEMMA CacheSeq ==
  ASSUME TypeOK
  PROVE  /\ Content(cacheList) \in Seq(0..MaxOps)
         /\ Len(Content(cacheList)) = cacheList.len
         /\ \A i \in 1..cacheList.len :
              /\ cacheList.arr \in 1..Len(heap) /\ i \in 1..Len(heap[cacheList.arr])
              /\ Content(cacheList)[i] = heap[cacheList.arr][i]
  <1>1. heap \in Seq(Seq(0..MaxOps)) /\ Fits(cacheList, heap)
    BY DEF TypeOK
  <1> QED
    BY <1>1, SliceSeq DEF Content

(* The same of the next state. *)
LEMMA CacheSeqNext ==
  ASSUME TypeOK'
  PROVE  /\ Content(cacheList)' \in Seq(0..MaxOps)
         /\ Len(Content(cacheList)') = cacheList'.len
         /\ \A i \in 1..cacheList'.len : Content(cacheList)'[i] = heap'[cacheList'.arr][i]
  <1>1. heap' \in Seq(Seq(0..MaxOps)) /\ Fits(cacheList, heap)'
    BY DEF TypeOK
  <1> QED
    BY <1>1, SliceSeq DEF Content

(* A prefix, point by point. *)
LEMMA PrefixPoints ==
  ASSUME NEW s \in Seq(0..MaxOps), NEW t \in Seq(0..MaxOps)
  PROVE  IsPrefix(s, t) <=> Len(s) <= Len(t) /\ \A i \in 1..Len(s) : s[i] = t[i]
  <1>1. /\ Len(s) \in Nat /\ Len(t) \in Nat
        /\ \A i \in 1..Len(s) : s[i] \in 0..MaxOps
        /\ \A i \in 1..Len(t) : t[i] \in 0..MaxOps
    BY LenProperties, ElementOfSeq
  <1> SUFFICES ASSUME Len(s) <= Len(t)
               PROVE  SubSeq(s, 1, Len(s)) = SubSeq(t, 1, Len(s))
                        <=> \A i \in 1..Len(s) : s[i] = t[i]
    BY DEF IsPrefix
  <1> DEFINE n == Len(s)
  <1>2. n \in Nat /\ \A i \in 1..n : s[i] \in 0..MaxOps /\ t[i] \in 0..MaxOps
    BY <1>1
  <1> HIDE DEF n
  <1>3. /\ SubSeq(s, 1, n) \in Seq(0..MaxOps) /\ SubSeq(t, 1, n) \in Seq(0..MaxOps)
        /\ Len(SubSeq(s, 1, n)) = IF 1 <= n THEN n - 1 + 1 ELSE 0
        /\ Len(SubSeq(t, 1, n)) = IF 1 <= n THEN n - 1 + 1 ELSE 0
        /\ \A i \in 1..(n - 1 + 1) : SubSeq(s, 1, n)[i] = s[1 + i - 1]
        /\ \A i \in 1..(n - 1 + 1) : SubSeq(t, 1, n)[i] = t[1 + i - 1]
    BY <1>2, SubSeqProperties, Z3
  <1>4. /\ Len(SubSeq(s, 1, n)) = n /\ Len(SubSeq(t, 1, n)) = n
        /\ \A i \in 1..n : SubSeq(s, 1, n)[i] = s[i] /\ SubSeq(t, 1, n)[i] = t[i]
    BY <1>2, <1>3
  <1>5. (\A i \in 1..n : s[i] = t[i]) => SubSeq(s, 1, n) = SubSeq(t, 1, n)
    BY <1>3, <1>4, SeqEqual
  <1>6. SubSeq(s, 1, n) = SubSeq(t, 1, n) => \A i \in 1..n : s[i] = t[i]
    BY <1>4
  <1> QED
    BY <1>5, <1>6 DEF n

(* A write more: the writes before it stay. *)
LEMMA AppendWrite ==
  ASSUME ShapeInv, NEW x
  PROVE  /\ Len(Append(w, x)) = Len(w) + 1
         /\ DOMAIN Append(w, x) = 1..(Len(w) + 1) /\ DOMAIN w = 1..Len(w) /\ Len(w) \in Nat
         /\ \A k \in DOMAIN w : Append(w, x)[k] = w[k]
         /\ Append(w, x)[Len(w) + 1] = x
         /\ Append(w, x) = [k \in 1..Len(Append(w, x)) |-> Append(w, x)[k]]
  <1> DEFINE S == {w[k] : k \in DOMAIN w} \cup {x}
  <1>1. Len(w) \in Nat /\ DOMAIN w = 1..Len(w)
    BY DEF ShapeInv
  <1>2. w \in [1..Len(w) -> S]
    BY <1>1 DEF ShapeInv
  <1>3. x \in S
    OBVIOUS
  <1> HIDE DEF S
  <1>4. w \in Seq(S)
    BY <1>1, <1>2
  <1>5. /\ Append(w, x) \in Seq(S) /\ Len(Append(w, x)) = Len(w) + 1
        /\ \A k \in 1..Len(w) : Append(w, x)[k] = w[k]
        /\ Append(w, x)[Len(w) + 1] = x
    BY <1>3, <1>4, AppendProperties
  <1>6. /\ DOMAIN Append(w, x) = 1..Len(Append(w, x))
        /\ Append(w, x) \in [1..Len(Append(w, x)) -> S]
    BY <1>5, LenProperties
  <1> QED
    BY <1>1, <1>5, <1>6

(* The number of ops is a number. *)
LEMMA MaxOpsNat == MaxOps \in Nat
  BY BatchAssumption, LenProperties DEF MaxOps

(* append: a slot more is used, in the same array or in a larger copy. *)
LEMMA AppendOpSteps ==
  ASSUME TypeOK, ShapeInv, NEW n \in Ops, AppendOp(n)
  PROVE  /\ heap' \in Seq(Seq(0..MaxOps)) /\ Len(heap') >= Len(heap)
         /\ \A a \in 1..Len(heap) : Len(heap'[a]) = Len(heap[a])
         /\ \A a \in 1..Len(heap') : Len(heap'[a]) > 0
         /\ cacheList' \in [arr : 1..Len(heap'), len : Nat]
         /\ cacheList'.len = cacheList.len + 1
         /\ cacheList'.len <= Len(heap'[cacheList'.arr])
         /\ \A i \in 1..cacheList.len : heap'[cacheList'.arr][i] = Content(cacheList)[i]
         /\ heap'[cacheList'.arr][cacheList'.len] = n
  <1> DEFINE a == cacheList.arr
             l == cacheList.len + 1
             V == 0..MaxOps
  <1>1. /\ heap \in Seq(Seq(V)) /\ a \in 0..Len(heap) /\ l \in Nat /\ l > 0
        /\ l - 1 = cacheList.len
        /\ l - 1 <= IF a = 0 THEN 0 ELSE Len(heap[a])
        /\ cacheList.len \in Nat
    BY DEF TypeOK, Fits
  <1>2. /\ Len(heap) \in Nat /\ DOMAIN heap = 1..Len(heap)
        /\ \A b \in 1..Len(heap) : heap[b] \in Seq(V)
    BY <1>1, LenProperties, ElementOfSeq
  <1>3. \A b \in 1..Len(heap) : Len(heap[b]) \in Nat /\ Len(heap[b]) > 0
    BY <1>2, LenProperties DEF ShapeInv
  <1>4. n \in V
    BY MaxOpsNat DEF Ops
  <1>5. /\ Content(cacheList) \in Seq(V) /\ Len(Content(cacheList)) = l - 1
        /\ \A i \in 1..(l - 1) : Content(cacheList)[i] = heap[a][i]
    BY <1>1, CacheSeq
  <1>6. CASE a # 0 /\ l <= Len(heap[a])
    <2>1. heap' = [heap EXCEPT ![a][l] = n] /\ cacheList' = [arr |-> a, len |-> l]
      BY <1>6 DEF AppendOp
    <2> DEFINE r == [heap[a] EXCEPT ![l] = n]
    <2>2. a \in 1..Len(heap)
      BY <1>1, <1>2, <1>6
    <2>3. l \in 1..Len(heap[a]) /\ heap[a] \in Seq(V)
      BY <1>1, <1>2, <1>3, <1>6, <2>2
    <2> HIDE DEF V
    <2>4. r \in Seq(V) /\ Len(r) = Len(heap[a])
          /\ \A j \in 1..Len(heap[a]) : r[j] = IF j = l THEN n ELSE heap[a][j]
      BY <1>4, <2>3, ExceptSeq
    <2>5. heap' = [heap EXCEPT ![a] = r]
      BY <2>1
    <2> HIDE DEF r
    <2>6. heap' \in Seq(Seq(V)) /\ Len(heap') = Len(heap)
          /\ \A b \in 1..Len(heap) : heap'[b] = IF b = a THEN r ELSE heap[b]
      BY <1>1, <2>2, <2>4, <2>5, ExceptSeq
    <2>7. \A b \in 1..Len(heap) : Len(heap'[b]) = Len(heap[b])
      BY <2>4, <2>6
    <2>8. /\ cacheList'.arr = a /\ cacheList'.len = l
          /\ cacheList' \in [arr : 1..Len(heap'), len : Nat]
      BY <1>1, <2>1, <2>2, <2>6
    <2>9. \A i \in 1..(l - 1) : heap'[a][i] = Content(cacheList)[i]
      <3> SUFFICES ASSUME NEW i \in 1..(l - 1)
                   PROVE  heap'[a][i] = Content(cacheList)[i]
        OBVIOUS
      <3>1. l - 1 \in Nat /\ Len(heap[a]) \in Nat /\ l \in Nat
        BY <1>1, <1>3, <2>2
      <3> HIDE DEF l
      <3>2. i \in 1..Len(heap[a]) /\ i # l
        BY <3>1, <2>3
      <3>3. heap'[a][i] = heap[a][i]
        BY <3>2, <2>2, <2>4, <2>6
      <3> QED
        BY <3>3, <1>5
    <2>10. heap'[a][l] = n
      BY <2>2, <2>3, <2>4, <2>6
    <2>11. \A b \in 1..Len(heap') : Len(heap'[b]) > 0
      BY <1>3, <2>6, <2>7
    <2>12. l <= Len(heap'[a]) /\ Len(heap') >= Len(heap)
      BY <1>2, <1>6, <2>2, <2>6, <2>7
    <2>13. \A i \in 1..cacheList.len : heap'[a][i] = Content(cacheList)[i]
      BY <1>1, <2>9
    <2>14. cacheList'.arr = a /\ cacheList'.len = l /\ l = cacheList.len + 1
      BY <2>8
    <2> HIDE DEF a, l
    <2> QED
      BY <2>6, <2>7, <2>8, <2>10, <2>11, <2>12, <2>13, <2>14 DEF V
  <1>7. CASE ~(a # 0 /\ l <= Len(heap[a]))
    <2> DEFINE g == Grow(a, n)
               cap == IF a = 0 THEN 1 ELSE 2 * Len(heap[a])
    <2>1. heap' = Append(heap, g) /\ cacheList' = [arr |-> Len(heap) + 1, len |-> l]
      BY <1>7 DEF AppendOp
    <2>2. cap \in Nat /\ cap >= l
      BY <1>1, <1>2, <1>3, <1>7
    <2>3. g = [i \in 1..cap |-> IF i <= l - 1 THEN Content(cacheList)[i]
                                 ELSE IF i = l - 1 + 1 THEN n ELSE 0]
      BY <1>5 DEF Grow
    <2> HIDE DEF g, cap
    <2>4. \A i \in 1..cap : i <= l - 1 => Content(cacheList)[i] \in V
      <3> SUFFICES ASSUME NEW i \in 1..cap, i <= l - 1
                   PROVE  Content(cacheList)[i] \in V
        OBVIOUS
      <3>1. i \in 1..Len(Content(cacheList))
        BY <1>1, <1>5, <2>2
      <3> HIDE DEF V
      <3> QED
        BY <1>5, <3>1, ElementOfSeq
    <2>5. 0 \in V
      BY MaxOpsNat
    <2> HIDE DEF V
    <2>6. g \in [1..cap -> V]
      BY <1>4, <2>3, <2>4, <2>5
    <2>7. g \in Seq(V)
      BY <2>2, <2>6
    <2>8. Len(g) = cap
      BY <2>2, <2>6, <2>7, LenProperties
    <2>9. /\ heap' \in Seq(Seq(V)) /\ Len(heap') = Len(heap) + 1
          /\ \A b \in 1..Len(heap) : heap'[b] = heap[b]
          /\ heap'[Len(heap) + 1] = g
      BY <1>1, <2>1, <2>7, AppendProperties
    <2>10. \A i \in 1..(l - 1) : g[i] = Content(cacheList)[i]
      BY <1>1, <2>2, <2>3
    <2>11. g[l] = n
      BY <1>1, <2>2, <2>3
    <2>12. /\ cacheList'.arr = Len(heap) + 1 /\ cacheList'.len = l
           /\ cacheList' \in [arr : 1..Len(heap'), len : Nat]
      BY <1>1, <1>2, <2>1, <2>9
    <2>13. \A b \in 1..Len(heap') : Len(heap'[b]) > 0
      <3>1. Len(g) > 0
        BY <1>1, <2>2, <2>8
      <3>2. \A b \in 1..Len(heap) : Len(heap'[b]) > 0
        BY <1>3, <2>9
      <3>3. \A b \in 1..Len(heap') : b = Len(heap) + 1 \/ b \in 1..Len(heap)
        BY <1>2, <2>9
      <3> QED
        BY <2>9, <3>1, <3>2, <3>3
    <2>14. \A b \in 1..Len(heap) : Len(heap'[b]) = Len(heap[b])
      BY <2>9
    <2>15. Len(heap') >= Len(heap) /\ cap >= l
      BY <1>2, <2>2, <2>9
    <2>16. heap'[cacheList'.arr] = g
      BY <2>9, <2>12
    <2>17. \A i \in 1..cacheList.len : g[i] = Content(cacheList)[i]
      BY <1>1, <2>10
    <2>18. cacheList'.len = cacheList.len + 1
      BY <2>12
    <2>19. cacheList'.len <= Len(g)
      BY <2>2, <2>8, <2>12
    <2> HIDE DEF a, l
    <2> QED
      BY <2>9, <2>11, <2>12, <2>13, <2>14, <2>15, <2>16, <2>17, <2>18, <2>19 DEF V
  <1> QED
    BY <1>6, <1>7

(* A function on 1..n has length n. *)
LEMMA LenFun ==
  ASSUME NEW n \in Nat, NEW s, s = [i \in 1..n |-> s[i]]
  PROVE  Len(s) = n
  <1> DEFINE S == {s[i] : i \in 1..n}
  <1>1. s \in [1..n -> S]
    OBVIOUS
  <1> HIDE DEF S
  <1>2. s \in Seq(S)
    BY <1>1
  <1>3. Len(s) \in Nat /\ DOMAIN s = 1..Len(s) /\ DOMAIN s = 1..n
    BY <1>1, <1>2, LenProperties
  <1> QED
    BY <1>3

(* What each step leaves of the write that does it. *)
LEMMA WriteBeginFields ==
  ASSUME ShapeInv, NEW k \in DOMAIN w, WriteBegin(k)
  PROVE  /\ Kept(k) /\ w'[k].batch = w[k].batch
         /\ w[k].st = "begin"
         /\ w'[k].slice = cacheList /\ w'[k].st \in {"ret", "connect"}
         /\ w'[k].read = w[k].read /\ w'[k].todo = w[k].todo
         /\ client' = client
  <1>1. Written(w[k]) /\ w = [j \in 1..Len(w) |-> w[j]]
    BY DEF ShapeInv
  <1> QED
    BY <1>1 DEF WriteBegin, Kept, Written

LEMMA WriteConnectFields ==
  ASSUME ShapeInv, NEW k \in DOMAIN w, WriteConnect(k)
  PROVE  /\ Kept(k) /\ w'[k].batch = w[k].batch
         /\ w[k].st = "connect"
         /\ w'[k].slice = w[k].slice /\ w'[k].st \in {"gather", "ret"}
         /\ w'[k].read = w[k].read /\ w'[k].todo = w[k].todo
         /\ client => client'
         /\ w'[k].st = "gather" => client'
  <1>1. Written(w[k]) /\ w = [j \in 1..Len(w) |-> w[j]]
    BY DEF ShapeInv
  <1> QED
    BY <1>1 DEF WriteConnect, Kept, Written, Set

LEMMA WriteGatherFields ==
  ASSUME ShapeInv, NEW k \in DOMAIN w, WriteGather(k)
  PROVE  /\ Kept(k) /\ w'[k].batch = w[k].batch
         /\ w[k].st = "gather" /\ Len(w[k].read) + 1 <= w[k].slice.len
         /\ w'[k].slice = w[k].slice /\ w'[k].st = "gather"
         /\ w'[k].read = Append(w[k].read, heap[w[k].slice.arr][Len(w[k].read) + 1])
         /\ client' = client
  <1>1. Written(w[k]) /\ w = [j \in 1..Len(w) |-> w[j]]
    BY DEF ShapeInv
  <1> QED
    BY <1>1 DEF WriteGather, Kept, Written

LEMMA WriteGatheredFields ==
  ASSUME ShapeInv, NEW k \in DOMAIN w, WriteGathered(k)
  PROVE  /\ Kept(k) /\ w'[k].batch = w[k].batch
         /\ w[k].st = "gather" /\ Len(w[k].read) = w[k].slice.len
         /\ w'[k].slice = w[k].slice /\ w'[k].st = "call"
         /\ w'[k].read = w[k].read
         /\ client' = client
  <1>1. Written(w[k]) /\ w = [j \in 1..Len(w) |-> w[j]]
    BY DEF ShapeInv
  <1> QED
    BY <1>1 DEF WriteGathered, Kept, Written

LEMMA WriteCallFields ==
  ASSUME ShapeInv, NEW k \in DOMAIN w, WriteCall(k)
  PROVE  /\ Kept(k) /\ w'[k].batch = w[k].batch
         /\ w[k].todo # {}
         /\ w'[k].slice = w[k].slice /\ w'[k].st = w[k].st
         /\ w'[k].read = w[k].read
         /\ client' = client
  <1>1. Written(w[k]) /\ w = [j \in 1..Len(w) |-> w[j]]
    BY DEF ShapeInv
  <1>2. PICK F \in SUBSET NextCall(w[k]) :
          w' = [w EXCEPT ![k].todo = @ \ NextCall(w[k]), ![k].failed = @ + Cardinality(F)]
    BY DEF WriteCall
  <1> QED
    BY <1>1, <1>2 DEF WriteCall, Kept, Written

LEMMA WriteSkipFields ==
  ASSUME ShapeInv, NEW k \in DOMAIN w, WriteSkip(k)
  PROVE  /\ Kept(k) /\ w'[k].batch = w[k].batch
         /\ w[k].todo # {}
         /\ w'[k].slice = w[k].slice /\ w'[k].st = w[k].st
         /\ w'[k].read = w[k].read
         /\ client' = client
  <1>1. Written(w[k]) /\ w = [j \in 1..Len(w) |-> w[j]]
    BY DEF ShapeInv
  <1> QED
    BY <1>1 DEF WriteSkip, Kept, Written

LEMMA WriteReturnFields ==
  ASSUME ShapeInv, NEW k \in DOMAIN w, WriteReturn(k)
  PROVE  /\ Kept(k) /\ w'[k].batch = w[k].batch
         /\ w[k].st = "call" /\ w[k].todo = {}
         /\ w'[k].slice = w[k].slice /\ w'[k].st = "ret"
         /\ w'[k].read = w[k].read /\ w'[k].todo = w[k].todo
         /\ client' = client
  <1>1. Written(w[k]) /\ w = [j \in 1..Len(w) |-> w[j]]
    BY DEF ShapeInv
  <1> QED
    BY <1>1 DEF WriteReturn, Kept, Written, Set

(* All but the panic move one write on. *)
LEMMA WriteKept ==
  ASSUME ShapeInv, NEW k \in DOMAIN w, Write(k), ~WritePanics(k)
  PROVE  Kept(k) /\ w'[k].batch = w[k].batch /\ (client => client')
  BY WriteBeginFields, WriteConnectFields, WriteGatherFields, WriteGatheredFields,
    WriteCallFields, WriteSkipFields, WriteReturnFields DEF Write

(* What stays when write k goes on. *)
LEMMA KeptShape ==
  ASSUME ShapeInv, NEW k \in DOMAIN w, Kept(k)
  PROVE  /\ Len(w') = Len(w) /\ DOMAIN w' = DOMAIN w
         /\ \A j \in DOMAIN w \ {k} : w'[j] = w[j]
         /\ ShapeInv'
  <1>1. Len(w) \in Nat /\ w = [j \in 1..Len(w) |-> w[j]]
    BY DEF ShapeInv
  <1>2. w' = [j \in 1..Len(w) |-> w'[j]] /\ \A j \in DOMAIN w \ {k} : w'[j] = w[j]
    BY <1>1 DEF Kept
  <1>3. Len(w') = Len(w)
    BY <1>1, <1>2, LenFun
  <1>4. DOMAIN w' = DOMAIN w
    BY <1>1, <1>2
  <1> QED
    BY <1>1, <1>2, <1>3, <1>4 DEF ShapeInv, Kept

(* A write is started. *)
LEMMA StartShape ==
  ASSUME ShapeInv, UNCHANGED heap, w' = Append(w, NewWrite(Content(cacheList)))
  PROVE  /\ Len(w') = Len(w) + 1 /\ DOMAIN w' = 1..Len(w') /\ DOMAIN w = 1..Len(w)
         /\ Len(w) \in Nat
         /\ \A j \in DOMAIN w : w'[j] = w[j]
         /\ w'[Len(w')] = NewWrite(Content(cacheList))
         /\ ShapeInv'
  <1>1. /\ Len(w') = Len(w) + 1 /\ DOMAIN w' = 1..(Len(w) + 1) /\ DOMAIN w = 1..Len(w)
        /\ Len(w) \in Nat /\ \A j \in DOMAIN w : w'[j] = w[j]
        /\ w'[Len(w) + 1] = NewWrite(Content(cacheList))
        /\ w' = [j \in 1..Len(w') |-> w'[j]]
    BY AppendWrite
  <1>2. Written(NewWrite(Content(cacheList)))
    BY DEF Written, NewWrite
  <1>3. \A j \in DOMAIN w' : j \in DOMAIN w \/ j = Len(w) + 1
    BY <1>1
  <1>4. \A j \in DOMAIN w' : Written(w'[j])
    BY <1>1, <1>2, <1>3 DEF ShapeInv
  <1>5. \A a \in DOMAIN heap' : Len(heap'[a]) > 0
    BY DEF ShapeInv
  <1>6. Len(w') \in Nat
    BY <1>1
  <1> QED
    BY <1>1, <1>4, <1>5, <1>6 DEF ShapeInv

(* Every step keeps the shape of the writes and of the arrays. *)
LEMMA ShapeStep ==
  ASSUME TypeOK, ShapeInv, [Next]_vars
  PROVE  ShapeInv'
  <1>1. CASE UNCHANGED vars
    BY <1>1 DEF vars, ShapeInv
  <1>2. CASE Take
    <2>1. UNCHANGED w /\ taken + 1 \in Ops /\ AppendOp(taken + 1)
      BY <1>2, MaxOpsNat DEF Take, TypeOK, Ops
    <2>2. /\ heap' \in Seq(Seq(0..MaxOps))
          /\ \A a \in 1..Len(heap') : Len(heap'[a]) > 0
      BY <2>1, AppendOpSteps
    <2>3. DOMAIN heap' = 1..Len(heap')
      BY <2>2, LenProperties
    <2> QED
      BY <2>1, <2>2, <2>3 DEF ShapeInv
  <1>3. CASE TakeReadDone \/ Tick \/ Expire \/ Select \/ RunRelease \/ RunEnd
    <2>1. UNCHANGED w /\ UNCHANGED heap
      BY <1>3 DEF TakeReadDone, Tick, Expire, Select, SelectDone, SelectTimeout, RunRelease,
        RunEnd
    <2> QED
      BY <2>1 DEF ShapeInv
  <1>4. CASE StartWrite \/ FinalWrite
    BY <1>4, StartShape DEF StartWrite, FinalWrite
  <1>5. ASSUME NEW k \in DOMAIN w, Write(k)
        PROVE  ShapeInv'
    <2>1. CASE WritePanics(k)
      BY <2>1 DEF WritePanics, ShapeInv
    <2>2. CASE ~WritePanics(k)
      <3>1. Kept(k)
        BY <1>5, <2>2, WriteKept
      <3> QED
        BY <3>1, KeptShape
    <2> QED
      BY <2>1, <2>2
  <1> QED
    BY <1>1, <1>2, <1>3, <1>4, <1>5 DEF Next, End

(* An array that grows, or a longer heap, still fits a slice. *)
LEMMA FitsMore ==
  ASSUME NEW s, NEW h \in Seq(Seq(0..MaxOps)), NEW g \in Seq(Seq(0..MaxOps)), Fits(s, h),
         Len(g) >= Len(h), \A a \in 1..Len(h) : Len(g[a]) = Len(h[a])
  PROVE  Fits(s, g)
  <1>1. Len(g) \in Nat /\ Len(h) \in Nat
    BY LenProperties
  <1> QED
    BY <1>1 DEF Fits

(* Every step keeps the types. *)
LEMMA TypeStep ==
  ASSUME TypeOK, ShapeInv, WaitInv, [Next]_vars
  PROVE  TypeOK'
  <1>1. CASE UNCHANGED vars
    BY <1>1 DEF vars, TypeOK, Fits
  <1>2. CASE Take
    <2>1. UNCHANGED <<w, late>> /\ taken + 1 \in Ops /\ AppendOp(taken + 1)
      BY <1>2, MaxOpsNat DEF Take, TypeOK, Ops
    <2>2. /\ heap' \in Seq(Seq(0..MaxOps)) /\ Len(heap') >= Len(heap)
          /\ \A a \in 1..Len(heap) : Len(heap'[a]) = Len(heap[a])
          /\ cacheList' \in [arr : 1..Len(heap'), len : Nat]
          /\ cacheList'.len <= Len(heap'[cacheList'.arr])
      BY <2>1, AppendOpSteps
    <2>3. Fits(cacheList', heap')
      BY <2>2 DEF Fits
    <2>4. heap \in Seq(Seq(0..MaxOps)) /\ \A k \in DOMAIN w : Fits(w[k].slice, heap)
      BY DEF TypeOK
    <2>5. \A k \in DOMAIN w : Fits(w[k].slice, heap')
      BY <2>2, <2>4, FitsMore
    <2>6. taken' \in 0..MaxOps /\ pc' \in {"select", "flush"}
      BY <1>2, <2>1, MaxOpsNat DEF Take, Ops
    <2>7. UNCHANGED <<Writer, limit, exitF, timer, expired, client, released, errC>>
      BY <1>2 DEF Take
    <2> QED
      BY <2>1, <2>2, <2>3, <2>5, <2>6, <2>7 DEF TypeOK
  <1>3. CASE TakeReadDone \/ Tick \/ Expire \/ RunRelease \/ RunEnd
    <2>1. UNCHANGED <<Writer, w, heap, cacheList, limit, taken>>
      BY <1>3 DEF TakeReadDone, Tick, Expire, RunRelease, RunEnd
    <2>2. /\ pc' \in {"select", "flush", "wait", "final", "release", "end", "crash"}
          /\ {exitF', timer', expired', client', released', errC'} \subseteq BOOLEAN
      BY <1>3 DEF TakeReadDone, Tick, Expire, RunRelease, RunEnd, TypeOK
    <2>3. late' \subseteq DOMAIN w
      <3>1. CASE Expire
        <4>1. late' = late \cup {Len(w)} /\ w # <<>>
          BY <3>1 DEF Expire, WaitInv, Waits
        <4>2. Len(w) \in DOMAIN w
          BY <4>1 DEF ShapeInv
        <4> QED
          BY <4>1, <4>2 DEF TypeOK
      <3> QED
        BY <1>3, <3>1 DEF TakeReadDone, Tick, RunRelease, RunEnd, TypeOK
    <2> QED
      BY <2>1, <2>2, <2>3 DEF TypeOK
  <1>4. CASE Select
    <2>1. /\ UNCHANGED <<Writer, w, heap, limit, taken, exitF, timer, expired, client, released,
                         errC, late>>
          /\ pc' = "select" /\ cacheList' = [cacheList EXCEPT !.len = 0]
      BY <1>4 DEF Select, SelectDone, SelectTimeout, ResetCache
    <2>2. heap \in Seq(Seq(0..MaxOps)) /\ Fits(cacheList, heap)
      BY DEF TypeOK
    <2>3. Fits(cacheList', heap)
      <3>1. \A a \in 1..Len(heap) : heap[a] \in Seq(0..MaxOps)
        BY <2>2, ElementOfSeq
      <3>2. \A a \in 1..Len(heap) : Len(heap[a]) \in Nat
        BY <3>1, LenProperties
      <3>3. Len(heap) \in Nat
        BY <2>2, LenProperties
      <3> QED
        BY <2>1, <2>2, <3>2, <3>3 DEF Fits
    <2> QED
      BY <2>1, <2>3 DEF TypeOK
  <1>5. CASE StartWrite \/ FinalWrite
    <2>1. /\ UNCHANGED <<Writer, heap, cacheList, taken, exitF, timer, client, released, errC,
                         late>>
          /\ w' = Append(w, NewWrite(Content(cacheList))) /\ pc' \in {"wait", "final"}
          /\ expired' \in BOOLEAN /\ limit' \in {Limit, 1, BulkLimit}
      BY <1>5 DEF StartWrite, FinalWrite, TypeOK
    <2>2. /\ Len(w') = Len(w) + 1 /\ DOMAIN w' = 1..Len(w') /\ DOMAIN w = 1..Len(w)
          /\ Len(w) \in Nat /\ \A j \in DOMAIN w : w'[j] = w[j]
          /\ w'[Len(w')] = NewWrite(Content(cacheList))
      BY <2>1, StartShape
    <2>3. Content(cacheList) \in Seq(0..MaxOps)
      BY CacheSeq
    <2> DEFINE new == NewWrite(Content(cacheList))
    <2>4. /\ new.st = "begin" /\ new.read = <<>> /\ new.batch \in Seq(0..MaxOps)
          /\ new.slice = [arr |-> 0, len |-> 0]
      BY <2>3 DEF NewWrite
    <2> HIDE DEF new
    <2>5. heap \in Seq(Seq(0..MaxOps)) /\ Len(heap) \in Nat
      BY LenProperties DEF TypeOK
    <2>6. Fits(new.slice, heap) /\ new.read \in Seq(0..MaxOps)
      BY <2>4, <2>5, EmptySeq DEF Fits
    <2>7. \A j \in DOMAIN w' : j \in DOMAIN w \/ (j = Len(w') /\ w'[j] = new)
      BY <2>2 DEF new
    <2>8. \A j \in DOMAIN w' : /\ w'[j].st \in {"begin", "connect", "gather", "call", "ret"}
                               /\ Fits(w'[j].slice, heap)
                               /\ w'[j].read \in Seq(0..MaxOps) /\ w'[j].batch \in Seq(0..MaxOps)
      BY <2>2, <2>4, <2>6, <2>7 DEF TypeOK
    <2>9. late' \subseteq DOMAIN w'
      BY <2>1, <2>2 DEF TypeOK
    <2> QED
      BY <2>1, <2>8, <2>9 DEF TypeOK
  <1>6. ASSUME NEW k \in DOMAIN w, Write(k)
        PROVE  TypeOK'
    <2>1. CASE WritePanics(k)
      BY <2>1 DEF WritePanics, TypeOK
    <2>2. CASE ~WritePanics(k)
      <3>1. Kept(k) /\ w'[k].batch = w[k].batch
        BY <1>6, <2>2, WriteKept
      <3>2. {client', released', errC'} \subseteq BOOLEAN
        BY <1>6, <2>2 DEF Write, WriteBegin, WriteConnect, WriteGather, WriteGathered, WriteCall,
          WriteSkip, WriteReturn, TypeOK
      <3>3. /\ DOMAIN w' = DOMAIN w /\ \A j \in DOMAIN w \ {k} : w'[j] = w[j]
        BY <3>1, KeptShape
      <3>4. w'[k].slice = w[k].slice \/ w'[k].slice = cacheList
        BY <1>6, <2>2, WriteBeginFields, WriteConnectFields, WriteGatherFields,
          WriteGatheredFields, WriteCallFields, WriteSkipFields, WriteReturnFields DEF Write
      <3>5. w'[k].st \in {"begin", "connect", "gather", "call", "ret"}
        BY <1>6, <2>2, WriteBeginFields, WriteConnectFields, WriteGatherFields,
          WriteGatheredFields, WriteCallFields, WriteSkipFields, WriteReturnFields
          DEF Write, TypeOK
      <3>6. w'[k].read \in Seq(0..MaxOps)
        <4>1. CASE WriteGather(k)
          <5> DEFINE i == Len(w[k].read) + 1
          <5>1. /\ w'[k].read = Append(w[k].read, heap[w[k].slice.arr][i])
                /\ i <= w[k].slice.len
            BY <4>1, WriteGatherFields
          <5>2. /\ Fits(w[k].slice, heap) /\ heap \in Seq(Seq(0..MaxOps))
                /\ w[k].read \in Seq(0..MaxOps)
            BY DEF TypeOK
          <5>3. i \in Nat /\ i > 0
            BY <5>2, LenProperties
          <5> HIDE DEF i
          <5>4. i \in 1..w[k].slice.len
            BY <5>1, <5>2, <5>3 DEF Fits
          <5>5. w[k].slice.arr \in 1..Len(heap) /\ i \in 1..Len(heap[w[k].slice.arr])
            BY <5>2, <5>4, SliceSeq
          <5>6. heap[w[k].slice.arr] \in Seq(0..MaxOps)
            BY <5>2, <5>5, ElementOfSeq
          <5>7. heap[w[k].slice.arr][i] \in 0..MaxOps
            BY <5>5, <5>6, ElementOfSeq
          <5> QED
            BY <5>1, <5>2, <5>7, AppendProperties
        <4> QED
          BY <1>6, <2>2, <4>1, WriteBeginFields, WriteConnectFields,
            WriteGatheredFields, WriteCallFields, WriteSkipFields, WriteReturnFields
            DEF Write, TypeOK
      <3>7. \A j \in DOMAIN w' : /\ w'[j].st \in {"begin", "connect", "gather", "call", "ret"}
                                 /\ Fits(w'[j].slice, heap)
                                 /\ w'[j].read \in Seq(0..MaxOps)
                                 /\ w'[j].batch \in Seq(0..MaxOps)
        BY <3>1, <3>3, <3>4, <3>5, <3>6 DEF TypeOK
      <3>8. UNCHANGED <<Writer, pc, taken, exitF, limit, timer, cacheList, expired, heap, late>>
        BY <3>1 DEF Kept
      <3> QED
        BY <3>2, <3>3, <3>7, <3>8 DEF TypeOK
    <2> QED
      BY <2>1, <2>2
  <1> QED
    BY <1>1, <1>2, <1>3, <1>4, <1>5, <1>6 DEF Next, End

(* The last write is the one Run waits for. *)
LEMMA WaitStep ==
  ASSUME TypeOK, ShapeInv, WaitInv, [Next]_vars
  PROVE  WaitInv'
  <1> USE DEF Waits
  <1>1. CASE UNCHANGED vars
    BY <1>1 DEF vars, WaitInv, Content
  <1>2. CASE Take \/ TakeReadDone \/ Tick \/ Select \/ RunRelease \/ RunEnd
    <2>1. pc' \notin {"wait", "final"}
      BY <1>2 DEF Take, TakeReadDone, Tick, Select, SelectDone, SelectTimeout, RunRelease, RunEnd
    <2> QED
      BY <2>1 DEF WaitInv
  <1>3. CASE Expire
    BY <1>3 DEF Expire, WaitInv, Content
  <1>4. CASE StartWrite \/ FinalWrite
    <2>1. /\ UNCHANGED <<heap, cacheList, late>>
          /\ w' = Append(w, NewWrite(Content(cacheList)))
          /\ StartWrite => pc' = "wait" /\ expired' = FALSE
          /\ FinalWrite => pc' = "final"
      BY <1>4 DEF StartWrite, FinalWrite
    <2>2. /\ Len(w') = Len(w) + 1 /\ DOMAIN w' = 1..Len(w') /\ DOMAIN w = 1..Len(w)
          /\ Len(w) \in Nat /\ w'[Len(w')] = NewWrite(Content(cacheList))
      BY <2>1, StartShape
    <2>3. w' # <<>> /\ Len(w') \notin DOMAIN w
      BY <2>2
    <2>4. w'[Len(w')].batch = Content(cacheList)
      BY <2>2 DEF NewWrite
    <2>5. Content(cacheList)' = Content(cacheList)
      BY <2>1 DEF Content
    <2>6. Len(w') \notin late'
      BY <2>1, <2>3 DEF TypeOK
    <2> QED
      BY <1>4, <2>1, <2>3, <2>4, <2>5, <2>6 DEF WaitInv, StartWrite, FinalWrite
  <1>5. ASSUME NEW k \in DOMAIN w, Write(k)
        PROVE  WaitInv'
    <2>1. CASE WritePanics(k)
      BY <2>1 DEF WritePanics, WaitInv
    <2>2. CASE ~WritePanics(k)
      <3>1. Kept(k) /\ w'[k].batch = w[k].batch
        BY <1>5, <2>2, WriteKept
      <3>2. Len(w') = Len(w) /\ DOMAIN w' = DOMAIN w /\ \A j \in DOMAIN w \ {k} : w'[j] = w[j]
        BY <3>1, KeptShape
      <3>3. Content(cacheList)' = Content(cacheList)
        BY <3>1 DEF Content, Kept
      <3>4. \A j \in DOMAIN w : w'[j].batch = w[j].batch
        BY <3>1, <3>2
      <3>5. w # <<>> => Len(w) \in DOMAIN w
        BY DEF ShapeInv
      <3>6. w # <<>> => w' # <<>>
        BY <3>2, <3>5
      <3> QED
        BY <3>1, <3>2, <3>3, <3>4, <3>5, <3>6 DEF WaitInv, Kept
    <2> QED
      BY <2>1, <2>2
  <1> QED
    BY <1>1, <1>2, <1>3, <1>4, <1>5 DEF Next, End

(* Only the last write is at work in time. *)
LEMMA TurnStep ==
  ASSUME TypeOK, ShapeInv, WaitInv, TurnInv, [Next]_vars
  PROVE  TurnInv'
  <1> USE DEF Waits, Current
  <1>1. CASE UNCHANGED vars
    BY <1>1 DEF vars, TurnInv
  <1>2. CASE Take \/ TakeReadDone \/ Tick
    <2>1. UNCHANGED <<w, late>> /\ pc \notin {"wait", "final", "crash"}
      BY <1>2 DEF Take, TakeReadDone, Tick
    <2> QED
      BY <2>1 DEF TurnInv
  <1>3. CASE RunEnd
    <2>1. UNCHANGED <<w, late>> /\ pc \notin {"wait", "final", "crash"}
      BY <1>3 DEF RunEnd
    <2> QED
      BY <2>1 DEF TurnInv
  <1>4. CASE Expire
    <2>1. UNCHANGED <<w, pc>> /\ late \subseteq late'
      BY <1>4 DEF Expire
    <2> QED
      BY <2>1 DEF TurnInv
  <1>5. CASE Select \/ RunRelease
    <2>1. /\ UNCHANGED <<w, late>> /\ pc \in {"wait", "final"}
          /\ pc = "wait" => w[Len(w)].st = "ret" \/ expired
          /\ pc = "final" => w[Len(w)].st = "ret"
      BY <1>5 DEF Select, SelectDone, SelectTimeout, RunRelease
    <2>2. Len(w) \notin late => w[Len(w)].st = "ret"
      BY <2>1 DEF WaitInv
    <2> QED
      BY <2>1, <2>2 DEF TurnInv
  <1>6. CASE StartWrite \/ FinalWrite
    <2>1. /\ UNCHANGED <<heap, late>> /\ w' = Append(w, NewWrite(Content(cacheList)))
          /\ pc \notin {"wait", "final", "crash"} /\ pc' \in {"wait", "final"}
      BY <1>6 DEF StartWrite, FinalWrite
    <2>2. /\ Len(w') = Len(w) + 1 /\ DOMAIN w' = 1..Len(w') /\ DOMAIN w = 1..Len(w)
          /\ Len(w) \in Nat /\ w'[Len(w')] = NewWrite(Content(cacheList))
          /\ \A j \in DOMAIN w : w'[j] = w[j]
      BY <2>1, StartShape
    <2>3. \A j \in DOMAIN w' : j \in DOMAIN w \/ j = Len(w')
      BY <2>2
    <2>4. w'[Len(w')].todo = {}
      BY <2>2 DEF NewWrite
    <2> QED
      BY <2>1, <2>2, <2>3, <2>4 DEF TurnInv
  <1>7. ASSUME NEW k \in DOMAIN w, Write(k)
        PROVE  TurnInv'
    <2>1. CASE WritePanics(k)
      BY <2>1 DEF WritePanics, TurnInv
    <2>2. CASE ~WritePanics(k)
      <3>1. Kept(k)
        BY <1>7, <2>2, WriteKept
      <3>2. Len(w') = Len(w) /\ DOMAIN w' = DOMAIN w /\ \A j \in DOMAIN w \ {k} : w'[j] = w[j]
        BY <3>1, KeptShape
      <3>3. w[k].st = "ret" => WriteCall(k) \/ WriteSkip(k)
        BY <1>7, <2>2, WriteBeginFields, WriteConnectFields, WriteGatherFields,
          WriteGatheredFields, WriteReturnFields DEF Write
      <3>4. w[k].st # "ret"
        BY <3>3, WriteCallFields, WriteSkipFields DEF TurnInv
      <3>5. w'[k].st \in {"begin", "connect", "ret"} => w'[k].todo = {}
        BY <1>7, <2>2, WriteBeginFields, WriteConnectFields, WriteGatherFields,
          WriteGatheredFields, WriteCallFields, WriteSkipFields, WriteReturnFields
          DEF Write, TurnInv
      <3> QED
        BY <3>1, <3>2, <3>4, <3>5 DEF TurnInv, Kept
    <2> QED
      BY <2>1, <2>2
  <1> QED
    BY <1>1, <1>2, <1>3, <1>4, <1>5, <1>6, <1>7 DEF Next, End

(* Every step keeps the cache of a Run in select below its limit. *)
LEMMA LimitStep ==
  ASSUME TypeOK, LimitInv, [Next]_vars
  PROVE  LimitInv'
  <1>1. CASE UNCHANGED vars
    BY <1>1 DEF vars, LimitInv
  <1>2. CASE Take
    <2>1. UNCHANGED limit /\ pc' = IF cacheList'.len >= limit THEN "flush" ELSE "select"
      BY <1>2 DEF Take
    <2>2. cacheList'.len \in Nat
      <3>1. AppendOp(taken + 1)
        BY <1>2 DEF Take
      <3>2. cacheList'.len = cacheList.len + 1
        BY <3>1 DEF AppendOp
      <3> QED
        BY <3>2 DEF TypeOK, Fits
    <2>3. limit \in Nat
      BY BatchAssumption DEF TypeOK
    <2> QED
      BY <2>1, <2>2, <2>3 DEF LimitInv
  <1>3. CASE TakeReadDone
    BY <1>3 DEF TakeReadDone, LimitInv
  <1>4. CASE Tick \/ Expire \/ FinalWrite \/ RunRelease \/ RunEnd
    <2>1. UNCHANGED limit /\ pc' # "select"
      BY <1>4 DEF Tick, Expire, FinalWrite, RunRelease, RunEnd
    <2> QED
      BY <2>1 DEF LimitInv
  <1>5. CASE StartWrite
    <2>1. pc' = "wait" /\ limit' \in {limit} \cup (IF BulkLimit = 0 THEN {} ELSE {1, BulkLimit})
      BY <1>5 DEF StartWrite
    <2> QED
      BY <2>1, BatchAssumption DEF LimitInv
  <1>6. CASE Select
    <2>1. UNCHANGED limit /\ cacheList' = [cacheList EXCEPT !.len = 0]
      BY <1>6 DEF Select, SelectDone, SelectTimeout, ResetCache
    <2>2. cacheList'.len = 0
      BY <2>1 DEF TypeOK, Fits
    <2> QED
      BY <2>1, <2>2 DEF LimitInv
  <1>7. ASSUME NEW k \in DOMAIN w, Write(k)
        PROVE  LimitInv'
    <2>1. UNCHANGED <<limit, cacheList>> /\ (pc' = pc \/ pc' = "crash")
      BY <1>7 DEF Write, WriteBegin, WriteConnect, WriteGather, WriteGathered, WriteCall,
        WriteSkip, WritePanics, WriteReturn
    <2> QED
      BY <2>1 DEF LimitInv
  <1> QED
    BY <1>1, <1>2, <1>3, <1>4, <1>5, <1>6, <1>7 DEF Next, End

(* A write that panics has missed its deadline. *)
LEMMA CrashStep ==
  ASSUME TypeOK, ShapeInv, TurnInv, ReadInv, CrashInv, [Next]_vars
  PROVE  CrashInv'
  <1>1. CASE UNCHANGED vars
    BY <1>1 DEF vars, CrashInv, NoClient
  <1>2. CASE Take \/ TakeReadDone \/ Tick \/ StartWrite \/ Expire \/ Select \/ End
    <2>1. pc' # "crash"
      BY <1>2 DEF Take, TakeReadDone, Tick, StartWrite, Expire, Select, SelectDone, SelectTimeout,
        End, FinalWrite, RunRelease, RunEnd
    <2> QED
      BY <2>1 DEF CrashInv
  <1>3. ASSUME NEW k \in DOMAIN w, Write(k), ~WritePanics(k)
        PROVE  CrashInv'
    <2>1. Kept(k)
      BY <1>3, WriteKept
    <2> QED
      BY <2>1 DEF CrashInv, Kept
  <1>4. ASSUME NEW k \in DOMAIN w, WritePanics(k)
        PROVE  CrashInv'
    <2>1. /\ pc # "crash" /\ w[k].todo # {} /\ NoClient(k) /\ ~client
          /\ UNCHANGED <<w, late, client, Writer>>
      BY <1>4 DEF WritePanics, NoClient
    <2>2. w[k].st \in {"gather", "call"}
      BY <2>1 DEF TurnInv, TypeOK
    <2>3. k \in late
      BY <2>1, <2>2 DEF TurnInv, ReadInv
    <2>4. NoClient(k)'
      BY <2>1 DEF NoClient
    <2> QED
      BY <2>1, <2>3, <2>4 DEF CrashInv
  <1> QED
    BY <1>1, <1>2, <1>3, <1>4 DEF Next

(* What the ops a write in time reads are: those of its batch, in order. *)
LEMMA GatherPrefix ==
  ASSUME TypeOK, ShapeInv, WaitInv, TurnInv, ReadInv, NEW k \in DOMAIN w, k \notin late,
         WriteGather(k)
  PROVE  IsPrefix(w'[k].read, w'[k].batch)
  <1> DEFINE i == Len(w[k].read) + 1
             n == heap[w[k].slice.arr][i]
  <1>1. /\ pc # "crash" /\ w[k].st = "gather" /\ i <= w[k].slice.len
        /\ w'[k].read = Append(w[k].read, n) /\ w'[k].batch = w[k].batch
    BY WriteGatherFields DEF Kept
  <1>2. Current(k) /\ w[k].slice = cacheList
    BY <1>1 DEF TurnInv, ReadInv
  <1>3. w[k].batch = Content(cacheList)
    BY <1>2 DEF WaitInv, Current
  <1>4. w[k].read \in Seq(0..MaxOps) /\ w[k].batch \in Seq(0..MaxOps) /\ cacheList.len \in Nat
    BY DEF TypeOK, Fits
  <1>5. i \in Nat /\ i > 0 /\ Len(w[k].read) = i - 1
    BY <1>4, LenProperties
  <1>6. /\ Len(w[k].batch) = cacheList.len
        /\ \A j \in 1..cacheList.len : w[k].batch[j] = heap[cacheList.arr][j]
    BY <1>3, CacheSeq
  <1>7. i \in 1..Len(w[k].batch) /\ n = w[k].batch[i]
    BY <1>1, <1>2, <1>4, <1>5, <1>6
  <1>8. n \in 0..MaxOps
    <2> HIDE DEF n
    <2> QED
      BY <1>4, <1>7, ElementOfSeq
  <1>9. /\ Len(w[k].read) <= Len(w[k].batch)
        /\ \A j \in 1..Len(w[k].read) : w[k].read[j] = w[k].batch[j]
    BY <1>4, PrefixPoints DEF ReadInv
  <1> DEFINE r == Append(w[k].read, n)
  <1> HIDE DEF n
  <1>10. /\ r \in Seq(0..MaxOps) /\ Len(r) = Len(w[k].read) + 1
         /\ \A j \in 1..Len(w[k].read) : r[j] = w[k].read[j]
         /\ r[Len(w[k].read) + 1] = n
    BY <1>4, <1>8, AppendProperties
  <1> HIDE DEF i, r
  <1>11. Len(r) = i /\ r[i] = n /\ \A j \in 1..(i - 1) : r[j] = w[k].read[j]
    BY <1>5, <1>10
  <1>12. Len(r) <= Len(w[k].batch)
    BY <1>5, <1>7, <1>11
  <1>13. \A j \in 1..Len(r) : r[j] = w[k].batch[j]
    BY <1>5, <1>7, <1>9, <1>11
  <1>14. IsPrefix(r, w[k].batch)
    BY <1>4, <1>10, <1>12, <1>13, PrefixPoints
  <1> QED
    BY <1>1, <1>14 DEF r

(* When it has read all of its slice, it has read its batch. *)
LEMMA GatheredAll ==
  ASSUME TypeOK, ShapeInv, WaitInv, TurnInv, ReadInv, NEW k \in DOMAIN w, k \notin late,
         WriteGathered(k)
  PROVE  w[k].read = w[k].batch
  <1>1. pc # "crash" /\ w[k].st = "gather" /\ Len(w[k].read) = w[k].slice.len
    BY WriteGatheredFields DEF Kept
  <1>2. Current(k) /\ w[k].slice = cacheList
    BY <1>1 DEF TurnInv, ReadInv
  <1>3. w[k].batch = Content(cacheList)
    BY <1>2 DEF WaitInv, Current
  <1>4. w[k].read \in Seq(0..MaxOps) /\ w[k].batch \in Seq(0..MaxOps)
    BY DEF TypeOK
  <1>5. Len(w[k].batch) = Len(w[k].read)
    BY <1>1, <1>2, <1>3, CacheSeq
  <1>6. \A j \in 1..Len(w[k].read) : w[k].read[j] = w[k].batch[j]
    BY <1>4, PrefixPoints DEF ReadInv
  <1> QED
    BY <1>4, <1>5, <1>6, SeqEqual

(* Every step keeps a write in time to its batch. *)
LEMMA ReadStep ==
  ASSUME TypeOK, ShapeInv, WaitInv, TurnInv, ReadInv, [Next]_vars
  PROVE  ReadInv'
  <1> USE DEF Waits, Current
  <1>1. CASE UNCHANGED vars
    BY <1>1 DEF vars, ReadInv
  <1>2. CASE Take \/ TakeReadDone \/ Tick \/ Select \/ RunRelease \/ RunEnd
    <2>1. UNCHANGED <<w, late>> /\ pc' \notin {"wait", "final"}
      BY <1>2 DEF Take, TakeReadDone, Tick, Select, SelectDone, SelectTimeout, RunRelease, RunEnd
    <2> QED
      BY <2>1 DEF ReadInv
  <1>3. CASE Expire
    <2>1. UNCHANGED <<w, pc, cacheList, client>> /\ late \subseteq late'
      BY <1>3 DEF Expire
    <2> QED
      BY <2>1 DEF ReadInv
  <1>4. CASE StartWrite \/ FinalWrite
    <2>1. /\ UNCHANGED <<heap, late>> /\ w' = Append(w, NewWrite(Content(cacheList)))
      BY <1>4 DEF StartWrite, FinalWrite
    <2>2. /\ Len(w') = Len(w) + 1 /\ DOMAIN w' = 1..Len(w') /\ DOMAIN w = 1..Len(w)
          /\ Len(w) \in Nat /\ w'[Len(w')] = NewWrite(Content(cacheList))
          /\ \A j \in DOMAIN w : w'[j] = w[j]
      BY <2>1, StartShape
    <2>3. \A j \in DOMAIN w' : (j \in DOMAIN w /\ j # Len(w')) \/ j = Len(w')
      BY <2>2
    <2>4. /\ w'[Len(w')].st = "begin" /\ w'[Len(w')].read = <<>>
          /\ w'[Len(w')].batch = Content(cacheList)
      BY <2>2 DEF NewWrite
    <2>5. IsPrefix(<<>>, Content(cacheList))
      <3>1. Content(cacheList) \in Seq(0..MaxOps) /\ <<>> \in Seq(0..MaxOps) /\ Len(<<>>) = 0
        BY CacheSeq, EmptySeq
      <3>2. Len(Content(cacheList)) \in Nat
        BY <3>1, LenProperties
      <3> DEFINE e == <<>>
      <3>3. /\ e \in Seq(0..MaxOps) /\ Len(e) <= Len(Content(cacheList))
            /\ \A j \in 1..Len(e) : e[j] = Content(cacheList)[j]
        BY <3>1, <3>2
      <3> HIDE DEF e
      <3>4. IsPrefix(e, Content(cacheList))
        BY <3>1, <3>3, PrefixPoints
      <3> QED
        BY <3>4 DEF e
    <2> QED
      BY <2>1, <2>2, <2>3, <2>4, <2>5 DEF ReadInv
  <1>5. ASSUME NEW k \in DOMAIN w, Write(k)
        PROVE  ReadInv'
    <2>1. CASE WritePanics(k)
      <3>1. UNCHANGED <<w, late>> /\ pc' = "crash"
        BY <2>1 DEF WritePanics
      <3> QED
        BY <3>1 DEF ReadInv
    <2>2. CASE ~WritePanics(k)
      <3>1. Kept(k) /\ w'[k].batch = w[k].batch
        BY <1>5, <2>2, WriteKept
      <3>2. Len(w') = Len(w) /\ DOMAIN w' = DOMAIN w /\ \A j \in DOMAIN w \ {k} : w'[j] = w[j]
        BY <3>1, KeptShape
      <3>3. UNCHANGED <<pc, cacheList, late>> /\ pc # "crash"
        BY <3>1 DEF Kept
      <3>4. client => client'
        BY <1>5, <2>2, WriteKept
      <3>5. ASSUME k \notin late
            PROVE  /\ IsPrefix(w'[k].read, w'[k].batch)
                   /\ w'[k].st = "call" => w'[k].read = w'[k].batch
                   /\ Current(k) =>
                        /\ w'[k].st \in {"connect", "gather", "call"} => w'[k].slice = cacheList
                        /\ w'[k].st \in {"begin", "connect"} => w'[k].read = <<>>
                        /\ w'[k].st \in {"gather", "call"} => client'
        <4>1. CASE WriteBegin(k)
          BY <3>1, <3>5, <4>1, WriteBeginFields DEF ReadInv
        <4>2. CASE WriteConnect(k)
          BY <3>1, <3>5, <4>2, WriteConnectFields DEF ReadInv
        <4>3. CASE WriteGather(k)
          BY <3>1, <3>5, <4>3, WriteGatherFields, GatherPrefix DEF ReadInv
        <4>4. CASE WriteGathered(k)
          BY <3>1, <3>5, <4>4, WriteGatheredFields, GatheredAll DEF ReadInv
        <4>5. CASE WriteCall(k)
          BY <3>1, <3>5, <4>5, WriteCallFields DEF ReadInv
        <4>6. CASE WriteReturn(k)
          BY <3>1, <3>5, <4>6, WriteReturnFields DEF ReadInv
        <4>7. CASE WriteSkip(k)
          BY <3>1, <3>5, <4>7, WriteSkipFields DEF ReadInv
        <4> QED
          BY <1>5, <2>2, <4>1, <4>2, <4>3, <4>4, <4>5, <4>6, <4>7 DEF Write
      <3> QED
        BY <3>2, <3>3, <3>4, <3>5 DEF ReadInv
    <2> QED
      BY <2>1, <2>2
  <1> QED
    BY <1>1, <1>2, <1>3, <1>4, <1>5 DEF Next, End

(* A step that moves no op between the cache and the batches. *)
LEMMA PartitionKept ==
  ASSUME BatchesPartition, pc # "crash", DOMAIN w' = DOMAIN w, taken' = taken,
         \A k \in DOMAIN w : w'[k].batch = w[k].batch, Cached' = Cached
  PROVE  BatchesPartition'
  <1>1. InBatches(DOMAIN w)' = InBatches(DOMAIN w)
    BY DEF InBatches
  <1>2. ToSet(Cached)' = ToSet(Cached)
    BY DEF ToSet
  <1> HIDE DEF Cached
  <1> QED
    BY <1>1, <1>2 DEF BatchesPartition, Ascends, Before

(* An op behind those of the cache. *)
LEMMA PartitionTake ==
  ASSUME TypeOK, BatchesPartition, pc # "crash", taken' = taken + 1, UNCHANGED w,
         Cached \in Seq(0..MaxOps), Cached' \in Seq(0..MaxOps), Len(Cached') = Len(Cached) + 1,
         \A i \in 1..Len(Cached) : Cached'[i] = Cached[i], Cached'[Len(Cached) + 1] = taken + 1
  PROVE  BatchesPartition'
  <1> DEFINE n == Len(Cached)
             B == InBatches(DOMAIN w)
             c == Cached
             d == Cached'
  <1>1. /\ n \in Nat /\ DOMAIN c = 1..n /\ DOMAIN d = 1..(n + 1) /\ taken \in Nat
        /\ \A i \in 1..n : d[i] = c[i]
        /\ d[n + 1] = taken + 1
    BY LenProperties, MaxOpsNat DEF TypeOK
  <1>2. B \cup ToSet(c) = 1..taken
    BY DEF BatchesPartition
  <1>3. \A i \in 1..n : c[i] \in 1..taken
    BY <1>1, <1>2 DEF ToSet
  <1>4. \A k \in DOMAIN w : \A i \in DOMAIN w[k].batch : w[k].batch[i] \in 1..taken
    BY <1>2 DEF InBatches, ToSet
  <1>5. B' = B
    BY DEF InBatches
  <1>6. /\ Ascends(c)
        /\ \A k \in DOMAIN w :
             /\ Ascends(w[k].batch) /\ Before(w[k].batch, c)
             /\ \A l \in DOMAIN w : k < l => Before(w[k].batch, w[l].batch)
    BY DEF BatchesPartition
  <1> HIDE DEF n, B, c, d
  <1>7. \A j \in DOMAIN d : j \in 1..n \/ j = n + 1
    BY <1>1
  <1>8. ToSet(d) = ToSet(c) \cup {taken + 1}
    <2>1. \A x \in ToSet(c) : x \in ToSet(d)
      BY <1>1 DEF ToSet
    <2>2. \A x \in ToSet(d) : x \in ToSet(c) \/ x = taken + 1
      BY <1>1, <1>7 DEF ToSet
    <2>3. taken + 1 \in ToSet(d)
      BY <1>1 DEF ToSet
    <2> QED
      BY <2>1, <2>2, <2>3
  <1>9. B \cup ToSet(d) = 1..(taken + 1)
    BY <1>1, <1>2, <1>8
  <1>10. Ascends(d)
    <2> SUFFICES ASSUME NEW i \in DOMAIN d, NEW j \in DOMAIN d, i < j
                 PROVE  d[i] < d[j]
      BY DEF Ascends
    <2>1. i \in 1..n
      BY <1>1
    <2>2. CASE j \in 1..n
      BY <1>1, <1>6, <2>1, <2>2 DEF Ascends
    <2>3. CASE j = n + 1
      BY <1>1, <1>3, <2>1, <2>3
    <2> QED
      BY <1>7, <2>2, <2>3
  <1>11. \A k \in DOMAIN w : Before(w[k].batch, d)
    <2> SUFFICES ASSUME NEW k \in DOMAIN w, NEW i \in DOMAIN w[k].batch, NEW j \in DOMAIN d
                 PROVE  w[k].batch[i] < d[j]
      BY DEF Before
    <2>1. CASE j \in 1..n
      BY <1>1, <1>6, <2>1 DEF Before
    <2>2. CASE j = n + 1
      BY <1>1, <1>4, <2>2
    <2> QED
      BY <1>7, <2>1, <2>2
  <1> HIDE DEF Cached
  <1> QED
    BY <1>5, <1>6, <1>9, <1>10, <1>11 DEF BatchesPartition, B, d

(* The cache becomes the next batch. *)
LEMMA PartitionStart ==
  ASSUME TypeOK, ShapeInv, BatchesPartition, pc \in {"select", "flush"},
         UNCHANGED <<heap, taken>>, w' = Append(w, NewWrite(Content(cacheList))), Cached' = <<>>
  PROVE  BatchesPartition'
  <1> DEFINE n == Len(w) + 1
             c == Content(cacheList)
  <1>1. /\ n \in Nat /\ DOMAIN w' = 1..n /\ DOMAIN w = 1..(n - 1)
        /\ \A j \in DOMAIN w : w'[j] = w[j]
        /\ w'[n] = NewWrite(c)
    BY StartShape
  <1>2. w'[n].batch = c
    BY <1>1 DEF NewWrite
  <1>3. /\ InBatches(DOMAIN w) \cup ToSet(c) = 1..taken /\ Ascends(c)
        /\ \A k \in DOMAIN w :
             /\ Ascends(w[k].batch) /\ Before(w[k].batch, c)
             /\ \A l \in DOMAIN w : k < l => Before(w[k].batch, w[l].batch)
    BY DEF BatchesPartition, Cached
  <1> HIDE DEF n, c
  <1>4. \A k \in DOMAIN w' : (k \in DOMAIN w /\ k # n) \/ k = n
    BY <1>1
  <1>5. \A k \in DOMAIN w : k \in DOMAIN w' /\ w'[k].batch = w[k].batch /\ k < n
    BY <1>1
  <1>6. n \in DOMAIN w'
    BY <1>1
  <1>7. InBatches(DOMAIN w)' = InBatches(DOMAIN w) \cup ToSet(c)
    <2>1. \A x : x \in InBatches(DOMAIN w)' <=> \E k \in DOMAIN w' : x \in ToSet(w'[k].batch)
      BY DEF InBatches
    <2>2. \A x : x \in InBatches(DOMAIN w) <=> \E k \in DOMAIN w : x \in ToSet(w[k].batch)
      BY DEF InBatches
    <2>3. \A x : x \in InBatches(DOMAIN w)' <=> x \in InBatches(DOMAIN w) \/ x \in ToSet(c)
      BY <1>2, <1>4, <1>5, <1>6, <2>1, <2>2
    <2> QED
      BY <2>3
  <1> DEFINE e == <<>>
  <1>8. DOMAIN e = {}
    OBVIOUS
  <1> HIDE DEF e
  <1>9. ToSet(e) = {} /\ Ascends(e) /\ \A k \in DOMAIN w' : Before(w'[k].batch, e)
    BY <1>8 DEF ToSet, Ascends, Before
  <1>10. \A k \in DOMAIN w' : Ascends(w'[k].batch)
    BY <1>2, <1>3, <1>4, <1>5
  <1>11. \A k, l \in DOMAIN w' : k < l => Before(w'[k].batch, w'[l].batch)
    <2> SUFFICES ASSUME NEW k \in DOMAIN w', NEW l \in DOMAIN w', k < l
                 PROVE  Before(w'[k].batch, w'[l].batch)
      OBVIOUS
    <2>1. k \in DOMAIN w
      BY <1>1
    <2> QED
      BY <1>2, <1>3, <1>4, <1>5, <2>1
  <1>12. Cached' = e
    BY DEF e
  <1> HIDE DEF Cached
  <1> QED
    BY <1>3, <1>7, <1>9, <1>10, <1>11, <1>12 DEF BatchesPartition

(* Every step keeps the ops apart and in order. *)
LEMMA PartitionStep ==
  ASSUME TypeOK, TypeOK', ShapeInv, BatchesPartition, [Next]_vars
  PROVE  BatchesPartition'
  <1>1. CASE UNCHANGED vars
    BY <1>1 DEF vars, BatchesPartition, Cached, Content, InBatches
  <1>2. CASE Take
    <2>1. /\ pc = "select" /\ pc' \in {"select", "flush"} /\ UNCHANGED w /\ taken' = taken + 1
          /\ taken + 1 \in Ops /\ AppendOp(taken + 1)
      BY <1>2, MaxOpsNat DEF Take, TypeOK, Ops
    <2>2. Cached = Content(cacheList) /\ Cached' = Content(cacheList)'
      BY <2>1 DEF Cached
    <2>3. /\ Content(cacheList) \in Seq(0..MaxOps) /\ Len(Content(cacheList)) = cacheList.len
      BY CacheSeq
    <2>4. /\ Content(cacheList)' \in Seq(0..MaxOps) /\ Len(Content(cacheList)') = cacheList'.len
          /\ \A i \in 1..cacheList'.len : Content(cacheList)'[i] = heap'[cacheList'.arr][i]
      BY CacheSeqNext
    <2>5. /\ cacheList'.len = cacheList.len + 1 /\ cacheList.len \in Nat
          /\ \A i \in 1..cacheList.len : heap'[cacheList'.arr][i] = Content(cacheList)[i]
          /\ heap'[cacheList'.arr][cacheList'.len] = taken + 1
      BY <2>1, AppendOpSteps DEF TypeOK, Fits
    <2> DEFINE c == Content(cacheList)
               d == Content(cacheList)'
    <2>6. /\ c \in Seq(0..MaxOps) /\ d \in Seq(0..MaxOps) /\ Len(d) = Len(c) + 1
          /\ \A i \in 1..Len(c) : d[i] = c[i]
          /\ d[Len(c) + 1] = taken + 1
      <3>1. \A i \in 1..cacheList.len : i \in 1..cacheList'.len
        BY <2>5
      <3>2. cacheList.len + 1 \in 1..cacheList'.len
        BY <2>5
      <3> HIDE DEF c, d
      <3>3. /\ c \in Seq(0..MaxOps) /\ d \in Seq(0..MaxOps)
            /\ Len(c) = cacheList.len /\ Len(d) = cacheList.len + 1
            /\ \A i \in 1..cacheList'.len : d[i] = heap'[cacheList'.arr][i]
            /\ \A i \in 1..cacheList.len : heap'[cacheList'.arr][i] = c[i]
        BY <2>3, <2>4, <2>5 DEF c, d
      <3> QED
        BY <2>5, <3>1, <3>2, <3>3
    <2> QED
      BY <2>1, <2>2, <2>6, PartitionTake
  <1>3. CASE TakeReadDone \/ Tick
    <2>1. /\ UNCHANGED <<w, heap, cacheList, taken>>
          /\ pc = "select" /\ pc' \in {"select", "flush"}
      BY <1>3 DEF TakeReadDone, Tick
    <2>2. Cached' = Cached
      BY <2>1 DEF Cached, Content
    <2> QED
      BY <2>1, <2>2, PartitionKept
  <1>4. CASE Expire \/ RunRelease \/ RunEnd
    <2>1. /\ UNCHANGED <<w, heap, cacheList, taken>>
          /\ pc \notin {"select", "flush", "crash"} /\ pc' \notin {"select", "flush"}
      BY <1>4 DEF Expire, RunRelease, RunEnd
    <2>2. Cached' = Cached
      BY <2>1 DEF Cached
    <2> QED
      BY <2>1, <2>2, PartitionKept
  <1>5. CASE Select
    <2>1. /\ UNCHANGED <<w, heap, taken>> /\ pc = "wait" /\ pc' = "select"
          /\ cacheList' = [cacheList EXCEPT !.len = 0]
      BY <1>5 DEF Select, SelectDone, SelectTimeout, ResetCache
    <2>2. Content(cacheList)' \in Seq(0..MaxOps) /\ Len(Content(cacheList)') = cacheList'.len
      BY CacheSeqNext
    <2>3. cacheList'.len = 0
      BY <2>1 DEF TypeOK, Fits
    <2>4. Content(cacheList)' = <<>>
      BY <2>2, <2>3, EmptySeq
    <2>5. Cached' = Cached
      BY <2>1, <2>4 DEF Cached
    <2> QED
      BY <2>1, <2>5, PartitionKept
  <1>6. CASE StartWrite \/ FinalWrite
    <2>1. /\ UNCHANGED <<heap, taken>> /\ pc \in {"select", "flush"} /\ pc' \in {"wait", "final"}
          /\ w' = Append(w, NewWrite(Content(cacheList)))
      BY <1>6 DEF StartWrite, FinalWrite
    <2>2. Cached' = <<>>
      BY <2>1 DEF Cached
    <2> QED
      BY <2>1, <2>2, PartitionStart
  <1>7. ASSUME NEW k \in DOMAIN w, Write(k)
        PROVE  BatchesPartition'
    <2>1. CASE WritePanics(k)
      BY <2>1 DEF WritePanics, BatchesPartition
    <2>2. CASE ~WritePanics(k)
      <3>1. Kept(k) /\ w'[k].batch = w[k].batch
        BY <1>7, <2>2, WriteKept
      <3>2. DOMAIN w' = DOMAIN w /\ \A j \in DOMAIN w \ {k} : w'[j] = w[j]
        BY <3>1, KeptShape
      <3>3. UNCHANGED <<pc, heap, cacheList, taken>> /\ pc # "crash"
        BY <3>1 DEF Kept
      <3>4. Cached' = Cached
        BY <3>3 DEF Cached, Content
      <3>5. \A j \in DOMAIN w : w'[j].batch = w[j].batch
        BY <3>1, <3>2
      <3> QED
        BY <3>2, <3>3, <3>4, <3>5, PartitionKept
    <2> QED
      BY <2>1, <2>2
  <1> QED
    BY <1>1, <1>2, <1>3, <1>4, <1>5, <1>6, <1>7 DEF Next, End

-----------------------------------------------------------------------------
(* Nothing is taken, no write has been started. *)
LEMMA InitInv ==
  ASSUME Init
  PROVE  BInv
  <1> USE DEF Init
  <1> DEFINE e == <<>>
  <1>1. heap = e /\ w = e /\ e \in Seq(Seq(0..MaxOps)) /\ Len(e) = 0 /\ DOMAIN e = {}
    BY EmptySeq
  <1> HIDE DEF e
  <1>2. TypeOK
    <2>1. {exitF, timer, expired, client, released, errC} \subseteq BOOLEAN
      OBVIOUS
    <2>2. Fits(cacheList, heap)
      BY <1>1 DEF Fits
    <2>3. taken \in 0..MaxOps
      BY MaxOpsNat
    <2> QED
      BY <1>1, <2>1, <2>2, <2>3 DEF TypeOK
  <1>3. ShapeInv
    <2>1. e = [k \in 1..0 |-> e[k]]
      BY DEF e
    <2> QED
      BY <1>1, <2>1 DEF ShapeInv
  <1>4. WaitInv /\ TurnInv /\ ReadInv /\ CrashInv
    BY <1>1 DEF WaitInv, TurnInv, ReadInv, CrashInv, Waits
  <1>5. LimitInv
    BY BatchAssumption DEF LimitInv
  <1>6. BatchesPartition
    <2>1. Cached = e
      BY DEF Cached, Content, e
    <2>2. InBatches(DOMAIN w) = {} /\ ToSet(e) = {} /\ Ascends(e)
      BY <1>1 DEF InBatches, ToSet, Ascends
    <2>3. 1..taken = {}
      OBVIOUS
    <2> HIDE DEF Cached
    <2> QED
      BY <1>1, <2>1, <2>2, <2>3 DEF BatchesPartition
  <1> QED
    BY <1>2, <1>3, <1>4, <1>5, <1>6 DEF BInv

(* The invariant holds of every state: in the initial one, and after every step
   of Run and of the writes. *)
THEOREM Invariance == Spec => []BInv
  <1>1. BInv /\ [Next]_vars => BInv'
    <2> SUFFICES ASSUME BInv, [Next]_vars
                 PROVE  BInv'
      OBVIOUS
    <2>1. /\ TypeOK /\ ShapeInv /\ WaitInv /\ TurnInv /\ ReadInv /\ CrashInv /\ LimitInv
          /\ BatchesPartition
      BY DEF BInv
    <2>2. TypeOK' /\ ShapeInv' /\ WaitInv'
      BY <2>1, TypeStep, ShapeStep, WaitStep
    <2>3. TurnInv' /\ ReadInv' /\ CrashInv'
      BY <2>1, TurnStep, ReadStep, CrashStep
    <2>4. LimitInv' /\ BatchesPartition'
      BY <2>1, <2>2, LimitStep, PartitionStep
    <2> QED
      BY <2>2, <2>3, <2>4 DEF BInv
  <1> QED
    BY <1>1, InitInv, PTL DEF Spec

(* The variables have their types, and the slices fit their arrays, however
   often append moves the cache (mongodb_writer.go:107-146). *)
THEOREM TypeCorrect == Spec => []TypeOK
  BY Invariance, PTL DEF BInv

(* A full cache never waits in select, whatever limit auto_bulk has set
   (elasticsearch_writer.go:129-143). *)
THEOREM NeverFull == Spec => []CacheBelowLimit
  <1>1. BInv => CacheBelowLimit
    BY DEF BInv, LimitInv, CacheBelowLimit
  <1> QED
    BY <1>1, Invariance, PTL

(* Every op received is in exactly one batch or in the cache, in its order
   (mongodb_writer.go:107-146). *)
THEOREM Partitioned == Spec => []BatchesPartition
  BY Invariance, PTL DEF BInv

(* A write that has not missed its deadline reads its batch and nothing else,
   and does not panic, though Run fills the same array again and releases the
   client (mongodb_writer.go:127-145, 263, 285). *)
THEOREM InTimeIsRight == Spec => []OnlyLateGoWrong
  <1>1. BInv => OnlyLateGoWrong
    BY DEF BInv, ReadInv, CrashInv, OnlyLateGoWrong
  <1> QED
    BY <1>1, Invariance, PTL
=============================================================================
