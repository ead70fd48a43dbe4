-------------------------- MODULE ChunkReductionProofs --------------------------
(***************************************************************************)
(* Proofs about the abstract reduction that ProvingPipeline implements.    *)
(***************************************************************************)
EXTENDS ChunkReduction, TLAPS

(* A reduced range is disjoint from every range disjoint from both of its  *)
(* adjacent halves: nothing fits between a.hi and a.hi + 1.                *)
LEMMA ReducedDisjoint ==
    ASSUME NEW a, NEW b, NEW d,
           a.lo \in Nat, a.hi \in Nat, b.lo \in Nat, b.hi \in Nat,
           d.lo \in Nat, d.hi \in Nat, d.lo <= d.hi,
           a.hi + 1 = b.lo,
           d.hi < a.lo \/ a.hi < d.lo,
           d.hi < b.lo \/ b.hi < d.lo
    PROVE  d.hi < a.lo \/ b.hi < d.lo
OBVIOUS

(* The initial state is a partition of no chunks. *)
LEMMA InitPartition ==
    ASSUME NChunks \in Nat
    PROVE  Init => Partition
BY DEF Init, Partition

(* Every step of the reduction keeps the live ranges a partition of the    *)
(* registered chunks.                                                      *)
LEMMA NextPartition ==
    ASSUME NChunks \in Nat
    PROVE  Partition /\ [Next]_<<segs, next, final>> => Partition'
<1> SUFFICES ASSUME Partition, [Next]_<<segs, next, final>> PROVE Partition'
  OBVIOUS
<1>1. CASE Register
  <2>. DEFINE n == Seg(next, next)
  <2>1. segs' = segs \cup {n} /\ next' = next + 1 /\ next < NChunks
    BY <1>1 DEF Register
  <2>2. next' \in 0 .. NChunks
    BY <2>1 DEF Partition
  <2>3. \A x \in segs' : x.lo \in Nat /\ x.hi \in Nat /\ x.lo <= x.hi
                          /\ x.hi < next'
    BY <2>1 DEF Partition, Seg
  <2>4. \A x, y \in segs' : x # y => x.hi < y.lo \/ y.hi < x.lo
    BY <2>1 DEF Partition, Seg
  <2>5. ASSUME NEW i \in 0 .. next' - 1
        PROVE  \E x \in segs' : x.lo <= i /\ i <= x.hi
    <3>1. CASE i = next
      <4>1. n \in segs' /\ n.lo <= i /\ i <= n.hi
        BY <2>1, <3>1 DEF n, Seg
      <4>. QED
        BY <4>1
    <3>2. CASE i < next
      <4>1. i \in 0 .. next - 1
        BY <2>1, <3>2 DEF Partition
      <4>2. PICK d \in segs : d.lo <= i /\ i <= d.hi
        BY <4>1 DEF Partition
      <4>. QED
        BY <2>1, <4>2
    <3>. QED
      BY <2>1, <3>1, <3>2 DEF Partition
  <2>. QED
    BY <2>2, <2>3, <2>4, <2>5 DEF Partition
<1>2. CASE Reduce
  <2>1. PICK a \in segs, b \in segs :
          /\ a.hi + 1 = b.lo
          /\ segs' = (segs \ {a, b}) \cup {Seg(a.lo, b.hi)}
          /\ UNCHANGED <<next, final>>
    BY <1>2 DEF Reduce
  <2>. DEFINE c == Seg(a.lo, b.hi)
  <2>2. a # b
    BY <2>1 DEF Partition
  <2>3. \A x \in segs' : x.lo \in Nat /\ x.hi \in Nat /\ x.lo <= x.hi
                          /\ x.hi < next'
    BY <2>1 DEF Partition, Seg
  <2>4. ASSUME NEW d \in segs \ {a, b} PROVE d.hi < c.lo \/ c.hi < d.lo
    <3>1. (d.hi < a.lo \/ a.hi < d.lo) /\ (d.hi < b.lo \/ b.hi < d.lo)
      BY <2>2 DEF Partition
    <3>. QED
      BY <2>1, <3>1, ReducedDisjoint DEF Partition, Seg
  <2>5. \A x, y \in segs' : x # y => x.hi < y.lo \/ y.hi < x.lo
    BY <2>1, <2>4 DEF Partition
  <2>6. \A i \in 0 .. next' - 1 : \E x \in segs' : x.lo <= i /\ i <= x.hi
    <3>1. SUFFICES ASSUME NEW i \in 0 .. next - 1
                   PROVE  \E x \in segs' : x.lo <= i /\ i <= x.hi
      BY <2>1
    <3>2. PICK d \in segs : d.lo <= i /\ i <= d.hi
      BY DEF Partition
    <3>3. CASE d \in {a, b}
      <4>1. c.lo <= i /\ i <= c.hi
        BY <2>1, <3>2, <3>3 DEF Partition, Seg
      <4>. QED
        BY <2>1, <4>1
    <3>4. CASE d \notin {a, b}
      BY <2>1, <3>2, <3>4
    <3>. QED
      BY <3>3, <3>4
  <2>. QED
    BY <2>1, <2>3, <2>5, <2>6 DEF Partition
<1>3. CASE Finish
  BY <1>3 DEF Finish, Partition
<1>4. CASE UNCHANGED <<segs, next, final>>
  BY <1>4 DEF Partition
<1>. QED
  BY <1>1, <1>2, <1>3, <1>4 DEF Next

(* The live ranges of the reduction always partition the registered       *)
(* chunks into disjoint intervals, for every number of chunks: no chunk is *)
(* proved twice and none is dropped (spec section 3: exactly one node per  *)
(* live slot, the merge result occupying exactly one surviving slot).      *)
(* Through ReducesChunks this holds of the proof tree of prove_task.       *)
THEOREM PartitionHolds ==
    ASSUME NChunks \in Nat
    PROVE  Spec => []Partition
BY InitPartition, NextPartition, PTL DEF Spec
=============================================================================
