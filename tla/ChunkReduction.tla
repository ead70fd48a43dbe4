---------------------------- MODULE ChunkReduction ----------------------------
(***************************************************************************)
(* What the proving pipeline promises (spec sections 1, 3 and 4.1): chunk  *)
(* indices are registered in producer order, each as the range of one      *)
(* chunk; two adjacent ranges are reduced into the range covering both;    *)
(* the final proof is produced once one range covers every chunk.  Which   *)
(* worker proves what, in which order proofs come back, and the tree's     *)
(* InProgress / Proved bookkeeping are all left out.                       *)
(***************************************************************************)
EXTENDS Naturals

CONSTANT NChunks

VARIABLES
    segs,   \* the chunk ranges of the live slots
    next,   \* the next chunk index to register
    final   \* the final proof's range, as << >> or << r >>

Seg(lo, hi) == [lo |-> lo, hi |-> hi]

FullSeg == Seg(0, NChunks - 1)

Init ==
    /\ segs = {}
    /\ next = 0
    /\ final = << >>

(* A chunk is registered as a slot of its own. *)
Register ==
    /\ next < NChunks
    /\ segs' = segs \cup {Seg(next, next)}
    /\ next' = next + 1
    /\ UNCHANGED final

(* Two adjacent ranges are reduced to one. *)
Reduce ==
    \E a, b \in segs :
      /\ a.hi + 1 = b.lo
      /\ segs' = (segs \ {a, b}) \cup {Seg(a.lo, b.hi)}
      /\ UNCHANGED <<next, final>>

(* The final proof covers every chunk. *)
Finish ==
    /\ final = << >>
    /\ segs = {FullSeg}
    /\ final' = << FullSeg >>
    /\ UNCHANGED <<segs, next>>

Next == Register \/ Reduce \/ Finish

Spec == Init /\ [][Next]_<<segs, next, final>>

-----------------------------------------------------------------------------
(* The live ranges partition the registered chunks 0 .. next - 1: each is *)
(* a non-empty interval of them, and no two overlap.                       *)
Partition ==
    /\ next \in 0 .. NChunks
    /\ \A a \in segs : a.lo \in Nat /\ a.hi \in Nat /\ a.lo <= a.hi
                         /\ a.hi < next
    /\ \A a, b \in segs : a # b => a.hi < b.lo \/ b.hi < a.lo
    /\ \A i \in 0 .. next - 1 : \E a \in segs : a.lo <= i /\ i <= a.hi

(* The final proof, once there, covers every chunk. *)
FinalCoversAll == final # << >> => final = << FullSeg >>
=============================================================================
