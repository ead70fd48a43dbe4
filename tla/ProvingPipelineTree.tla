------------------------- MODULE ProvingPipelineTree -------------------------
(***************************************************************************)
(* Proof that the handler's tree never holds two neighbouring Proved      *)
(* slots (NoAdjacentProved), for every number of chunks and every set of  *)
(* workers.  set_proof pairs a new proof with a proved neighbour whenever *)
(* there is one, so a Proved slot only ever has slots in progress next to *)
(* it.  The argument needs PipelineInv for one fact: a chunk's slot is    *)
(* created above every live slot.  The same invariant shows that a proof  *)
(* the tree holds is never replaced, and leaves the tree only inside the  *)
(* CombineRequest that merges it (ProofNeverLost).                         *)
(***************************************************************************)
EXTENDS ProvingPipelineSafety

(***************************************************************************)
(* Lemmas on the nearest live neighbour (range(..).next()/next_back()).    *)
(***************************************************************************)

(* The nearest slot above i is the only one with that property. *)
LEMMA NextUnique ==
    ASSUME NEW t, DOMAIN t \subseteq Nat, NEW i, NEW j, IsNext(t, i, j)
    PROVE  HasNext(t, i) /\ NextIndex(t, i) = j
<1>1. HasNext(t, i)
  BY DEF HasNext, IsNext
<1>2. IsNext(t, i, NextIndex(t, i))
  BY <1>1 DEF HasNext, NextIndex
<1>. QED
  BY <1>1, <1>2 DEF IsNext, Above

(* The nearest slot below i is the only one with that property. *)
LEMMA PrevUnique ==
    ASSUME NEW t, DOMAIN t \subseteq Nat, NEW i, NEW j, IsPrev(t, i, j)
    PROVE  HasPrev(t, i) /\ PrevIndex(t, i) = j
<1>1. HasPrev(t, i)
  BY DEF HasPrev, IsPrev
<1>2. IsPrev(t, i, PrevIndex(t, i))
  BY <1>1 DEF HasPrev, PrevIndex
<1>. QED
  BY <1>1, <1>2 DEF IsPrev, Below

(* Neighbours depend on the set of live slots only. *)
LEMMA SameDomainNext ==
    ASSUME NEW t, NEW u, DOMAIN t = DOMAIN u, NEW i
    PROVE  /\ HasNext(t, i) = HasNext(u, i)
           /\ NextIndex(t, i) = NextIndex(u, i)
BY DEF HasNext, NextIndex, IsNext, Above

(* A nearest neighbour in a larger set of slots that is also a slot of a  *)
(* smaller set is the nearest neighbour there.                            *)
LEMMA NextInSubset ==
    ASSUME NEW t, NEW u, DOMAIN t \subseteq DOMAIN u, NEW i,
           HasNext(u, i), NextIndex(u, i) \in DOMAIN t
    PROVE  IsNext(t, i, NextIndex(u, i))
<1>1. /\ NextIndex(u, i) > i
      /\ \A k \in DOMAIN u : k > i => NextIndex(u, i) <= k
  BY NextFacts
<1>. QED
  BY <1>1 DEF IsNext, Above

-----------------------------------------------------------------------------
(* The tree is left alone: nothing changes. *)
LEMMA TreeUnchanged ==
    ASSUME NoAdjacentProved, tree' = tree
    PROVE  NoAdjacentProved'
BY DEF NoAdjacentProved

(* init_node adds a slot in progress above every live slot. *)
LEMMA GwRiscvRequestTree ==
    ASSUME PipelineInv, NoAdjacentProved, GwRiscvRequest
    PROVE  NoAdjacentProved'
<1>0. PICK x : x = prodQ[1].idx
  OBVIOUS
<1>1. /\ tree' = InitNode(tree, x)
      /\ x \in Nat
      /\ \A i \in DOMAIN tree : i < x
      /\ DOMAIN tree \subseteq Nat
  <2>1. /\ prodQ # << >> /\ prodQ \in Seq(ProdMsg)
        /\ prodQ[1].type = "RiscvRequest"
        /\ tree' = InitNode(tree, x)
    BY <1>0 DEF GwRiscvRequest, PipelineInv, TypeOK
  <2>2. x \in Nat
    BY <1>0, <2>1, MsgIdxNat DEF PipelineInv
  <2>3. \A i \in DOMAIN tree : Span(i).hi < x /\ i <= Span(i).hi
    BY <1>0, <2>1 DEF PipelineInv, ProdPending, SlotsOrdered
  <2>. QED
    BY <2>1, <2>2, <2>3, SpanNat DEF PipelineInv
<1>2. /\ DOMAIN tree' = DOMAIN tree \cup {x}
      /\ DOMAIN tree' \subseteq Nat
      /\ tree'[x] = InProgress(<< >>)
      /\ \A i \in DOMAIN tree : tree'[i] = tree[i]
  BY <1>1 DEF InitNode
<1>3. SUFFICES ASSUME NEW i \in DOMAIN tree', tree'[i].kind = "Proved",
                      HasNext(tree', i),
                      tree'[NextIndex(tree', i)].kind = "Proved"
               PROVE  FALSE
  BY DEF NoAdjacentProved
<1>. DEFINE n == NextIndex(tree', i)
<1>4. i \in DOMAIN tree /\ tree[i].kind = "Proved"
  BY <1>2, <1>3 DEF InProgress
<1>5. n \in DOMAIN tree' /\ n # x
  BY <1>2, <1>3, NextFacts DEF InProgress
<1>6. IsNext(tree, i, n) /\ tree[n].kind = "Proved"
  BY <1>2, <1>3, <1>5, NextInSubset
<1>7. HasNext(tree, i) /\ NextIndex(tree, i) = n
  BY <1>1, <1>6, NextUnique
<1>. QED
  BY <1>4, <1>6, <1>7 DEF NoAdjacentProved

(* set_proof without a proved neighbour stores the proof: its neighbours  *)
(* are in progress, and it is nobody's proved neighbour.                  *)
LEMMA ProofStoredTree ==
    ASSUME NoAdjacentProved, NEW x \in DOMAIN tree, DOMAIN tree \subseteq Nat,
           ~HasSibling(tree, x), NEW p,
           tree' = [tree EXCEPT ![x] = Proved(p)]
    PROVE  NoAdjacentProved'
<1>1. /\ DOMAIN tree' = DOMAIN tree
      /\ tree'[x] = Proved(p)
      /\ \A j \in DOMAIN tree \ {x} : tree'[j] = tree[j]
  OBVIOUS
<1>2. SUFFICES ASSUME NEW i \in DOMAIN tree', tree'[i].kind = "Proved",
                      HasNext(tree', i),
                      tree'[NextIndex(tree', i)].kind = "Proved"
               PROVE  FALSE
  BY DEF NoAdjacentProved
<1>3. HasNext(tree, i) /\ NextIndex(tree', i) = NextIndex(tree, i)
  BY <1>1, <1>2, SameDomainNext
<1>. DEFINE n == NextIndex(tree, i)
<1>4. n \in DOMAIN tree /\ n > i /\ \A k \in DOMAIN tree : k > i => n <= k
  BY <1>3, NextFacts
<1>5. CASE i = x
  <2>1. ~NextProved(tree, x)
    BY DEF HasSibling
  <2>2. n # x /\ tree[n].kind # "Proved"
    BY <1>3, <1>4, <1>5, <2>1 DEF NextProved
  <2>. QED
    BY <1>1, <1>2, <1>3, <2>2
<1>6. CASE i # x /\ n = x
  <2>1. tree[i].kind = "Proved"
    BY <1>1, <1>2, <1>6
  <2>2. IsPrev(tree, x, i)
    BY <1>1, <1>2, <1>4, <1>6 DEF IsPrev, Below
  <2>3. HasPrev(tree, x) /\ PrevIndex(tree, x) = i
    BY <2>2, PrevUnique
  <2>. QED
    BY <2>1, <2>3 DEF HasSibling, PrevProved
<1>7. CASE i # x /\ n # x
  BY <1>1, <1>2, <1>3, <1>4, <1>7 DEF NoAdjacentProved
<1>. QED
  BY <1>5, <1>6, <1>7

(* set_proof with a proved neighbour s: s goes and x is in progress.  A  *)
(* proved slot whose new neighbour is proved had a proved neighbour       *)
(* before: that neighbour or s.                                           *)
LEMMA ProofPairedTree ==
    ASSUME NoAdjacentProved, DOMAIN tree \subseteq Nat,
           NEW x, NEW s \in DOMAIN tree, tree[s].kind = "Proved", NEW ps,
           tree' = [j \in DOMAIN tree \ {s} |->
                      IF j = x THEN InProgress(ps) ELSE tree[j]]
    PROVE  NoAdjacentProved'
<1>1. /\ DOMAIN tree' = DOMAIN tree \ {s}
      /\ \A j \in DOMAIN tree' : j # x => tree'[j] = tree[j]
      /\ x \in DOMAIN tree' => tree'[x].kind = "InProgress"
  BY DEF InProgress
<1>2. SUFFICES ASSUME NEW i \in DOMAIN tree', tree'[i].kind = "Proved",
                      HasNext(tree', i),
                      tree'[NextIndex(tree', i)].kind = "Proved"
               PROVE  FALSE
  BY DEF NoAdjacentProved
<1>. DEFINE n == NextIndex(tree', i)
<1>3. /\ n \in DOMAIN tree' /\ n > i
      /\ \A k \in DOMAIN tree' : k > i => n <= k
  BY <1>2, NextFacts
<1>4. /\ i # x /\ n # x
      /\ tree[i].kind = "Proved" /\ tree[n].kind = "Proved"
  BY <1>1, <1>2, <1>3
<1>5. CASE \E k \in DOMAIN tree : i < k /\ k < n
  <2>1. IsNext(tree, i, s)
    <3>1. s > i /\ s < n
      BY <1>1, <1>3, <1>5
    <3>. QED
      BY <1>1, <1>3, <3>1 DEF IsNext, Above
  <2>2. HasNext(tree, i) /\ NextIndex(tree, i) = s
    BY <2>1, NextUnique
  <2>. QED
    BY <1>1, <1>4, <2>2 DEF NoAdjacentProved
<1>6. CASE ~\E k \in DOMAIN tree : i < k /\ k < n
  <2>1. IsNext(tree, i, n)
    BY <1>1, <1>3, <1>6 DEF IsNext, Above
  <2>2. HasNext(tree, i) /\ NextIndex(tree, i) = n
    BY <2>1, NextUnique
  <2>. QED
    BY <1>1, <1>4, <2>2 DEF NoAdjacentProved
<1>. QED
  BY <1>5, <1>6

(* The gateway applies a worker's proof: set_proof either way. *)
LEMMA GwProofResponseTree ==
    ASSUME PipelineInv, NoAdjacentProved, GwProofResponse
    PROVE  NoAdjacentProved'
<1>0. PICK x, p : x = gq[1].idx /\ p = gq[1].proof
  OBVIOUS
<1>1. /\ tree' = SetProofTree(tree, x, p)
      /\ x \in DOMAIN tree
      /\ IsTree(tree)
      /\ DOMAIN tree \subseteq Nat
  <2>1. gq # << >> /\ gq[1].type \in {"RiscvResponse", "CombineResponse"}
    BY DEF GwProofResponse
  <2>2. 1 \in Replies
    BY <2>1 DEF PipelineInv, TypeOK, Replies
  <2>3. x \in DOMAIN tree
    BY <1>0, <2>2 DEF PipelineInv, TokensMatch, ReplyFor
  <2>. QED
    BY <1>0, <2>3, IndicesNat DEF GwProofResponse, PipelineInv, TypeOK, IsTree
<1>2. CASE ~HasSibling(tree, x)
  <2>1. tree' = [tree EXCEPT ![x] = Proved(p)]
    BY <1>1, <1>2 DEF SetProofTree
  <2>. QED
    BY <1>1, <1>2, <2>1, ProofStoredTree
<1>3. CASE HasSibling(tree, x)
  <2>1. /\ Sibling(tree, x) \in DOMAIN tree
        /\ tree[Sibling(tree, x)].kind = "Proved"
    BY <1>1, <1>3, SiblingProved
  <2>2. tree' = [j \in DOMAIN tree \ {Sibling(tree, x)} |->
                   IF j = x THEN InProgress(SiblingPair(tree, x, p))
                   ELSE tree[j]]
    BY <1>1, <1>3 DEF SetProofTree
  <2>. QED
    BY <1>1, <2>1, <2>2, ProofPairedTree
<1>. QED
  BY <1>2, <1>3

-----------------------------------------------------------------------------
(* NoAdjacentProved together with PipelineInv is kept by every step. *)
LEMMA NextTreeInv ==
    PipelineInv /\ NoAdjacentProved /\ [Next]_vars => NoAdjacentProved'
<1> SUFFICES ASSUME PipelineInv, NoAdjacentProved, [Next]_vars
             PROVE  NoAdjacentProved'
  OBVIOUS
<1>1. CASE GwRiscvRequest
  BY <1>1, GwRiscvRequestTree
<1>2. CASE GwProofResponse
  BY <1>2, GwProofResponseTree
<1>3. CASE ~GwRiscvRequest /\ ~GwProofResponse
  <2>1. tree' = tree
    BY <1>3 DEF Next, vars, Emulator, Gateway, Worker, ProveTask, EmitChunk,
       EmulatorDone, GwEmulatorComplete, GwEmbed, WorkerRecv, WorkerClosed,
       WorkerConvert, WorkerCombine, WorkerFastPath, WorkerFastPathFallback,
       WorkerStagePanic, AwaitCompletion, CompletionDropped, JoinProvers,
       JoinTimeout
  <2>. QED
    BY <2>1, TreeUnchanged
<1>. QED
  BY <1>1, <1>2, <1>3

(* The empty tree has no neighbours. *)
LEMMA InitNoAdjacentProved == Init => NoAdjacentProved
BY DEF Init, EmptyTree, NoAdjacentProved

(* The handler's tree never holds two neighbouring Proved slots: set_proof *)
(* (proof_tree.rs) pairs every new proof with a proved neighbour when it   *)
(* has one, so no merge the tree could make is left waiting.               *)
THEOREM NoAdjacentProvedHolds == Spec => []NoAdjacentProved
<1>1. Init => PipelineInv /\ NoAdjacentProved
  BY InitPipelineInv, InitNoAdjacentProved
<1>2. PipelineInv /\ NoAdjacentProved /\ [Next]_vars
        => (PipelineInv /\ NoAdjacentProved)'
  BY NextPipelineInv, NextTreeInv
<1>. QED
  BY <1>1, <1>2, PTL DEF Spec
-----------------------------------------------------------------------------
(***************************************************************************)
(* A Proved slot is never overwritten, and its proof leaves the tree only *)
(* inside the CombineRequest of the merge that removes it (ProofNeverLost).*)
(* Again PipelineInv carries the argument: every reply is for a slot in   *)
(* progress, and init_node writes above every live slot.                   *)
(***************************************************************************)

(* The proof of the sibling set_proof removes is one of the merged pair. *)
LEMMA SiblingInPair ==
    ASSUME NEW t, NEW i, NEW p, HasSibling(t, i)
    PROVE  t[Sibling(t, i)].proof \in {SiblingPair(t, i, p)[1],
                                        SiblingPair(t, i, p)[2]}
<1>1. CASE PrevProved(t, i)
  BY <1>1 DEF Sibling, SiblingPair
<1>2. CASE ~PrevProved(t, i)
  BY <1>2 DEF Sibling, SiblingPair
<1>. QED
  BY <1>1, <1>2

(* init_node leaves every live slot as it was. *)
LEMMA GwRiscvRequestKept ==
    ASSUME PipelineInv, GwRiscvRequest
    PROVE  ProvedUntilCombined
<1>0. PICK x : x = prodQ[1].idx
  OBVIOUS
<1>1. /\ tree' = InitNode(tree, x)
      /\ x \in Nat
      /\ \A i \in DOMAIN tree : i < x
      /\ DOMAIN tree \subseteq Nat
  <2>1. /\ prodQ # << >> /\ prodQ \in Seq(ProdMsg)
        /\ prodQ[1].type = "RiscvRequest"
        /\ tree' = InitNode(tree, x)
    BY <1>0 DEF GwRiscvRequest, PipelineInv, TypeOK
  <2>2. x \in Nat
    BY <1>0, <2>1, MsgIdxNat DEF PipelineInv
  <2>3. \A i \in DOMAIN tree : Span(i).hi < x /\ i <= Span(i).hi
    BY <1>0, <2>1 DEF PipelineInv, ProdPending, SlotsOrdered
  <2>. QED
    BY <2>1, <2>2, <2>3, SpanNat DEF PipelineInv
<1>2. \A i \in DOMAIN tree : i \in DOMAIN tree' /\ tree'[i] = tree[i]
  BY <1>1 DEF InitNode
<1>. QED
  BY <1>2 DEF ProvedUntilCombined

(* set_proof writes to a slot in progress and removes at most the proved *)
(* sibling, whose proof goes into the CombineRequest queued by the step.  *)
LEMMA GwProofResponseKept ==
    ASSUME PipelineInv, GwProofResponse
    PROVE  ProvedUntilCombined
<1>0. PICK x, p : x = gq[1].idx /\ p = gq[1].proof
  OBVIOUS
<1>1. /\ tree' = SetProofTree(tree, x, p)
      /\ x \in DOMAIN tree
      /\ tree[x].kind = "InProgress"
      /\ IsTree(tree)
      /\ wq \in Seq(WorkMsg)
  <2>1. gq # << >> /\ gq[1].type \in {"RiscvResponse", "CombineResponse"}
    BY DEF GwProofResponse
  <2>2. 1 \in Replies
    BY <2>1 DEF PipelineInv, TypeOK, Replies
  <2>3. x \in DOMAIN tree /\ tree[x].kind = "InProgress"
    BY <1>0, <2>2 DEF PipelineInv, TokensMatch, ReplyFor
  <2>. QED
    BY <1>0, <2>3 DEF GwProofResponse, PipelineInv, TypeOK
<1>2. SUFFICES ASSUME NEW i \in DOMAIN tree, tree[i].kind = "Proved"
               PROVE  \/ i \in DOMAIN tree' /\ tree'[i] = tree[i]
                      \/ /\ i \notin DOMAIN tree'
                         /\ \E k \in 1 .. Len(wq') :
                              /\ wq'[k].type = "CombineRequest"
                              /\ tree[i].proof \in {wq'[k].proofs[1],
                                                    wq'[k].proofs[2]}
  BY DEF ProvedUntilCombined
<1>3. i # x
  BY <1>1, <1>2
<1>4. CASE ~HasSibling(tree, x)
  <2>1. tree' = [tree EXCEPT ![x] = Proved(p)]
    BY <1>1, <1>4 DEF SetProofTree
  <2>. QED
    BY <1>2, <1>3, <2>1
<1>5. CASE HasSibling(tree, x)
  <2>. DEFINE s == Sibling(tree, x)
              ps == SiblingPair(tree, x, p)
  <2>1. tree' = [j \in DOMAIN tree \ {s} |->
                   IF j = x THEN InProgress(ps) ELSE tree[j]]
    BY <1>1, <1>5 DEF SetProofTree
  <2>2. CASE i # s
    BY <1>2, <1>3, <2>1, <2>2
  <2>3. CASE i = s
    <3>1. i \notin DOMAIN tree'
      BY <2>1, <2>3
    <3>2. wq' = Append(wq, CombineRequest(FlagComplete(tree'), x, ps))
      BY <1>0, <1>5 DEF GwProofResponse
    <3>3. /\ Len(wq') = Len(wq) + 1
          /\ wq'[Len(wq) + 1] = CombineRequest(FlagComplete(tree'), x, ps)
      BY <1>1, <3>2
    <3>4. tree[i].proof \in {ps[1], ps[2]}
      BY <1>5, <2>3, SiblingInPair
    <3>. QED
      BY <3>1, <3>3, <3>4, <1>1 DEF CombineRequest
  <2>. QED
    BY <2>2, <2>3
<1>. QED
  BY <1>4, <1>5

(* Every step keeps the proofs the tree holds, given PipelineInv. *)
LEMMA NextProvedKept ==
    PipelineInv /\ [Next]_vars => [ProvedUntilCombined]_vars
<1> SUFFICES ASSUME PipelineInv, [Next]_vars
             PROVE  [ProvedUntilCombined]_vars
  OBVIOUS
<1>1. CASE GwRiscvRequest
  BY <1>1, GwRiscvRequestKept
<1>2. CASE GwProofResponse
  BY <1>2, GwProofResponseKept
<1>3. CASE ~GwRiscvRequest /\ ~GwProofResponse
  <2>1. tree' = tree
    BY <1>3 DEF Next, vars, Emulator, Gateway, Worker, ProveTask, EmitChunk,
       EmulatorDone, GwEmulatorComplete, GwEmbed, WorkerRecv, WorkerClosed,
       WorkerConvert, WorkerCombine, WorkerFastPath, WorkerFastPathFallback,
       WorkerStagePanic, AwaitCompletion, CompletionDropped, JoinProvers,
       JoinTimeout
  <2>. QED
    BY <2>1 DEF ProvedUntilCombined
<1>. QED
  BY <1>1, <1>2, <1>3

(* A proof stored in the handler's tree is never lost or replaced: a       *)
(* Proved slot keeps its node until set_proof (proof_tree.rs) removes it  *)
(* as a sibling, and the same gateway step queues the CombineRequest that *)
(* carries its proof to the workers.                                       *)
THEOREM ProofNeverLostHolds == Spec => ProofNeverLost
<1>1. Init => PipelineInv
  BY InitPipelineInv
<1>2. PipelineInv /\ [Next]_vars => PipelineInv'
  BY NextPipelineInv
<1>3. PipelineInv /\ [Next]_vars => [ProvedUntilCombined]_vars
  BY NextProvedKept
<1>. QED
  BY <1>1, <1>2, <1>3, PTL DEF Spec, ProofNeverLost
====
