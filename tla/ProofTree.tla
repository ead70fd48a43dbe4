------------------------------ MODULE ProofTree ------------------------------
(***************************************************************************)
(* The ProofTree of src/proving/gateway/handler/proof_tree.rs: an ordered  *)
(* map from chunk index to ProofNode, with init_node and set_proof.        *)
(*                                                                         *)
(* A tree is a TLA+ function whose domain is the set of live slot indices  *)
(* (the keys of the BTreeMap).  A proof is abstracted to the inclusive     *)
(* chunk range [lo, hi] it attests; the cryptographic payload (Arc<P>) is  *)
(* left out.  The module has no variables: the tree is state of the        *)
(* GatewayHandler and is held by ProvingPipeline.                          *)
(***************************************************************************)
EXTENDS Naturals, FiniteSets, Sequences

CONSTANT Indices        \* the chunk indices the producer can emit

(* IndexedProof { start_chunk, end_chunk } *)
Proof == [lo : Indices, hi : Indices]

(* The proof of a single chunk, as riscv_convert builds it. *)
ChunkProof(i) == [lo |-> i, hi |-> i]

(* Mutant: the merged range ends one chunk too far. *)
CombineOffByOne(p, q) == [lo |-> p.lo, hi |-> q.hi + 1]

(* combine: IndexedProof::new(proof, start_a, end_b) *)
Combine(p, q) == [lo |-> p.lo, hi |-> q.hi]

(* ProofNode::InProgress(Vec<IndexedProof>) and ProofNode::Proved(..) *)
InProgress(ps) == [kind |-> "InProgress", parts |-> ps]
Proved(p)      == [kind |-> "Proved", proof |-> p]

Node == [kind : {"InProgress"}, parts : {<<>>} \cup (Proof \X Proof)]
          \cup [kind : {"Proved"}, proof : Proof]

IsTree(t) == /\ DOMAIN t \subseteq Indices
             /\ t \in [DOMAIN t -> Node]

(* ProofTree::default() *)
EmptyTree == [i \in {} |-> InProgress(<<>>)]

(* ProofTree::len() *)
TreeLen(t) == Cardinality(DOMAIN t)

(* init_node: insert ProofNode::init() at index (the caller asserts that  *)
(* the index was absent).                                                 *)
InitNode(t, i) == [j \in DOMAIN t \cup {i} |->
                      IF j = i THEN InProgress(<<>>) ELSE t[j]]

(* tree.range(..index).next_back() and                                   *)
(* tree.range((Excluded(index), Unbounded)).next(): the nearest live slot *)
(* strictly before / after index.                                        *)
Below(t, i) == {j \in DOMAIN t : j < i}
Above(t, i) == {j \in DOMAIN t : j > i}
IsPrev(t, i, j) == j \in Below(t, i) /\ \A k \in Below(t, i) : k <= j
IsNext(t, i, j) == j \in Above(t, i) /\ \A k \in Above(t, i) : j <= k
HasPrev(t, i) == \E j \in Below(t, i) : IsPrev(t, i, j)
HasNext(t, i) == \E j \in Above(t, i) : IsNext(t, i, j)
PrevIndex(t, i) == CHOOSE j \in Below(t, i) : IsPrev(t, i, j)
NextIndex(t, i) == CHOOSE j \in Above(t, i) : IsNext(t, i, j)

(* The `if let Some((_, ProofNode::Proved(_)))` tests. *)
PrevProved(t, i) == HasPrev(t, i) /\ t[PrevIndex(t, i)].kind = "Proved"
NextProved(t, i) == HasNext(t, i) /\ t[NextIndex(t, i)].kind = "Proved"

(* Mutant: only the left neighbour is looked at. *)
HasSiblingLeftOnly(t, i) == PrevProved(t, i)

(* index_proofs: the sibling is the left neighbour when it is proved,     *)
(* otherwise the right one when that is proved, otherwise none.           *)
HasSibling(t, i) == PrevProved(t, i) \/ NextProved(t, i)
Sibling(t, i) == IF PrevProved(t, i) THEN PrevIndex(t, i) ELSE NextIndex(t, i)

(* Mutant: the right neighbour's proof is put first. *)
SiblingPairSwapped(t, i, p) ==
    IF PrevProved(t, i) THEN << t[PrevIndex(t, i)].proof, p >>
                        ELSE << t[NextIndex(t, i)].proof, p >>

(* The pair set_proof returns, in ascending order. *)
SiblingPair(t, i, p) ==
    IF PrevProved(t, i) THEN << t[PrevIndex(t, i)].proof, p >>
                        ELSE << p, t[NextIndex(t, i)].proof >>

(* Mutant: the merging slot is stored as Proved instead of InProgress. *)
SetProofTreeKeepProved(t, i, p) ==
    IF HasSibling(t, i)
    THEN [j \in DOMAIN t \ {Sibling(t, i)} |->
            IF j = i THEN Proved(p) ELSE t[j]]
    ELSE [t EXCEPT ![i] = Proved(p)]

(* Mutant: the merge result is written at the sibling's key and index is *)
(* the key removed.                                                       *)
SetProofTreeWrongSlot(t, i, p) ==
    IF HasSibling(t, i)
    THEN [j \in DOMAIN t \ {i} |->
            IF j = Sibling(t, i) THEN InProgress(SiblingPair(t, i, p))
                                 ELSE t[j]]
    ELSE [t EXCEPT ![i] = Proved(p)]

(* The tree after set_proof(index, proof): with a sibling, the sibling    *)
(* slot is removed and index holds InProgress(pair); without one, index   *)
(* holds Proved(proof).                                                   *)
SetProofTree(t, i, p) ==
    IF HasSibling(t, i)
    THEN [j \in DOMAIN t \ {Sibling(t, i)} |->
            IF j = i THEN InProgress(SiblingPair(t, i, p)) ELSE t[j]]
    ELSE [t EXCEPT ![i] = Proved(p)]
=============================================================================
