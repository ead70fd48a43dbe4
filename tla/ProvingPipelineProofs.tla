------------------------ MODULE ProvingPipelineProofs ------------------------
(***************************************************************************)
(* Proofs about ProvingPipeline, for every number of chunks and workers.   *)
(***************************************************************************)
EXTENDS ProvingPipeline, SequenceTheorems, TLAPS

(***************************************************************************)
(* Lemmas on the ProofTree operators.                                      *)
(***************************************************************************)

(* Merging two proofs yields a proof. *)
LEMMA CombineType ==
    ASSUME NEW p \in Proof, NEW q \in Proof
    PROVE  Combine(p, q) \in Proof
BY DEF Combine, Proof

(* init_node keeps the tree well formed. *)
LEMMA InitNodeType ==
    ASSUME NEW t, IsTree(t), NEW i \in Indices
    PROVE  IsTree(InitNode(t, i))
BY DEF IsTree, InitNode, InProgress, Node

(* The neighbour set_proof pairs with is a live, proved slot. *)
LEMMA SiblingProved ==
    ASSUME NEW t, IsTree(t), NEW i, HasSibling(t, i)
    PROVE  /\ Sibling(t, i) \in DOMAIN t
           /\ t[Sibling(t, i)].kind = "Proved"
           /\ t[Sibling(t, i)].proof \in Proof
<1>1. CASE PrevProved(t, i)
  <2>1. PrevIndex(t, i) \in DOMAIN t
    BY <1>1 DEF PrevProved, HasPrev, PrevIndex, Below
  <2>2. t[PrevIndex(t, i)] \in Node
    BY <2>1 DEF IsTree
  <2>. QED
    BY <1>1, <2>1, <2>2 DEF Sibling, PrevProved, Node
<1>2. CASE ~PrevProved(t, i)
  <2>1. NextProved(t, i)
    BY <1>2 DEF HasSibling
  <2>2. NextIndex(t, i) \in DOMAIN t
    BY <2>1 DEF NextProved, HasNext, NextIndex, Above
  <2>3. t[NextIndex(t, i)] \in Node
    BY <2>2 DEF IsTree
  <2>. QED
    BY <1>2, <2>1, <2>2, <2>3 DEF Sibling, NextProved, Node
<1>. QED
  BY <1>1, <1>2

(* The pair set_proof returns is a pair of proofs. *)
LEMMA SiblingPairType ==
    ASSUME NEW t, IsTree(t), NEW i, NEW p \in Proof, HasSibling(t, i)
    PROVE  SiblingPair(t, i, p) \in Proof \X Proof
<1>1. t[Sibling(t, i)].proof \in Proof
  BY SiblingProved
<1>. QED
  BY <1>1 DEF SiblingPair, Sibling

(* set_proof keeps the tree well formed. *)
LEMMA SetProofType ==
    ASSUME NEW t, IsTree(t), NEW i \in Indices, NEW p \in Proof
    PROVE  IsTree(SetProofTree(t, i, p))
<1>1. CASE HasSibling(t, i)
  <2>1. InProgress(SiblingPair(t, i, p)) \in Node
    BY <1>1, SiblingPairType DEF InProgress, Node
  <2>. QED
    BY <1>1, <2>1 DEF SetProofTree, IsTree
<1>2. CASE ~HasSibling(t, i)
  BY <1>2 DEF SetProofTree, IsTree, Proved, Node
<1>. QED
  BY <1>1, <1>2

-----------------------------------------------------------------------------
(***************************************************************************)
(* Type correctness.                                                       *)
(***************************************************************************)

(* The initial state is well typed. *)
LEMMA InitTypeOK == Init => TypeOK
<1>. USE NChunksAssumption, PartialVerifyAssumption
<1>1. Init => TypeOK
  <2> SUFFICES ASSUME Init PROVE TypeOK
    OBVIOUS
  <2>1. IsTree(tree)
    BY DEF Init, EmptyTree, IsTree
  <2>2. job \in [Workers -> WorkMsg \cup {NoJob}]
    BY DEF Init
  <2>3. prodQ \in Seq(ProdMsg) /\ wq \in Seq(WorkMsg) /\ gq \in Seq(ReplyMsg)
    BY EmptySeq DEF Init
  <2>4. embedProof \in {<< >>} \cup {<< p >> : p \in Proof}
    BY DEF Init
  <2>5. emitted \in 0 .. NChunks
    BY DEF Init
  <2>6. wstate \in [Workers -> {"idle", "busy", "exited"}]
    BY DEF Init
  <2>7. /\ emulatorComplete \in BOOLEAN
        /\ gw \in {"running", "exited"}
        /\ result \in {"none", "proof", "empty", "dropped"}
        /\ phase \in {"emulating", "awaiting", "joining", "returned"}
    BY DEF Init
  <2>. QED
    BY <2>1, <2>2, <2>3, <2>4, <2>5, <2>6, <2>7 DEF TypeOK
<1>. QED
  BY <1>1

(* Every step keeps each variable within its type. *)
LEMMA NextTypeOK == TypeOK /\ [Next]_vars => (TypeOK')
<1>. USE NChunksAssumption, PartialVerifyAssumption
<1>2. TypeOK /\ [Next]_vars => TypeOK'
  <2> SUFFICES ASSUME TypeOK, [Next]_vars PROVE TypeOK'
    OBVIOUS
  <2>1. CASE EmitChunk
    BY <2>1 DEF EmitChunk, TypeOK, RiscvRequest, ProdMsg, Indices
  <2>2. CASE EmulatorDone
    BY <2>2 DEF EmulatorDone, TypeOK, EmulatorCompleteMsg, ProdMsg
  <2>3. CASE GwRiscvRequest
    <3>1. Head(prodQ) \in ProdMsg /\ Tail(prodQ) \in Seq(ProdMsg)
      BY <2>3, HeadTailProperties DEF GwRiscvRequest, TypeOK
    <3>2. Head(prodQ) \in [type : {"RiscvRequest"}, idx : Indices]
      BY <2>3, <3>1 DEF GwRiscvRequest, ProdMsg, EmulatorCompleteMsg
    <3>3. IsTree(tree')
      BY <2>3, <3>2, InitNodeType DEF GwRiscvRequest, TypeOK
    <3>4. wq' \in Seq(WorkMsg)
      <4>1. Head(prodQ) \in WorkMsg
        BY <3>2 DEF WorkMsg
      <4>. QED
        BY <2>3, <4>1, AppendProperties DEF GwRiscvRequest, TypeOK
    <3>. QED
      BY <2>3, <3>1, <3>3, <3>4 DEF GwRiscvRequest, TypeOK
  <2>4. CASE GwEmulatorComplete
    <3>1. Tail(prodQ) \in Seq(ProdMsg)
      BY <2>4, HeadTailProperties DEF GwEmulatorComplete, TypeOK
    <3>. QED
      BY <2>4, <3>1 DEF GwEmulatorComplete, TypeOK
  <2>5. CASE GwProofResponse
    <3> DEFINE m == Head(gq)
    <3>1. m \in ReplyMsg /\ Tail(gq) \in Seq(ReplyMsg)
      BY <2>5, HeadTailProperties DEF GwProofResponse, TypeOK
    <3>2. m.idx \in Indices /\ m.proof \in Proof
      BY <2>5, <3>1 DEF GwProofResponse, ReplyMsg, ExitMsg
    <3>3. IsTree(tree')
      BY <2>5, <3>2, SetProofType DEF GwProofResponse, TypeOK
    <3>4. wq' \in Seq(WorkMsg)
      <4>1. CASE HasSibling(tree, m.idx)
        <5>1. SiblingPair(tree, m.idx, m.proof) \in Proof \X Proof
          BY <4>1, <3>2, SiblingPairType DEF TypeOK
        <5>2. CombineRequest(FlagComplete(tree'), m.idx,
                             SiblingPair(tree, m.idx, m.proof)) \in WorkMsg
          BY <3>2, <5>1 DEF CombineRequest, FlagComplete, WorkMsg
        <5>. QED
          BY <2>5, <4>1, <5>2 DEF GwProofResponse, TypeOK
      <4>2. CASE ~HasSibling(tree, m.idx)
        BY <2>5, <4>2 DEF GwProofResponse, TypeOK
      <4>. QED
        BY <4>1, <4>2
    <3>. QED
      BY <2>5, <3>1, <3>3, <3>4 DEF GwProofResponse, TypeOK
  <2>6. CASE GwEmbed
    <3>1. Head(gq) \in ReplyMsg /\ Tail(gq) \in Seq(ReplyMsg)
      BY <2>6, HeadTailProperties DEF GwEmbed, TypeOK
    <3>2. Head(gq).proof \in Proof
      BY <2>6, <3>1 DEF GwEmbed, ReplyMsg, ExitMsg
    <3>3. result' \in {"none", "proof", "empty", "dropped"}
      BY <2>6 DEF GwEmbed, RenderResult
    <3>. QED
      BY <2>6, <3>1, <3>2, <3>3 DEF GwEmbed, TypeOK
  <2>7. ASSUME NEW w \in Workers, WorkerRecv(w)
        PROVE  TypeOK'
    <3>1. Head(wq) \in WorkMsg /\ Tail(wq) \in Seq(WorkMsg)
      BY <2>7, HeadTailProperties DEF WorkerRecv, TypeOK
    <3>. QED
      BY <2>7, <3>1 DEF WorkerRecv, TypeOK
  <2>8. ASSUME NEW w \in Workers, WorkerClosed(w)
        PROVE  TypeOK'
    BY <2>8 DEF WorkerClosed, TypeOK
  (* A reply of well-typed messages keeps gq, wstate and job typed. *)
  <2>9. ASSUME NEW w \in Workers, NEW msgs \in Seq(ReplyMsg),
               NEW after \in {"idle", "exited"}, Reply(w, msgs, after)
        PROVE  /\ gq' \in Seq(ReplyMsg)
               /\ wstate' \in [Workers -> {"idle", "busy", "exited"}]
               /\ job' \in [Workers -> WorkMsg \cup {NoJob}]
    <3>1. gq \o msgs \in Seq(ReplyMsg)
      BY ConcatProperties DEF TypeOK
    <3>. QED
      BY <2>9, <3>1 DEF Reply, TypeOK
  (* A job a busy worker holds is a request of its kind. *)
  <2>10. ASSUME NEW w \in Workers, job[w].type = "CombineRequest"
         PROVE  /\ job[w].idx \in Indices
                /\ job[w].proofs[1] \in Proof
                /\ job[w].proofs[2] \in Proof
                /\ job[w].flag \in BOOLEAN
    BY <2>10 DEF TypeOK, WorkMsg, NoJob
  <2>11. ASSUME NEW w \in Workers, WorkerConvert(w)
         PROVE  TypeOK'
    <3>1. job[w].idx \in Indices
      BY <2>11 DEF WorkerConvert, TypeOK, WorkMsg, NoJob
    <3>2. << RiscvResponse(job[w].idx, ChunkProof(job[w].idx)) >>
            \in Seq(ReplyMsg)
      BY <3>1 DEF RiscvResponse, ChunkProof, ReplyMsg, Proof
    <3>. QED
      BY <2>11, <3>2, <2>9 DEF WorkerConvert, TypeOK
  <2>12. ASSUME NEW w \in Workers, WorkerCombine(w)
         PROVE  TypeOK'
    <3>1. Combine(job[w].proofs[1], job[w].proofs[2]) \in Proof
      BY <2>12, <2>10, CombineType DEF WorkerCombine
    <3>2. << CombineResponse(job[w].idx,
                             Combine(job[w].proofs[1], job[w].proofs[2])) >>
            \in Seq(ReplyMsg)
      BY <2>12, <2>10, <3>1 DEF WorkerCombine, CombineResponse, ReplyMsg
    <3>. QED
      BY <2>12, <3>2, <2>9 DEF WorkerCombine, TypeOK
  <2>13. ASSUME NEW w \in Workers, WorkerFastPath(w)
         PROVE  TypeOK'
    <3>1. Combine(job[w].proofs[1], job[w].proofs[2]) \in Proof
      BY <2>13, <2>10, CombineType DEF WorkerFastPath
    <3>2. << EmbedMsg(Combine(job[w].proofs[1], job[w].proofs[2])), ExitMsg >>
            \in Seq(ReplyMsg)
      BY <3>1 DEF EmbedMsg, ExitMsg, ReplyMsg
    <3>. QED
      BY <2>13, <3>2, <2>9 DEF WorkerFastPath, TypeOK
  <2>14. ASSUME NEW w \in Workers, WorkerFastPathFallback(w)
         PROVE  TypeOK'
    <3>1. Combine(job[w].proofs[1], job[w].proofs[2]) \in Proof
      BY <2>14, <2>10, CombineType DEF WorkerFastPathFallback
    <3>2. << CombineResponse(job[w].idx,
                             Combine(job[w].proofs[1], job[w].proofs[2])) >>
            \in Seq(ReplyMsg)
      BY <2>14, <2>10, <3>1 DEF WorkerFastPathFallback, CombineResponse,
                                 ReplyMsg
    <3>. QED
      BY <2>14, <3>2, <2>9 DEF WorkerFastPathFallback, TypeOK
  <2>15. ASSUME NEW w \in Workers, WorkerStagePanic(w)
        PROVE  TypeOK'
    BY <2>15 DEF WorkerStagePanic, TypeOK
  <2>16. CASE ProveTask
    BY <2>16 DEF ProveTask, AwaitCompletion, CompletionDropped, JoinProvers,
                 JoinTimeout, TypeOK
  <2>17. CASE UNCHANGED vars
    BY <2>17 DEF vars, TypeOK
  <2>. QED
    BY <2>1, <2>2, <2>3, <2>4, <2>5, <2>6, <2>7, <2>8, <2>11, <2>12, <2>13,
       <2>14, <2>15, <2>16, <2>17
    DEF Next, Emulator, Gateway, Worker
<1>. QED
  BY <1>2

(* Every step of the pipeline keeps each variable within its type: the    *)
(* messages the emulator, gateway and workers put on the channels, the    *)
(* proof tree set_proof rebuilds, and the per-worker jobs.                *)
THEOREM TypeCorrect == Spec => []TypeOK
BY InitTypeOK, NextTypeOK, PTL DEF Spec
=============================================================================
