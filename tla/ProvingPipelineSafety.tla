------------------------ MODULE ProvingPipelineSafety ------------------------
(***************************************************************************)
(* Proofs of the gateway's safety properties, ProtocolValid and            *)
(* MergeAdjacent, for every number of chunks and every set of workers,     *)
(* from the inductive invariant PipelineInv of ProvingPipeline.            *)
(***************************************************************************)
EXTENDS ProvingPipelineProofs

USE NChunksAssumption

(***************************************************************************)
(* Lemmas on the ProofTree operators and on the range a slot stands for.  *)
(***************************************************************************)

(* range(..index).next_back(): the nearest live slot below index. *)
LEMMA PrevFacts ==
    ASSUME NEW t, NEW i, HasPrev(t, i)
    PROVE  /\ PrevIndex(t, i) \in DOMAIN t
           /\ PrevIndex(t, i) < i
           /\ \A k \in DOMAIN t : k < i => k <= PrevIndex(t, i)
BY DEF HasPrev, PrevIndex, IsPrev, Below

(* range((Excluded(index), Unbounded)).next(): the nearest live slot above. *)
LEMMA NextFacts ==
    ASSUME NEW t, NEW i, HasNext(t, i)
    PROVE  /\ NextIndex(t, i) \in DOMAIN t
           /\ NextIndex(t, i) > i
           /\ \A k \in DOMAIN t : k > i => NextIndex(t, i) <= k
BY DEF HasNext, NextIndex, IsNext, Above

(* The range of a slot depends on that slot's node only. *)
LEMMA SlotRangeLocal ==
    ASSUME NEW t, NEW u, NEW i, t[i] = u[i]
    PROVE  SlotRange(t, i) = SlotRange(u, i)
BY DEF SlotRange

(* A slot of a well-formed tree stands for a range of chunks. *)
LEMMA SlotRangeType ==
    ASSUME NEW t, IsTree(t), NEW i \in DOMAIN t
    PROVE  SlotRange(t, i) \in Proof
<1>1. t[i] \in Node /\ i \in Indices
  BY DEF IsTree
<1>2. CASE t[i].kind = "Proved"
  <2>1. SlotRange(t, i) = t[i].proof
    BY <1>2 DEF SlotRange
  <2>2. t[i].proof \in Proof
    BY <1>1, <1>2 DEF Node
  <2>. QED
    BY <2>1, <2>2
<1>3. CASE t[i].kind = "InProgress" /\ t[i].parts = << >>
  BY <1>1, <1>3 DEF SlotRange, ChunkProof, Proof
<1>4. CASE t[i].kind = "InProgress" /\ t[i].parts # << >>
  <2>1. t[i].parts \in Proof \X Proof
    BY <1>1, <1>4 DEF Node
  <2>. QED
    BY <1>4, <2>1, CombineType DEF SlotRange
<1>. QED
  BY <1>1, <1>2, <1>3, <1>4 DEF Node

(* The chunk indices are natural numbers. *)
LEMMA IndicesNat == Indices \subseteq Nat
BY DEF Indices

(* The bounds of a slot's range are chunk numbers. *)
LEMMA SlotRangeNat ==
    ASSUME NEW t, IsTree(t), NEW i \in DOMAIN t
    PROVE  /\ i \in Nat
           /\ SlotRange(t, i) \in Proof
           /\ SlotRange(t, i).lo \in Nat
           /\ SlotRange(t, i).hi \in Nat
BY SlotRangeType, IndicesNat DEF IsTree, Proof

(* The same for the slots of the handler's tree. *)
LEMMA SpanNat ==
    ASSUME TypeOK
    PROVE  \A i \in DOMAIN tree :
             /\ i \in Nat /\ Span(i) \in Proof
             /\ Span(i).lo \in Nat /\ Span(i).hi \in Nat
BY SlotRangeNat DEF TypeOK, Span

(* The chunk index a message carries is a chunk number. *)
LEMMA MsgIdxNat ==
    ASSUME TypeOK
    PROVE  /\ \A k \in 1 .. Len(prodQ) :
                prodQ[k].type = "RiscvRequest" => prodQ[k].idx \in Nat
           /\ \A k \in 1 .. Len(wq) : wq[k] \in WorkMsg /\ wq[k].idx \in Nat
           /\ \A k \in 1 .. Len(gq) :
                gq[k].type \in {"RiscvResponse", "CombineResponse"} =>
                  gq[k].idx \in Nat /\ gq[k].proof \in Proof
           /\ \A w \in Workers : job[w] \in WorkMsg => job[w].idx \in Nat
<1>1. \A k \in 1 .. Len(prodQ) :
        prodQ[k].type = "RiscvRequest" => prodQ[k].idx \in Nat
  <2>1. \A k \in 1 .. Len(prodQ) : prodQ[k] \in ProdMsg
    BY DEF TypeOK
  <2>. SUFFICES ASSUME NEW k \in 1 .. Len(prodQ), prodQ[k].type = "RiscvRequest"
                PROVE  prodQ[k].idx \in Nat
    OBVIOUS
  <2>2. prodQ[k] # EmulatorCompleteMsg
    BY DEF EmulatorCompleteMsg
  <2>3. prodQ[k] \in [type : {"RiscvRequest"}, idx : Indices]
    BY <2>1, <2>2 DEF ProdMsg
  <2>. QED
    BY <2>3, IndicesNat
<1>2. \A k \in 1 .. Len(wq) : wq[k] \in WorkMsg /\ wq[k].idx \in Nat
  <2>1. \A k \in 1 .. Len(wq) : wq[k] \in WorkMsg
    BY DEF TypeOK
  <2>. QED
    BY <2>1, IndicesNat DEF WorkMsg
<1>3. \A k \in 1 .. Len(gq) :
        gq[k].type \in {"RiscvResponse", "CombineResponse"} =>
          gq[k].idx \in Nat /\ gq[k].proof \in Proof
  <2>1. \A k \in 1 .. Len(gq) : gq[k] \in ReplyMsg
    BY DEF TypeOK
  <2>. SUFFICES ASSUME NEW k \in 1 .. Len(gq),
                       gq[k].type \in {"RiscvResponse", "CombineResponse"}
                PROVE  gq[k].idx \in Nat /\ gq[k].proof \in Proof
    OBVIOUS
  <2>2. gq[k] # ExitMsg
    BY DEF ExitMsg
  <2>3. gq[k] \notin [type : {"Embed"}, proof : Proof]
    OBVIOUS
  <2>4. gq[k] \in [type : {"RiscvResponse", "CombineResponse"},
                   idx : Indices, proof : Proof]
    BY <2>1, <2>2, <2>3 DEF ReplyMsg
  <2>. QED
    BY <2>4, IndicesNat
<1>4. \A w \in Workers : job[w] \in WorkMsg => job[w].idx \in Nat
  BY IndicesNat DEF WorkMsg
<1>. QED
  BY <1>1, <1>2, <1>3, <1>4

-----------------------------------------------------------------------------
(***************************************************************************)
(* set_proof pairs a proof with a neighbour whose range is adjacent: the   *)
(* ranges are ordered like the slots and leave no chunk out, so nothing    *)
(* lies between a slot and its nearest live neighbour.                     *)
(***************************************************************************)
LEMMA PrevAdjacent ==
    ASSUME PipelineInv, prodQ = << >>, NEW x \in DOMAIN tree,
           HasPrev(tree, x)
    PROVE  Span(PrevIndex(tree, x)).hi + 1 = Span(x).lo
<1>. DEFINE s == PrevIndex(tree, x)
<1>1. /\ s \in DOMAIN tree /\ s < x
      /\ \A k \in DOMAIN tree : k < x => k <= s
  BY PrevFacts
<1>2. \A i \in DOMAIN tree : Span(i) \in Proof /\ i \in Nat
  BY SlotRangeType, IndicesNat DEF PipelineInv, TypeOK, IsTree, Span
<1>3. Span(s).hi < Span(x).lo
  BY <1>1, <1>2 DEF PipelineInv, SlotsOrdered
<1>. DEFINE c == Span(s).hi + 1
<1>4. SUFFICES ASSUME c < Span(x).lo PROVE FALSE
  BY <1>1, <1>2, <1>3 DEF Proof, Indices
<1>5. c \in 0 .. emitted - 1
  BY <1>1, <1>2, <1>4 DEF PipelineInv, SlotsOrdered, Proof, Indices, TypeOK
<1>6. PICK i \in DOMAIN tree : Span(i).lo <= c /\ c <= Span(i).hi
  BY <1>5 DEF PipelineInv, ChunksCovered
<1>7. s < i
  BY <1>1, <1>2, <1>6 DEF PipelineInv, SlotsOrdered, Proof, Indices
<1>8. i < x
  BY <1>1, <1>2, <1>4, <1>6 DEF PipelineInv, SlotsOrdered, Proof, Indices
<1>. QED
  BY <1>1, <1>2, <1>7, <1>8

LEMMA NextAdjacent ==
    ASSUME PipelineInv, prodQ = << >>, NEW x \in DOMAIN tree,
           HasNext(tree, x)
    PROVE  Span(x).hi + 1 = Span(NextIndex(tree, x)).lo
<1>. DEFINE s == NextIndex(tree, x)
<1>1. /\ s \in DOMAIN tree /\ s > x
      /\ \A k \in DOMAIN tree : k > x => s <= k
  BY NextFacts
<1>2. \A i \in DOMAIN tree : Span(i) \in Proof /\ i \in Nat
  BY SlotRangeType, IndicesNat DEF PipelineInv, TypeOK, IsTree, Span
<1>3. Span(x).hi < Span(s).lo
  BY <1>1, <1>2 DEF PipelineInv, SlotsOrdered
<1>. DEFINE c == Span(x).hi + 1
<1>4. SUFFICES ASSUME c < Span(s).lo PROVE FALSE
  BY <1>1, <1>2, <1>3 DEF Proof, Indices
<1>5. c \in 0 .. emitted - 1
  BY <1>1, <1>2, <1>4 DEF PipelineInv, SlotsOrdered, Proof, Indices, TypeOK
<1>6. PICK i \in DOMAIN tree : Span(i).lo <= c /\ c <= Span(i).hi
  BY <1>5 DEF PipelineInv, ChunksCovered
<1>7. x < i
  BY <1>1, <1>2, <1>6 DEF PipelineInv, SlotsOrdered, Proof, Indices
<1>8. i < s
  BY <1>1, <1>2, <1>4, <1>6 DEF PipelineInv, SlotsOrdered, Proof, Indices
<1>. QED
  BY <1>1, <1>2, <1>7, <1>8

-----------------------------------------------------------------------------
(* The initial state satisfies the invariant: no slot, no message. *)
LEMMA InitPipelineInv == Init => PipelineInv
<1> SUFFICES ASSUME Init PROVE PipelineInv
  OBVIOUS
<1>1. TypeOK
  BY InitTypeOK
<1>2. DOMAIN tree = {} /\ prodQ = << >> /\ wq = << >> /\ gq = << >>
      /\ emitted = 0 /\ Busy = {}
  BY DEF Init, EmptyTree, Busy
<1>. QED
  BY <1>1, <1>2 DEF PipelineInv, SlotsOrdered, ProdPending, ChunksCovered,
                    TokensMatch, TokensDistinct, ExitAfterEmbed, Replies
-----------------------------------------------------------------------------
(***************************************************************************)
(* One lemma per action: each keeps PipelineInv.                           *)
(***************************************************************************)

(* A step that leaves the tree, the worker queue, the jobs, the reply      *)
(* channel and the gateway alone keeps the token conjuncts.                *)
LEMMA TokensUnchanged ==
    ASSUME PipelineInv,
           UNCHANGED <<tree, wq, gq, wstate, job, gw>>
    PROVE  TokensMatch' /\ TokensDistinct' /\ ExitAfterEmbed'
BY DEF PipelineInv, TokensMatch, TokensDistinct, ExitAfterEmbed, WorkFor,
       ReplyFor, Busy, Replies, Span

(* The emulator numbers the next chunk and sends its request. *)
LEMMA EmitChunkInv ==
    ASSUME PipelineInv, EmitChunk
    PROVE  PipelineInv'
<1>1. TypeOK'
  BY NextTypeOK DEF PipelineInv, Next, Emulator
<1>. DEFINE r == RiscvRequest(emitted)
<1>2. /\ prodQ' = Append(prodQ, r) /\ emitted' = emitted + 1
      /\ tree' = tree /\ emitted \in Nat /\ prodQ \in Seq(ProdMsg)
  BY DEF EmitChunk, PipelineInv, TypeOK
<1>3. \A i \in DOMAIN tree : Span(i)' = Span(i)
  BY <1>2 DEF Span
<1>4. SlotsOrdered'
  BY <1>2, <1>3, SpanNat DEF PipelineInv, SlotsOrdered
<1>5. ProdPending'
  <2>1. Len(prodQ') = Len(prodQ) + 1 /\ prodQ'[Len(prodQ) + 1] = r
        /\ \A k \in 1 .. Len(prodQ) : prodQ'[k] = prodQ[k]
    BY <1>2
  <2>2. \A k \in 1 .. Len(prodQ) :
          prodQ[k].type = "RiscvRequest" => prodQ[k].idx < emitted
    BY DEF PipelineInv, ProdPending
  <2>3. \A i \in DOMAIN tree : Span(i).hi < emitted
    BY DEF PipelineInv, SlotsOrdered
  <2>. SUFFICES ASSUME NEW k \in 1 .. Len(prodQ'),
                       prodQ'[k].type = "RiscvRequest"
                PROVE  /\ prodQ'[k].idx < emitted'
                       /\ \A i \in DOMAIN tree : Span(i).hi < prodQ'[k].idx
                       /\ \A j \in 1 .. k - 1 :
                            prodQ'[j].type = "RiscvRequest" =>
                              prodQ'[j].idx < prodQ'[k].idx
    BY <1>2, <1>3 DEF ProdPending
  <2>4. CASE k = Len(prodQ) + 1
    <3>1. prodQ'[k].idx = emitted
      BY <2>1, <2>4 DEF RiscvRequest
    <3>. QED
      BY <1>2, <2>1, <2>2, <2>3, <2>4, <3>1, SpanNat, MsgIdxNat
         DEF PipelineInv
  <2>5. CASE k \in 1 .. Len(prodQ)
    BY <1>2, <2>1, <2>2, <2>5, MsgIdxNat DEF PipelineInv, ProdPending
  <2>. QED
    BY <2>1, <2>4, <2>5
<1>6. ChunksCovered'
  <2>1. Len(prodQ') = Len(prodQ) + 1 /\ prodQ'[Len(prodQ) + 1] = r
        /\ \A k \in 1 .. Len(prodQ) : prodQ'[k] = prodQ[k]
    BY <1>2
  <2>. QED
    BY <1>2, <1>3, <2>1 DEF PipelineInv, ChunksCovered, RiscvRequest
<1>7. TokensMatch' /\ TokensDistinct' /\ ExitAfterEmbed'
  BY TokensUnchanged DEF EmitChunk
<1>. QED
  BY <1>1, <1>4, <1>5, <1>6, <1>7 DEF PipelineInv

(* The emulator closes its stream with EmulatorComplete. *)
LEMMA EmulatorDoneInv ==
    ASSUME PipelineInv, EmulatorDone
    PROVE  PipelineInv'
<1>1. TypeOK'
  BY NextTypeOK DEF PipelineInv, Next, Emulator
<1>2. /\ prodQ' = Append(prodQ, EmulatorCompleteMsg) /\ prodQ \in Seq(ProdMsg)
      /\ UNCHANGED <<emitted, tree>>
  BY DEF EmulatorDone, PipelineInv, TypeOK
<1>3. /\ Len(prodQ') = Len(prodQ) + 1
      /\ prodQ'[Len(prodQ) + 1].type = "EmulatorComplete"
      /\ \A k \in 1 .. Len(prodQ) : prodQ'[k] = prodQ[k]
  BY <1>2 DEF EmulatorCompleteMsg
<1>4. \A i \in DOMAIN tree : Span(i)' = Span(i)
  BY <1>2 DEF Span
<1>5. SlotsOrdered' /\ ProdPending' /\ ChunksCovered'
  BY <1>2, <1>3, <1>4 DEF PipelineInv, SlotsOrdered, ProdPending,
                          ChunksCovered
<1>6. TokensMatch' /\ TokensDistinct' /\ ExitAfterEmbed'
  BY TokensUnchanged DEF EmulatorDone
<1>. QED
  BY <1>1, <1>5, <1>6 DEF PipelineInv

(* prove_task's steps only move its phase. *)
LEMMA ProveTaskInv ==
    ASSUME PipelineInv, ProveTask
    PROVE  PipelineInv'
<1>1. TypeOK'
  BY NextTypeOK DEF PipelineInv, Next
<1>2. UNCHANGED <<emitted, prodQ, tree, wq, gq, wstate, job, gw>>
  BY DEF ProveTask, AwaitCompletion, CompletionDropped, JoinProvers,
         JoinTimeout
<1>3. SlotsOrdered' /\ ProdPending' /\ ChunksCovered'
  BY <1>2 DEF PipelineInv, SlotsOrdered, ProdPending, ChunksCovered, Span
<1>4. TokensMatch' /\ TokensDistinct' /\ ExitAfterEmbed'
  BY <1>2, TokensUnchanged
<1>. QED
  BY <1>1, <1>3, <1>4 DEF PipelineInv

(* A stuttering step. *)
LEMMA StutterInv ==
    ASSUME PipelineInv, UNCHANGED vars
    PROVE  PipelineInv'
<1>1. TypeOK'
  BY NextTypeOK DEF PipelineInv
<1>2. SlotsOrdered' /\ ProdPending' /\ ChunksCovered'
  BY DEF vars, PipelineInv, SlotsOrdered, ProdPending, ChunksCovered, Span
<1>3. TokensMatch' /\ TokensDistinct' /\ ExitAfterEmbed'
  BY TokensUnchanged DEF vars
<1>. QED
  BY <1>1, <1>2, <1>3 DEF PipelineInv

(* A worker whose queue is closed and empty exits; it held no job. *)
LEMMA WorkerClosedInv ==
    ASSUME PipelineInv, NEW w \in Workers, WorkerClosed(w)
    PROVE  PipelineInv'
<1>1. TypeOK'
  BY NextTypeOK DEF PipelineInv, Next, Worker
<1>2. /\ UNCHANGED <<emitted, prodQ, tree, wq, gq, job, gw>>
      /\ wstate' = [wstate EXCEPT ![w] = "exited"]
      /\ wstate[w] = "idle"
  BY DEF WorkerClosed
<1>3. Busy' = Busy
  BY <1>2 DEF Busy, PipelineInv, TypeOK
<1>4. SlotsOrdered' /\ ProdPending' /\ ChunksCovered'
  BY <1>2 DEF PipelineInv, SlotsOrdered, ProdPending, ChunksCovered, Span
<1>5. TokensMatch' /\ TokensDistinct' /\ ExitAfterEmbed'
  BY <1>2, <1>3 DEF PipelineInv, TokensMatch, TokensDistinct, ExitAfterEmbed,
                    WorkFor, ReplyFor, Replies, Span
<1>. QED
  BY <1>1, <1>4, <1>5 DEF PipelineInv

(* The gateway takes EmulatorComplete off the emulator channel. *)
LEMMA GwEmulatorCompleteInv ==
    ASSUME PipelineInv, GwEmulatorComplete
    PROVE  PipelineInv'
<1>1. TypeOK'
  BY NextTypeOK DEF PipelineInv, Next, Gateway
<1>2. /\ prodQ # << >> /\ prodQ \in Seq(ProdMsg)
      /\ prodQ[1].type = "EmulatorComplete"
      /\ prodQ' = Tail(prodQ)
      /\ UNCHANGED <<emitted, tree, wq, gq, wstate, job, gw>>
  BY DEF GwEmulatorComplete, PipelineInv, TypeOK
<1>3. /\ Len(prodQ') = Len(prodQ) - 1
      /\ \A k \in 1 .. Len(prodQ) - 1 : prodQ'[k] = prodQ[k + 1]
  BY <1>2
<1>4. SlotsOrdered'
  BY <1>2 DEF PipelineInv, SlotsOrdered, Span
<1>5. ProdPending'
  BY <1>2, <1>3 DEF PipelineInv, ProdPending, Span
<1>6. ChunksCovered'
  <2>1. SUFFICES ASSUME NEW c \in 0 .. emitted - 1,
                        NEW k \in 1 .. Len(prodQ),
                        prodQ[k].type = "RiscvRequest", prodQ[k].idx = c
                 PROVE  \E l \in 1 .. Len(prodQ') :
                          prodQ'[l].type = "RiscvRequest" /\ prodQ'[l].idx = c
    BY <1>2 DEF PipelineInv, ChunksCovered, Span
  <2>2. k # 1
    BY <1>2, <2>1
  <2>3. k - 1 \in 1 .. Len(prodQ') /\ prodQ'[k - 1] = prodQ[k]
    BY <1>3, <2>2
  <2>. QED
    BY <2>1, <2>3
<1>7. TokensMatch' /\ TokensDistinct' /\ ExitAfterEmbed'
  BY <1>2, TokensUnchanged
<1>. QED
  BY <1>1, <1>4, <1>5, <1>6, <1>7 DEF PipelineInv

(* The gateway takes a chunk's request: init_node, then the request is    *)
(* forwarded to the workers.                                              *)
LEMMA GwRiscvRequestInv ==
    ASSUME PipelineInv, GwRiscvRequest
    PROVE  PipelineInv'
<1>1. TypeOK'
  BY NextTypeOK DEF PipelineInv, Next, Gateway
<1>0. PICK h, x : h = prodQ[1] /\ x = h.idx
  OBVIOUS
<1>. USE <1>0
<1>2. /\ prodQ # << >> /\ prodQ \in Seq(ProdMsg) /\ h.type = "RiscvRequest"
      /\ tree' = InitNode(tree, x)
      /\ wq' = Append(wq, h)
      /\ prodQ' = Tail(prodQ)
      /\ UNCHANGED <<emitted, gq, wstate, job, gw>>
  BY DEF GwRiscvRequest, PipelineInv, TypeOK
<1>3. /\ Len(prodQ') = Len(prodQ) - 1
      /\ \A k \in 1 .. Len(prodQ) - 1 : prodQ'[k] = prodQ[k + 1]
      /\ Len(prodQ) >= 1 /\ 1 \in 1 .. Len(prodQ)
  BY <1>2
<1>4. x \in Indices /\ x \in Nat /\ h \in WorkMsg
  <2>1. h \in ProdMsg /\ h # EmulatorCompleteMsg
    BY <1>2, <1>3 DEF EmulatorCompleteMsg
  <2>2. h \in [type : {"RiscvRequest"}, idx : Indices]
    BY <2>1 DEF ProdMsg
  <2>. QED
    BY <2>2, IndicesNat DEF WorkMsg
<1>5. x < emitted /\ \A i \in DOMAIN tree : Span(i).hi < x
  BY <1>2, <1>3 DEF PipelineInv, ProdPending
<1>6. \A i \in DOMAIN tree : i < x
  BY <1>4, <1>5, SpanNat DEF PipelineInv, SlotsOrdered
<1>7. \A k \in 2 .. Len(prodQ) :
        prodQ[k].type = "RiscvRequest" => x < prodQ[k].idx
  BY <1>2 DEF PipelineInv, ProdPending
<1>8. x \notin DOMAIN tree
  BY <1>4, <1>6
<1>9. /\ DOMAIN tree' = DOMAIN tree \cup {x}
      /\ tree'[x] = InProgress(<< >>)
      /\ \A i \in DOMAIN tree : tree'[i] = tree[i]
  BY <1>2, <1>8 DEF InitNode
<1>10. /\ \A i \in DOMAIN tree : Span(i)' = Span(i)
       /\ Span(x)' = ChunkProof(x)
  <2>1. \A i \in DOMAIN tree : Span(i)' = Span(i)
    BY <1>9, SlotRangeLocal DEF Span
  <2>2. Span(x)' = ChunkProof(x)
    BY <1>9 DEF Span, SlotRange, InProgress
  <2>. QED
    BY <2>1, <2>2
<1>11. SlotsOrdered'
  <2>1. ASSUME NEW i \in DOMAIN tree'
        PROVE  Span(i)'.lo <= i /\ i <= Span(i)'.hi /\ Span(i)'.hi < emitted'
    <3>1. CASE i = x
      BY <1>2, <1>4, <1>5, <1>10, <3>1 DEF ChunkProof
    <3>2. CASE i \in DOMAIN tree
      BY <1>2, <1>10, <3>2 DEF PipelineInv, SlotsOrdered
    <3>. QED
      BY <1>9, <3>1, <3>2
  <2>2. ASSUME NEW i \in DOMAIN tree', NEW j \in DOMAIN tree', i < j
        PROVE  Span(i)'.hi < Span(j)'.lo
    <3>1. CASE i \in DOMAIN tree /\ j \in DOMAIN tree
      BY <1>10, <2>2, <3>1 DEF PipelineInv, SlotsOrdered
    <3>2. CASE i \in DOMAIN tree /\ j = x
      BY <1>5, <1>10, <3>2 DEF ChunkProof
    <3>3. CASE i = x /\ j \in DOMAIN tree
      BY <1>4, <1>6, <2>2, <3>3, SpanNat DEF PipelineInv
    <3>4. CASE i = x /\ j = x
      BY <1>4, <2>2, <3>4
    <3>. QED
      BY <1>9, <3>1, <3>2, <3>3, <3>4
  <2>3. \A i \in DOMAIN tree' :
          tree'[i].kind = "InProgress" /\ tree'[i].parts # << >>
            => tree'[i].parts[1].hi + 1 = tree'[i].parts[2].lo
    BY <1>9 DEF PipelineInv, SlotsOrdered, InProgress
  <2>. QED
    BY <2>1, <2>2, <2>3 DEF SlotsOrdered
<1>12. ProdPending'
  <2>1. SUFFICES ASSUME NEW k \in 1 .. Len(prodQ'),
                        prodQ'[k].type = "RiscvRequest"
                 PROVE  /\ prodQ'[k].idx < emitted'
                        /\ \A i \in DOMAIN tree' : Span(i)'.hi < prodQ'[k].idx
                        /\ \A j \in 1 .. k - 1 :
                             prodQ'[j].type = "RiscvRequest"
                               => prodQ'[j].idx < prodQ'[k].idx
    BY DEF ProdPending
  <2>2. prodQ'[k] = prodQ[k + 1] /\ k + 1 \in 2 .. Len(prodQ)
    BY <1>3
  <2>3. prodQ'[k].idx < emitted'
    BY <1>2, <2>1, <2>2 DEF PipelineInv, ProdPending
  <2>4. \A i \in DOMAIN tree' : Span(i)'.hi < prodQ'[k].idx
    <3>1. \A i \in DOMAIN tree : Span(i)'.hi < prodQ'[k].idx
      BY <1>10, <2>1, <2>2 DEF PipelineInv, ProdPending
    <3>2. Span(x)'.hi < prodQ'[k].idx
      BY <1>7, <1>10, <2>1, <2>2 DEF ChunkProof
    <3>. QED
      BY <1>9, <3>1, <3>2
  <2>5. \A j \in 1 .. k - 1 :
          prodQ'[j].type = "RiscvRequest" => prodQ'[j].idx < prodQ'[k].idx
    <3>1. \A j \in 1 .. k - 1 : prodQ'[j] = prodQ[j + 1] /\ j + 1 \in 1 .. k
      BY <1>3, <2>2
    <3>. QED
      BY <2>1, <2>2, <3>1 DEF PipelineInv, ProdPending
  <2>. QED
    BY <2>3, <2>4, <2>5
<1>13. ChunksCovered'
  <2>1. SUFFICES ASSUME NEW c \in 0 .. emitted - 1
                 PROVE  \/ \E k \in 1 .. Len(prodQ') :
                            prodQ'[k].type = "RiscvRequest" /\ prodQ'[k].idx = c
                        \/ \E i \in DOMAIN tree' :
                            Span(i)'.lo <= c /\ c <= Span(i)'.hi
    BY <1>2 DEF ChunksCovered
  <2>2. CASE \E k \in 1 .. Len(prodQ) :
               prodQ[k].type = "RiscvRequest" /\ prodQ[k].idx = c
    <3>1. PICK k \in 1 .. Len(prodQ) :
               prodQ[k].type = "RiscvRequest" /\ prodQ[k].idx = c
      BY <2>2
    <3>2. CASE k = 1
      <4>1. x \in DOMAIN tree' /\ Span(x)'.lo = c /\ Span(x)'.hi = c
        BY <1>9, <1>10, <3>1, <3>2 DEF ChunkProof
      <4>. QED
        BY <1>4, <4>1
    <3>3. CASE k # 1
      <4>1. k - 1 \in 1 .. Len(prodQ') /\ prodQ'[k - 1] = prodQ[k]
        BY <1>3, <3>3
      <4>. QED
        BY <3>1, <4>1
    <3>. QED
      BY <3>2, <3>3
  <2>3. CASE \E i \in DOMAIN tree : Span(i).lo <= c /\ c <= Span(i).hi
    <3>1. PICK i \in DOMAIN tree : Span(i).lo <= c /\ c <= Span(i).hi
      BY <2>3
    <3>. QED
      BY <1>9, <1>10, <3>1
  <2>. QED
    BY <2>2, <2>3 DEF PipelineInv, ChunksCovered
<1>14. TokensMatch'
  <2>1. ASSUME NEW m, WorkFor(m) PROVE WorkFor(m)'
    BY <1>9, <2>1 DEF WorkFor
  <2>2. WorkFor(h)'
    BY <1>2, <1>9 DEF WorkFor
  <2>3. /\ Len(wq') = Len(wq) + 1 /\ wq'[Len(wq) + 1] = h
        /\ \A k \in 1 .. Len(wq) : wq'[k] = wq[k]
    BY <1>2 DEF PipelineInv, TypeOK
  <2>4. ASSUME NEW k \in 1 .. Len(wq') PROVE WorkFor(wq[k])'
    <3>1. CASE k = Len(wq) + 1
      BY <2>2, <2>3, <3>1 DEF WorkFor
    <3>2. CASE k \in 1 .. Len(wq)
      <4>1. WorkFor(wq[k])
        BY <3>2 DEF PipelineInv, TokensMatch
      <4>. QED
        BY <2>1, <2>3, <3>2, <4>1 DEF WorkFor
    <3>. QED
      BY <2>3, <3>1, <3>2
  <2>5. ASSUME NEW m, ReplyFor(m) PROVE ReplyFor(m)'
    BY <1>9, <1>10, <2>5 DEF ReplyFor
  <2>6. Busy' = Busy /\ Replies' = Replies
    BY <1>2 DEF Busy, Replies
  <2>7. ASSUME NEW w \in Busy' PROVE (job[w] \in WorkMsg /\ WorkFor(job[w]))'
    <3>1. job[w] \in WorkMsg /\ WorkFor(job[w])
      BY <2>6 DEF PipelineInv, TokensMatch
    <3>. QED
      BY <1>2, <2>1, <3>1 DEF WorkFor
  <2>8. ASSUME NEW k \in Replies' PROVE ReplyFor(gq[k])'
    <3>1. ReplyFor(gq[k])
      BY <2>6 DEF PipelineInv, TokensMatch
    <3>. QED
      BY <1>2, <2>5, <3>1 DEF ReplyFor
  <2>. QED
    BY <2>4, <2>7, <2>8 DEF TokensMatch
<1>15. TokensDistinct'
  <2>1. /\ \A k \in 1 .. Len(wq) : wq[k].idx # x
        /\ \A w \in Busy : job[w].idx # x
        /\ \A l \in Replies : gq[l].idx # x
    BY <1>8 DEF PipelineInv, TokensMatch, WorkFor, ReplyFor
  <2>2. /\ Len(wq') = Len(wq) + 1 /\ wq'[Len(wq) + 1] = h
        /\ \A k \in 1 .. Len(wq) : wq'[k] = wq[k]
    BY <1>2 DEF PipelineInv, TypeOK
  <2>3. Busy' = Busy /\ Replies' = Replies
    BY <1>2 DEF Busy, Replies
  <2>4. \A k, l \in 1 .. Len(wq') : k # l => wq'[k].idx # wq'[l].idx
    BY <2>1, <2>2 DEF PipelineInv, TokensDistinct
  <2>5. \A k \in 1 .. Len(wq'), w \in Busy : wq'[k].idx # job[w].idx
    BY <2>1, <2>2 DEF PipelineInv, TokensDistinct
  <2>6. \A k \in 1 .. Len(wq'), l \in Replies : wq'[k].idx # gq[l].idx
    BY <2>1, <2>2 DEF PipelineInv, TokensDistinct
  <2>. QED
    BY <1>2, <2>3, <2>4, <2>5, <2>6 DEF PipelineInv, TokensDistinct
<1>16. ExitAfterEmbed'
  BY <1>2 DEF PipelineInv, ExitAfterEmbed
<1>. QED
  BY <1>1, <1>11, <1>12, <1>13, <1>14, <1>15, <1>16 DEF PipelineInv

(* The gateway takes the Embed: it leaves the loop, and the replies behind *)
(* the Embed move up by one.                                               *)
LEMMA GwEmbedInv ==
    ASSUME PipelineInv, GwEmbed
    PROVE  PipelineInv'
<1>1. TypeOK'
  BY NextTypeOK DEF PipelineInv, Next, Gateway
<1>2. /\ gq # << >> /\ gq \in Seq(ReplyMsg) /\ gq[1].type = "Embed"
      /\ gq' = Tail(gq) /\ gw' = "exited"
      /\ UNCHANGED <<emitted, prodQ, tree, wq, wstate, job>>
  BY DEF GwEmbed, PipelineInv, TypeOK
<1>3. /\ Len(gq') = Len(gq) - 1
      /\ \A k \in 1 .. Len(gq) - 1 : gq'[k] = gq[k + 1]
  BY <1>2
<1>4. Replies' = {k - 1 : k \in Replies}
  <2>1. \A k \in Replies : k # 1
    BY <1>2 DEF Replies
  <2>. QED
    BY <1>2, <1>3, <2>1 DEF Replies
<1>5. SlotsOrdered' /\ ProdPending' /\ ChunksCovered'
  BY <1>2 DEF PipelineInv, SlotsOrdered, ProdPending, ChunksCovered, Span
<1>6. TokensMatch'
  BY <1>2, <1>3, <1>4 DEF PipelineInv, TokensMatch, WorkFor, ReplyFor, Busy,
                          Replies, Span
<1>7. TokensDistinct'
  BY <1>2, <1>3, <1>4 DEF PipelineInv, TokensDistinct, Busy, Replies
<1>8. ExitAfterEmbed'
  BY <1>2 DEF ExitAfterEmbed
<1>. QED
  BY <1>1, <1>5, <1>6, <1>7, <1>8 DEF PipelineInv

(* An idle worker takes the request at the head of the shared queue: the  *)
(* token moves from the queue to the worker's job.                        *)
LEMMA WorkerRecvInv ==
    ASSUME PipelineInv, NEW w \in Workers, WorkerRecv(w)
    PROVE  PipelineInv'
<1>1. TypeOK'
  BY NextTypeOK DEF PipelineInv, Next, Worker
<1>2. /\ wq # << >> /\ wq \in Seq(WorkMsg) /\ wstate[w] = "idle"
      /\ job' = [job EXCEPT ![w] = wq[1]]
      /\ wstate' = [wstate EXCEPT ![w] = "busy"]
      /\ wq' = Tail(wq)
      /\ UNCHANGED <<emitted, prodQ, tree, gq, gw>>
  BY DEF WorkerRecv, PipelineInv, TypeOK
<1>3. /\ Len(wq') = Len(wq) - 1
      /\ \A k \in 1 .. Len(wq) - 1 : wq'[k] = wq[k + 1]
      /\ 1 \in 1 .. Len(wq)
  BY <1>2
<1>4. /\ Busy' = Busy \cup {w} /\ w \notin Busy
      /\ \A v \in Busy : job'[v] = job[v]
      /\ job'[w] = wq[1]
  BY <1>2 DEF Busy, PipelineInv, TypeOK
<1>5. SlotsOrdered' /\ ProdPending' /\ ChunksCovered'
  BY <1>2 DEF PipelineInv, SlotsOrdered, ProdPending, ChunksCovered, Span
<1>6. TokensMatch'
  <2>1. \A m : WorkFor(m)' = WorkFor(m)
    BY <1>2 DEF WorkFor
  <2>2. \A m : ReplyFor(m)' = ReplyFor(m)
    BY <1>2 DEF ReplyFor, Span
  <2>3. wq[1] \in WorkMsg /\ WorkFor(wq[1])
    BY <1>2, <1>3 DEF PipelineInv, TokensMatch
  <2>. QED
    BY <1>2, <1>3, <1>4, <2>1, <2>2, <2>3 DEF PipelineInv, TokensMatch,
                                              Replies
<1>7. TokensDistinct'
  BY <1>2, <1>3, <1>4 DEF PipelineInv, TokensDistinct, Replies
<1>8. ExitAfterEmbed'
  BY <1>2 DEF PipelineInv, ExitAfterEmbed
<1>. QED
  BY <1>1, <1>5, <1>6, <1>7, <1>8 DEF PipelineInv

(* A busy worker answers its job with one reply carrying the range of its *)
(* slot (or panics on the closed channel after prove_task returned): the  *)
(* token moves from the job to the reply channel, or is gone.             *)
LEMMA ReplyOneInv ==
    ASSUME PipelineInv, TypeOK', NEW w \in Workers, wstate[w] = "busy",
           NEW msg, msg.type \in {"RiscvResponse", "CombineResponse"},
           msg.idx = job[w].idx, msg.proof = Span(job[w].idx),
           Reply(w, << msg >>, "idle"),
           UNCHANGED <<emitted, prodQ, tree, wq, gw>>
    PROVE  PipelineInv'
<1>1. /\ job' = [job EXCEPT ![w] = NoJob]
      /\ gq \in Seq(ReplyMsg) /\ job \in [Workers -> WorkMsg \cup {NoJob}]
      /\ wstate \in [Workers -> {"idle", "busy", "exited"}]
  BY DEF Reply, PipelineInv, TypeOK
<1>2. /\ Busy' = Busy \ {w} /\ w \in Busy
      /\ \A v \in Busy' : job'[v] = job[v]
  <2>1. wstate'[w] # "busy" /\ \A v \in Workers \ {w} : wstate'[v] = wstate[v]
    BY <1>1 DEF Reply
  <2>2. \A v \in Workers : v \in Busy' <=> (v \in Busy /\ v # w)
    BY <2>1 DEF Busy
  <2>. QED
    BY <1>1, <2>2 DEF Busy
<1>3. SlotsOrdered' /\ ProdPending' /\ ChunksCovered'
  BY DEF PipelineInv, SlotsOrdered, ProdPending, ChunksCovered, Span
<1>4. \A m : WorkFor(m)' = WorkFor(m) /\ ReplyFor(m)' = ReplyFor(m)
  BY DEF WorkFor, ReplyFor, Span
<1>5. CASE ChannelsOpen
  <2>1. /\ gq' = gq \o << msg >>
        /\ Len(gq') = Len(gq) + 1 /\ gq'[Len(gq) + 1] = msg
        /\ \A k \in 1 .. Len(gq) : gq'[k] = gq[k]
    BY <1>1, <1>5 DEF Reply
  <2>2. Replies' = Replies \cup {Len(gq) + 1}
    BY <2>1 DEF Replies
  <2>3. TokensMatch'
    <3>1. ReplyFor(msg)
      <4>1. job[w] \in WorkMsg /\ WorkFor(job[w])
        BY <1>2 DEF PipelineInv, TokensMatch
      <4>2. job[w].type \in {"RiscvRequest", "CombineRequest"}
        BY <4>1 DEF WorkMsg
      <4>3. tree[job[w].idx].kind = "InProgress"
        BY <4>1, <4>2 DEF WorkFor, InProgress
      <4>. QED
        BY <4>1, <4>3 DEF ReplyFor, WorkFor
    <3>2. ASSUME NEW k \in 1 .. Len(wq') PROVE WorkFor(wq[k])'
      BY <1>4 DEF PipelineInv, TokensMatch
    <3>3. ASSUME NEW v \in Busy' PROVE (job[v] \in WorkMsg /\ WorkFor(job[v]))'
      BY <1>2, <1>4 DEF PipelineInv, TokensMatch
    <3>4. ASSUME NEW k \in Replies' PROVE ReplyFor(gq[k])'
      <4>1. CASE k = Len(gq) + 1
        BY <1>4, <2>1, <3>1, <4>1
      <4>2. CASE k \in Replies
        <5>1. k \in 1 .. Len(gq) /\ ReplyFor(gq[k])
          BY <4>2 DEF PipelineInv, TokensMatch, Replies
        <5>. QED
          BY <1>4, <2>1, <5>1
      <4>. QED
        BY <2>2, <4>1, <4>2
    <3>. QED
      BY <3>2, <3>3, <3>4 DEF TokensMatch
  <2>4. TokensDistinct'
    <3>1. \A k \in 1 .. Len(wq) : wq[k].idx # msg.idx
      BY <1>2 DEF PipelineInv, TokensDistinct
    <3>2. \A v \in Busy' : job'[v].idx # msg.idx
      BY <1>2 DEF PipelineInv, TokensDistinct
    <3>3. \A l \in Replies : gq[l].idx # msg.idx
      BY <1>2 DEF PipelineInv, TokensDistinct
    <3>4. \A k, l \in Replies' : k # l => gq'[k].idx # gq'[l].idx
      BY <2>1, <2>2, <3>3 DEF PipelineInv, TokensDistinct, Replies
    <3>5. \A v, u \in Busy' : v # u => job'[v].idx # job'[u].idx
      BY <1>2 DEF PipelineInv, TokensDistinct
    <3>6. \A k \in 1 .. Len(wq'), v \in Busy' : wq'[k].idx # job'[v].idx
      BY <1>2 DEF PipelineInv, TokensDistinct
    <3>7. \A k \in 1 .. Len(wq'), l \in Replies' : wq'[k].idx # gq'[l].idx
      BY <2>1, <2>2, <3>1 DEF PipelineInv, TokensDistinct, Replies
    <3>8. \A v \in Busy', l \in Replies' : job'[v].idx # gq'[l].idx
      BY <1>2, <2>1, <2>2, <3>2 DEF PipelineInv, TokensDistinct, Replies
    <3>9. \A k, l \in 1 .. Len(wq') : k # l => wq'[k].idx # wq'[l].idx
      BY DEF PipelineInv, TokensDistinct
    <3>. QED
      BY <3>4, <3>5, <3>6, <3>7, <3>8, <3>9 DEF TokensDistinct
  <2>5. ExitAfterEmbed'
    BY <2>1 DEF PipelineInv, ExitAfterEmbed
  <2>. QED
    BY <1>3, <2>3, <2>4, <2>5 DEF PipelineInv
<1>6. CASE ~ChannelsOpen
  <2>1. gq' = gq
    BY <1>6 DEF Reply
  <2>2. TokensMatch' /\ TokensDistinct' /\ ExitAfterEmbed'
    BY <1>2, <1>4, <2>1 DEF PipelineInv, TokensMatch, TokensDistinct,
                            ExitAfterEmbed, Replies
  <2>. QED
    BY <1>3, <2>2 DEF PipelineInv
<1>. QED
  BY <1>5, <1>6

(* A busy worker ends holding its job: a stage panic, or the fast path     *)
(* sending Embed then Exit.  Its slot's token is gone.                     *)
LEMMA DropTokenInv ==
    ASSUME PipelineInv, TypeOK', NEW w \in Workers, wstate[w] = "busy",
           wstate' = [wstate EXCEPT ![w] = "exited"],
           job' = [job EXCEPT ![w] = NoJob],
           \/ gq' = gq
           \/ \E p : gq' = gq \o << EmbedMsg(p), ExitMsg >>,
           UNCHANGED <<emitted, prodQ, tree, wq, gw>>
    PROVE  PipelineInv'
<1>1. /\ gq \in Seq(ReplyMsg) /\ job \in [Workers -> WorkMsg \cup {NoJob}]
      /\ wstate \in [Workers -> {"idle", "busy", "exited"}]
  BY DEF PipelineInv, TypeOK
<1>2. /\ Busy' = Busy \ {w}
      /\ \A v \in Busy' : job'[v] = job[v]
  BY <1>1 DEF Busy
<1>3. SlotsOrdered' /\ ProdPending' /\ ChunksCovered'
  BY DEF PipelineInv, SlotsOrdered, ProdPending, ChunksCovered, Span
<1>4. \A m : WorkFor(m)' = WorkFor(m) /\ ReplyFor(m)' = ReplyFor(m)
  BY DEF WorkFor, ReplyFor, Span
<1>5. CASE gq' = gq
  BY <1>2, <1>3, <1>4, <1>5 DEF PipelineInv, TokensMatch, TokensDistinct,
                                ExitAfterEmbed, Replies
<1>6. CASE \E p : gq' = gq \o << EmbedMsg(p), ExitMsg >>
  <2>1. PICK p : gq' = gq \o << EmbedMsg(p), ExitMsg >>
    BY <1>6
  <2>2. /\ Len(gq') = Len(gq) + 2
        /\ gq'[Len(gq) + 1].type = "Embed"
        /\ gq'[Len(gq) + 2].type = "Exit"
        /\ \A k \in 1 .. Len(gq) : gq'[k] = gq[k]
    BY <1>1, <2>1 DEF EmbedMsg, ExitMsg
  <2>3. Replies' = Replies
    BY <2>2 DEF Replies
  <2>4. \A k \in Replies : gq'[k] = gq[k]
    BY <2>2 DEF Replies
  <2>5. TokensMatch'
    <3>1. ASSUME NEW k \in 1 .. Len(wq') PROVE WorkFor(wq[k])'
      BY <1>4 DEF PipelineInv, TokensMatch
    <3>2. ASSUME NEW v \in Busy' PROVE (job[v] \in WorkMsg /\ WorkFor(job[v]))'
      BY <1>2, <1>4 DEF PipelineInv, TokensMatch
    <3>3. ASSUME NEW k \in Replies' PROVE ReplyFor(gq[k])'
      BY <1>4, <2>3, <2>4 DEF PipelineInv, TokensMatch
    <3>. QED
      BY <3>1, <3>2, <3>3 DEF TokensMatch
  <2>6. TokensDistinct'
    BY <1>2, <2>3, <2>4 DEF PipelineInv, TokensDistinct
  <2>7. ExitAfterEmbed'
    <3>1. SUFFICES ASSUME gw' = "running", NEW k \in 1 .. Len(gq'),
                          gq'[k].type = "Exit"
                   PROVE  k > 1 /\ gq'[k - 1].type = "Embed"
      BY DEF ExitAfterEmbed
    <3>2. CASE k \in 1 .. Len(gq)
      BY <2>2, <3>1, <3>2 DEF PipelineInv, ExitAfterEmbed
    <3>3. CASE k = Len(gq) + 1
      BY <2>2, <3>1, <3>3
    <3>4. CASE k = Len(gq) + 2
      BY <2>2, <3>4
    <3>. QED
      BY <2>2, <3>2, <3>3, <3>4
  <2>. QED
    BY <1>3, <2>5, <2>6, <2>7 DEF PipelineInv
<1>. QED
  BY <1>5, <1>6

(* The job a busy worker holds is a request matching its slot. *)
LEMMA BusyJob ==
    ASSUME PipelineInv, NEW w \in Workers, wstate[w] = "busy"
    PROVE  /\ job[w] \in WorkMsg
           /\ job[w].idx \in DOMAIN tree
           /\ job[w].type = "RiscvRequest" => tree[job[w].idx] = InProgress(<< >>)
           /\ job[w].type = "CombineRequest" =>
                /\ tree[job[w].idx] = InProgress(job[w].proofs)
                /\ job[w].proofs \in Proof \X Proof
BY DEF PipelineInv, TokensMatch, WorkFor, Busy, WorkMsg

(* The range of a combine request's slot is the merge of its pair. *)
LEMMA CombineSpan ==
    ASSUME PipelineInv, NEW w \in Workers, wstate[w] = "busy",
           job[w].type = "CombineRequest"
    PROVE  Span(job[w].idx) = Combine(job[w].proofs[1], job[w].proofs[2])
<1>1. /\ tree[job[w].idx] = InProgress(job[w].proofs)
      /\ job[w].proofs \in Proof \X Proof
  BY BusyJob
<1>2. job[w].proofs # << >>
  <2>1. PICK a, b : job[w].proofs = << a, b >>
    BY <1>1
  <2>2. DOMAIN << a, b >> # DOMAIN << >>
    OBVIOUS
  <2>. QED
    BY <2>1, <2>2
<1>3. tree[job[w].idx].kind = "InProgress"
      /\ tree[job[w].idx].parts = job[w].proofs
  BY <1>1 DEF InProgress
<1>. QED
  BY <1>2, <1>3 DEF Span, SlotRange

(* riscv_convert answers with the proof of the slot's chunk. *)
LEMMA WorkerConvertInv ==
    ASSUME PipelineInv, NEW w \in Workers, WorkerConvert(w)
    PROVE  PipelineInv'
<1>1. TypeOK'
  BY NextTypeOK DEF PipelineInv, Next, Worker
<1>. DEFINE x == job[w].idx
            msg == RiscvResponse(x, ChunkProof(x))
<1>2. wstate[w] = "busy" /\ job[w].type = "RiscvRequest"
  BY DEF WorkerConvert
<1>3. Span(x) = ChunkProof(x)
  <2>1. tree[x] = InProgress(<< >>)
    BY <1>2, BusyJob
  <2>. QED
    BY <2>1 DEF Span, SlotRange, InProgress
<1>4. /\ msg.type \in {"RiscvResponse", "CombineResponse"}
      /\ msg.idx = x /\ msg.proof = Span(x)
  BY <1>3 DEF RiscvResponse
<1>5. Reply(w, << msg >>, "idle") /\ UNCHANGED <<emitted, prodQ, tree, wq, gw>>
  BY DEF WorkerConvert
<1>. QED
  BY <1>1, <1>2, <1>4, <1>5, ReplyOneInv

(* combine answers with the merge of the pair. *)
LEMMA WorkerCombineInv ==
    ASSUME PipelineInv, NEW w \in Workers, WorkerCombine(w)
    PROVE  PipelineInv'
<1>1. TypeOK'
  BY NextTypeOK DEF PipelineInv, Next, Worker
<1>. DEFINE x == job[w].idx
            msg == CombineResponse(x, Combine(job[w].proofs[1], job[w].proofs[2]))
<1>2. wstate[w] = "busy" /\ job[w].type = "CombineRequest"
  BY DEF WorkerCombine
<1>3. /\ msg.type \in {"RiscvResponse", "CombineResponse"}
      /\ msg.idx = x /\ msg.proof = Span(x)
  BY <1>2, CombineSpan DEF CombineResponse
<1>4. Reply(w, << msg >>, "idle") /\ UNCHANGED <<emitted, prodQ, tree, wq, gw>>
  BY DEF WorkerCombine
<1>. QED
  BY <1>1, <1>2, <1>3, <1>4, ReplyOneInv

(* Verify of the embed proof fails: the ordinary combine response. *)
LEMMA WorkerFastPathFallbackInv ==
    ASSUME PipelineInv, NEW w \in Workers, WorkerFastPathFallback(w)
    PROVE  PipelineInv'
<1>1. TypeOK'
  BY NextTypeOK DEF PipelineInv, Next, Worker
<1>. DEFINE x == job[w].idx
            msg == CombineResponse(x, Combine(job[w].proofs[1], job[w].proofs[2]))
<1>2. wstate[w] = "busy" /\ job[w].type = "CombineRequest"
  BY DEF WorkerFastPathFallback
<1>3. /\ msg.type \in {"RiscvResponse", "CombineResponse"}
      /\ msg.idx = x /\ msg.proof = Span(x)
  BY <1>2, CombineSpan DEF CombineResponse
<1>4. Reply(w, << msg >>, "idle") /\ UNCHANGED <<emitted, prodQ, tree, wq, gw>>
  BY DEF WorkerFastPathFallback
<1>. QED
  BY <1>1, <1>2, <1>3, <1>4, ReplyOneInv

(* The fast path sends Embed then Exit and the worker leaves its loop. *)
LEMMA WorkerFastPathInv ==
    ASSUME PipelineInv, NEW w \in Workers, WorkerFastPath(w)
    PROVE  PipelineInv'
<1>1. TypeOK'
  BY NextTypeOK DEF PipelineInv, Next, Worker
<1>. DEFINE r == Combine(job[w].proofs[1], job[w].proofs[2])
<1>2. /\ wstate[w] = "busy"
      /\ Reply(w, << EmbedMsg(r), ExitMsg >>, "exited")
      /\ UNCHANGED <<emitted, prodQ, tree, wq, gw>>
  BY DEF WorkerFastPath
<1>3. /\ wstate' = [wstate EXCEPT ![w] = "exited"]
      /\ job' = [job EXCEPT ![w] = NoJob]
      /\ \/ gq' = gq
         \/ \E p : gq' = gq \o << EmbedMsg(p), ExitMsg >>
  BY <1>2 DEF Reply
<1>. QED
  BY <1>1, <1>2, <1>3, DropTokenInv

(* A proving stage panics: the worker thread ends with no reply. *)
LEMMA WorkerStagePanicInv ==
    ASSUME PipelineInv, NEW w \in Workers, WorkerStagePanic(w)
    PROVE  PipelineInv'
<1>1. TypeOK'
  BY NextTypeOK DEF PipelineInv, Next, Worker
<1>2. /\ wstate[w] = "busy"
      /\ wstate' = [wstate EXCEPT ![w] = "exited"]
      /\ job' = [job EXCEPT ![w] = NoJob]
      /\ gq' = gq
      /\ UNCHANGED <<emitted, prodQ, tree, wq, gw>>
  BY DEF WorkerStagePanic
<1>. QED
  BY <1>1, <1>2, DropTokenInv

-----------------------------------------------------------------------------
(***************************************************************************)
(* The gateway applies a proof from a worker (set_proof).                  *)
(***************************************************************************)

(* A request or reply for a slot whose node the step leaves alone still   *)
(* matches it.                                                             *)
LEMMA SameNode ==
    ASSUME NEW m, m.idx \in DOMAIN tree', tree'[m.idx] = tree[m.idx]
    PROVE  /\ WorkFor(m) => WorkFor(m)'
           /\ ReplyFor(m) => ReplyFor(m)'
<1>1. Span(m.idx)' = Span(m.idx)
  BY SlotRangeLocal DEF Span
<1>. QED
  BY <1>1 DEF WorkFor, ReplyFor

(* The gateway takes the reply at the head of the reply channel for slot  *)
(* x and keeps every other slot in progress as it was; a CombineRequest   *)
(* it sends for x matches x's new node.  Every other token still matches, *)
(* and no two tokens name the same slot.                                   *)
LEMMA ResponseTokens ==
    ASSUME PipelineInv, gq # << >>,
           gq[1].type \in {"RiscvResponse", "CombineResponse"},
           NEW x, x = gq[1].idx, x \in DOMAIN tree',
           \A j \in DOMAIN tree :
             tree[j].kind = "InProgress" /\ j # x =>
               j \in DOMAIN tree' /\ tree'[j] = tree[j],
           \/ wq' = wq
           \/ \E f, ps : /\ wq' = Append(wq, CombineRequest(f, x, ps))
                         /\ tree'[x] = InProgress(ps),
           gq' = Tail(gq),
           UNCHANGED <<wstate, job, gw>>
    PROVE  TokensMatch' /\ TokensDistinct' /\ ExitAfterEmbed'
<1>1. /\ gq \in Seq(ReplyMsg) /\ wq \in Seq(WorkMsg) /\ Len(gq) >= 1
      /\ 1 \in Replies
  BY DEF PipelineInv, TypeOK, Replies
<1>2. /\ Len(gq') = Len(gq) - 1
      /\ \A k \in 1 .. Len(gq) - 1 : gq'[k] = gq[k + 1]
  BY <1>1
<1>3. \A k : k \in Replies' <=> (k \in 1 .. Len(gq) - 1 /\ k + 1 \in Replies)
  BY <1>1, <1>2 DEF Replies
<1>4. Busy' = Busy
  BY DEF Busy
<1>5. ASSUME NEW m, WorkFor(m), m \in WorkMsg, m.idx # x PROVE WorkFor(m)'
  <2>1. m.type \in {"RiscvRequest", "CombineRequest"}
    BY <1>5 DEF WorkMsg
  <2>2. tree[m.idx].kind = "InProgress" /\ m.idx \in DOMAIN tree
    BY <1>5, <2>1 DEF WorkFor, InProgress
  <2>3. m.idx \in DOMAIN tree' /\ tree'[m.idx] = tree[m.idx]
    BY <1>5, <2>2
  <2>. QED
    BY <1>5, <2>3, SameNode
<1>6. ASSUME NEW m, ReplyFor(m), m.idx # x PROVE ReplyFor(m)'
  <2>1. m.idx \in DOMAIN tree' /\ tree'[m.idx] = tree[m.idx]
    BY <1>6 DEF ReplyFor
  <2>. QED
    BY <1>6, <2>1, SameNode
<1>7. /\ \A k \in 1 .. Len(wq) : wq[k].idx # x
      /\ \A w \in Busy : job[w].idx # x
      /\ \A k \in Replies : k # 1 => gq[k].idx # x
  BY <1>1 DEF PipelineInv, TokensDistinct
<1>8. /\ Len(wq) <= Len(wq')
      /\ \A k \in 1 .. Len(wq) : wq'[k] = wq[k]
      /\ \A k \in 1 .. Len(wq') :
           k \notin 1 .. Len(wq) => k = Len(wq) + 1 /\ WorkFor(wq[k])'
      /\ \A k \in 1 .. Len(wq') : k \notin 1 .. Len(wq) => wq'[k].idx = x
  <2>1. CASE wq' = wq
    BY <2>1
  <2>2. CASE \E f, ps : /\ wq' = Append(wq, CombineRequest(f, x, ps))
                        /\ tree'[x] = InProgress(ps)
    <3>1. PICK f, ps : /\ wq' = Append(wq, CombineRequest(f, x, ps))
                       /\ tree'[x] = InProgress(ps)
      BY <2>2
    <3>2. /\ Len(wq') = Len(wq) + 1
          /\ wq'[Len(wq) + 1] = CombineRequest(f, x, ps)
          /\ \A k \in 1 .. Len(wq) : wq'[k] = wq[k]
      BY <1>1, <3>1
    <3>. QED
      BY <3>1, <3>2 DEF WorkFor, CombineRequest
  <2>. QED
    BY <2>1, <2>2
<1>9. TokensMatch'
  <2>1. ASSUME NEW k \in 1 .. Len(wq') PROVE WorkFor(wq[k])'
    <3>1. CASE k \in 1 .. Len(wq)
      <4>1. WorkFor(wq[k]) /\ wq[k] \in WorkMsg
        BY <1>1, <3>1 DEF PipelineInv, TokensMatch
      <4>. QED
        BY <1>5, <1>7, <1>8, <3>1, <4>1 DEF WorkFor
    <3>. QED
      BY <1>8, <3>1
  <2>2. ASSUME NEW v \in Busy' PROVE (job[v] \in WorkMsg /\ WorkFor(job[v]))'
    <3>1. job[v] \in WorkMsg /\ WorkFor(job[v]) /\ job[v].idx # x
      BY <1>4, <1>7 DEF PipelineInv, TokensMatch
    <3>. QED
      BY <1>5, <3>1
  <2>3. ASSUME NEW k \in Replies' PROVE ReplyFor(gq[k])'
    <3>1. k + 1 \in Replies /\ k + 1 # 1 /\ gq'[k] = gq[k + 1]
      BY <1>2, <1>3
    <3>2. ReplyFor(gq[k + 1]) /\ gq[k + 1].idx # x
      BY <1>7, <3>1 DEF PipelineInv, TokensMatch
    <3>. QED
      BY <1>6, <3>1, <3>2 DEF ReplyFor
  <2>. QED
    BY <2>1, <2>2, <2>3 DEF TokensMatch
<1>10. TokensDistinct'
  <2>1. \A k, l \in 1 .. Len(wq') : k # l => wq'[k].idx # wq'[l].idx
    BY <1>7, <1>8 DEF PipelineInv, TokensDistinct
  <2>2. \A v, w \in Busy' : v # w => job'[v].idx # job'[w].idx
    BY <1>4 DEF PipelineInv, TokensDistinct
  <2>3. \A k, l \in Replies' : k # l => gq'[k].idx # gq'[l].idx
    BY <1>2, <1>3 DEF PipelineInv, TokensDistinct
  <2>4. \A k \in 1 .. Len(wq'), w \in Busy' : wq'[k].idx # job'[w].idx
    BY <1>4, <1>7, <1>8 DEF PipelineInv, TokensDistinct
  <2>5. \A k \in 1 .. Len(wq'), l \in Replies' : wq'[k].idx # gq'[l].idx
    BY <1>2, <1>3, <1>7, <1>8 DEF PipelineInv, TokensDistinct
  <2>6. \A w \in Busy', l \in Replies' : job'[w].idx # gq'[l].idx
    BY <1>2, <1>3, <1>4 DEF PipelineInv, TokensDistinct
  <2>. QED
    BY <2>1, <2>2, <2>3, <2>4, <2>5, <2>6 DEF TokensDistinct
<1>11. ExitAfterEmbed'
  <2>1. SUFFICES ASSUME gw' = "running", NEW k \in 1 .. Len(gq'),
                        gq'[k].type = "Exit"
                 PROVE  k > 1 /\ gq'[k - 1].type = "Embed"
    BY DEF ExitAfterEmbed
  <2>2. gq[k + 1].type = "Exit" /\ k + 1 \in 1 .. Len(gq)
    BY <1>2, <2>1
  <2>3. k + 1 > 1 /\ gq[k].type = "Embed"
    BY <2>1, <2>2 DEF PipelineInv, ExitAfterEmbed
  <2>4. k # 1
    BY <2>3
  <2>. QED
    BY <1>2, <2>3, <2>4
<1>. QED
  BY <1>9, <1>10, <1>11

(* set_proof with a sibling: the lower slot a and the upper slot b are    *)
(* neighbours with adjacent ranges, the sibling s is removed, and x holds *)
(* the pair.  The merged range takes the place of both in the order and  *)
(* covers the chunks either covered.                                      *)
LEMMA MergeOrdered ==
    ASSUME PipelineInv, prodQ = << >>,
           NEW a \in DOMAIN tree, NEW b \in DOMAIN tree, a < b,
           \A k \in DOMAIN tree : ~(a < k /\ k < b),
           Span(a).hi + 1 = Span(b).lo,
           NEW x, NEW s, \/ x = a /\ s = b
                         \/ x = b /\ s = a,
           tree' = [j \in DOMAIN tree \ {s} |->
                      IF j = x THEN InProgress(<< Span(a), Span(b) >>)
                      ELSE tree[j]],
           UNCHANGED <<emitted, prodQ>>
    PROVE  SlotsOrdered' /\ ProdPending' /\ ChunksCovered'
<1>1. /\ \A i \in DOMAIN tree :
           /\ i \in Nat /\ Span(i) \in Proof
           /\ Span(i).lo \in Nat /\ Span(i).hi \in Nat
      /\ \A i \in DOMAIN tree :
           Span(i).lo <= i /\ i <= Span(i).hi /\ Span(i).hi < emitted
      /\ \A i, j \in DOMAIN tree : i < j => Span(i).hi < Span(j).lo
  BY SpanNat DEF PipelineInv, SlotsOrdered
<1>2. /\ x \in {a, b} /\ s \in {a, b} /\ x # s
      /\ DOMAIN tree' = DOMAIN tree \ {s}
      /\ x \in DOMAIN tree'
      /\ tree'[x] = InProgress(<< Span(a), Span(b) >>)
      /\ \A j \in DOMAIN tree' \ {x} : tree'[j] = tree[j] /\ j \notin {a, b}
  OBVIOUS
<1>3. Span(x)' = [lo |-> Span(a).lo, hi |-> Span(b).hi]
  <2>1. << Span(a), Span(b) >> # << >>
    <3>1. DOMAIN << Span(a), Span(b) >> # DOMAIN << >>
      OBVIOUS
    <3>. QED
      BY <3>1
  <2>. QED
    BY <1>2, <2>1 DEF Span, SlotRange, InProgress, Combine
<1>4. \A j \in DOMAIN tree' \ {x} : Span(j)' = Span(j)
  BY <1>2, SlotRangeLocal DEF Span
<1>5. SlotsOrdered'
  <2>1. ASSUME NEW i \in DOMAIN tree'
        PROVE  Span(i)'.lo <= i /\ i <= Span(i)'.hi /\ Span(i)'.hi < emitted'
    <3>1. CASE i = x
      BY <1>1, <1>2, <1>3, <3>1
    <3>. QED
      BY <1>1, <1>2, <1>4, <3>1
  <2>2. ASSUME NEW i \in DOMAIN tree', NEW j \in DOMAIN tree', i < j
        PROVE  Span(i)'.hi < Span(j)'.lo
    <3>1. CASE i = x
      <4>1. j \in DOMAIN tree /\ j \notin {a, b} /\ b < j
        BY <1>1, <1>2, <2>2, <3>1
      <4>. QED
        BY <1>1, <1>3, <1>4, <2>2, <3>1, <4>1
    <3>2. CASE j = x
      <4>1. i \in DOMAIN tree /\ i \notin {a, b} /\ i < a
        BY <1>1, <1>2, <2>2, <3>2
      <4>. QED
        BY <1>1, <1>3, <1>4, <2>2, <3>2, <4>1
    <3>3. CASE i # x /\ j # x
      BY <1>1, <1>2, <1>4, <2>2, <3>3
    <3>. QED
      BY <3>1, <3>2, <3>3
  <2>3. ASSUME NEW i \in DOMAIN tree',
               tree'[i].kind = "InProgress", tree'[i].parts # << >>
        PROVE  tree'[i].parts[1].hi + 1 = tree'[i].parts[2].lo
    <3>1. CASE i = x
      BY <1>2, <3>1 DEF InProgress
    <3>. QED
      BY <1>2, <2>3, <3>1 DEF PipelineInv, SlotsOrdered
  <2>. QED
    BY <2>1, <2>2, <2>3 DEF SlotsOrdered
<1>6. ProdPending'
  BY DEF ProdPending
<1>7. ChunksCovered'
  <2>1. SUFFICES ASSUME NEW c \in 0 .. emitted - 1
                 PROVE  \E i \in DOMAIN tree' :
                          Span(i)'.lo <= c /\ c <= Span(i)'.hi
    BY DEF ChunksCovered
  <2>2. PICK i \in DOMAIN tree : Span(i).lo <= c /\ c <= Span(i).hi
    BY <2>1 DEF PipelineInv, ChunksCovered
  <2>3. CASE i \in {a, b}
    <3>1. Span(a).lo <= c /\ c <= Span(b).hi
      BY <1>1, <2>2, <2>3
    <3>. QED
      BY <1>2, <1>3, <3>1
  <2>4. CASE i \notin {a, b}
    BY <1>2, <1>4, <2>2, <2>4
  <2>. QED
    BY <2>3, <2>4
<1>. QED
  BY <1>5, <1>6, <1>7

(* RiscvResponse / CombineResponse: set_proof stores the proof, or pairs  *)
(* it with a proved neighbour and sends the CombineRequest for the pair.  *)
LEMMA GwProofResponseInv ==
    ASSUME PipelineInv, GwProofResponse
    PROVE  PipelineInv'
<1>1. TypeOK'
  BY NextTypeOK DEF PipelineInv, Next, Gateway
<1>0. PICK x, p : x = gq[1].idx /\ p = gq[1].proof
  OBVIOUS
<1>2. /\ gw = "running" /\ prodQ = << >> /\ gq # << >>
      /\ gq[1].type \in {"RiscvResponse", "CombineResponse"}
      /\ tree' = SetProofTree(tree, x, p)
      /\ wq' = IF HasSibling(tree, x)
               THEN Append(wq, CombineRequest(FlagComplete(tree'), x,
                                              SiblingPair(tree, x, p)))
               ELSE wq
      /\ gq' = Tail(gq)
      /\ UNCHANGED <<emitted, prodQ, wstate, job, gw>>
  BY <1>0 DEF GwProofResponse
<1>3. /\ x \in DOMAIN tree /\ tree[x].kind = "InProgress" /\ p = Span(x)
      /\ \A j \in DOMAIN tree : tree[j] \in Node
      /\ DOMAIN tree \subseteq Nat
  <2>1. 1 \in Replies
    BY <1>2 DEF PipelineInv, TypeOK, Replies
  <2>. QED
    BY <1>0, <2>1, IndicesNat DEF PipelineInv, TokensMatch, ReplyFor, TypeOK,
                                  IsTree
<1>4. CASE ~HasSibling(tree, x)
  <2>1. /\ DOMAIN tree' = DOMAIN tree
        /\ tree'[x] = Proved(p)
        /\ \A j \in DOMAIN tree \ {x} : tree'[j] = tree[j]
    BY <1>2, <1>3, <1>4 DEF SetProofTree
  <2>2. \A j \in DOMAIN tree : Span(j)' = Span(j)
    <3>1. Span(x)' = Span(x)
      BY <1>3, <2>1 DEF Span, SlotRange, Proved
    <3>. QED
      BY <2>1, <3>1, SlotRangeLocal DEF Span
  <2>3. SlotsOrdered'
    <3>1. \A i \in DOMAIN tree' :
             tree'[i].kind = "InProgress" /\ tree'[i].parts # << >>
               => tree'[i].parts[1].hi + 1 = tree'[i].parts[2].lo
      BY <2>1 DEF PipelineInv, SlotsOrdered, Proved
    <3>. QED
      BY <1>2, <2>1, <2>2, <3>1 DEF PipelineInv, SlotsOrdered
  <2>4. ProdPending' /\ ChunksCovered'
    BY <1>2, <2>1, <2>2 DEF PipelineInv, ProdPending, ChunksCovered
  <2>5. TokensMatch' /\ TokensDistinct' /\ ExitAfterEmbed'
    BY <1>0, <1>2, <1>3, <1>4, <2>1, ResponseTokens
  <2>. QED
    BY <1>1, <2>3, <2>4, <2>5 DEF PipelineInv
<1>5. CASE HasSibling(tree, x)
  <2>0. PICK s : s = Sibling(tree, x)
    OBVIOUS
  <2>1. tree' = [j \in DOMAIN tree \ {s} |->
                   IF j = x THEN InProgress(SiblingPair(tree, x, p))
                   ELSE tree[j]]
    BY <1>2, <1>5, <2>0 DEF SetProofTree
  <2>2. /\ s \in DOMAIN tree /\ s # x /\ tree[s].kind = "Proved"
        /\ Span(s) = tree[s].proof
    <3>1. /\ s \in DOMAIN tree /\ s # x /\ tree[s].kind = "Proved"
      <4>1. CASE PrevProved(tree, x)
        BY <1>3, <2>0, <4>1, PrevFacts DEF Sibling, PrevProved
      <4>2. CASE ~PrevProved(tree, x)
        BY <1>3, <1>5, <2>0, <4>2, NextFacts
           DEF Sibling, NextProved, HasSibling
      <4>. QED
        BY <4>1, <4>2
    <3>. QED
      BY <3>1 DEF Span, SlotRange
  <2>3. /\ x \in DOMAIN tree'
        /\ tree'[x] = InProgress(SiblingPair(tree, x, p))
        /\ \A j \in DOMAIN tree :
             tree[j].kind = "InProgress" /\ j # x =>
               j \in DOMAIN tree' /\ tree'[j] = tree[j]
    BY <1>3, <2>1, <2>2
  <2>4. SlotsOrdered' /\ ProdPending' /\ ChunksCovered'
    <3>1. CASE PrevProved(tree, x)
      <4>1. /\ s = PrevIndex(tree, x) /\ s < x
            /\ \A k \in DOMAIN tree : ~(s < k /\ k < x)
            /\ SiblingPair(tree, x, p) = << Span(s), Span(x) >>
        BY <1>3, <2>0, <2>2, <3>1, PrevFacts, IndicesNat
           DEF Sibling, PrevProved, SiblingPair, PipelineInv, TypeOK, IsTree
      <4>2. Span(s).hi + 1 = Span(x).lo
        BY <1>2, <1>3, <3>1, <4>1, PrevAdjacent DEF PrevProved
      <4>3. tree' = [j \in DOMAIN tree \ {s} |->
                       IF j = x THEN InProgress(<< Span(s), Span(x) >>)
                       ELSE tree[j]]
        BY <2>1, <4>1
      <4>4. emitted' = emitted /\ prodQ' = prodQ /\ prodQ = << >>
        BY <1>2
      <4>. QED
        BY <1>3, <2>2, <4>1, <4>2, <4>3, <4>4, MergeOrdered
    <3>2. CASE ~PrevProved(tree, x)
      <4>1. /\ s = NextIndex(tree, x) /\ x < s
            /\ \A k \in DOMAIN tree : ~(x < k /\ k < s)
            /\ SiblingPair(tree, x, p) = << Span(x), Span(s) >>
        BY <1>3, <1>5, <2>0, <2>2, <3>2, NextFacts, IndicesNat
           DEF Sibling, NextProved, HasSibling, SiblingPair, PipelineInv,
               TypeOK, IsTree
      <4>2. Span(x).hi + 1 = Span(s).lo
        BY <1>2, <1>3, <1>5, <3>2, <4>1, NextAdjacent
           DEF HasSibling, NextProved
      <4>3. tree' = [j \in DOMAIN tree \ {s} |->
                       IF j = x THEN InProgress(<< Span(x), Span(s) >>)
                       ELSE tree[j]]
        BY <2>1, <4>1
      <4>4. emitted' = emitted /\ prodQ' = prodQ /\ prodQ = << >>
        BY <1>2
      <4>. QED
        BY <1>3, <2>2, <4>1, <4>2, <4>3, <4>4, MergeOrdered
    <3>. QED
      BY <3>1, <3>2
  <2>5. TokensMatch' /\ TokensDistinct' /\ ExitAfterEmbed'
    <3>1. \E f, ps : /\ wq' = Append(wq, CombineRequest(f, x, ps))
                     /\ tree'[x] = InProgress(ps)
      BY <1>2, <1>5, <2>3
    <3>. QED
      BY <1>0, <1>2, <2>3, <3>1, ResponseTokens
  <2>. QED
    BY <1>1, <2>4, <2>5 DEF PipelineInv
<1>. QED
  BY <1>4, <1>5

-----------------------------------------------------------------------------
(* Every step of the system, and a stutter, keeps PipelineInv. *)
LEMMA NextPipelineInv ==
    PipelineInv /\ [Next]_vars => PipelineInv'
<1> SUFFICES ASSUME PipelineInv, [Next]_vars PROVE PipelineInv'
  OBVIOUS
<1>1. CASE EmitChunk
  BY <1>1, EmitChunkInv
<1>2. CASE EmulatorDone
  BY <1>2, EmulatorDoneInv
<1>3. CASE GwRiscvRequest
  BY <1>3, GwRiscvRequestInv
<1>4. CASE GwEmulatorComplete
  BY <1>4, GwEmulatorCompleteInv
<1>5. CASE GwProofResponse
  BY <1>5, GwProofResponseInv
<1>6. CASE GwEmbed
  BY <1>6, GwEmbedInv
<1>7. ASSUME NEW w \in Workers, Worker(w) PROVE PipelineInv'
  <2>1. CASE WorkerRecv(w)
    BY <2>1, WorkerRecvInv
  <2>2. CASE WorkerClosed(w)
    BY <2>2, WorkerClosedInv
  <2>3. CASE WorkerConvert(w)
    BY <2>3, WorkerConvertInv
  <2>4. CASE WorkerCombine(w)
    BY <2>4, WorkerCombineInv
  <2>5. CASE WorkerFastPath(w)
    BY <2>5, WorkerFastPathInv
  <2>6. CASE WorkerFastPathFallback(w)
    BY <2>6, WorkerFastPathFallbackInv
  <2>7. CASE WorkerStagePanic(w)
    BY <2>7, WorkerStagePanicInv
  <2>. QED
    BY <1>7, <2>1, <2>2, <2>3, <2>4, <2>5, <2>6, <2>7 DEF Worker
<1>8. CASE ProveTask
  BY <1>8, ProveTaskInv
<1>9. CASE UNCHANGED vars
  BY <1>9, StutterInv
<1>. QED
  BY <1>1, <1>2, <1>3, <1>4, <1>5, <1>6, <1>7, <1>8, <1>9
     DEF Next, Emulator, Gateway

(* The gateway, the handler and the workers keep PipelineInv in every     *)
(* reachable state, for every number of chunks and every set of workers.  *)
THEOREM PipelineInvariant == Spec => []PipelineInv
<1>1. Init => PipelineInv
  BY InitPipelineInv
<1>2. PipelineInv /\ [Next]_vars => PipelineInv'
  BY NextPipelineInv
<1>. QED
  BY <1>1, <1>2, PTL DEF Spec

(* PipelineInv rules out the gateway's fatal paths: an index announced    *)
(* twice (the assert in init_node), a proof for a slot that is gone or    *)
(* already proved (the unwrap in set_proof), an Exit before its Embed.    *)
LEMMA InvProtocolValid == PipelineInv => ProtocolValid
<1> SUFFICES ASSUME PipelineInv, gw = "running" PROVE ProtocolValid
  BY DEF ProtocolValid
<1>1. ASSUME NEW k \in 1 .. Len(prodQ), prodQ[k].type = "RiscvRequest"
      PROVE  prodQ[k].idx \notin DOMAIN tree
  <2>1. \A i \in DOMAIN tree : Span(i).hi < prodQ[k].idx /\ i <= Span(i).hi
    BY <1>1 DEF PipelineInv, ProdPending, SlotsOrdered
  <2>2. prodQ[k].idx \in Nat
    BY <1>1, MsgIdxNat DEF PipelineInv
  <2>. QED
    BY <2>1, <2>2, SpanNat DEF PipelineInv
<1>2. ASSUME NEW k \in 1 .. Len(gq),
             gq[k].type \in {"RiscvResponse", "CombineResponse"}
      PROVE  gq[k].idx \in DOMAIN tree /\ tree[gq[k].idx].kind = "InProgress"
  BY <1>2 DEF PipelineInv, TokensMatch, ReplyFor, Replies
<1>3. ASSUME NEW k \in 1 .. Len(gq), gq[k].type = "Exit"
      PROVE  \E j \in 1 .. k - 1 : gq[j].type = "Embed"
  <2>1. k > 1 /\ gq[k - 1].type = "Embed"
    BY <1>3 DEF PipelineInv, ExitAfterEmbed
  <2>. QED
    BY <2>1
<1>. QED
  BY <1>1, <1>2, <1>3 DEF ProtocolValid

(* The gateway never takes one of its fatal paths: init_node's assert,     *)
(* set_proof's unwrap on a missing or proved slot, process() rejecting an  *)
(* Exit.                                                                   *)
THEOREM ProtocolValidHolds == Spec => []ProtocolValid
BY PipelineInvariant, InvProtocolValid, PTL

(* PipelineInv gives every pending CombineRequest adjacent proofs. *)
LEMMA InvMergeAdjacent == PipelineInv => MergeAdjacent
<1> SUFFICES ASSUME PipelineInv, NEW m \in PendingWork,
                    m.type = "CombineRequest"
             PROVE  m.proofs[1].hi + 1 = m.proofs[2].lo
  BY DEF MergeAdjacent
<1>1. m \in WorkMsg /\ WorkFor(m)
  BY DEF PendingWork, PipelineInv, TokensMatch, Busy, TypeOK
<1>2. m.proofs \in Proof \X Proof
  BY <1>1 DEF WorkMsg
<1>3. m.proofs # << >>
  <2>1. PICK a, b : m.proofs = << a, b >>
    BY <1>2
  <2>2. DOMAIN << a, b >> # DOMAIN << >>
    OBVIOUS
  <2>. QED
    BY <2>1, <2>2
<1>4. m.idx \in DOMAIN tree /\ tree[m.idx] = InProgress(m.proofs)
  BY <1>1 DEF WorkFor
<1>. QED
  BY <1>3, <1>4 DEF PipelineInv, SlotsOrdered, InProgress

(* Every CombineRequest a worker may still process carries two adjacent  *)
(* proofs, so the assert_eq!(end_a + 1, start_b) in combine never fires. *)
THEOREM MergeAdjacentHolds == Spec => []MergeAdjacent
BY PipelineInvariant, InvMergeAdjacent, PTL
=====
