--------------------- MODULE ProvingPipelineRefinement ---------------------
(***************************************************************************)
(* Proof that the pipeline implements ChunkReduction (ReducesChunks) when  *)
(* verify rejects an embed proof of a strict prefix of the chunks.  The    *)
(* mapping sends the tree to the set of its slot ranges, the chunks the    *)
(* gateway has applied to next, and the handler's embed proof to final.    *)
(* Besides PipelineInv the argument needs RefineInv's two other conjuncts: *)
(* the emulator channel holds the next requests in index order, so        *)
(* init_node registers chunk Registered; and an Embed covers every chunk   *)
(* from the tree's only slot.                                              *)
(***************************************************************************)
EXTENDS ProvingPipelineSafety, FiniteSetTheorems

USE NChunksAssumption

(***************************************************************************)
(* The emulator channel: requests in index order, then EmulatorComplete.  *)
(***************************************************************************)

(* The types ProdInOrder speaks about. *)
LEMMA ProdTypes ==
    ASSUME TypeOK, ProdInOrder
    PROVE  /\ emitted \in Nat /\ Len(prodQ) \in Nat /\ NReq \in Nat
           /\ NReq <= Len(prodQ) /\ Len(prodQ) <= NReq + 1
           /\ DonePending => Len(prodQ) = NReq + 1
           /\ ~DonePending => Len(prodQ) = NReq
BY DEF TypeOK, ProdInOrder, NReq

(* The requests in the channel are the first NReq records, so Registered, *)
(* which counts them, is emitted - NReq.                                   *)
LEMMA RegisteredNReq ==
    ASSUME TypeOK, ProdInOrder
    PROVE  Registered = emitted - NReq
<1>1. /\ emitted \in Nat /\ Len(prodQ) \in Nat /\ NReq \in Nat
      /\ NReq <= Len(prodQ)
      /\ DonePending => Len(prodQ) = NReq + 1
      /\ ~DonePending => Len(prodQ) = NReq
  BY ProdTypes
<1>2. {k \in 1 .. Len(prodQ) : prodQ[k].type = "RiscvRequest"} = 1 .. NReq
  <2>1. ASSUME NEW k \in 1 .. NReq PROVE prodQ[k].type = "RiscvRequest"
    <3>1. prodQ[k] = RiscvRequest(emitted - NReq + k - 1)
      BY DEF ProdInOrder
    <3>. QED
      BY <3>1 DEF RiscvRequest
  <2>2. ASSUME NEW k \in 1 .. Len(prodQ), k > NReq
        PROVE  prodQ[k].type # "RiscvRequest"
    <3>1. DonePending /\ k = Len(prodQ)
      BY <1>1, <2>2
    <3>. QED
      BY <3>1 DEF ProdInOrder, EmulatorCompleteMsg
  <2>. QED
    BY <1>1, <2>1, <2>2
<1>3. Cardinality(1 .. NReq) = NReq
  BY <1>1, FS_Interval
<1>. QED
  BY <1>2, <1>3 DEF Registered

(* Every step keeps the channel in index order. *)
LEMMA NextProdInOrder ==
    ASSUME TypeOK, ProdInOrder, [Next]_vars
    PROVE  ProdInOrder'
<1>0. NReq <= emitted /\ prodQ \in Seq(ProdMsg)
  BY DEF ProdInOrder, TypeOK
<1>1. /\ emitted \in Nat /\ Len(prodQ) \in Nat /\ NReq \in Nat
      /\ NReq <= emitted
      /\ DonePending => Len(prodQ) = NReq + 1
      /\ ~DonePending => Len(prodQ) = NReq
      /\ prodQ \in Seq(ProdMsg)
  BY <1>0, ProdTypes
<1>2. CASE EmitChunk
  <2>1. /\ phase = "emulating" /\ ~emulatorComplete /\ ~DonePending
        /\ prodQ' = Append(prodQ, RiscvRequest(emitted))
        /\ emitted' = emitted + 1
        /\ UNCHANGED <<emulatorComplete, phase>>
    BY <1>2 DEF EmitChunk, ProdInOrder, DonePending
  <2>2. ~DonePending' /\ NReq' = NReq + 1
    BY <1>1, <2>1 DEF DonePending, NReq
  <2>3. ASSUME NEW k \in 1 .. NReq'
        PROVE  prodQ'[k] = RiscvRequest(emitted' - NReq' + k - 1)
    <3>1. CASE k = NReq + 1
      BY <1>1, <2>1, <2>2, <3>1
    <3>2. CASE k \in 1 .. NReq
      BY <1>1, <2>1, <2>2, <3>2 DEF ProdInOrder
    <3>. QED
      BY <1>1, <2>2, <3>1, <3>2
  <2>. QED
    BY <1>1, <2>1, <2>2, <2>3 DEF ProdInOrder
<1>3. CASE EmulatorDone
  <2>1. /\ phase = "emulating" /\ ~emulatorComplete /\ ~DonePending
        /\ prodQ' = Append(prodQ, EmulatorCompleteMsg)
        /\ phase' = "awaiting"
        /\ UNCHANGED <<emulatorComplete, emitted>>
    BY <1>3 DEF EmulatorDone, ProdInOrder, DonePending
  <2>2. DonePending' /\ NReq' = NReq
    BY <1>1, <2>1 DEF DonePending, NReq
  <2>. QED
    BY <1>1, <2>1, <2>2 DEF ProdInOrder
<1>4. CASE GwRiscvRequest
  <2>1. /\ prodQ # << >> /\ prodQ[1].type = "RiscvRequest"
        /\ prodQ' = Tail(prodQ)
        /\ UNCHANGED <<emulatorComplete, emitted, phase>>
    BY <1>4 DEF GwRiscvRequest
  <2>2. NReq >= 1
    BY <1>1, <2>1 DEF ProdInOrder, EmulatorCompleteMsg
  <2>3. DonePending' = DonePending /\ NReq' = NReq - 1
    BY <1>1, <2>1 DEF DonePending, NReq
  <2>4. ASSUME NEW k \in 1 .. NReq'
        PROVE  prodQ'[k] = RiscvRequest(emitted' - NReq' + k - 1)
    <3>1. prodQ'[k] = prodQ[k + 1] /\ k + 1 \in 1 .. NReq
      BY <1>1, <2>1, <2>2, <2>3
    <3>. QED
      BY <1>1, <2>1, <2>3, <3>1 DEF ProdInOrder
  <2>5. DonePending' => prodQ'[Len(prodQ')] = EmulatorCompleteMsg
    BY <1>1, <2>1, <2>2, <2>3 DEF ProdInOrder
  <2>. QED
    BY <1>1, <2>1, <2>2, <2>3, <2>4, <2>5 DEF ProdInOrder
<1>5. CASE GwEmulatorComplete
  <2>1. /\ prodQ # << >> /\ prodQ[1].type = "EmulatorComplete"
        /\ prodQ' = Tail(prodQ) /\ emulatorComplete' = TRUE
        /\ UNCHANGED <<emitted, phase>>
    BY <1>5 DEF GwEmulatorComplete
  <2>2. NReq = 0
    <3>1. SUFFICES ASSUME NReq # 0 PROVE FALSE
      OBVIOUS
    <3>2. prodQ[1] = RiscvRequest(emitted - NReq)
      BY <1>1, <3>1 DEF ProdInOrder
    <3>. QED
      BY <2>1, <3>2 DEF RiscvRequest
  <2>6. Len(prodQ) # 0
    BY <1>1, <2>1
  <2>7. DonePending /\ Len(prodQ) = 1
    BY <1>1, <2>2, <2>6
  <2>3. ~DonePending' /\ prodQ' = << >> /\ phase' # "emulating"
    BY <1>1, <2>1, <2>7 DEF DonePending
  <2>4. NReq' = 0
    BY <2>3 DEF NReq
  <2>. QED
    BY <1>1, <2>1, <2>3, <2>4 DEF ProdInOrder
<1>6. CASE ProveTask
  <2>1. /\ phase # "emulating" /\ phase' # "emulating"
        /\ UNCHANGED <<prodQ, emitted, emulatorComplete>>
    BY <1>6 DEF ProveTask, AwaitCompletion, CompletionDropped, JoinProvers,
              JoinTimeout
  <2>. QED
    BY <2>1 DEF ProdInOrder, DonePending, NReq
<1>7. CASE ~EmitChunk /\ ~EmulatorDone /\ ~GwRiscvRequest
           /\ ~GwEmulatorComplete /\ ~ProveTask
  <2>1. UNCHANGED <<prodQ, emitted, emulatorComplete, phase>>
    BY <1>7 DEF Next, vars, Emulator, Gateway, Worker, GwProofResponse,
       GwEmbed, WorkerRecv, WorkerClosed, WorkerConvert, WorkerCombine,
       WorkerFastPath, WorkerFastPathFallback, WorkerStagePanic
  <2>. QED
    BY <2>1 DEF ProdInOrder, DonePending, NReq
<1>. QED
  BY <1>2, <1>3, <1>4, <1>5, <1>6, <1>7

-----------------------------------------------------------------------------
(***************************************************************************)
(* The Embed in flight.  The fast path runs for a slot whose range is the  *)
(* merge of its pair; verify accepts only the full range, and a slot with  *)
(* the full range is the only slot, so no other message can be in flight.  *)
(***************************************************************************)

(* A slot covering every chunk leaves room for no other slot. *)
LEMMA FullSpanAlone ==
    ASSUME PipelineInv, NEW i \in DOMAIN tree, Span(i) = FullRange
    PROVE  DOMAIN tree = {i}
<1>1. SUFFICES ASSUME NEW j \in DOMAIN tree, j # i PROVE FALSE
  OBVIOUS
<1>2. /\ i \in Nat /\ j \in Nat
      /\ Span(j).lo \in Nat /\ Span(j).hi \in Nat
      /\ Span(j).lo <= Span(j).hi /\ Span(j).hi < emitted
      /\ emitted \in Nat /\ emitted <= NChunks
  BY SpanNat DEF PipelineInv, SlotsOrdered, TypeOK
<1>3. CASE j < i
  <2>1. Span(j).hi < Span(i).lo
    BY <1>3 DEF PipelineInv, SlotsOrdered
  <2>. QED
    BY <1>2, <2>1 DEF FullRange
<1>4. CASE i < j
  <2>1. Span(i).hi < Span(j).lo
    BY <1>4 DEF PipelineInv, SlotsOrdered
  <2>. QED
    BY <1>2, <2>1 DEF FullRange
<1>. QED
  BY <1>1, <1>2, <1>3, <1>4

(* A busy worker means no Embed has been sent yet. *)
LEMMA BusyNoEmbed ==
    ASSUME EmbedFinal, NEW w \in Workers, wstate[w] = "busy"
    PROVE  \A k \in 1 .. Len(gq) : gq[k].type # "Embed"
BY DEF EmbedFinal, Busy

(* The fast path: verify accepted the merged proof, so it covers every    *)
(* chunk; the worker held the last token of the tree's only slot.         *)
LEMMA FastPathFinal ==
    ASSUME TRUE \notin PartialVerify, PipelineInv, EmbedFinal,
           NEW w \in Workers, WorkerFastPath(w)
    PROVE  EmbedFinal'
<1>0. PICK r : r = Combine(job[w].proofs[1], job[w].proofs[2])
  OBVIOUS
<1>1. /\ wstate[w] = "busy" /\ job[w].type = "CombineRequest"
      /\ TRUE \in VerifyOutcomes(r)
      /\ Reply(w, << EmbedMsg(r), ExitMsg >>, "exited")
      /\ UNCHANGED <<tree, wq, gw, embedProof>>
  BY <1>0 DEF WorkerFastPath
<1>2. r = FullRange
  BY <1>1 DEF VerifyOutcomes
<1>3. PICK i : i = job[w].idx
  OBVIOUS
<1>4. /\ i \in DOMAIN tree /\ Span(i) = FullRange
      /\ DOMAIN tree = {i}
  <2>1. i \in DOMAIN tree
    BY <1>1, <1>3, BusyJob
  <2>2. Span(i) = FullRange
    BY <1>0, <1>1, <1>2, <1>3, CombineSpan
  <2>. QED
    BY <2>1, <2>2, FullSpanAlone
<1>5. \A k \in 1 .. Len(gq) : gq[k].type # "Embed"
  BY <1>1, BusyNoEmbed
<1>6. wq = << >>
  <2>1. SUFFICES ASSUME NEW k \in 1 .. Len(wq) PROVE FALSE
    BY DEF PipelineInv, TypeOK
  <2>2. wq[k].idx = i
    BY <1>4 DEF PipelineInv, TokensMatch, WorkFor
  <2>. QED
    BY <1>1, <1>3, <2>2 DEF PipelineInv, TokensDistinct, Busy
<1>7. Replies = {}
  <2>1. SUFFICES ASSUME NEW l \in Replies PROVE FALSE
    OBVIOUS
  <2>2. gq[l].idx = i
    BY <1>4 DEF PipelineInv, TokensMatch, ReplyFor
  <2>. QED
    BY <1>1, <1>3, <2>2 DEF PipelineInv, TokensDistinct, Busy
<1>8. Busy' = {}
  <2>1. \A v \in Workers \ {w} : wstate[v] # "busy"
    <3>1. SUFFICES ASSUME NEW v \in Workers \ {w}, wstate[v] = "busy"
                   PROVE  FALSE
      OBVIOUS
    <3>2. job[v].idx = i
      BY <1>4, <3>1, BusyJob
    <3>. QED
      BY <1>1, <1>3, <3>1, <3>2 DEF PipelineInv, TokensDistinct, Busy
  <2>2. wstate' = [wstate EXCEPT ![w] = "exited"]
    BY <1>1 DEF Reply
  <2>. QED
    BY <2>1, <2>2 DEF Busy, PipelineInv, TypeOK
<1>9. CASE ChannelsOpen
  <2>1. /\ gq' = gq \o << EmbedMsg(r), ExitMsg >>
        /\ gq \in Seq(ReplyMsg)
    BY <1>1, <1>9 DEF Reply, PipelineInv, TypeOK
  <2>2. /\ Len(gq') = Len(gq) + 2
        /\ gq'[Len(gq) + 1] = EmbedMsg(r)
        /\ gq'[Len(gq) + 2] = ExitMsg
        /\ \A k \in 1 .. Len(gq) : gq'[k] = gq[k]
    BY <2>1
  <2>3. Replies' = {}
    BY <1>7, <2>2 DEF Replies, EmbedMsg, ExitMsg
  <2>4. ASSUME NEW k \in 1 .. Len(gq'), gq'[k].type = "Embed"
        PROVE  k = Len(gq) + 1
    BY <1>5, <2>1, <2>2, <2>4 DEF ExitMsg
  <2>5. /\ Span(i)' = FullRange /\ DOMAIN tree' = {i} /\ wq' = << >>
        /\ gq'[Len(gq) + 1].proof = FullRange
    BY <1>1, <1>2, <1>4, <1>6, <2>2 DEF Span, EmbedMsg
  <2>. QED
    BY <1>1, <1>8, <2>3, <2>4, <2>5 DEF EmbedFinal
<1>10. CASE ~ChannelsOpen
  <2>1. gq' = gq
    BY <1>1, <1>10 DEF Reply
  <2>. QED
    BY <1>1, <1>5, <2>1 DEF EmbedFinal
<1>. QED
  BY <1>9, <1>10

(* A worker's ordinary reply adds no Embed. *)
LEMMA ReplyNoEmbed ==
    ASSUME gq \in Seq(ReplyMsg), \A k \in 1 .. Len(gq) : gq[k].type # "Embed",
           NEW w, NEW msg, msg.type # "Embed", NEW after,
           Reply(w, << msg >>, after)
    PROVE  \A k \in 1 .. Len(gq') : gq'[k].type # "Embed"
<1>1. CASE ChannelsOpen
  <2>1. /\ Len(gq') = Len(gq) + 1 /\ gq'[Len(gq) + 1] = msg
        /\ \A k \in 1 .. Len(gq) : gq'[k] = gq[k]
    BY <1>1 DEF Reply
  <2>. QED
    BY <2>1
<1>2. CASE ~ChannelsOpen
  BY <1>2 DEF Reply
<1>. QED
  BY <1>1, <1>2

(* Every step keeps EmbedFinal, when verify rejects a partial embed. *)
LEMMA NextEmbedFinal ==
    ASSUME TRUE \notin PartialVerify, PipelineInv, EmbedFinal, [Next]_vars
    PROVE  EmbedFinal'
<1>0. gq \in Seq(ReplyMsg) /\ wq \in Seq(WorkMsg) /\ prodQ \in Seq(ProdMsg)
  BY DEF PipelineInv, TypeOK
<1>1. CASE EmitChunk \/ EmulatorDone \/ GwEmulatorComplete \/ ProveTask
           \/ UNCHANGED vars
  <2>1. UNCHANGED <<tree, wq, gq, wstate, gw, embedProof>>
    BY <1>1 DEF EmitChunk, EmulatorDone, GwEmulatorComplete, ProveTask,
              AwaitCompletion, CompletionDropped, JoinProvers, JoinTimeout,
              vars
  <2>. QED
    BY <2>1 DEF EmbedFinal, Replies, Busy, Span
<1>2. CASE GwRiscvRequest
  <2>1. /\ prodQ # << >> /\ prodQ[1].type = "RiscvRequest"
        /\ UNCHANGED <<gq, gw, embedProof>>
    BY <1>2 DEF GwRiscvRequest
  <2>2. \A k \in 1 .. Len(gq) : gq[k].type # "Embed"
    <3>1. SUFFICES ASSUME NEW k \in 1 .. Len(gq), gq[k].type = "Embed"
                   PROVE  FALSE
      OBVIOUS
    <3>2. PICK i \in DOMAIN tree : Span(i) = FullRange
      BY <3>1 DEF EmbedFinal
    <3>3. prodQ[1] \in [type : {"RiscvRequest"}, idx : Indices]
      <4>1. prodQ[1] \in ProdMsg /\ prodQ[1] # EmulatorCompleteMsg
        BY <1>0, <2>1 DEF EmulatorCompleteMsg
      <4>. QED
        BY <4>1 DEF ProdMsg
    <3>4. Span(i).hi < prodQ[1].idx
      BY <1>0, <2>1 DEF PipelineInv, ProdPending
    <3>. QED
      BY <3>2, <3>3, <3>4 DEF FullRange, Indices
  <2>. QED
    BY <2>1, <2>2 DEF EmbedFinal
<1>3. CASE GwProofResponse
  <2>1. /\ gq # << >>
        /\ gq[1].type \in {"RiscvResponse", "CombineResponse"}
        /\ gq' = Tail(gq) /\ UNCHANGED <<gw, embedProof>>
    BY <1>3 DEF GwProofResponse
  <2>2. 1 \in Replies
    BY <1>0, <2>1 DEF Replies
  <2>3. \A k \in 1 .. Len(gq) : gq[k].type # "Embed"
    BY <2>2 DEF EmbedFinal
  <2>4. \A k \in 1 .. Len(gq') : gq'[k].type # "Embed"
    BY <1>0, <2>1, <2>3
  <2>. QED
    BY <2>1, <2>4 DEF EmbedFinal
<1>4. CASE GwEmbed
  <2>1. /\ gq # << >> /\ gq' = Tail(gq) /\ gw' = "exited"
        /\ UNCHANGED <<tree, wq, wstate>>
    BY <1>4 DEF GwEmbed
  <2>2. /\ Len(gq') = Len(gq) - 1
        /\ \A k \in 1 .. Len(gq') : gq'[k] = gq[k + 1]
    BY <1>0, <2>1
  <2>3. ASSUME NEW k \in 1 .. Len(gq'), gq'[k].type = "Embed"
        PROVE  /\ gq'[k].proof = FullRange
               /\ wq' = << >> /\ Replies' = {} /\ Busy' = {}
               /\ \E i \in DOMAIN tree' :
                    DOMAIN tree' = {i} /\ Span(i)' = FullRange
    <3>1. /\ gq[k + 1].type = "Embed" /\ k + 1 \in 1 .. Len(gq)
      BY <2>2, <2>3
    <3>2. /\ gq[k + 1].proof = FullRange
          /\ wq = << >> /\ Replies = {} /\ Busy = {}
          /\ \E i \in DOMAIN tree : DOMAIN tree = {i} /\ Span(i) = FullRange
      BY <3>1 DEF EmbedFinal
    <3>3. Replies' = {}
      <4>1. SUFFICES ASSUME NEW l \in Replies' PROVE FALSE
        OBVIOUS
      <4>2. l + 1 \in Replies
        BY <2>2, <4>1 DEF Replies
      <4>. QED
        BY <3>2, <4>2
    <3>. QED
      BY <2>1, <2>2, <3>1, <3>2, <3>3 DEF Busy, Span
  <2>. QED
    BY <2>1, <2>3 DEF EmbedFinal
<1>5. ASSUME NEW w \in Workers, Worker(w) PROVE EmbedFinal'
  <2>0. UNCHANGED <<gw, embedProof>>
    BY <1>5 DEF Worker, WorkerRecv, WorkerClosed, WorkerConvert, WorkerCombine,
              WorkerFastPath, WorkerFastPathFallback, WorkerStagePanic
  <2>a. ASSUME \A k \in 1 .. Len(gq') : gq'[k].type # "Embed"
        PROVE  EmbedFinal'
    BY <2>0, <2>a DEF EmbedFinal
  <2>1. CASE WorkerRecv(w)
    <3>1. wq # << >> /\ gq' = gq
      BY <2>1 DEF WorkerRecv
    <3>. QED
      BY <2>a, <3>1 DEF EmbedFinal
  <2>2. CASE WorkerClosed(w)
    <3>1. /\ wstate[w] = "idle" /\ UNCHANGED <<gq, wq, tree>>
          /\ wstate' = [wstate EXCEPT ![w] = "exited"]
      BY <2>2 DEF WorkerClosed
    <3>2. Busy' = Busy
      BY <3>1 DEF PipelineInv, TypeOK, Busy
    <3>. QED
      BY <2>0, <3>1, <3>2 DEF EmbedFinal, Replies, Span
  <2>3. CASE WorkerConvert(w)
    <3>1. wstate[w] = "busy"
      BY <2>3 DEF WorkerConvert
    <3>. QED
      BY <2>a, <2>3, <3>1, <1>0, BusyNoEmbed, ReplyNoEmbed
      DEF WorkerConvert, RiscvResponse
  <2>4. CASE WorkerCombine(w)
    <3>1. wstate[w] = "busy"
      BY <2>4 DEF WorkerCombine
    <3>. QED
      BY <2>a, <2>4, <3>1, <1>0, BusyNoEmbed, ReplyNoEmbed
      DEF WorkerCombine, CombineResponse
  <2>5. CASE WorkerFastPathFallback(w)
    <3>1. wstate[w] = "busy"
      BY <2>5 DEF WorkerFastPathFallback
    <3>. QED
      BY <2>a, <2>5, <3>1, <1>0, BusyNoEmbed, ReplyNoEmbed
      DEF WorkerFastPathFallback, CombineResponse
  <2>6. CASE WorkerStagePanic(w)
    <3>1. wstate[w] = "busy" /\ gq' = gq
      BY <2>6 DEF WorkerStagePanic
    <3>. QED
      BY <2>a, <3>1, BusyNoEmbed
  <2>7. CASE WorkerFastPath(w)
    BY <2>7, FastPathFinal
  <2>. QED
    BY <1>5, <2>1, <2>2, <2>3, <2>4, <2>5, <2>6, <2>7 DEF Worker
<1>. QED
  BY <1>1, <1>2, <1>3, <1>4, <1>5
  DEF Next, Emulator, Gateway

(* In the initial state the producer channel and the gateway channel are  *)
(* empty and the emulator is running.                                      *)
LEMMA InitRefineInv == Init => RefineInv
<1> SUFFICES ASSUME Init PROVE RefineInv
  OBVIOUS
<1>1. ProdInOrder
  <2>1. ~DonePending /\ NReq = 0 /\ emitted = 0
    BY DEF Init, DonePending, NReq
  <2>. QED
    BY <2>1 DEF Init, ProdInOrder
<1>2. EmbedFinal
  BY DEF Init, EmbedFinal
<1>. QED
  BY <1>1, <1>2, InitPipelineInv DEF RefineInv

(* RefineInv holds in every reachable state, when verify rejects every    *)
(* partial embed proof: the producer channel carries the consecutive      *)
(* requests emitted - NReq .. emitted - 1 (emulator::run sends one per    *)
(* record, in order), embedProof stays empty while the gateway loop runs,  *)
(* and an Embed from a worker's fast path carries the full range, sent     *)
(* when the tree is a single slot and no other work is left.               *)
THEOREM RefineInvariant ==
    ASSUME TRUE \notin PartialVerify
    PROVE  Spec => []RefineInv
<1>1. Init => RefineInv
  BY InitRefineInv
<1>2. RefineInv /\ [Next]_vars => RefineInv'
  <2> SUFFICES ASSUME RefineInv, [Next]_vars PROVE RefineInv'
    OBVIOUS
  <2>1. PipelineInv'
    BY NextPipelineInv DEF RefineInv
  <2>2. ProdInOrder'
    BY NextProdInOrder DEF RefineInv, PipelineInv
  <2>3. EmbedFinal'
    BY NextEmbedFinal DEF RefineInv
  <2>. QED
    BY <2>1, <2>2, <2>3 DEF RefineInv
<1>. QED
  BY <1>1, <1>2, PTL DEF Spec

-----------------------------------------------------------------------------
(***************************************************************************)
(* The refinement mapping, step by step.                                   *)
(***************************************************************************)

(* The abstract segments: the range of every live slot. *)
Segs == {SlotRange(tree, i) : i \in DOMAIN tree}

(* RegisteredNReq in the next state. *)
LEMMA RegisteredNReqNext ==
    ASSUME TypeOK', ProdInOrder'
    PROVE  Registered' = emitted' - NReq'
<1>1. /\ emitted' \in Nat /\ Len(prodQ') \in Nat /\ NReq' \in Nat
      /\ NReq' <= Len(prodQ')
      /\ DonePending' => Len(prodQ') = NReq' + 1
      /\ ~DonePending' => Len(prodQ') = NReq'
  BY DEF TypeOK, ProdInOrder, NReq
<1>2. {k \in 1 .. Len(prodQ') : prodQ'[k].type = "RiscvRequest"} = 1 .. NReq'
  <2>1. ASSUME NEW k \in 1 .. NReq' PROVE prodQ'[k].type = "RiscvRequest"
    <3>1. prodQ'[k] = RiscvRequest(emitted' - NReq' + k - 1)
      BY DEF ProdInOrder
    <3>. QED
      BY <3>1 DEF RiscvRequest
  <2>2. ASSUME NEW k \in 1 .. Len(prodQ'), k > NReq'
        PROVE  prodQ'[k].type # "RiscvRequest"
    <3>1. DonePending'
      <4>1. SUFFICES ASSUME ~DonePending' PROVE FALSE
        OBVIOUS
      <4>2. Len(prodQ') = NReq'
        BY <1>1, <4>1
      <4>. QED
        BY <1>1, <2>2, <4>2
    <3>2. k = Len(prodQ')
      BY <1>1, <2>2, <3>1
    <3>. QED
      BY <3>1, <3>2 DEF ProdInOrder, EmulatorCompleteMsg
  <2>. QED
    BY <1>1, <2>1, <2>2
<1>3. Cardinality(1 .. NReq') = NReq'
  BY <1>1, FS_Interval
<1>. QED
  BY <1>2, <1>3 DEF Registered

(* A step that keeps the tree, the embed proof and Registered is a        *)
(* stutter of ChunkReduction.                                              *)
LEMMA MapUnchanged ==
    ASSUME tree' = tree, embedProof' = embedProof, Registered' = Registered
    PROVE  UNCHANGED <<Segs, Registered, embedProof>>
BY DEF Segs, SlotRange

(* set_proof pairing two adjacent slots: the segments lose the two ranges *)
(* and gain their union.                                                   *)
LEMMA MergeSegs ==
    ASSUME PipelineInv,
           NEW a \in DOMAIN tree, NEW b \in DOMAIN tree, a < b,
           Span(a).hi + 1 = Span(b).lo,
           NEW x \in {a, b}, NEW s \in {a, b}, x # s,
           tree' = [j \in DOMAIN tree \ {s} |->
                      IF j = x THEN InProgress(<< Span(a), Span(b) >>)
                      ELSE tree[j]]
    PROVE  Segs' = (Segs \ {Span(a), Span(b)})
                     \cup {Reduction!Seg(Span(a).lo, Span(b).hi)}
<1>1. SlotRange(tree', x) = Reduction!Seg(Span(a).lo, Span(b).hi)
  BY DEF SlotRange, InProgress, Combine, Reduction!Seg
<1>2. \A j \in DOMAIN tree \ {a, b} : SlotRange(tree', j) = Span(j)
  BY DEF SlotRange, Span
<1>3. \A j \in DOMAIN tree \ {a, b} : Span(j) \notin {Span(a), Span(b)}
  <2>1. SUFFICES ASSUME NEW j \in DOMAIN tree \ {a, b}, NEW c \in {a, b},
                        Span(j) = Span(c)
                 PROVE  FALSE
    OBVIOUS
  <2>2. /\ j \in Nat /\ c \in Nat
        /\ Span(j).lo \in Nat /\ Span(j).hi \in Nat
        /\ Span(c).lo \in Nat /\ Span(c).hi \in Nat
    BY SpanNat DEF PipelineInv
  <2>3. /\ Span(j).lo <= Span(j).hi
        /\ (j < c => Span(j).hi < Span(c).lo)
        /\ (c < j => Span(c).hi < Span(j).lo)
    BY <2>2 DEF PipelineInv, SlotsOrdered
  <2>. QED
    BY <2>1, <2>2, <2>3
<1>4. DOMAIN tree' = (DOMAIN tree \ {a, b}) \cup {x}
  OBVIOUS
<1>5. Segs' = {SlotRange(tree', j) : j \in DOMAIN tree'}
  BY DEF Segs
<1>6. Segs \ {Span(a), Span(b)} = {Span(j) : j \in DOMAIN tree \ {a, b}}
  BY <1>3 DEF Segs, Span
<1>7. \A j \in DOMAIN tree' :
        SlotRange(tree', j) \in {Span(i) : i \in DOMAIN tree \ {a, b}}
                                \cup {Reduction!Seg(Span(a).lo, Span(b).hi)}
  BY <1>1, <1>2, <1>4
<1>8. \A i \in DOMAIN tree \ {a, b} : \E j \in DOMAIN tree' :
        SlotRange(tree', j) = Span(i)
  BY <1>2, <1>4
<1>9. Segs' \subseteq (Segs \ {Span(a), Span(b)})
                       \cup {Reduction!Seg(Span(a).lo, Span(b).hi)}
  BY <1>5, <1>6, <1>7
<1>10. ASSUME NEW e \in (Segs \ {Span(a), Span(b)})
                       \cup {Reduction!Seg(Span(a).lo, Span(b).hi)}
       PROVE  e \in Segs'
  <2>1. CASE e = Reduction!Seg(Span(a).lo, Span(b).hi)
    BY <1>1, <1>4, <1>5, <2>1
  <2>2. CASE e \in Segs \ {Span(a), Span(b)}
    <3>1. PICK i \in DOMAIN tree \ {a, b} : e = Span(i)
      BY <1>6, <2>2
    <3>. QED
      BY <1>5, <1>8, <3>1
  <2>. QED
    BY <1>10, <2>1, <2>2
<1>. QED
  BY <1>9, <1>10

(* init_node for the request at the head of the emulator channel is       *)
(* Register: that request is chunk Registered, below NChunks, and its     *)
(* new slot stands for that one chunk.                                     *)
LEMMA RegisterStep ==
    ASSUME RefineInv, RefineInv', GwRiscvRequest
    PROVE  Reduction!Register
<1>0. PICK x : x = prodQ[1].idx
  OBVIOUS
<1>1. /\ prodQ # << >> /\ prodQ \in Seq(ProdMsg)
      /\ prodQ[1].type = "RiscvRequest"
      /\ tree' = InitNode(tree, x) /\ prodQ' = Tail(prodQ)
      /\ UNCHANGED <<emitted, embedProof, phase, emulatorComplete>>
  BY <1>0 DEF GwRiscvRequest, RefineInv, PipelineInv, TypeOK
<1>2. /\ x \in Indices
      /\ \A i \in DOMAIN tree : i < x
      /\ DOMAIN tree \subseteq Nat
  <2>1. prodQ[1] \in [type : {"RiscvRequest"}, idx : Indices]
    <3>1. prodQ[1] \in ProdMsg /\ prodQ[1] # EmulatorCompleteMsg
      BY <1>1 DEF EmulatorCompleteMsg
    <3>. QED
      BY <3>1 DEF ProdMsg
  <2>2. \A i \in DOMAIN tree : Span(i).hi < x /\ i <= Span(i).hi
    BY <1>0, <1>1 DEF RefineInv, PipelineInv, ProdPending, SlotsOrdered
  <2>3. \A i \in DOMAIN tree : i \in Nat /\ Span(i).hi \in Nat
    BY SpanNat DEF RefineInv, PipelineInv
  <2>4. x \in Indices /\ x \in Nat
    BY <1>0, <2>1, IndicesNat
  <2>. QED
    BY <2>2, <2>3, <2>4
<1>3. /\ emitted \in Nat /\ Len(prodQ) \in Nat /\ NReq \in Nat
      /\ NReq <= Len(prodQ)
      /\ DonePending => Len(prodQ) = NReq + 1
      /\ ~DonePending => Len(prodQ) = NReq
  BY ProdTypes DEF RefineInv, PipelineInv
<1>4. NReq >= 1
  <2>1. SUFFICES ASSUME NReq = 0 PROVE FALSE
    BY <1>3
  <2>2. Len(prodQ) # 0
    BY <1>1
  <2>3. DonePending /\ Len(prodQ) = 1
    BY <1>3, <2>1, <2>2
  <2>. QED
    BY <1>1, <2>3 DEF RefineInv, ProdInOrder, EmulatorCompleteMsg
<1>5. x = Registered
  <2>1. prodQ[1] = RiscvRequest(emitted - NReq + 1 - 1)
    BY <1>3, <1>4 DEF RefineInv, ProdInOrder
  <2>2. x = emitted - NReq
    BY <1>0, <1>3, <2>1 DEF RiscvRequest
  <2>. QED
    BY <2>2, RegisteredNReq DEF RefineInv, PipelineInv
<1>6. Registered' = Registered + 1
  <2>1. DonePending' = DonePending
    BY <1>1 DEF DonePending
  <2>2. Len(prodQ') = Len(prodQ) - 1
    BY <1>1
  <2>3. NReq' = NReq - 1
    BY <1>3, <1>4, <2>1, <2>2 DEF NReq
  <2>4. Registered' = emitted' - NReq'
    BY RegisteredNReqNext DEF RefineInv, PipelineInv
  <2>5. Registered = emitted - NReq
    BY RegisteredNReq DEF RefineInv, PipelineInv
  <2>. QED
    BY <1>1, <1>3, <2>3, <2>4, <2>5
<1>7. Segs' = Segs \cup {Reduction!Seg(x, x)}
  <2>1. /\ DOMAIN tree' = DOMAIN tree \cup {x}
        /\ tree'[x] = InProgress(<< >>)
        /\ \A i \in DOMAIN tree : tree'[i] = tree[i]
    BY <1>1, <1>2 DEF InitNode
  <2>2. SlotRange(tree', x) = Reduction!Seg(x, x)
    BY <2>1 DEF SlotRange, InProgress, ChunkProof, Reduction!Seg
  <2>3. \A i \in DOMAIN tree : SlotRange(tree', i) = SlotRange(tree, i)
    BY <2>1, SlotRangeLocal
  <2>4. Segs' = {SlotRange(tree', i) : i \in DOMAIN tree'}
    BY DEF Segs
  <2>5. Segs' \subseteq Segs \cup {Reduction!Seg(x, x)}
    BY <2>1, <2>2, <2>3, <2>4 DEF Segs
  <2>6. Segs \cup {Reduction!Seg(x, x)} \subseteq Segs'
    BY <2>1, <2>2, <2>3, <2>4 DEF Segs
  <2>. QED
    BY <2>5, <2>6
<1>8. Registered < NChunks
  BY <1>2, <1>5 DEF Indices
<1>9. Reduction!Seg(x, x) = Reduction!Seg(Registered, Registered)
  BY <1>5
<1>. QED
  BY <1>1, <1>6, <1>7, <1>8, <1>9 DEF Reduction!Register, Segs

(* set_proof is a stutter when the slot has no proved neighbour (the      *)
(* proof covers the slot's own range), and otherwise Reduce of the        *)
(* neighbour's range and the slot's, which are adjacent.                   *)
LEMMA ProofResponseStep ==
    ASSUME PipelineInv, GwProofResponse
    PROVE  Reduction!Reduce \/ UNCHANGED <<Segs, Registered, embedProof>>
<1>0. PICK x, p : x = gq[1].idx /\ p = gq[1].proof
  OBVIOUS
<1>1. /\ prodQ = << >>
      /\ tree' = SetProofTree(tree, x, p)
      /\ UNCHANGED <<emitted, prodQ, embedProof>>
  BY <1>0 DEF GwProofResponse
<1>2. Registered' = Registered
  BY <1>1 DEF Registered
<1>3. /\ x \in DOMAIN tree /\ tree[x].kind = "InProgress" /\ p = Span(x)
      /\ DOMAIN tree \subseteq Nat
  <2>1. 1 \in Replies
    BY DEF GwProofResponse, PipelineInv, TypeOK, Replies
  <2>. QED
    BY <1>0, <2>1, IndicesNat DEF PipelineInv, TokensMatch, ReplyFor, TypeOK,
                                  IsTree
<1>4. CASE ~HasSibling(tree, x)
  <2>1. /\ DOMAIN tree' = DOMAIN tree
        /\ tree'[x] = Proved(p)
        /\ \A j \in DOMAIN tree \ {x} : tree'[j] = tree[j]
    BY <1>1, <1>3, <1>4 DEF SetProofTree
  <2>2. \A j \in DOMAIN tree : Span(j)' = Span(j)
    <3>1. Span(x)' = Span(x)
      BY <1>3, <2>1 DEF Span, SlotRange, Proved
    <3>. QED
      BY <2>1, <3>1, SlotRangeLocal DEF Span
  <2>3. Segs' = Segs
    BY <2>1, <2>2 DEF Segs, Span
  <2>. QED
    BY <1>1, <1>2, <2>3
<1>5. CASE HasSibling(tree, x)
  <2>0. PICK s : s = Sibling(tree, x)
    OBVIOUS
  <2>1. tree' = [j \in DOMAIN tree \ {s} |->
                   IF j = x THEN InProgress(SiblingPair(tree, x, p))
                   ELSE tree[j]]
    BY <1>1, <1>5, <2>0 DEF SetProofTree
  <2>2. /\ s \in DOMAIN tree /\ s # x
    <3>1. CASE PrevProved(tree, x)
      BY <1>3, <2>0, <3>1, PrevFacts DEF Sibling, PrevProved
    <3>2. CASE ~PrevProved(tree, x)
      BY <1>3, <1>5, <2>0, <3>2, NextFacts
         DEF Sibling, NextProved, HasSibling
    <3>. QED
      BY <3>1, <3>2
  <2>3. /\ Span(s) \in Segs /\ Span(x) \in Segs
    BY <1>3, <2>2 DEF Segs, Span
  <2>4. CASE PrevProved(tree, x)
    <3>1. /\ s = PrevIndex(tree, x) /\ s < x
          /\ SiblingPair(tree, x, p) = << Span(s), Span(x) >>
      BY <1>3, <2>0, <2>2, <2>4, PrevFacts
         DEF Sibling, PrevProved, SiblingPair, Span, SlotRange
    <3>2. Span(s).hi + 1 = Span(x).lo
      BY <1>1, <1>3, <2>4, <3>1, PrevAdjacent DEF PrevProved
    <3>3. Segs' = (Segs \ {Span(s), Span(x)})
                    \cup {Reduction!Seg(Span(s).lo, Span(x).hi)}
      BY <1>3, <2>1, <2>2, <3>1, <3>2, MergeSegs
    <3>. QED
      BY <1>1, <1>2, <2>3, <3>2, <3>3 DEF Reduction!Reduce, Segs
  <2>5. CASE ~PrevProved(tree, x)
    <3>1. /\ s = NextIndex(tree, x) /\ x < s
          /\ SiblingPair(tree, x, p) = << Span(x), Span(s) >>
      <4>1. /\ s = NextIndex(tree, x) /\ x < s /\ tree[s].kind = "Proved"
        BY <1>3, <1>5, <2>0, <2>2, <2>5, NextFacts
           DEF Sibling, NextProved, HasSibling
      <4>2. Span(s) = tree[s].proof
        BY <4>1 DEF Span, SlotRange
      <4>. QED
        BY <1>3, <2>5, <4>1, <4>2 DEF SiblingPair
    <3>2. Span(x).hi + 1 = Span(s).lo
      BY <1>1, <1>3, <1>5, <2>5, <3>1, NextAdjacent DEF HasSibling, NextProved
    <3>3. Segs' = (Segs \ {Span(x), Span(s)})
                    \cup {Reduction!Seg(Span(x).lo, Span(s).hi)}
      BY <1>3, <2>1, <2>2, <3>1, <3>2, MergeSegs
    <3>. QED
      BY <1>1, <1>2, <2>3, <3>2, <3>3 DEF Reduction!Reduce, Segs
  <2>. QED
    BY <2>4, <2>5
<1>. QED
  BY <1>4, <1>5

(* The Embed the gateway accepts is Finish: the tree is one slot covering *)
(* every chunk and the handler held no embed proof yet.                    *)
LEMMA EmbedStep ==
    ASSUME RefineInv, GwEmbed
    PROVE  Reduction!Finish
<1>1. /\ gw = "running" /\ gq # << >> /\ gq[1].type = "Embed"
      /\ embedProof' = << gq[1].proof >>
      /\ UNCHANGED <<emitted, prodQ, tree>>
  BY DEF GwEmbed
<1>2. /\ gq[1].proof = FullRange
      /\ \E i \in DOMAIN tree : DOMAIN tree = {i} /\ Span(i) = FullRange
      /\ embedProof = << >>
  <2>1. 1 \in 1 .. Len(gq)
    BY <1>1 DEF RefineInv, PipelineInv, TypeOK
  <2>. QED
    BY <1>1, <2>1 DEF RefineInv, EmbedFinal
<1>3. FullRange = Reduction!FullSeg
  BY DEF FullRange, Reduction!FullSeg, Reduction!Seg
<1>4. Segs = {Reduction!FullSeg}
  BY <1>2, <1>3 DEF Segs, Span
<1>5. UNCHANGED <<Segs, Registered>>
  BY <1>1 DEF Segs, SlotRange, Registered
<1>. QED
  BY <1>1, <1>2, <1>3, <1>4, <1>5 DEF Reduction!Finish, Segs

(* The emulator's sends and the gateway's EmulatorComplete keep           *)
(* Registered: a request sent is not yet applied.                          *)
LEMMA EmulatorRegistered ==
    ASSUME RefineInv, RefineInv',
           EmitChunk \/ EmulatorDone \/ GwEmulatorComplete
    PROVE  Registered' = Registered
<1>1. /\ emitted \in Nat /\ Len(prodQ) \in Nat /\ NReq \in Nat
      /\ NReq <= Len(prodQ)
      /\ DonePending => Len(prodQ) = NReq + 1
      /\ ~DonePending => Len(prodQ) = NReq
  BY ProdTypes DEF RefineInv, PipelineInv
<1>2. /\ Registered = emitted - NReq
      /\ Registered' = emitted' - NReq'
  BY RegisteredNReq, RegisteredNReqNext DEF RefineInv, PipelineInv
<1>0. /\ NReq' = Len(prodQ') - (IF DonePending' THEN 1 ELSE 0)
      /\ NReq = Len(prodQ) - (IF DonePending THEN 1 ELSE 0)
  BY DEF NReq
<1>3. emitted' - NReq' = emitted - NReq
  <2>1. CASE EmitChunk
    <3>1. /\ phase = "emulating" /\ phase' = "emulating"
          /\ Len(prodQ') = Len(prodQ) + 1 /\ emitted' = emitted + 1
      BY <2>1 DEF EmitChunk
    <3>2. ~DonePending /\ ~DonePending'
      BY <3>1 DEF DonePending
    <3>. QED
      BY <1>0, <1>1, <3>1, <3>2
  <2>2. CASE EmulatorDone
    <3>1. /\ phase = "emulating" /\ phase' = "awaiting"
          /\ Len(prodQ') = Len(prodQ) + 1
          /\ UNCHANGED <<emitted, emulatorComplete>>
      BY <2>2 DEF EmulatorDone
    <3>2. ~DonePending /\ DonePending'
      BY <3>1 DEF DonePending, RefineInv, ProdInOrder
    <3>. QED
      BY <1>0, <1>1, <3>1, <3>2
  <2>3. CASE GwEmulatorComplete
    <3>1. /\ prodQ # << >> /\ prodQ[1].type = "EmulatorComplete"
          /\ Len(prodQ') = Len(prodQ) - 1 /\ emulatorComplete'
          /\ UNCHANGED emitted
      BY <2>3 DEF GwEmulatorComplete, RefineInv, PipelineInv, TypeOK
    <3>2. NReq = 0
      <4>1. SUFFICES ASSUME NReq # 0 PROVE FALSE
        OBVIOUS
      <4>2. prodQ[1] = RiscvRequest(emitted - NReq + 1 - 1)
        BY <1>1, <4>1 DEF RefineInv, ProdInOrder
      <4>. QED
        BY <3>1, <4>2 DEF RiscvRequest
    <3>3. DonePending /\ Len(prodQ) = 1
      BY <1>1, <3>1, <3>2
    <3>4. ~DonePending' /\ Len(prodQ') = 0
      BY <3>1, <3>3 DEF DonePending
    <3>5. NReq' = 0
      <4>1. prodQ' = << >>
        BY <2>3, <3>1, <3>3 DEF GwEmulatorComplete, RefineInv, PipelineInv,
                                TypeOK
      <4>2. DonePending' = FALSE
        BY <3>4
      <4>. QED
        BY <4>1, <4>2 DEF NReq
    <3>. QED
      BY <1>1, <3>1, <3>2, <3>5
  <2>. QED
    BY <2>1, <2>2, <2>3
<1>. QED
  BY <1>2, <1>3

(* Every step of the pipeline is a step of ChunkReduction or leaves the   *)
(* mapped state unchanged.                                                 *)
LEMMA StepRefines ==
    ASSUME RefineInv, RefineInv', [Next]_vars
    PROVE  [Reduction!Next]_<<Segs, Registered, embedProof>>
<1>1. CASE EmitChunk \/ EmulatorDone \/ GwEmulatorComplete
  <2>1. UNCHANGED <<tree, embedProof>>
    BY <1>1 DEF EmitChunk, EmulatorDone, GwEmulatorComplete
  <2>. QED
    BY <1>1, <2>1, EmulatorRegistered, MapUnchanged
<1>2. CASE GwRiscvRequest
  BY <1>2, RegisterStep DEF Reduction!Next
<1>3. CASE GwProofResponse
  BY <1>3, ProofResponseStep DEF Reduction!Next, RefineInv
<1>4. CASE GwEmbed
  BY <1>4, EmbedStep DEF Reduction!Next
<1>5. CASE ProveTask \/ (\E w \in Workers : Worker(w)) \/ UNCHANGED vars
  <2>1. UNCHANGED <<emitted, prodQ, tree, embedProof>>
    BY <1>5 DEF ProveTask, AwaitCompletion, CompletionDropped, JoinProvers,
              JoinTimeout, Worker, WorkerRecv, WorkerClosed, WorkerConvert,
              WorkerCombine, WorkerFastPath, WorkerFastPathFallback,
              WorkerStagePanic, vars
  <2>2. Registered' = Registered
    BY <2>1 DEF Registered
  <2>. QED
    BY <2>1, <2>2, MapUnchanged
<1>. QED
  BY <1>1, <1>2, <1>3, <1>4, <1>5 DEF Next, Emulator, Gateway

(* The initial state maps to ChunkReduction's: no slot, nothing           *)
(* registered, no final proof.                                             *)
LEMMA InitRefines == Init => Reduction!Init
<1> SUFFICES ASSUME Init PROVE Reduction!Init
  OBVIOUS
<1>1. DOMAIN tree = {}
  BY DEF Init, EmptyTree
<1>2. Registered = 0
  <2>1. {k \in 1 .. Len(prodQ) : prodQ[k].type = "RiscvRequest"} = {}
    BY DEF Init
  <2>. QED
    BY <2>1, FS_EmptySet DEF Init, Registered
<1>. QED
  BY <1>1, <1>2 DEF Init, Reduction!Init

(* ReducesChunks: when verify rejects an embed proof of a strict prefix   *)
(* of the chunks, the gateway, the handler and the workers implement       *)
(* ChunkReduction.  init_node registers the chunks in emulator order,      *)
(* set_proof replaces two adjacent ranges by their union, and the Embed    *)
(* the gateway takes covers every chunk.  The hypothesis is needed:        *)
(* flag_complete can be set before the last chunk is announced (run        *)
(* flag_premature), and when verify accepts that partial embed proof the   *)
(* gateway ends with it, which is not a Finish of ChunkReduction.          *)
THEOREM Refinement ==
    ASSUME TRUE \notin PartialVerify
    PROVE  Spec => ReducesChunks
<1>1. Init => Reduction!Init
  BY InitRefines
<1>2. RefineInv /\ RefineInv' /\ [Next]_vars
        => [Reduction!Next]_<<{SlotRange(tree, i) : i \in DOMAIN tree},
                              Registered, embedProof>>
  BY StepRefines DEF Segs
<1>3. Spec => []RefineInv
  BY RefineInvariant
<1>. QED
  BY <1>1, <1>2, <1>3, PTL DEF Spec, ReducesChunks, Reduction!Spec
====
