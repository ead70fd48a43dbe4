--------------------------- MODULE ProvingPipeline ---------------------------
(***************************************************************************)
(* One run of prove_task (src/proving/mod.rs): the emulator producing      *)
(* chunk records, the gateway thread (src/proving/gateway/mod.rs) applying *)
(* them and the workers' replies to its GatewayHandler                     *)
(* (src/proving/gateway/handler/mod.rs), the pool of worker threads        *)
(* (src/proving/worker/prover/mod.rs), and prove_task waiting for the      *)
(* completion signal and then for the threads.                             *)
(*                                                                         *)
(* Channels are FIFO sequences of message records:                          *)
(*   prodQ  emulator -> gateway        (emulator_gateway_channel)           *)
(*   wq     gateway  -> workers        (gateway_worker_channel, one queue   *)
(*                                      shared by all workers)              *)
(*   gq     workers  -> gateway        (gateway_worker_channel)             *)
(* The RequestTask messages a worker sends before each recv are left out:   *)
(* the gateway's handling of them (gateway/mod.rs:102) changes no state.    *)
(***************************************************************************)
EXTENDS Naturals, FiniteSets, Sequences

CONSTANTS
    NChunks,        \* number of records the emulation of the program yields
    Workers,        \* prover threads (prover_count)
    PartialVerify,  \* outcomes of verify on an embed proof of a strict
                    \* prefix of the chunks (the circuit's completeness
                    \* checks are external to this repository)
    StageFails,     \* whether a proving stage may panic: {FALSE} or BOOLEAN
    RenderFaults    \* what can go wrong in prove_embed_onchain: "files_missing",
                    \* "docker_down", "witness_err", "prove_err",
                    \* "malformed_proof"

ASSUME NChunksAssumption == NChunks \in Nat \ {0}
ASSUME WorkersAssumption == Workers # {}
ASSUME PartialVerifyAssumption == PartialVerify \subseteq BOOLEAN
ASSUME StageFailsAssumption == StageFails \subseteq BOOLEAN
ASSUME RenderAssumption ==
    RenderFaults \subseteq {"files_missing", "docker_down", "witness_err",
                            "prove_err", "malformed_proof"}

Indices == 0 .. NChunks - 1

INSTANCE ProofTree

VARIABLES
    emitted,          \* chunk_index counter of the emulator loop
    prodQ,            \* emulator -> gateway channel
    tree,             \* GatewayHandler.proof_tree
    emulatorComplete, \* GatewayHandler.emulator_complete
    embedProof,       \* GatewayHandler.embed_proof, as <<>> or <<p>>
    gw,               \* gateway thread: "running" or "exited"
    result,           \* what the completion oneshot carries
    wq,               \* gateway -> workers channel
    gq,               \* workers -> gateway channel
    wstate,           \* per worker: "idle" (in recv), "busy", "exited"
    job,              \* per worker: the request being processed
    phase             \* prove_task: "emulating", "awaiting", "joining",
                      \* "returned"

vars == <<emitted, prodQ, tree, emulatorComplete, embedProof, gw, result,
          wq, gq, wstate, job, phase>>

-----------------------------------------------------------------------------
(* GatewayMsg variants, data abstracted to chunk indices and proof ranges. *)
RiscvRequest(i)      == [type |-> "RiscvRequest", idx |-> i]
RiscvResponse(i, p)  == [type |-> "RiscvResponse", idx |-> i, proof |-> p]
CombineRequest(f, i, ps) ==
    [type |-> "CombineRequest", flag |-> f, idx |-> i, proofs |-> ps]
CombineResponse(i, p) == [type |-> "CombineResponse", idx |-> i, proof |-> p]
EmbedMsg(p)          == [type |-> "Embed", proof |-> p]
ExitMsg              == [type |-> "Exit"]
EmulatorCompleteMsg  == [type |-> "EmulatorComplete"]
NoJob                == [type |-> "None"]

ProdMsg == [type : {"RiscvRequest"}, idx : Indices]
           \cup {EmulatorCompleteMsg}
WorkMsg == [type : {"RiscvRequest"}, idx : Indices]
           \cup [type : {"CombineRequest"}, flag : BOOLEAN, idx : Indices,
                 proofs : Proof \X Proof]
ReplyMsg == [type : {"RiscvResponse", "CombineResponse"}, idx : Indices,
             proof : Proof]
            \cup [type : {"Embed"}, proof : Proof]
            \cup {ExitMsg}

(* The range of every chunk the emulator emits. *)
FullRange == [lo |-> 0, hi |-> NChunks - 1]

(* Outcome of embed.verify on the final embed proof. *)
VerifyOutcomes(p) == IF p = FullRange THEN {TRUE} ELSE PartialVerify

(* The gateway_worker_channel is dropped when prove_task returns. *)
ChannelsOpen == phase # "returned"

(***************************************************************************)
(* prove_embed_onchain (onchain.rs) for a set f of faults of the docker     *)
(* prover and its inputs.  Its steps run in order and the first fault     *)
(* decides: a panic kills the gateway thread (the completion sender is     *)
(* dropped), an Err is turned by the Exit branch into an empty proof.      *)
(***************************************************************************)
(* ensure_gnark_downloads panics when vm_pk, vm_vk or vm_ccs is missing;    *)
(* it never returns Err.                                                   *)
DownloadsPanic(f) == "files_missing" \in f

(* recreate_gnark_prover when the container is down,                      *)
(* build_onchain_witness_json without a vk or an inner proof, and          *)
(* send_gnark_prove_task: each fails with an Err propagated by ?.          *)
RenderErr(f) == f \cap {"docker_down", "witness_err", "prove_err"} # {}

(* decode_gnark_proof_to_bytes asserts ten comma-separated values and      *)
(* expects each to parse as hex.                                           *)
DecodePanics(f) == "malformed_proof" \in f

(* The completion outcome of the Exit branch. *)
RenderResult(f) ==
    CASE DownloadsPanic(f) -> "dropped"
      [] RenderErr(f)      -> "empty"
      [] DecodePanics(f)   -> "dropped"
      [] OTHER             -> "proof"

-----------------------------------------------------------------------------
Init ==
    /\ emitted = 0
    /\ prodQ = << >>
    /\ tree = EmptyTree
    /\ emulatorComplete = FALSE
    /\ embedProof = << >>
    /\ gw = "running"
    /\ result = "none"
    /\ wq = << >>
    /\ gq = << >>
    /\ wstate = [w \in Workers |-> "idle"]
    /\ job = [w \in Workers |-> NoJob]
    /\ phase = "emulating"

(***************************************************************************)
(* Emulator (emulator.rs): one RiscvRequest per record, in index order,    *)
(* then EmulatorComplete.  emulator::run is called from prove_task itself, *)
(* which only starts awaiting the completion signal once it returns.       *)
(***************************************************************************)
EmitChunk ==
    /\ phase = "emulating"
    /\ emitted < NChunks
    /\ prodQ' = Append(prodQ, RiscvRequest(emitted))
    /\ emitted' = emitted + 1
    /\ UNCHANGED <<tree, emulatorComplete, embedProof, gw, result, wq, gq,
                   wstate, job, phase>>

EmulatorDone ==
    /\ phase = "emulating"
    /\ emitted = NChunks
    /\ prodQ' = Append(prodQ, EmulatorCompleteMsg)
    /\ phase' = "awaiting"
    /\ UNCHANGED <<emitted, tree, emulatorComplete, embedProof, gw, result,
                   wq, gq, wstate, job>>

(***************************************************************************)
(* Gateway loop.  select_biased! takes the emulator channel whenever it    *)
(* holds a message, so a worker message is received only when prodQ is    *)
(* empty.                                                                  *)
(***************************************************************************)
GwRiscvRequest ==
    /\ gw = "running"
    /\ prodQ # << >>
    /\ Head(prodQ).type = "RiscvRequest"
    /\ tree' = InitNode(tree, Head(prodQ).idx)
    /\ wq' = Append(wq, Head(prodQ))
    /\ prodQ' = Tail(prodQ)
    /\ UNCHANGED <<emitted, emulatorComplete, embedProof, gw, result, gq,
                   wstate, job, phase>>

GwEmulatorComplete ==
    /\ gw = "running"
    /\ prodQ # << >>
    /\ Head(prodQ).type = "EmulatorComplete"
    /\ emulatorComplete' = TRUE
    /\ prodQ' = Tail(prodQ)
    /\ UNCHANGED <<emitted, tree, embedProof, gw, result, wq, gq, wstate,
                   job, phase>>

(* Mutant: flag_complete is never set. *)
FlagCompleteNever(t) == TreeLen(t) = 0

(* flag_complete: proof_tree.len() == 1 after set_proof. *)
FlagComplete(t) == TreeLen(t) = 1

(* RiscvResponse / CombineResponse: set_proof, and a CombineRequest with   *)
(* flag_complete = (proof_tree.len() == 1) when a pair comes back.         *)
GwProofResponse ==
    /\ gw = "running"
    /\ prodQ = << >>
    /\ gq # << >>
    /\ Head(gq).type \in {"RiscvResponse", "CombineResponse"}
    /\ LET m == Head(gq) IN
         /\ tree' = SetProofTree(tree, m.idx, m.proof)
         /\ wq' = IF HasSibling(tree, m.idx)
                  THEN Append(wq, CombineRequest(FlagComplete(tree'), m.idx,
                                      SiblingPair(tree, m.idx, m.proof)))
                  ELSE wq
    /\ gq' = Tail(gq)
    /\ UNCHANGED <<emitted, prodQ, emulatorComplete, embedProof, gw, result,
                   wstate, job, phase>>

(* Embed: set_embed_proof makes complete() true, process returns Exit and  *)
(* the loop renders the on-chain proof, sends it through the completion    *)
(* signal and breaks.  Rendering yields the bytes, yields Err (an empty    *)
(* vec is sent), or panics (the thread dies and the sender is dropped).    *)
GwEmbed ==
    /\ gw = "running"
    /\ prodQ = << >>
    /\ gq # << >>
    /\ Head(gq).type = "Embed"
    /\ embedProof' = << Head(gq).proof >>
    /\ gq' = Tail(gq)
    /\ gw' = "exited"
    /\ \E f \in SUBSET RenderFaults : result' = RenderResult(f)
    /\ UNCHANGED <<emitted, prodQ, tree, emulatorComplete, wq, wstate, job,
                   phase>>

(***************************************************************************)
(* Workers.  A worker blocks in recv on the shared queue; recv fails only  *)
(* once the queue is empty and every sender is gone (prove_task returned). *)
(* A reply sent after that point panics on unwrap and ends the thread.     *)
(***************************************************************************)
WorkerRecv(w) ==
    /\ wstate[w] = "idle"
    /\ wq # << >>
    /\ job' = [job EXCEPT ![w] = Head(wq)]
    /\ wstate' = [wstate EXCEPT ![w] = "busy"]
    /\ wq' = Tail(wq)
    /\ UNCHANGED <<emitted, prodQ, tree, emulatorComplete, embedProof, gw,
                   result, gq, phase>>

WorkerClosed(w) ==
    /\ wstate[w] = "idle"
    /\ wq = << >>
    /\ ~ChannelsOpen
    /\ wstate' = [wstate EXCEPT ![w] = "exited"]
    /\ UNCHANGED <<emitted, prodQ, tree, emulatorComplete, embedProof, gw,
                   result, wq, gq, job, phase>>

(* Send msgs to the gateway and go to state after, or panic. *)
Reply(w, msgs, after) ==
    /\ job' = [job EXCEPT ![w] = NoJob]
    /\ IF ChannelsOpen
       THEN /\ gq' = gq \o msgs
            /\ wstate' = [wstate EXCEPT ![w] = after]
       ELSE /\ gq' = gq
            /\ wstate' = [wstate EXCEPT ![w] = "exited"]

(* riscv_convert.process: the chunk proof of [i, i]. *)
WorkerConvert(w) ==
    /\ wstate[w] = "busy"
    /\ job[w].type = "RiscvRequest"
    /\ Reply(w, << RiscvResponse(job[w].idx, ChunkProof(job[w].idx)) >>, "idle")
    /\ UNCHANGED <<emitted, prodQ, tree, emulatorComplete, embedProof, gw,
                   result, wq, phase>>

(* combine.process with flag_complete = false. *)
WorkerCombine(w) ==
    /\ wstate[w] = "busy"
    /\ job[w].type = "CombineRequest"
    /\ ~job[w].flag
    /\ LET m == job[w] IN
         Reply(w, << CombineResponse(m.idx, Combine(m.proofs[1], m.proofs[2])) >>,
               "idle")
    /\ UNCHANGED <<emitted, prodQ, tree, emulatorComplete, embedProof, gw,
                   result, wq, phase>>

(* flag_complete = true: combine, compress, embed and verify inline; on    *)
(* success send Embed then Exit and leave the loop.                        *)
WorkerFastPath(w) ==
    /\ wstate[w] = "busy"
    /\ job[w].type = "CombineRequest"
    /\ job[w].flag
    /\ LET r == Combine(job[w].proofs[1], job[w].proofs[2]) IN
         /\ TRUE \in VerifyOutcomes(r)
         /\ Reply(w, << EmbedMsg(r), ExitMsg >>, "exited")
    /\ UNCHANGED <<emitted, prodQ, tree, emulatorComplete, embedProof, gw,
                   result, wq, phase>>

(* Verification of the final embed proof fails: fall back to the ordinary *)
(* CombineResponse.                                                        *)
WorkerFastPathFallback(w) ==
    /\ wstate[w] = "busy"
    /\ job[w].type = "CombineRequest"
    /\ job[w].flag
    /\ LET m == job[w]
           r == Combine(m.proofs[1], m.proofs[2]) IN
         /\ FALSE \in VerifyOutcomes(r)
         /\ Reply(w, << CombineResponse(m.idx, r) >>, "idle")
    /\ UNCHANGED <<emitted, prodQ, tree, emulatorComplete, embedProof, gw,
                   result, wq, phase>>

(* A proving stage panics inside the handler of the job: prove_record and *)
(* the convert prover of riscv_convert, prove_two of combine, the          *)
(* runtime.run().unwrap() of compress and embed.  Nothing catches it: the  *)
(* spawn_blocking thread ends without a reply.                             *)
WorkerStagePanic(w) ==
    /\ wstate[w] = "busy"
    /\ TRUE \in StageFails
    /\ wstate' = [wstate EXCEPT ![w] = "exited"]
    /\ job' = [job EXCEPT ![w] = NoJob]
    /\ UNCHANGED <<emitted, prodQ, tree, emulatorComplete, embedProof, gw,
                   result, wq, gq, phase>>

(***************************************************************************)
(* prove_task after emulator::run: await the completion signal (an error   *)
(* when the sender was dropped), then join the provers with a 5 s timeout  *)
(* and the gateway (already past its loop), then return, dropping the      *)
(* channels.                                                               *)
(***************************************************************************)
AwaitCompletion ==
    /\ phase = "awaiting"
    /\ result \in {"proof", "empty"}
    /\ phase' = "joining"
    /\ UNCHANGED <<emitted, prodQ, tree, emulatorComplete, embedProof, gw,
                   result, wq, gq, wstate, job>>

CompletionDropped ==
    /\ phase = "awaiting"
    /\ result = "dropped"
    /\ phase' = "returned"
    /\ UNCHANGED <<emitted, prodQ, tree, emulatorComplete, embedProof, gw,
                   result, wq, gq, wstate, job>>

JoinProvers ==
    /\ phase = "joining"
    /\ \A w \in Workers : wstate[w] = "exited"
    /\ phase' = "returned"
    /\ UNCHANGED <<emitted, prodQ, tree, emulatorComplete, embedProof, gw,
                   result, wq, gq, wstate, job>>

JoinTimeout ==
    /\ phase = "joining"
    /\ \E w \in Workers : wstate[w] # "exited"
    /\ phase' = "returned"
    /\ UNCHANGED <<emitted, prodQ, tree, emulatorComplete, embedProof, gw,
                   result, wq, gq, wstate, job>>

Emulator == EmitChunk \/ EmulatorDone
Gateway == GwRiscvRequest \/ GwEmulatorComplete \/ GwProofResponse \/ GwEmbed
Worker(w) == \/ WorkerRecv(w) \/ WorkerClosed(w) \/ WorkerConvert(w)
             \/ WorkerCombine(w) \/ WorkerFastPath(w)
             \/ WorkerFastPathFallback(w) \/ WorkerStagePanic(w)
ProveTask == AwaitCompletion \/ CompletionDropped \/ JoinProvers \/ JoinTimeout

(* A run ends once prove_task has returned and every thread has ended;   *)
(* no step is enabled then, and Termination tells that end from a hang.  *)
Next == Emulator \/ Gateway \/ (\E w \in Workers : Worker(w)) \/ ProveTask

(* Every thread runs whenever it can: each is a dedicated OS thread, and   *)
(* the 5 s timeout always expires.                                         *)
Fairness ==
    /\ WF_vars(Emulator)
    /\ WF_vars(Gateway)
    /\ \A w \in Workers : WF_vars(Worker(w))
    /\ WF_vars(ProveTask)

Spec == Init /\ [][Next]_vars /\ Fairness

-----------------------------------------------------------------------------
(* Every variable holds a value of its type. *)
TypeOK ==
    /\ emitted \in 0 .. NChunks
    /\ prodQ \in Seq(ProdMsg)
    /\ IsTree(tree)
    /\ emulatorComplete \in BOOLEAN
    /\ embedProof \in {<< >>} \cup {<< p >> : p \in Proof}
    /\ gw \in {"running", "exited"}
    /\ result \in {"none", "proof", "empty", "dropped"}
    /\ wq \in Seq(WorkMsg)
    /\ gq \in Seq(ReplyMsg)
    /\ wstate \in [Workers -> {"idle", "busy", "exited"}]
    /\ job \in [Workers -> WorkMsg \cup {NoJob}]
    /\ phase \in {"emulating", "awaiting", "joining", "returned"}

(* The requests a worker holds or may still receive. *)
PendingWork == {wq[k] : k \in 1 .. Len(wq)}
                 \cup {job[w] : w \in {v \in Workers : wstate[v] = "busy"}}

(* The gateway never takes one of its fatal paths while it runs: the       *)
(* emulator never announces a chunk index already in the tree (the assert  *)
(* in init_node), every proof a worker returns is for a live slot still in *)
(* progress (the unwrap in set_proof, and no Proved node overwritten), and *)
(* an Exit from a worker is always preceded by its Embed, which ends the   *)
(* loop before process() would reject the Exit as unsupported.             *)
ProtocolValid ==
    gw = "running" =>
      /\ \A k \in 1 .. Len(prodQ) :
           prodQ[k].type = "RiscvRequest" => prodQ[k].idx \notin DOMAIN tree
      /\ \A k \in 1 .. Len(gq) :
           gq[k].type \in {"RiscvResponse", "CombineResponse"} =>
             /\ gq[k].idx \in DOMAIN tree
             /\ tree[gq[k].idx].kind = "InProgress"
      /\ \A k \in 1 .. Len(gq) :
           gq[k].type = "Exit" => \E j \in 1 .. k - 1 : gq[j].type = "Embed"

(* Every CombineRequest a worker may process carries two adjacent proofs, *)
(* so the assert_eq!(end_a + 1, start_b) in combine.rs never fires.        *)
MergeAdjacent ==
    \A m \in PendingWork :
      m.type = "CombineRequest" => m.proofs[1].hi + 1 = m.proofs[2].lo

(* The tree never holds two neighbouring Proved slots: set_proof pairs a  *)
(* proof with a proved neighbour as soon as it arrives (spec section 8).  *)
NoAdjacentProved ==
    \A i \in DOMAIN tree :
      (tree[i].kind = "Proved" /\ HasNext(tree, i))
        => tree[NextIndex(tree, i)].kind # "Proved"

(* A proof stored in the tree is never lost or replaced (set_proof,       *)
(* proof_tree.rs): a Proved slot keeps its node, or set_proof removes it  *)
(* as the sibling of a merge and the same step queues a CombineRequest    *)
(* carrying its proof.  A duplicate or misrouted reply would overwrite    *)
(* the slot, and a wrong key removed would drop the proof.                *)
ProvedUntilCombined ==
    \A i \in DOMAIN tree :
      tree[i].kind = "Proved" =>
        \/ i \in DOMAIN tree' /\ tree'[i] = tree[i]
        \/ /\ i \notin DOMAIN tree'
           /\ \E k \in 1 .. Len(wq') :
                /\ wq'[k].type = "CombineRequest"
                /\ tree[i].proof \in {wq'[k].proofs[1], wq'[k].proofs[2]}

ProofNeverLost == [][ProvedUntilCombined]_vars

(* A CombineRequest with flag_complete set merges into a proof of every   *)
(* chunk of the program: the fast path runs only for the root merge       *)
(* (spec sections 4.4 and 9).                                             *)
FlagCompleteOnlyAtRoot ==
    \A m \in PendingWork :
      (m.type = "CombineRequest" /\ m.flag)
        => Combine(m.proofs[1], m.proofs[2]) = FullRange

(* Every run ends: prove_task returns and every prover thread has ended.  *)
Termination ==
    <>(phase = "returned" /\ \A w \in Workers : wstate[w] = "exited")
-----------------------------------------------------------------------------
(* Refinement mapping onto ChunkReduction.  A slot stands for the chunks   *)
(* its proof covers: its own chunk before the first proof arrives, the    *)
(* pair being combined while a merge is in flight, the proof once proved.  *)
SlotRange(t, i) ==
    IF t[i].kind = "Proved" THEN t[i].proof
    ELSE IF t[i].parts = << >> THEN ChunkProof(i)
    ELSE Combine(t[i].parts[1], t[i].parts[2])

(* Chunks whose RiscvRequest the gateway has applied. *)
Registered ==
    emitted - Cardinality({k \in 1 .. Len(prodQ) :
                             prodQ[k].type = "RiscvRequest"})

Reduction == INSTANCE ChunkReduction
               WITH segs  <- {SlotRange(tree, i) : i \in DOMAIN tree},
                    next  <- Registered,
                    final <- embedProof

(* The gateway, the handler and the workers together implement the        *)
(* reduction the spec describes: chunks registered in emulator order,      *)
(* set_proof replacing two adjacent slots by one covering both, and the   *)
(* Embed accepted only once one slot covers every chunk.                   *)
ReducesChunks == Reduction!Spec
-----------------------------------------------------------------------------
(***************************************************************************)
(* The inductive invariant behind ProtocolValid and MergeAdjacent.  Each   *)
(* live slot stands for the range SlotRange of chunks; the ranges are      *)
(* ordered like the slot indices and each contains its index; the chunks   *)
(* the emulator has numbered are covered by a slot, or still wait in the   *)
(* emulator channel above every slot.  Every slot in progress has at most  *)
(* one message in flight for it (the request, the busy worker's job, or    *)
(* the reply), and that message matches the slot.                          *)
(***************************************************************************)
Span(i) == SlotRange(tree, i)

SlotsOrdered ==
    /\ \A i \in DOMAIN tree :
         Span(i).lo <= i /\ i <= Span(i).hi /\ Span(i).hi < emitted
    /\ \A i, j \in DOMAIN tree : i < j => Span(i).hi < Span(j).lo
    /\ \A i \in DOMAIN tree :
         tree[i].kind = "InProgress" /\ tree[i].parts # << >>
           => tree[i].parts[1].hi + 1 = tree[i].parts[2].lo

ProdPending ==
    \A k \in 1 .. Len(prodQ) :
      prodQ[k].type = "RiscvRequest" =>
        /\ prodQ[k].idx < emitted
        /\ \A i \in DOMAIN tree : Span(i).hi < prodQ[k].idx
        /\ \A j \in 1 .. k - 1 :
             prodQ[j].type = "RiscvRequest" => prodQ[j].idx < prodQ[k].idx

ChunksCovered ==
    \A c \in 0 .. emitted - 1 :
      \/ \E k \in 1 .. Len(prodQ) :
           prodQ[k].type = "RiscvRequest" /\ prodQ[k].idx = c
      \/ \E i \in DOMAIN tree : Span(i).lo <= c /\ c <= Span(i).hi

Busy == {w \in Workers : wstate[w] = "busy"}

Replies == {k \in 1 .. Len(gq) :
              gq[k].type \in {"RiscvResponse", "CombineResponse"}}

(* A request for slot m.idx as the gateway issued it. *)
WorkFor(m) ==
    /\ m.idx \in DOMAIN tree
    /\ m.type = "RiscvRequest" => tree[m.idx] = InProgress(<< >>)
    /\ m.type = "CombineRequest" => tree[m.idx] = InProgress(m.proofs)

(* A reply for slot m.idx carrying the range the slot stands for. *)
ReplyFor(m) ==
    /\ m.idx \in DOMAIN tree
    /\ tree[m.idx].kind = "InProgress"
    /\ m.proof = Span(m.idx)

TokensMatch ==
    /\ \A k \in 1 .. Len(wq) : WorkFor(wq[k])
    /\ \A w \in Busy : job[w] \in WorkMsg /\ WorkFor(job[w])
    /\ \A k \in Replies : ReplyFor(gq[k])

TokensDistinct ==
    /\ \A k, l \in 1 .. Len(wq) : k # l => wq[k].idx # wq[l].idx
    /\ \A v, w \in Busy : v # w => job[v].idx # job[w].idx
    /\ \A k, l \in Replies : k # l => gq[k].idx # gq[l].idx
    /\ \A k \in 1 .. Len(wq), w \in Busy : wq[k].idx # job[w].idx
    /\ \A k \in 1 .. Len(wq), l \in Replies : wq[k].idx # gq[l].idx
    /\ \A w \in Busy, l \in Replies : job[w].idx # gq[l].idx

ExitAfterEmbed ==
    gw = "running" =>
      \A k \in 1 .. Len(gq) :
        gq[k].type = "Exit" => k > 1 /\ gq[k - 1].type = "Embed"

PipelineInv ==
    /\ TypeOK
    /\ SlotsOrdered
    /\ ProdPending
    /\ ChunksCovered
    /\ TokensMatch
    /\ TokensDistinct
    /\ ExitAfterEmbed

-----------------------------------------------------------------------------
(***************************************************************************)
(* What the refinement ReducesChunks needs besides PipelineInv.  The       *)
(* emulator channel holds the next requests in index order, then the      *)
(* EmulatorComplete record until the gateway takes it; so the chunk the   *)
(* gateway registers next is Registered.  The handler's embed proof is    *)
(* unset while the gateway runs, and an Embed in flight covers every      *)
(* chunk, from the only slot of the tree, with no other message in        *)
(* flight that could still change the tree.                               *)
(***************************************************************************)
(* The EmulatorComplete record is still in the emulator channel. *)
DonePending == phase # "emulating" /\ ~emulatorComplete

(* The number of RiscvRequests in the emulator channel. *)
NReq == Len(prodQ) - (IF DonePending THEN 1 ELSE 0)

ProdInOrder ==
    /\ phase = "emulating" => ~emulatorComplete
    /\ NReq \in 0 .. emitted
    /\ \A k \in 1 .. NReq : prodQ[k] = RiscvRequest(emitted - NReq + k - 1)
    /\ DonePending => prodQ[Len(prodQ)] = EmulatorCompleteMsg

EmbedFinal ==
    /\ gw = "running" => embedProof = << >>
    /\ \A k \in 1 .. Len(gq) :
         gq[k].type = "Embed" =>
           /\ gq[k].proof = FullRange
           /\ wq = << >> /\ Replies = {} /\ Busy = {}
           /\ \E i \in DOMAIN tree : DOMAIN tree = {i} /\ Span(i) = FullRange

RefineInv == PipelineInv /\ ProdInOrder /\ EmbedFinal
=============================================================================
