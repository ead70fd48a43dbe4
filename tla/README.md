# TLA+ models of pico-proving-service

This directory holds TLA+ specifications of the proving pipeline of this
repository (`src/src/proving/`), the TLC configurations that model-check them
on small instances, and TLAPS proofs of properties that hold for every value of
the constants.

## The system

A proving task goes through `ProvingQueue::run` (`proving_queue.rs`), which calls
`proving::prove_task` (`proving/mod.rs`). For one task, prove_task wires up
these actors:

| Actor | Code | What it does |
|---|---|---|
| Emulator | `emulator.rs` | An emulation thread produces records into a bounded channel. The forwarding loop numbers them 0, 1, 2, … and sends `Riscv(Request)` to the gateway, then `EmulatorComplete`. prove_task calls `emulator::run` synchronously. |
| Gateway | `gateway/mod.rs` | One blocking thread. `select_biased!` prefers the emulator channel over the worker channel. Requests are recorded in the handler and forwarded to the workers. Worker replies go to `GatewayHandler::process`, and any combine request it returns is forwarded. On `Exit`, the embed proof is rendered on-chain (`onchain.rs`), the bytes go through the completion oneshot, and the loop ends. |
| GatewayHandler | `gateway/handler/mod.rs` | Holds `emulator_complete`, the `ProofTree` and `embed_proof`. It turns a proof response into a combine request with `flag_complete = (proof_tree.len() == 1)`. |
| ProofTree | `gateway/handler/proof_tree.rs` | A `BTreeMap` from chunk index to `InProgress(parts)` or `Proved(proof)`. `set_proof` pairs a new proof with the nearest live slot before it when that slot is proved, otherwise with the nearest after it. It removes the sibling and marks the slot InProgress with the pair. |
| Workers | `worker/prover/mod.rs` | `prover_count` threads, all receiving from one shared queue. A riscv request goes to `riscv_convert`; a combine request goes to `combine`. When `flag_complete` is set, the worker runs compress, embed and verify inline; if verify succeeds it sends `Embed` then `Exit` and stops, otherwise it sends an ordinary combine response. |
| prove_task | `proving/mod.rs` | Awaits the completion signal with no timeout. It then joins the workers with a 5 s timeout, joins the gateway, and returns. Returning drops the channels. |
| Docker monitor | `onchain.rs:111` | Started by `main`. A thread that every 15 s recreates the gnark docker prover if `gnark_prover_running()` says no. It runs concurrently with the render, which makes the same check. |
| AppManager | `app_manager.rs` | `register_app` calls `set_app`: it compiles the ELF, derives the app_id from the verifying key, awaits a SELECT and bails if the app exists, then awaits an INSERT. tonic serves calls concurrently. |
| main | `bin/server.rs` | Starts the monitor, the queue and the gRPC service. On ctrl-c it calls `exit(0)`, whatever the queue is doing. |

## Modules

- **`ProofTree.tla`** (no variables) models `proof_tree.rs`:
  - A tree is a function whose domain is the set of live slots.
  - A proof is abstracted to the chunk range `[lo, hi]` its `IndexedProof` attests. The payload is left out.
  - `InitNode` is `init_node`; `SetProofTree` and `SiblingPair` are `set_proof`.
  - The nearest neighbours (`range(..i).next_back()` and `range((Excluded(i), Unbounded)).next()`) are stated as `IsPrev`/`IsNext`, with their existence made explicit by `HasPrev`/`HasNext`.
  - `Combine` is the range that `combine.rs` builds: `IndexedProof::new(start_a, end_b)`.
- **`ProvingPipeline.tla`** composes one run of `prove_task`:
  - Channels are FIFO sequences: `prodQ` (emulator → gateway), `wq` (gateway → workers, shared by all workers, each message taken by one worker) and `gq` (workers → gateway).
  - The variables are: emulator counter `emitted`; handler state `tree`, `emulatorComplete`, `embedProof`; gateway status `gw` and the completion `result`; per-worker `wstate` and `job`; prove_task's `phase`.
  - Actions:
    - the emulator: `EmitChunk`, `EmulatorDone`;
    - each gateway branch: `GwRiscvRequest`, `GwEmulatorComplete`, `GwProofResponse`, `GwEmbed`;
    - each worker arm: `WorkerRecv`, `WorkerClosed`, `WorkerConvert`, `WorkerCombine`, `WorkerFastPath`, `WorkerFastPathFallback`;
    - prove_task: `AwaitCompletion`, `CompletionDropped`, `JoinProvers`, `JoinTimeout`.
  - `RequestTask` messages are left out, because the gateway's arm for them (`gateway/mod.rs:102`) does nothing.
  - A send after prove_task has returned panics on `unwrap`. The model shows this as the worker exiting without sending.
  - The on-chain render (`onchain.rs`) is its control flow over a set of faults (`RenderFaults`), where the first fault in code order decides the outcome:
    - a missing key file panics (`ensure_gnark_downloads`), dropping the completion sender, so that `completion_receiver.await?` returns an error;
    - a docker, witness or prove error is an `Err`, which the Exit branch turns into an empty proof;
    - a malformed proof text panics in `decode_gnark_proof_to_bytes`.
  - `WorkerStagePanic` is a panic of any proving stage (convert, combine, compress, embed). It is allowed by the constant `StageFails`. Nothing catches it, and the worker thread ends without a reply.
  - Verify of a final embed proof accepts the full range. For a strict prefix it may return either outcome (the constant `PartialVerify`), because the circuit's checks are outside this repository.
- **`ProvingQueue.tla`** models task intake and the two-tier result cache:
  - `Submit` is `GrpcService::prove_task` sending on the task channel (`grpc.rs`).
  - `QueueRecv`, `ProveOk`, `ProveFailed` and `StoreDb` are the steps of `ProvingQueue::run` (`proving_queue.rs`):
    - receive a task;
    - await `prove_task`, which ends in Ok or Err;
    - on Ok, insert into the `outputs` DashMap;
    - then await `store_proof_in_db`, whose failure is only logged. `dbLog` keeps, per key, the last of the lines "stored in memory", "stored in database" and "failed to store in database".
  - `LookupMemory` and `LookupDb` are `get_proving_result`: it removes the memory entry on a hit, and on a miss awaits a SELECT.
  - Each await is a step boundary, so lookups interleave with the queue between the memory insert and the database write.
  - `prove_task` is reduced to its outcome: bytes (a model value, since two runs of one key may differ) or Err.
  - `delivered` and `latest` are history: the bytes last handed out for a key, and the bytes of its last successful run.
  - The queue's exit branch is unreachable, because `main` keeps a sender of the channel.
- **`ProvingQueueRestart.tla`** extends ProvingQueue with `Restart`: `exit(0)` followed by a fresh `main`.
  - The memory tier, the channel, the task in progress and requests in flight are lost. The proofs table survives.
  - An INSERT that was being awaited may or may not have committed.
  - Exit and restart are one step, since no request is served in between.
- **`OnchainRender.tla`** models the render's docker handling against the monitor daemon:
  - `docker` is the container, `dpc` the daemon's place in its loop, `rpc` the render's.
  - `inflight` says the render's HTTP request is held by a live container.
  - `downloads` says the gnark key files are in the download path. `ensure_gnark_downloads` panics when they are missing; it never returns Err.
    - In the render (`RenderCheck`), the panic ends the gateway thread and prove_task reports an error.
    - In the daemon (`DaemonCheck`), `let _ =` does not catch the panic, so the monitor thread ends for good (`dpc = "dead"`).
    - `FilesPlaced` is the operator copying the files in while the server runs, as the panic message asks.
  - `recreate_gnark_prover` and `send_gnark_prove_task` are in `pico_vm`, outside this repository. They are modelled from their names and uses:
    - recreate removes the old container (aborting its requests), then starts a new one, which may fail, at most `MaxFailedStarts` times in all. A failed start stops nothing: a container another caller started since the removal keeps running;
    - the answer to a request comes only from the container it was sent to.
  - `DockerDies` is the environment: a container dies, at most `MaxDeaths` times.
  - The witness building is left out; its failures are render faults of ProvingPipeline.
- **`AppRegistry.tla`** models `register_app` / `set_app` for concurrent registrants:
  - `rows` counts the apps table's rows per app_id; `elf` gives each registrant's app (one ELF compiles to one app_id).
  - `RegisterStart` is `App::new`, `RegisterGet` the awaited `get_app` and its bail, `RegisterInsert` the awaited INSERT.
  - The schema of the apps table is not in this repository. Whether app_id is a key of it is the constant `AppIdKey`; with a key, a second INSERT fails and the `?` returns the database error.
- **`ChunkReduction.tla`** is the abstract specification of the pipeline (spec §§1, 3, 4.1):
  - a set `segs` of chunk ranges, the next chunk index `next`, and the final proof `final`;
  - `Register` adds a chunk as a range of its own, `Reduce` replaces two adjacent ranges by their union, and `Finish` produces the final proof once one range covers every chunk.
- **`ProvingPipelineProofs.tla`**, **`ProvingPipelineSafety.tla`**, **`ProvingPipelineTree.tla`**, **`ProvingPipelineRefinement.tla`**, **`ProvingQueueProofs.tla`**, **`ChunkReductionProofs.tla`** and **`OnchainRenderProofs.tla`** hold the TLAPS proofs.
- **`MC_ProvingPipeline.tla`**, **`MC_ProvingQueue.tla`**, **`MC_OnchainRender.tla`** and **`MC_AppRegistry.tla`** give the model values for TLC.

### Refinement

`ProvingPipeline` implements `ChunkReduction` under this mapping (`Reduction`, checked as the property `ReducesChunks` and proved under the proviso on verify given under Proofs):

- `segs` is the range of every live slot of the tree (`SlotRange`):
  - a Proved slot gives its proof's range;
  - an InProgress slot with no parts gives its own chunk;
  - an InProgress pair gives the range of their combination.
- `next` is the number of chunks the gateway has registered. This is `emitted` minus the RiscvRequests still in the emulator channel.
- `final` is `embedProof`.

The mapping shows the following:

- The gateway's `init_node` is `Register`.
- Each `set_proof` that finds a sibling is one `Reduce`. The pair becomes InProgress, and its range is already their union.
- The `Embed` is `Finish`.
- Every other step of the workers, the channels and prove_task is a stutter.

## Runs

| Run | Constants | Checks | Result |
|---|---|---|---|
| `pipeline` (`MC_ProvingPipeline.cfg`) | 3 chunks, 2 workers, partial embeds rejected | TypeOK, ProtocolValid, MergeAdjacent, NoAdjacentProved, ProofNeverLost, Termination | pass |
| `stage_panic_safety` (`MC_StagePanicSafety.cfg`) | 3 chunks, 1 worker, stages may panic, partial verify either way | ProtocolValid, MergeAdjacent | pass |
| `stage_panic` (`MC_StagePanic.cfg`) | 2 chunks, 1 worker, stages may panic | Termination | violation |
| `queue_cache` (`MC_ProvingQueue.cfg`) | 2 keys, 2 clients, 3 submissions, proving and database write may fail | NoResultLost | pass |
| `second_lookup` (`MC_SecondLookup.cfg`) | 1 key submitted once, nothing fails | SecondLookupSameBytes | violation |
| `flag_premature` (`MC_FlagPremature.cfg`) | as `pipeline` | FlagCompleteOnlyAtRoot | violation |
| `single_chunk` (`MC_SingleChunk.cfg`) | 1 chunk, 2 workers | Termination | violation |
| `queue_restart` (`MC_QueueRestart.cfg`) | 1 key submitted once, nothing fails, restart at any step | NoResultLost | violation |
| `onchain_daemon` (`MC_OnchainRender.cfg`) | 2 renders, 1 container death, 1 failed start, files present or copied in later | ProverRestored | pass |
| `render_race` (`MC_RenderRace.cfg`) | 1 render, no deaths, starts succeed, files present | RenderGetsProof | violation |
| `daemon_panic` (`MC_DaemonPanic.cfg`) | 1 render, 1 death, starts succeed, files missing at start | ProverRestoredOnceFilesPlaced | violation |
| `register_race` (`MC_RegisterRace.cfg`) | 3 registrants, 1 app, app_id a key | DuplicateAnsweredExists | violation |

The `pipeline` run also checks `ReducesChunks`, the refinement of ChunkReduction.

What the properties say:

- **ProtocolValid:** while the gateway runs, it never takes one of its panic paths:
  - no duplicate `init_node`;
  - every proof response targets a live InProgress slot (the `unwrap` in `set_proof`);
  - every `Exit` is preceded by an `Embed` (`process` would reject an `Exit` as unsupported).
- **MergeAdjacent:** every combine request a worker may take holds adjacent ranges, so the `assert_eq!` in `combine.rs` never fires.
- **NoAdjacentProved:** no two neighbouring slots are both Proved, so no merge opportunity is lost.
- **ProofNeverLost** (action property): no step overwrites a Proved slot. A Proved slot leaves the tree only when `set_proof` removes it as a sibling, and the same gateway step queues the CombineRequest that carries its proof. A duplicated reply, or a wrong key removed in `set_proof`, would lose a proof without any panic.
- **Termination:** prove_task returns and every worker thread ends.
- **NoResultLost:** the very bytes last handed to a client for a key are in the memory tier, in the proofs table, or in the INSERT the queue is awaiting. Two cases are excused: a newer run of the key has produced other bytes (`latest`), or the write of these bytes was logged as failed, which spec §4.5 accepts (best-effort durable write). Comparing bytes, not the presence of an entry, is what catches a tier that keeps the wrong run's proof. The in-flight INSERT counts as not lost; that a lookup can miss it meanwhile is finding 2.
- **ReducesChunks:** every behaviour of the pipeline is a behaviour of ChunkReduction under the mapping above.
- **ProverRestored:** while the daemon thread lives, the docker prover ends up running for good once containers stop dying, starts stop failing and renders stop. The daemon drops every recreate error and the render recreates on its own schedule; the failed start in the run exercises the retry.
- **RenderGetsProof**, **ProverRestoredOnceFilesPlaced** (once the files are in place for good, the prover ends up running for good), **DuplicateAnsweredExists** and `NoResultLost` under restart are what the code's comments and the spec promise. The violation runs refute them; see the findings.

For the daemon, weak fairness is assumed for:

- the daemon thread, which loops forever;
- the render's steps after it starts, which run on the gateway thread.

Starting a render is up to the queue, and container deaths and the files are up to the world, so none of these is fair. Failed starts are bounded: a start that fails forever would leave nothing to restore. Two renders, one death and one failed start let a render, a death and a failed recreate each meet the daemon's loop. Deadlock checking is off in `onchain_daemon` and `daemon_panic`: once the daemon thread has died and the renders are used up, nothing is left to run.

Registration is only asked about in `register_race`, whose deadlock check is off because every registration finishing is a real end state. Whether at most one registration per app succeeds is not checked: with app_id a key of the apps table it follows from that key alone, and the schema is not in this repository.

For the queue:

- Three submissions over two keys allow a resubmission of a key racing a poll.
- Two clients let one poll take the memory copy while the other falls back to the database.
- No fairness is assumed: the queue runs ask only safety questions.

Why the bounds are enough:

- Three chunks is the smallest count where the emulator and the workers can race on the tree shape. Two workers give replies in either order.
- One chunk is the case the code misses.
- One worker (the default deployment) is where the join completes before the timeout, and where a premature fast path whose verify succeeds ends the run.
- The passing runs together fire every action. `stage_panic_safety` is the one where workers die and where the join completes without the timeout; `pipeline` fires the timeout and the exit on a closed channel.
- Its deadlock check is off because a dead worker really leaves every thread blocked; `stage_panic` asks about that hang.

Deadlock checking is off in the passing runs. A finished run really stops, and Termination tells a finished run apart from a hang.

**Fairness.** Weak fairness is assumed for:

- the emulator, the gateway and prove_task: each is a dedicated thread, or an async task whose only wait is modelled as a guard;
- each worker (`spawn_blocking` threads).

The 5 s timeout always eventually fires, so `JoinTimeout` is fair as part of prove_task.

### Findings

1. **Premature `flag_complete`** (`gateway/handler/mod.rs:117`, marked `TODO: check this`). Whether the flag is set depends on how many slots the tree holds when a pair comes back:
   - With 3 chunks, chunks 0 and 1 can be proved and merged before the gateway takes chunk 2's request. The tree then has one slot, and the merge of `[0,1]` is flagged final.
   - The worker then compresses and embeds a partial proof. The run only goes on if verify rejects that proof.
   - The spec (§4.4) requires the flag on the root merge only.
2. **A second lookup may miss a proof that exists** (`proving_queue.rs:104`, `grpc.rs:208`). Nothing needs to fail:
   - The queue inserts the proof into memory, then awaits the database INSERT.
   - A lookup in that window takes the memory copy.
   - A second lookup before the INSERT completes finds neither tier and gets `proof = None`.
   - Spec §8 says the second lookup returns the same bytes from the durable tier.
3. **A stage panic hangs the service** (`proving/mod.rs:59`).
   - A panic in a proving stage ends the worker with no reply, so no Embed ever comes.
   - `prove_task` awaits the completion signal with no timeout, and the gateway keeps the sender alive.
   - So prove_task never returns, and the single-consumer queue takes no further task.
   - Spec §4.4 and §7 say the outer timeout surfaces such a failure. The code's only timeouts bound the joins after completion.
4. **Single-chunk programs never complete.**
   - `set_proof(0)` stores Proved with no sibling, so no combine request is ever made.
   - No Embed is ever produced, so the completion oneshot is never sent. `prove_task` waits forever at `mod.rs:59`.
   - The spec (§8) requires single-chunk handling.

5. **A restart loses proofs that were delivered** (`bin/server.rs:62`).
   - `main` exits on ctrl-c without awaiting the queue.
   - A proof whose memory copy a client already took, and whose INSERT had not committed, is gone after the restart.
   - Later lookups get `proof = None`. The spec (§4.5) says nothing of shutdown.
6. **The monitor daemon can kill the render's container** (`onchain.rs:35` and `:119-120`).
   - The daemon sees the prover down.
   - The render sees the same, recreates the container and sends its witness.
   - The daemon, acting on its stale check, then removes and recreates the container, and the render's request fails.
   - Nothing else needs to go wrong. The function's comment promises that it ensures the prover is up and returns its proof.
7. **Concurrent registrations of one ELF** (`app_manager.rs:143`).
   - `set_app` checks `get_app` and then inserts, with an await in between and no transaction, so both calls pass the check.
   - With app_id a key, the second call gets "failed to register app" with a database error instead of "app already exists".
   - Without a key (the schema is not in this repository) the table would get two rows and both calls would return Ok.
8. **A missing gnark file kills the monitor daemon for good** (`onchain.rs:118`, `:97`).
   - The daemon loop calls `let _ = ensure_gnark_downloads(field)` to go on whatever the check says. But the function panics on a missing file and never returns Err, and `let _` does not catch a panic.
   - If the server starts before the operator copies `vm_pk`, `vm_vk` and `vm_ccs` in (the panic message asks for exactly that), the first check ends the monitor thread.
   - After the files are in place, a container death is never repaired by the daemon; only a later render recreates the container. The doc comment says the daemon monitors the prover and restarts it if needed.

## Mutants

Each property of a passing run is broken by a plausible bug in the code it is about. The type invariants are proved (below) but checked by no run, since no plausible bug in the code breaks them that a deeper property does not catch first:

| Mutant | Bug it models | Property that breaks |
|---|---|---|
| `CombineOffByOne` | Combine's end is off by one | TypeOK |
| `SetProofTreeKeepProved` | the merging slot stays Proved | ProtocolValid (a second response hits a Proved slot) |
| `SiblingPairSwapped` | the right neighbour's proof is put first | MergeAdjacent |
| `HasSiblingLeftOnly` | only the left neighbour is looked at | NoAdjacentProved |
| `FlagCompleteNever` | flag_complete is never set | Termination |
| `LookupDbTake` | the database fallback deletes the row it reads | NoResultLost (bytes taken from memory, then the row taken by a second lookup) |
| `SetProofTreeWrongSlot` | set_proof writes the merge at the sibling's key and removes index | ProofNeverLost (the sibling's Proved node is overwritten) |
| `SetProofTreeKeepProved` | as above | ReducesChunks (a merge that leaves a stale Proved slot is not a Reduce) |
| `DaemonCheckAlways` | the daemon recreates the container on every round | ProverRestored |

## Proofs

`ProvingPipelineProofs.tla` proves `TypeCorrect: Spec => []TypeOK` for every `NChunks` in `Nat \ {0}` and every set of workers. TypeOK is inductive by itself. The proof has two steps:

- `Init => TypeOK`;
- one step per action showing it preserves TypeOK.

Five lemmas carry the work:

- **CombineType:** Combine of two proofs is a proof.
- **InitNodeType:** InitNode keeps a tree.
- **SiblingProved:** the chosen sibling is a live, proved slot.
- **SiblingPairType:** SiblingPair is a pair of proofs.
- **SetProofType:** SetProofTree keeps a tree.

The sequence lemmas come from `SequenceTheorems`. The temporal step closes with PTL.

`ProvingQueueProofs.tla` proves `ResultNeverLost: Spec => []NoResultLost` and `QueueTypeCorrect: Spec => []TypeOK`. They hold for every set of keys, clients and proof bytes, for every `MaxSubmit`, and whether or not proving and the database write may fail.

NoResultLost is not inductive by itself. A lookup that takes the memory copy leaves only the durable tier or the awaited INSERT behind it, so the proof needs to know which bytes those hold. The inductive invariant `QueueInv` adds three conjuncts to TypeOK:

- **LatestInMemory:** a memory entry holds the key's newest bytes (`latest`), and its insert was logged.
- **StoringHolds:** while the queue awaits the INSERT, it holds the newest bytes of its key, and that key's last log line is "stored in memory". No other key has that as its last line.
- **DatabaseLogged:** a key whose last line is "stored in database" has its newest bytes in the proofs table.

TLC checked `QueueInv` as an invariant of the `queue_cache` instance before the proof was written.

The proof of `NextQueueInv` has one step per action. The interesting ones:

- `LookupMemory` on a hit: the bytes handed out are the newest, and by the three conjuncts they sit in the table, in the INSERT, or their write was logged as failed.
- `StoreDb`: the INSERT's bytes move into the table with "stored in database", or the key is logged "failed".
- `ProveOk`: a new run makes its bytes the newest, which excuses bytes delivered from an older run.

`ChunkReductionProofs.tla` proves `PartitionHolds: Spec => []Partition` for every `NChunks` in `Nat`. Partition says that the live ranges are non-empty intervals below `next`, pairwise disjoint, and covering `0 .. next - 1`. It is inductive:

- `Register` adds the singleton `next`.
- `Reduce` replaces two adjacent ranges by their union. The lemma `ReducedDisjoint` shows the union stays disjoint from every other range.

Through the refinement `ReducesChunks` (checked by TLC, and proved in `ProvingPipelineRefinement.tla` when verify rejects partial embeds), this is the shape of the handler's proof tree.

`ProvingPipelineSafety.tla` proves `PipelineInvariant: Spec => []PipelineInv`. From it, it proves:

- `ProtocolValidHolds: Spec => []ProtocolValid`;
- `MergeAdjacentHolds: Spec => []MergeAdjacent`.

These hold for every `NChunks`, every set of workers, and every choice of `PartialVerify`, `StageFails` and `RenderFaults`. So they cover stage panics and render faults too.

Neither property is inductive by itself. A response in `gq` names a slot, and only the state of the slot's neighbours, of the channels and of the busy workers tells whether that slot is still in progress when the response is taken. `PipelineInv` (defined in `ProvingPipeline.tla`; TLC checked it as an invariant of the `pipeline` instance before the proof was written) adds these conjuncts to TypeOK:

- **SlotsOrdered:** each live slot stands for a chunk range `Span(i)` (`SlotRange`) with `lo <= i <= hi < emitted`, and the ranges are ordered like the slot indices.
- **ProdPending:** the requests still in the emulator channel are for chunks above every live slot.
- **ChunksCovered:** every emitted chunk is covered by a slot or waits in the emulator channel.
- **TokensMatch:** every message in flight matches its slot. A request in `wq` or a busy worker's job matches the slot's node (`WorkFor`). A reply in `gq` names a slot in progress and carries that slot's range (`ReplyFor`).
- **TokensDistinct:** each slot in progress has at most one message in flight.
- **ExitAfterEmbed:** every `Exit` in `gq` comes after an `Embed`.

`NextPipelineInv` has one lemma per action. The cases that need real work are these:

- `GwProofResponse`: `set_proof` consumes the reply's token. A merge creates a new one, the CombineRequest, and the lemma `ResponseTokens` handles both. The lemma `MergeOrdered` shows that merging two neighbours with adjacent spans keeps the ranges ordered and covering. `PrevAdjacent` and `NextAdjacent` show that a proved neighbour's range touches the slot's range.
- The worker actions (`WorkerConvert`, `WorkerCombine` and the fast paths) turn a job into a reply with the same index. The lemma `SameNode` carries `WorkFor` into `ReplyFor`.
- `GwRiscvRequest` relies on ProdPending: `init_node` creates the new slot above every live one.

`SlotRange` is written as an IF on the node's kind, without recursion, so that the proofs can use it.

`ProvingPipelineTree.tla` proves two more theorems from `PipelineInv`.

- **NoAdjacentProvedHolds: `Spec => []NoAdjacentProved`.** The induction is on `PipelineInv /\ NoAdjacentProved`. Lemmas on the nearest live neighbour show these facts:
  - the neighbour is unique (`NextUnique`, `PrevUnique`);
  - it stays the same when the domain stays the same (`SameDomainNext`);
  - it stays the nearest in a subset (`NextInSubset`).

  A stored proof has no proved neighbour (`ProofStoredTree`). Removing a proved sibling and writing InProgress leaves no new Proved pair (`ProofPairedTree`). `init_node` adds a slot in progress above every live slot.
- **ProofNeverLostHolds: `Spec => ProofNeverLost`.** This is the action property `[][ProvedUntilCombined]_vars`. By `TokensMatch`, every reply targets a slot in progress, so `set_proof` never writes to a Proved slot. The only Proved slot it removes is the sibling, and `SiblingInPair` shows that the sibling's proof is one of the pair in the CombineRequest appended to `wq`. `init_node` writes above every live slot.

`ProvingPipelineRefinement.tla` proves the refinement step by step:

- **Refinement: `Spec => ReducesChunks`**, under the hypothesis `TRUE \notin PartialVerify`, for every `NChunks`, every set of workers and every `StageFails` and `RenderFaults`.
- **RefineInvariant: `Spec => []RefineInv`**, under the same hypothesis.

The hypothesis is needed. `flag_complete` can be set before the last chunk is announced (the `flag_premature` run), so a worker may send an Embed of a prefix. If verify accepts that proof, the gateway ends with it, and that step is no `Finish`. TLC finds the refinement violated when `PartialVerify = BOOLEAN`. Whether verify rejects such a proof depends on the circuit's completeness checks, which are outside this repository. The theorem is therefore exactly as strong as that assumption about the circuit.

The refinement needs more than `PipelineInv`. `RefineInv` (in `ProvingPipeline.tla`) adds two conjuncts:

- **ProdInOrder:** the emulator channel holds the requests for chunks `emitted - NReq .. emitted - 1` in order, then at most the `EmulatorComplete`. So the request `init_node` takes is chunk `Registered`, and `Registered = emitted - NReq` (lemma `RegisteredNReq`).
- **EmbedFinal:** `embedProof` is empty while the gateway runs. An Embed in `gq` carries the full range, and it was sent when the tree was one slot covering every chunk, with no request, reply or busy worker left. The fast path keeps this (`FastPathFinal`) only because verify rejects a partial range. Every other worker step finds no Embed in the channel (`BusyNoEmbed`).

The step lemmas map each action:

- `RegisterStep`: `GwRiscvRequest` is `Register`.
- `ProofResponseStep`: `GwProofResponse` is a stutter when the slot has no proved neighbour. Otherwise it is `Reduce`, and `MergeSegs` computes the new set of ranges. The ranges of distinct slots are distinct by SlotsOrdered.
- `EmbedStep`: `GwEmbed` is `Finish`.
- `EmulatorRegistered`: the emulator's sends and `GwEmulatorComplete` keep `Registered`.
- Every worker and prove_task step leaves the mapped state unchanged.

`StepRefines` combines them, and the theorem closes with PTL.

`OnchainRenderProofs.tla` proves **RenderTypeCorrect: `Spec => []TypeOK`** for every `MaxRenders`, `MaxDeaths` and `MaxFailedStarts` in `Nat`, and whether or not the files are there at the start. TypeOK is inductive by itself: the counters grow only below their bounds.

The following are checked by TLC only, on the instances above:

- Liveness (Termination, ProverRestored): TLAPS cannot prove liveness.
- `ReducesChunks` with a verify that may accept a partial embed. It does not hold then (see above). The passing runs check it with `PartialVerify = {FALSE}`.

## Not modelled, and why

- `compress.rs`, `embed.rs`, and the proving internals of `riscv_convert.rs` and `combine.rs`. These are external cryptographic computations and I/O; only their outcomes and ranges enter the model.
- The internals of `recreate_gnark_prover`, `send_gnark_prove_task` and `gnark_prover_running` (in `pico_vm`), beyond the remove/start/answer behaviour described above.
- The gRPC server's decoding, its auth, config, cost estimation, and the offline binaries. These are pure request handling, configuration or I/O, with no concurrent state.

## Plan

1. Add a run showing that, with idle workers, the join always ends by timeout.
