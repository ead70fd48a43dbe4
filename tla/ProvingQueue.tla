----------------------------- MODULE ProvingQueue -----------------------------
(***************************************************************************)
(* The task intake and the two-tier result cache:                          *)
(*   - GrpcService::prove_task (src/grpc.rs) sends a ProvingTask on the    *)
(*     grpc_to_proving_channel;                                            *)
(*   - ProvingQueue::run (src/proving_queue.rs) receives one task at a     *)
(*     time, awaits proving::prove_task, stores the bytes in the outputs   *)
(*     DashMap and then awaits an INSERT OR REPLACE into the proofs table;  *)
(*   - GrpcService::get_proving_result removes the entry from the DashMap  *)
(*     on a hit and otherwise awaits a SELECT on the proofs table.         *)
(* prove_task itself is ProvingPipeline; here only its outcome is kept:    *)
(* the bytes of a proof, or an error.  Proof bytes are model values: two   *)
(* runs for one key may yield different bytes (the on-chain proof is       *)
(* randomised).  The channel is never closed while the server runs (main   *)
(* keeps a sender), so the queue's exit branch is not reachable.           *)
(***************************************************************************)
EXTENDS Naturals, Sequences

CONSTANTS
    Keys,         \* ProvingKey values (app_id, task_id)
    Clients,      \* concurrent get_proving_result callers
    ProofBytes,   \* the byte strings a successful run may return
    NoProof,      \* an absent entry / a response with proof = None
    ProveFails,   \* whether prove_task may return Err: {FALSE} or BOOLEAN
    DbWriteFails, \* whether the INSERT may fail: {FALSE} or BOOLEAN
    MaxSubmit     \* bound on the number of ProveTask requests

ASSUME ProofBytesAssumption == ProofBytes # {} /\ NoProof \notin ProofBytes
ASSUME ProveFailsAssumption == ProveFails \subseteq BOOLEAN /\ ProveFails # {}
ASSUME DbWriteFailsAssumption ==
    DbWriteFails \subseteq BOOLEAN /\ DbWriteFails # {}
ASSUME MaxSubmitAssumption == MaxSubmit \in Nat
ASSUME KeysAssumption == Keys # {} /\ Clients # {}

VARIABLES
    tasks,      \* grpc_to_proving_channel
    nsub,       \* ProveTask requests accepted so far (bounded by MaxSubmit)
    qpc,        \* queue loop: "recv", "proving" (awaiting prove_task),
                \* "storing" (awaiting store_proof_in_db)
    cur,        \* task_key of the task being handled
    curProof,   \* proof_arc held across the database await
    outputs,    \* ProvingOutputs DashMap: key -> bytes or NoProof
    db,         \* proofs table: key -> bytes or NoProof
    dbLog,      \* per key: the last storage line logged for it: "none",
                \* "memory", "database" or "failed" (to store in database)
    cpc,        \* per client: "idle", "db" (awaiting the SELECT), "done"
    ckey,       \* per client: key of the current lookup
    answer,     \* per client: the proof field of the last response
    delivered,  \* per key: bytes some response last carried (history)
    latest      \* per key: bytes of its last successful prove_task (history)

vars == <<tasks, nsub, qpc, cur, curProof, outputs, db, dbLog, cpc, ckey,
          answer, delivered, latest>>

Entry == ProofBytes \cup {NoProof}

(* The value task_key and key hold before their first assignment. *)
AnyKey == CHOOSE k \in Keys : TRUE

Init ==
    /\ tasks = << >>
    /\ nsub = 0
    /\ qpc = "recv"
    /\ cur = AnyKey
    /\ curProof = NoProof
    /\ outputs = [k \in Keys |-> NoProof]
    /\ db = [k \in Keys |-> NoProof]
    /\ dbLog = [k \in Keys |-> "none"]
    /\ cpc = [c \in Clients |-> "idle"]
    /\ ckey = [c \in Clients |-> AnyKey]
    /\ answer = [c \in Clients |-> NoProof]
    /\ delivered = [k \in Keys |-> NoProof]
    /\ latest = [k \in Keys |-> NoProof]

-----------------------------------------------------------------------------
(* GrpcService::prove_task: the app is found and the task is sent; the     *)
(* send cannot fail because the receiver lives as long as the server.      *)
(* Submitting a key again is allowed (the spec's duplicate submission).    *)
Submit(k) ==
    /\ nsub < MaxSubmit
    /\ tasks' = Append(tasks, k)
    /\ nsub' = nsub + 1
    /\ UNCHANGED <<qpc, cur, curProof, outputs, db, dbLog, cpc, ckey,
                   answer, delivered, latest>>

(* ProvingQueue::run: receiver.recv() then prove_task(task).await. *)
QueueRecv ==
    /\ qpc = "recv"
    /\ tasks # << >>
    /\ cur' = Head(tasks)
    /\ tasks' = Tail(tasks)
    /\ qpc' = "proving"
    /\ UNCHANGED <<nsub, curProof, outputs, db, dbLog, cpc, ckey, answer,
                   delivered, latest>>

(* Ok(proof_bytes): the bytes are inserted in outputs (replacing an older   *)
(* entry for the key), "proof stored in memory" is logged and the database *)
(* write is awaited.                                                       *)
ProveOk ==
    /\ qpc = "proving"
    /\ \E b \in ProofBytes :
         /\ outputs' = [outputs EXCEPT ![cur] = b]
         /\ curProof' = b
         /\ latest' = [latest EXCEPT ![cur] = b]
    /\ dbLog' = [dbLog EXCEPT ![cur] = "memory"]
    /\ qpc' = "storing"
    /\ UNCHANGED <<tasks, nsub, cur, db, cpc, ckey, answer, delivered>>

(* Err(e): logged, nothing is stored, the loop takes the next task. *)
ProveFailed ==
    /\ qpc = "proving"
    /\ TRUE \in ProveFails
    /\ qpc' = "recv"
    /\ UNCHANGED <<tasks, nsub, cur, curProof, outputs, db, dbLog, cpc,
                   ckey, answer, delivered, latest>>

(* store_proof_in_db: INSERT OR REPLACE and "proof stored in database", or *)
(* an error that is only logged.                                           *)
StoreDb ==
    /\ qpc = "storing"
    /\ \E fails \in DbWriteFails :
         IF fails
         THEN /\ dbLog' = [dbLog EXCEPT ![cur] = "failed"]
              /\ db' = db
         ELSE /\ db' = [db EXCEPT ![cur] = curProof]
              /\ dbLog' = [dbLog EXCEPT ![cur] = "database"]
    /\ qpc' = "recv"
    /\ curProof' = NoProof
    /\ UNCHANGED <<tasks, nsub, cur, outputs, cpc, ckey, answer, delivered,
                   latest>>

-----------------------------------------------------------------------------
(* The response of a lookup of k that carries entry e. *)
Respond(c, k, e) ==
    /\ answer' = [answer EXCEPT ![c] = e]
    /\ cpc' = [cpc EXCEPT ![c] = "done"]
    /\ ckey' = [ckey EXCEPT ![c] = k]
    /\ delivered' = IF e = NoProof THEN delivered
                    ELSE [delivered EXCEPT ![k] = e]

(* get_proving_result, memory tier: outputs.remove(&key); on a hit the     *)
(* removed bytes are returned, on a miss the database is queried.          *)
LookupMemory(c, k) ==
    /\ cpc[c] = "idle"
    /\ IF outputs[k] # NoProof
       THEN /\ Respond(c, k, outputs[k])
            /\ outputs' = [outputs EXCEPT ![k] = NoProof]
       ELSE /\ cpc' = [cpc EXCEPT ![c] = "db"]
            /\ ckey' = [ckey EXCEPT ![c] = k]
            /\ UNCHANGED <<outputs, answer, delivered>>
    /\ UNCHANGED <<tasks, nsub, qpc, cur, curProof, db, dbLog, latest>>

(* Mutant: the database fallback takes the row instead of reading it. *)
LookupDbTake(c) ==
    /\ cpc[c] = "db"
    /\ Respond(c, ckey[c], db[ckey[c]])
    /\ db' = [db EXCEPT ![ckey[c]] = NoProof]
    /\ UNCHANGED <<tasks, nsub, qpc, cur, curProof, outputs, dbLog,
                   latest>>

(* get_proving_result, durable tier: SELECT proof FROM proofs. *)
LookupDb(c) ==
    /\ cpc[c] = "db"
    /\ Respond(c, ckey[c], db[ckey[c]])
    /\ UNCHANGED <<tasks, nsub, qpc, cur, curProof, outputs, db, dbLog,
                   latest>>

(* The client reads the response and may poll again. *)
ClientRead(c) ==
    /\ cpc[c] = "done"
    /\ cpc' = [cpc EXCEPT ![c] = "idle"]
    /\ UNCHANGED <<tasks, nsub, qpc, cur, curProof, outputs, db, dbLog,
                   ckey, answer, delivered, latest>>

Queue == QueueRecv \/ ProveOk \/ ProveFailed \/ StoreDb

Next == \/ \E k \in Keys : Submit(k)
        \/ Queue
        \/ \E c \in Clients : \/ \E k \in Keys : LookupMemory(c, k)
                              \/ LookupDb(c)
                              \/ ClientRead(c)

Spec == Init /\ [][Next]_vars

-----------------------------------------------------------------------------
(* Every variable holds a value of its type. *)
TypeOK ==
    /\ tasks \in Seq(Keys)
    /\ nsub \in 0 .. MaxSubmit
    /\ qpc \in {"recv", "proving", "storing"}
    /\ cur \in Keys
    /\ curProof \in Entry
    /\ outputs \in [Keys -> Entry]
    /\ db \in [Keys -> Entry]
    /\ dbLog \in [Keys -> {"none", "memory", "database", "failed"}]
    /\ cpc \in [Clients -> {"idle", "db", "done"}]
    /\ ckey \in [Clients -> Keys]
    /\ answer \in [Clients -> Entry]
    /\ delivered \in [Keys -> Entry]
    /\ latest \in [Keys -> Entry]

(* A proof handed to a client is not lost (spec section 4.5: the durable   *)
(* write is best effort, its failure logged, the memory copy               *)
(* authoritative).  Unless a newer run of the key has produced other bytes *)
(* or the database write of these was logged as failed, the very bytes     *)
(* last delivered for a key are in the memory tier, in the proofs table,   *)
(* or in the INSERT ProvingQueue::run is awaiting (get_proving_result      *)
(* removes only the memory copy).                                          *)
NoResultLost ==
    \A k \in Keys :
      /\ delivered[k] # NoProof
      /\ delivered[k] = latest[k]
      /\ dbLog[k] # "failed"
      => \/ outputs[k] = delivered[k]
         \/ db[k] = delivered[k]
         \/ qpc = "storing" /\ cur = k /\ curProof = delivered[k]

(* The strengthening NoResultLost needs to be inductive.  A memory entry   *)
(* holds the key's newest bytes and its insert was logged; the write in    *)
(* flight carries the newest bytes of its key, and only that key's last    *)
(* line is "memory"; a key whose last line is "database" has its newest    *)
(* bytes in the proofs table.                                              *)
LatestInMemory ==
    \A k \in Keys :
      outputs[k] # NoProof => outputs[k] = latest[k] /\ dbLog[k] # "none"

StoringHolds ==
    /\ qpc = "storing" =>
         /\ curProof \in ProofBytes
         /\ curProof = latest[cur]
         /\ dbLog[cur] = "memory"
    /\ \A k \in Keys : dbLog[k] = "memory" => qpc = "storing" /\ cur = k

DatabaseLogged ==
    \A k \in Keys : dbLog[k] = "database" => db[k] = latest[k]

QueueInv ==
    /\ TypeOK /\ LatestInMemory /\ StoringHolds /\ DatabaseLogged
    /\ NoResultLost

(* Spec section 8: once a lookup has returned a proof, a later lookup of   *)
(* the same key returns those bytes again, from the durable tier after the *)
(* memory copy was taken (get_proving_result after ProvingQueue::run).     *)
SecondLookupSameBytes ==
    [][\A c \in Clients :
         (cpc[c] # "done" /\ cpc'[c] = "done"
            /\ delivered[ckey'[c]] # NoProof)
           => answer'[c] = delivered[ckey'[c]]]_vars
=============================================================================
