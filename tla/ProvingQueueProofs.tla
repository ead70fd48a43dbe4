-------------------------- MODULE ProvingQueueProofs --------------------------
(***************************************************************************)
(* Proofs about the task queue and its two-tier result cache: the bytes a *)
(* client was handed stay retrievable, from the inductive invariant       *)
(* QueueInv.                                                               *)
(***************************************************************************)
EXTENDS ProvingQueue, SequenceTheorems, TLAPS

USE ProofBytesAssumption, ProveFailsAssumption, DbWriteFailsAssumption,
    MaxSubmitAssumption, KeysAssumption

(* The conjuncts of QueueInv other than the type invariant. *)
Backing == LatestInMemory /\ StoringHolds /\ DatabaseLogged /\ NoResultLost

(* The initial queue and cache satisfy the inductive invariant. *)
LEMMA InitQueueInv == Init => QueueInv
<1> SUFFICES ASSUME Init PROVE QueueInv
  OBVIOUS
<1>1. AnyKey \in Keys
  BY DEF AnyKey
<1>2. TypeOK
  BY <1>1, EmptySeq DEF Init, TypeOK, Entry
<1>3. Backing
  BY DEF Init, Backing, LatestInMemory, StoringHolds, DatabaseLogged,
         NoResultLost
<1>. QED
  BY <1>2, <1>3 DEF QueueInv, Backing

(* A step that leaves the cache, the logs, the histories and the queue's   *)
(* position alone keeps the backing conjuncts.                             *)
LEMMA BackingUnchanged ==
    ASSUME Backing,
           UNCHANGED <<qpc, cur, curProof, outputs, db, dbLog, delivered,
                       latest>>
    PROVE  Backing'
BY DEF Backing, LatestInMemory, StoringHolds, DatabaseLogged, NoResultLost

(* Every step of the queue, the intake and the lookups keeps the           *)
(* invariant.                                                              *)
LEMMA NextQueueInv == QueueInv /\ [Next]_vars => (QueueInv')
<1> SUFFICES ASSUME QueueInv, [Next]_vars PROVE TypeOK' /\ Backing'
  BY DEF QueueInv, Backing
<1>. USE DEF QueueInv
<1>0. Backing
  BY DEF Backing
<1>1. ASSUME NEW k \in Keys, Submit(k) PROVE TypeOK' /\ Backing'
  <2>1. TypeOK'
    BY <1>1, AppendProperties DEF Submit, TypeOK
  <2>. QED
    BY <1>0, <1>1, <2>1, BackingUnchanged DEF Submit
<1>2. CASE QueueRecv
  <2>1. TypeOK'
    BY <1>2, HeadTailProperties DEF QueueRecv, TypeOK
  (* qpc was "recv": no key's last line is "memory". *)
  <2>2. \A k \in Keys : dbLog[k] # "memory"
    BY <1>2 DEF QueueRecv, StoringHolds
  <2>3. Backing'
    BY <1>2, <2>2 DEF QueueRecv, Backing, LatestInMemory, StoringHolds,
                      DatabaseLogged, NoResultLost
  <2>. QED
    BY <2>1, <2>3
<1>3. CASE ProveOk
  <2>1. PICK b \in ProofBytes : /\ outputs' = [outputs EXCEPT ![cur] = b]
                                /\ curProof' = b
                                /\ latest' = [latest EXCEPT ![cur] = b]
    BY <1>3 DEF ProveOk
  <2>2. /\ dbLog' = [dbLog EXCEPT ![cur] = "memory"]
        /\ qpc' = "storing"
        /\ UNCHANGED <<cur, db, delivered>>
    BY <1>3 DEF ProveOk
  (* qpc was "proving": no key's last line is "memory". *)
  <2>3. \A k \in Keys : dbLog[k] # "memory"
    BY <1>3 DEF ProveOk, StoringHolds
  <2>4. TypeOK'
    BY <2>1, <2>2, <1>3 DEF ProveOk, TypeOK, Entry
  <2>5. LatestInMemory'
    BY <2>1, <2>2 DEF LatestInMemory, TypeOK
  <2>6. StoringHolds'
    BY <2>1, <2>2, <2>3 DEF StoringHolds, TypeOK
  <2>7. DatabaseLogged'
    BY <2>1, <2>2 DEF DatabaseLogged, TypeOK
  <2>8. NoResultLost'
    BY <2>1, <2>2 DEF NoResultLost, TypeOK
  <2>. QED
    BY <2>4, <2>5, <2>6, <2>7, <2>8 DEF Backing
<1>4. CASE ProveFailed
  (* Nothing is stored: qpc was "proving", so no write was in flight. *)
  <2>1. \A k \in Keys : dbLog[k] # "memory"
    BY <1>4 DEF ProveFailed, StoringHolds
  <2>2. TypeOK'
    BY <1>4 DEF ProveFailed, TypeOK
  <2>3. Backing'
    BY <1>4, <2>1 DEF ProveFailed, Backing, LatestInMemory, StoringHolds,
                      DatabaseLogged, NoResultLost
  <2>. QED
    BY <2>2, <2>3
<1>5. CASE StoreDb
  <2>1. PICK fails \in DbWriteFails :
          IF fails THEN dbLog' = [dbLog EXCEPT ![cur] = "failed"] /\ db' = db
                   ELSE /\ db' = [db EXCEPT ![cur] = curProof]
                        /\ dbLog' = [dbLog EXCEPT ![cur] = "database"]
    BY <1>5 DEF StoreDb
  <2>2. /\ qpc' = "recv"
        /\ curProof' = NoProof
        /\ UNCHANGED <<cur, outputs, delivered, latest>>
    BY <1>5 DEF StoreDb
  <2>3. curProof \in ProofBytes /\ curProof = latest[cur]
    BY <1>5 DEF StoreDb, StoringHolds
  (* Only the key being stored had "memory" as its last line. *)
  <2>4. \A k \in Keys : dbLog[k] = "memory" => k = cur
    BY <1>5 DEF StoreDb, StoringHolds
  <2>5. dbLog'[cur] \in {"database", "failed"}
        /\ \A k \in Keys \ {cur} : dbLog'[k] = dbLog[k] /\ db'[k] = db[k]
    BY <2>1 DEF TypeOK
  <2>6. dbLog'[cur] = "database" => db'[cur] = latest[cur]
    BY <2>1, <2>3 DEF TypeOK
  <2>7. TypeOK'
    BY <1>5, <2>1, <2>2, <2>3 DEF StoreDb, TypeOK, Entry
  <2>8. LatestInMemory' /\ StoringHolds' /\ DatabaseLogged'
    BY <2>2, <2>4, <2>5, <2>6 DEF LatestInMemory, StoringHolds,
                                  DatabaseLogged
  <2>9. NoResultLost'
    BY <2>2, <2>5, <2>6 DEF NoResultLost
  <2>. QED
    BY <2>7, <2>8, <2>9 DEF Backing
<1>6. ASSUME NEW c \in Clients, NEW k \in Keys, LookupMemory(c, k)
      PROVE  TypeOK' /\ Backing'
  <2>1. CASE outputs[k] # NoProof
    (* The memory copy is handed out and removed; the write in flight or  *)
    (* the proofs table still has it, unless its write failed.            *)
    <3>1. /\ outputs' = [outputs EXCEPT ![k] = NoProof]
          /\ delivered' = [delivered EXCEPT ![k] = outputs[k]]
          /\ answer' = [answer EXCEPT ![c] = outputs[k]]
          /\ cpc' = [cpc EXCEPT ![c] = "done"]
          /\ ckey' = [ckey EXCEPT ![c] = k]
          /\ UNCHANGED <<qpc, cur, curProof, db, dbLog, latest>>
      BY <1>6, <2>1 DEF LookupMemory, Respond
    <3>2. outputs[k] = latest[k] /\ dbLog[k] # "none"
      BY <2>1 DEF LatestInMemory
    <3>3. \/ dbLog[k] = "failed"
          \/ dbLog[k] = "database" /\ db[k] = latest[k]
          \/ qpc = "storing" /\ cur = k /\ curProof = latest[k]
      BY <3>2 DEF TypeOK, StoringHolds, DatabaseLogged
    <3>4. TypeOK'
      BY <1>6, <3>1 DEF LookupMemory, TypeOK, Entry
    <3>5. LatestInMemory' /\ StoringHolds' /\ DatabaseLogged'
      BY <3>1 DEF LatestInMemory, StoringHolds, DatabaseLogged, TypeOK
    <3>6. NoResultLost'
      <4> SUFFICES ASSUME NEW j \in Keys,
                          delivered'[j] # NoProof,
                          delivered'[j] = latest'[j],
                          dbLog'[j] # "failed"
                   PROVE  \/ outputs'[j] = delivered'[j]
                          \/ db'[j] = delivered'[j]
                          \/ qpc' = "storing" /\ cur' = j
                             /\ curProof' = delivered'[j]
        BY DEF NoResultLost
      <4>1. CASE j = k
        <5>1. delivered'[j] = latest[k] /\ dbLog[k] # "failed"
          BY <4>1, <3>1, <3>2 DEF TypeOK
        <5>. QED
          BY <5>1, <4>1, <3>1, <3>3
      <4>2. CASE j # k
        <5>1. /\ delivered'[j] = delivered[j]
              /\ outputs'[j] = outputs[j]
          BY <4>2, <3>1 DEF TypeOK
        <5>. QED
          BY <5>1, <3>1 DEF NoResultLost
      <4>. QED
        BY <4>1, <4>2
    <3>. QED
      BY <3>4, <3>5, <3>6 DEF Backing
  <2>2. CASE outputs[k] = NoProof
    <3>1. /\ cpc' = [cpc EXCEPT ![c] = "db"]
          /\ ckey' = [ckey EXCEPT ![c] = k]
          /\ UNCHANGED <<qpc, cur, curProof, outputs, db, dbLog, answer,
                         delivered, latest, tasks, nsub>>
      BY <1>6, <2>2 DEF LookupMemory
    <3>. QED
      BY <1>0, <3>1, BackingUnchanged DEF TypeOK
  <2>. QED
    BY <2>1, <2>2
<1>7. ASSUME NEW c \in Clients, LookupDb(c) PROVE TypeOK' /\ Backing'
  (* A response from the durable tier leaves a copy there. *)
  <2>1. /\ answer' = [answer EXCEPT ![c] = db[ckey[c]]]
        /\ cpc' = [cpc EXCEPT ![c] = "done"]
        /\ ckey' = [ckey EXCEPT ![c] = ckey[c]]
        /\ delivered' = IF db[ckey[c]] = NoProof THEN delivered
                        ELSE [delivered EXCEPT ![ckey[c]] = db[ckey[c]]]
        /\ UNCHANGED <<qpc, cur, curProof, outputs, db, dbLog, latest>>
    BY <1>7 DEF LookupDb, Respond
  <2>2. TypeOK'
    BY <1>7, <2>1 DEF LookupDb, TypeOK, Entry
  <2>3. LatestInMemory' /\ StoringHolds' /\ DatabaseLogged'
    BY <2>1 DEF LatestInMemory, StoringHolds, DatabaseLogged
  <2>4. NoResultLost'
    BY <2>1 DEF NoResultLost, TypeOK
  <2>. QED
    BY <2>2, <2>3, <2>4 DEF Backing
<1>8. ASSUME NEW c \in Clients, ClientRead(c) PROVE TypeOK' /\ Backing'
  BY <1>0, <1>8, BackingUnchanged DEF ClientRead, TypeOK
<1>9. CASE UNCHANGED vars
  BY <1>0, <1>9, BackingUnchanged DEF vars, TypeOK, Entry
<1>. QED
  BY <1>1, <1>2, <1>3, <1>4, <1>5, <1>6, <1>7, <1>8, <1>9 DEF Next, Queue

(* The bytes get_proving_result has handed to a client stay retrievable,   *)
(* for every set of keys, clients and outcomes: unless a newer run of the  *)
(* key produced other bytes or their database write was logged as failed,  *)
(* those very bytes are in the memory tier, in the proofs table or in the  *)
(* INSERT ProvingQueue::run is awaiting.                                   *)
THEOREM ResultNeverLost == Spec => []NoResultLost
<1>1. QueueInv => NoResultLost
  BY DEF QueueInv
<1>. QED
  BY InitQueueInv, NextQueueInv, <1>1, PTL DEF Spec

(* Every reachable state of the queue and the cache is well typed. *)
THEOREM QueueTypeCorrect == Spec => []TypeOK
<1>1. QueueInv => TypeOK
  BY DEF QueueInv
<1>. QED
  BY InitQueueInv, NextQueueInv, <1>1, PTL DEF Spec
=============================================================================
