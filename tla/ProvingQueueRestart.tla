-------------------------- MODULE ProvingQueueRestart --------------------------
(***************************************************************************)
(* The queue and the cache across a process exit.  main (src/bin/server.rs)*)
(* awaits ctrl_c() and calls exit(0) whatever the queue task is doing; the *)
(* next start opens the same SQLite database, a fresh ProvingOutputs map   *)
(* and a fresh grpc_to_proving_channel.  Exit and restart are one step:    *)
(* no request is served in between.                                        *)
(***************************************************************************)
EXTENDS ProvingQueue

(* exit(0) then main again: the memory tier, the queued tasks and the task *)
(* in progress are gone, requests in flight fail and the clients poll      *)
(* again.  An INSERT that was awaited may or may not have committed.       *)
(* The proofs table, and what clients already hold, survive.               *)
Restart ==
    /\ \/ db' = db
       \/ qpc = "storing" /\ db' = [db EXCEPT ![cur] = curProof]
    /\ tasks' = << >>
    /\ qpc' = "recv"
    /\ curProof' = NoProof
    /\ outputs' = [k \in Keys |-> NoProof]
    /\ cpc' = [c \in Clients |-> "idle"]
    /\ UNCHANGED <<nsub, cur, dbLog, ckey, answer, delivered, latest>>

RestartNext == Next \/ Restart

RestartSpec == Init /\ [][RestartNext]_vars
=============================================================================
