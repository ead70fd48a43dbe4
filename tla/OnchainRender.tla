---------------------------- MODULE OnchainRender ----------------------------
(***************************************************************************)
(* The on-chain render and the docker monitor daemon (src/proving/onchain  *)
(* .rs).  prove_embed_onchain runs on the gateway thread after the embed   *)
(* proof; start_onchain_daemon's thread loops every 15 s.  Both call       *)
(* gnark_prover_running() and, when it says no, recreate_gnark_prover.     *)
(* That helper lives outside this repository; as its name says it is      *)
(* modelled as removing the container, then starting a new one, which may *)
(* fail.  The HTTP request of send_gnark_prove_task is answered only by    *)
(* the container it was sent to: removing that container aborts it.       *)
(* ensure_gnark_downloads panics (it never returns Err) when the gnark key *)
(* files are missing; the operator may copy them in while the server runs, *)
(* as its message asks.  The witness building is left out (its failures   *)
(* are the render faults of ProvingPipeline).                              *)
(***************************************************************************)
EXTENDS Naturals

CONSTANTS
    MaxRenders,     \* embed proofs rendered while the server runs
    MaxDeaths,      \* containers that die of their own accord
    MaxFailedStarts,\* container starts that fail
    FilesAtStart    \* whether the gnark files are there when the server starts

ASSUME RenderBoundsAssumption ==
    MaxRenders \in Nat /\ MaxDeaths \in Nat /\ MaxFailedStarts \in Nat
ASSUME FilesAtStartAssumption ==
    FilesAtStart \subseteq BOOLEAN /\ FilesAtStart # {}

VARIABLES
    docker,    \* the container: "up" or "down"
    deaths,    \* containers that died of their own accord so far
    failed,    \* container starts that failed so far
    downloads, \* the files vm_pk, vm_vk and vm_ccs are in the download path
    dpc,       \* daemon: "check", "remove", "start", "sleep", "dead"
    rpc,       \* render: "idle", "check", "remove", "start", "send", "wait", "done"
    inflight,  \* the render's proving request is held by a live container
    result,    \* outcome of the last render: "none", "proof", "err"
    renders    \* renders started so far

vars == <<docker, deaths, failed, downloads, dpc, rpc, inflight, result,
          renders>>

Init ==
    /\ docker \in {"up", "down"}
    /\ deaths = 0
    /\ failed = 0
    /\ downloads \in FilesAtStart
    /\ dpc = "check"
    /\ rpc = "idle"
    /\ inflight = FALSE
    /\ result = "none"
    /\ renders = 0

-----------------------------------------------------------------------------
(* recreate_gnark_prover, first half: the old container is removed, and    *)
(* with it any request it was serving.                                     *)
RemoveContainer ==
    /\ docker' = "down"
    /\ inflight' = FALSE

(* recreate_gnark_prover, second half: a new container starts, or the call *)
(* returns Err and starts nothing; a container another caller started      *)
(* since the removal keeps running.  Starts fail finitely often.           *)
StartContainer(ok) ==
    /\ ok \/ failed < MaxFailedStarts
    /\ docker' = IF ok THEN "up" ELSE docker
    /\ failed' = IF ok THEN failed ELSE failed + 1

(* The environment: a running container dies. *)
DockerDies ==
    /\ docker = "up"
    /\ deaths < MaxDeaths
    /\ deaths' = deaths + 1
    /\ RemoveContainer
    /\ UNCHANGED <<failed, downloads, dpc, rpc, result, renders>>

-----------------------------------------------------------------------------
(* Mutant: the daemon recreates the container whether or not it runs. *)
DaemonCheckAlways ==
    /\ dpc = "check"
    /\ dpc' = "remove"
    /\ UNCHANGED <<docker, deaths, failed, downloads, rpc, inflight, result,
                   renders>>

(* Daemon loop: let _ = ensure_gnark_downloads(field) discards an Err, but *)
(* a missing file is a panic, which ends the daemon thread for good; then  *)
(* if !gnark_prover_running() { recreate } and sleep.                      *)
DaemonCheck ==
    /\ dpc = "check"
    /\ dpc' = CASE ~downloads     -> "dead"
                 [] docker = "up" -> "sleep"
                 [] OTHER         -> "remove"
    /\ UNCHANGED <<docker, deaths, failed, downloads, rpc, inflight, result,
                   renders>>

DaemonRemove ==
    /\ dpc = "remove"
    /\ RemoveContainer
    /\ dpc' = "start"
    /\ UNCHANGED <<deaths, failed, downloads, rpc, result, renders>>

(* let _ = recreate_gnark_prover(..): an error is dropped. *)
DaemonStart ==
    /\ dpc = "start"
    /\ \E ok \in BOOLEAN : StartContainer(ok)
    /\ dpc' = "sleep"
    /\ UNCHANGED <<deaths, downloads, rpc, inflight, result, renders>>

DaemonWake ==
    /\ dpc = "sleep"
    /\ dpc' = "check"
    /\ UNCHANGED <<docker, deaths, failed, downloads, rpc, inflight, result,
                   renders>>

Daemon == DaemonCheck \/ DaemonRemove \/ DaemonStart \/ DaemonWake

-----------------------------------------------------------------------------
(* The gateway's Exit branch calls prove_embed_onchain. *)
RenderStart ==
    /\ rpc \in {"idle", "done"}
    /\ renders < MaxRenders
    /\ renders' = renders + 1
    /\ rpc' = "check"
    /\ result' = "none"
    /\ UNCHANGED <<docker, deaths, failed, downloads, dpc, inflight>>

(* ensure_gnark_downloads(field)?: a missing file panics the gateway       *)
(* thread and prove_task reports an error (ProvingPipeline's render        *)
(* fault); then if !gnark_prover_running() { recreate_gnark_prover(..)? }. *)
RenderCheck ==
    /\ rpc = "check"
    /\ rpc' = CASE ~downloads     -> "done"
                 [] docker = "up" -> "send"
                 [] OTHER         -> "remove"
    /\ result' = IF downloads THEN result ELSE "err"
    /\ UNCHANGED <<docker, deaths, failed, downloads, dpc, inflight, renders>>

RenderRemove ==
    /\ rpc = "remove"
    /\ RemoveContainer
    /\ rpc' = "start"
    /\ UNCHANGED <<deaths, failed, downloads, dpc, result, renders>>

(* The ? returns the recreate error from prove_embed_onchain. *)
RenderStartContainer ==
    /\ rpc = "start"
    /\ \E ok \in BOOLEAN :
         /\ StartContainer(ok)
         /\ rpc' = IF ok THEN "send" ELSE "done"
         /\ result' = IF ok THEN "none" ELSE "err"
    /\ UNCHANGED <<deaths, downloads, dpc, inflight, renders>>

(* send_gnark_prove_task: the request reaches the container if it runs. *)
RenderSend ==
    /\ rpc = "send"
    /\ IF docker = "up"
       THEN /\ rpc' = "wait"
            /\ inflight' = TRUE
            /\ UNCHANGED result
       ELSE /\ rpc' = "done"
            /\ result' = "err"
            /\ UNCHANGED inflight
    /\ UNCHANGED <<docker, deaths, failed, downloads, dpc, renders>>

(* The answer: proof text if the container that took the request still    *)
(* runs, a request error otherwise.                                        *)
RenderReceive ==
    /\ rpc = "wait"
    /\ result' = IF inflight THEN "proof" ELSE "err"
    /\ rpc' = "done"
    /\ inflight' = FALSE
    /\ UNCHANGED <<docker, deaths, failed, downloads, dpc, renders>>

Render == RenderStart \/ RenderCheck \/ RenderRemove \/ RenderStartContainer
            \/ RenderSend \/ RenderReceive

(* The operator copies the gnark key files into the download path. *)
FilesPlaced ==
    /\ ~downloads
    /\ downloads' = TRUE
    /\ UNCHANGED <<docker, deaths, failed, dpc, rpc, inflight, result, renders>>

Next == Daemon \/ Render \/ DockerDies \/ FilesPlaced

(* The daemon thread loops forever; a started render runs to its end.     *)
(* Starting a render is up to the proving queue, deaths and the files to  *)
(* the world.                                                              *)
Fairness ==
    /\ WF_vars(Daemon)
    /\ WF_vars(RenderCheck \/ RenderRemove \/ RenderStartContainer
                 \/ RenderSend \/ RenderReceive)

Spec == Init /\ [][Next]_vars /\ Fairness

-----------------------------------------------------------------------------
(* Every variable holds a value of its type. *)
TypeOK ==
    /\ docker \in {"up", "down"}
    /\ deaths \in 0 .. MaxDeaths
    /\ failed \in 0 .. MaxFailedStarts
    /\ downloads \in BOOLEAN
    /\ dpc \in {"check", "remove", "start", "sleep", "dead"}
    /\ rpc \in {"idle", "check", "remove", "start", "send", "wait", "done"}
    /\ inflight \in BOOLEAN
    /\ result \in {"none", "proof", "err"}
    /\ renders \in 0 .. MaxRenders

(* The monitor daemon's purpose (start_onchain_daemon): while its thread   *)
(* lives, the prover ends up running for good once containers stop dying,  *)
(* starts stop failing and renders stop, although the loop drops every     *)
(* recreate error and the render's recreate races its own.                 *)
ProverRestored == [](dpc # "dead") => <>[](docker = "up")

(* The same duty as the daemon's doc comment and its let _ = promise it:   *)
(* once the gnark files are in place for good, the monitor brings the      *)
(* prover back and it stays up, whatever happened before the files came.   *)
ProverRestoredOnceFilesPlaced == <>[]downloads => <>[](docker = "up")

(* The comment of prove_embed_onchain: it ensures the prover is running    *)
(* and then gets a proof from it.  With no container dying on its own and  *)
(* no failed start, every render returns a proof.                          *)
RenderGetsProof == rpc = "done" => result = "proof"
=============================================================================
