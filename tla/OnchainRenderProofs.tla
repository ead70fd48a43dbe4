------------------------- MODULE OnchainRenderProofs -------------------------
(***************************************************************************)
(* Proofs about the on-chain render and the docker monitor daemon: the     *)
(* type invariant, for every bound on renders, container deaths and failed *)
(* starts, and whether or not the gnark files are there at the start.      *)
(***************************************************************************)
EXTENDS OnchainRender, TLAPS

USE RenderBoundsAssumption, FilesAtStartAssumption

(* The initial state is well typed: the container may be up or down. *)
LEMMA InitTypeOK == Init => TypeOK
<1> SUFFICES ASSUME Init PROVE TypeOK
  OBVIOUS
<1>1. /\ deaths \in 0 .. MaxDeaths /\ renders \in 0 .. MaxRenders
      /\ failed \in 0 .. MaxFailedStarts
  BY DEF Init
<1>2. /\ docker \in {"up", "down"} /\ dpc = "check" /\ rpc = "idle"
      /\ inflight = FALSE /\ result = "none" /\ downloads \in BOOLEAN
  BY DEF Init
<1>. QED
  BY <1>1, <1>2, Zenon DEF TypeOK

(* Every step keeps TypeOK: deaths, failed starts and renders grow only    *)
(* below their bounds, and every program counter moves to one of its      *)
(* values.                                                                 *)
LEMMA NextTypeOK == TypeOK /\ [Next]_vars => TypeOK'
<1> SUFFICES ASSUME TypeOK, [Next]_vars PROVE TypeOK'
  OBVIOUS
<1>0. /\ deaths' \in 0 .. MaxDeaths /\ renders' \in 0 .. MaxRenders
      /\ failed' \in 0 .. MaxFailedStarts
  BY DEF TypeOK, Next, vars, DockerDies, Daemon, DaemonCheck, DaemonRemove,
         DaemonStart, DaemonWake, Render, RenderStart, RenderCheck,
         RenderRemove, RenderStartContainer, RenderSend, RenderReceive,
         StartContainer, RemoveContainer, FilesPlaced
<1>1. CASE DockerDies
  BY <1>0, <1>1, Zenon DEF DockerDies, RemoveContainer, TypeOK
<1>2. CASE Daemon
  BY <1>0, <1>2, Zenon DEF Daemon, DaemonCheck, DaemonRemove, DaemonStart,
                            DaemonWake, RemoveContainer, StartContainer, TypeOK
<1>3. CASE RenderStart
  BY <1>0, <1>3, Zenon DEF RenderStart, TypeOK
<1>4. CASE RenderCheck \/ RenderRemove \/ RenderStartContainer
  BY <1>0, <1>4, Zenon DEF RenderCheck, RenderRemove, RenderStartContainer,
                            RemoveContainer, StartContainer, TypeOK
<1>5. CASE RenderSend \/ RenderReceive
  BY <1>0, <1>5, Zenon DEF RenderSend, RenderReceive, TypeOK
<1>6. CASE UNCHANGED vars
  BY <1>0, <1>6, Zenon DEF vars, TypeOK
<1>7. CASE FilesPlaced
  BY <1>0, <1>7, Zenon DEF FilesPlaced, TypeOK
<1>. QED
  BY <1>1, <1>2, <1>3, <1>4, <1>5, <1>6, <1>7 DEF Next, Render

(* Every reachable state of the render and the daemon is well typed. *)
THEOREM RenderTypeCorrect == Spec => []TypeOK
<1>1. Init => TypeOK
  BY InitTypeOK
<1>2. TypeOK /\ [Next]_vars => TypeOK'
  BY NextTypeOK
<1>. QED
  BY <1>1, <1>2, PTL DEF Spec

=============================================================================
