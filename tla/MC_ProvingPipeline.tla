------------------------- MODULE MC_ProvingPipeline -------------------------
(* Model-checking instance of ProvingPipeline. *)
EXTENDS ProvingPipeline, TLC

CONSTANTS w1, w2

MCWorkers == {w1, w2}
MCOneWorker == {w1}

(* Verification of a partial embed proof: rejected, or either outcome. *)
MCVerifyRejects == {FALSE}
MCVerifyAny == BOOLEAN

MCNoPanic == {FALSE}
MCMayPanic == BOOLEAN
MCRenderFaults == {"files_missing", "docker_down", "witness_err", "prove_err",
                   "malformed_proof"}

MCSymmetry == Permutations(MCWorkers)
=============================================================================
