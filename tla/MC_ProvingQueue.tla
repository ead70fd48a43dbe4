---------------------------- MODULE MC_ProvingQueue ----------------------------
(* Model values for checking ProvingQueue and its restart with TLC. *)
EXTENDS ProvingQueueRestart, TLC

CONSTANTS k1, k2, c1, c2, p1, p2, none

MCKeys == {k1, k2}
MCOneKey == {k1}
MCClients == {c1, c2}
MCProofBytes == {p1, p2}
MCOneProof == {p1}
MCNeverFails == {FALSE}
MCMayFail == BOOLEAN

(* Keys and clients are interchangeable, and so are proof byte strings. *)
MCSymmetry == Permutations(MCKeys) \cup Permutations(MCClients)
                \cup Permutations(MCProofBytes)
=============================================================================
