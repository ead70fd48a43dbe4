\* Three chunks, two workers, partial embed proofs rejected by verify.
\* A run ends with every thread stopped (no step enabled): deadlock is not
\* an error here, Termination separates that end from a hang.
CONSTANTS
    NChunks = 3
    w1 = w1
    w2 = w2
    Workers <- MCWorkers
    PartialVerify <- MCVerifyRejects
    StageFails <- MCNoPanic
    RenderFaults <- MCRenderFaults
SPECIFICATION Spec
CHECK_DEADLOCK FALSE
INVARIANTS
    TypeOK
    ProtocolValid
    MergeAdjacent
    NoAdjacentProved
PROPERTIES
    ProofNeverLost
    Termination
    ReducesChunks
