\* Three chunks and the default deployment of one prover thread; any proving
\* stage may panic, and verification of a partial embed proof may go either
\* way.  A panic leaves threads blocked for ever, which shows as a state with
\* no step enabled; the hang itself is the stage_panic run's question, here
\* only the gateway's safety under worker deaths and premature fast paths is
\* checked.
CONSTANTS
    NChunks = 3
    w1 = w1
    w2 = w2
    Workers <- MCOneWorker
    PartialVerify <- MCVerifyAny
    StageFails <- MCMayPanic
    RenderFaults <- MCRenderFaults
SPECIFICATION Spec
CHECK_DEADLOCK FALSE
INVARIANTS
    ProtocolValid
    MergeAdjacent
