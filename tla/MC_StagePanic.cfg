\* Two chunks, one worker, and a proving stage may panic.  The spec relies on
\* an outer timeout to surface a worker's death; the run asks whether
\* prove_task still returns.
CONSTANTS
    NChunks = 2
    w1 = w1
    w2 = w2
    Workers <- MCOneWorker
    PartialVerify <- MCVerifyRejects
    StageFails <- MCMayPanic
    RenderFaults <- MCRenderFaults
SPECIFICATION Spec
CHECK_DEADLOCK FALSE
PROPERTIES
    Termination
