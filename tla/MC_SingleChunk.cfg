\* A program whose emulation yields a single chunk: no merge ever happens.
CONSTANTS
    NChunks = 1
    w1 = w1
    w2 = w2
    Workers <- MCWorkers
    PartialVerify <- MCVerifyRejects
    StageFails <- MCNoPanic
    RenderFaults <- MCRenderFaults
SPECIFICATION Spec
CHECK_DEADLOCK FALSE
PROPERTIES
    Termination
