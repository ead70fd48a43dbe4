\* flag_complete is computed from the tree length alone: with three chunks
\* the merge of chunks 0 and 1 can be flagged before chunk 2 is emitted.
CONSTANTS
    NChunks = 3
    w1 = w1
    w2 = w2
    Workers <- MCWorkers
    PartialVerify <- MCVerifyRejects
    StageFails <- MCNoPanic
    RenderFaults <- MCRenderFaults
SPECIFICATION Spec
INVARIANTS
    FlagCompleteOnlyAtRoot
