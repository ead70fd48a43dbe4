\* One render; no container dies of its own accord, every start succeeds and
\* the gnark files are in place.  The prover may be down when the server
\* starts.
CONSTANTS
    MaxRenders = 1
    MaxDeaths = 0
    MaxFailedStarts = 0
    FilesAtStart <- MCFilesThere
SPECIFICATION Spec
INVARIANT RenderGetsProof
