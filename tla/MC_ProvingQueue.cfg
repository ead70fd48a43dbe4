\* Two keys, two polling clients, up to three submissions (so a key can be
\* submitted twice), prove_task and the database write both allowed to fail.
CONSTANTS
    k1 = k1
    k2 = k2
    c1 = c1
    c2 = c2
    p1 = p1
    p2 = p2
    none = none
    Keys <- MCKeys
    Clients <- MCClients
    ProofBytes <- MCProofBytes
    NoProof = none
    ProveFails <- MCMayFail
    DbWriteFails <- MCMayFail
    MaxSubmit = 3
SPECIFICATION Spec
INVARIANT NoResultLost
