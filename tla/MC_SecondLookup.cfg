\* One key submitted once; neither prove_task nor the database write fails.
\* A client that looks the key up twice must get the same bytes twice.
CONSTANTS
    k1 = k1
    k2 = k2
    c1 = c1
    c2 = c2
    p1 = p1
    p2 = p2
    none = none
    Keys <- MCOneKey
    Clients <- MCClients
    ProofBytes <- MCOneProof
    NoProof = none
    ProveFails <- MCNeverFails
    DbWriteFails <- MCNeverFails
    MaxSubmit = 1
SPECIFICATION Spec
PROPERTY SecondLookupSameBytes
