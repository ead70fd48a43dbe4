\* Two renders, one container death and one failed start; the gnark files
\* may be missing when the server starts and be copied in later.  The
\* daemon thread may die, and after it the renders run out: the system
\* really stops there.
CONSTANTS
    MaxRenders = 2
    MaxDeaths = 1
    MaxFailedStarts = 1
    FilesAtStart <- MCFilesMayMiss
SPECIFICATION Spec
PROPERTY ProverRestored
CHECK_DEADLOCK FALSE
