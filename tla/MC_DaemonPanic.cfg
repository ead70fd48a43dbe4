\* The gnark files are missing when the server starts and copied in later;
\* one render, one container death, every start succeeds.
CONSTANTS
    MaxRenders = 1
    MaxDeaths = 1
    MaxFailedStarts = 0
    FilesAtStart <- MCFilesMissing
SPECIFICATION Spec
PROPERTY ProverRestoredOnceFilesPlaced
CHECK_DEADLOCK FALSE
