\* A signal ends the process.
SPECIFICATION Spec
CONSTANTS
    Inks <- MCInks
    Runes <- MCRunes
    ValidUTF8 <- MCValidUTF8
    MaxRunes <- MCMaxRunes
    MaxItems <- MCMaxItems
    Files <- MCFiles
    Environments <- MCEnvironments
INVARIANT ShutdownReleasesPools
CHECK_DEADLOCK FALSE
