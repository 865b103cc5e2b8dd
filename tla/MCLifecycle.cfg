\* Files at and beyond each limit, of up to five sources, of which each may fail to
\* open, refuse or not answer.
SPECIFICATION FairSpec
CONSTANTS
    Inks <- MCInks
    Runes <- MCRunes
    ValidUTF8 <- MCValidUTF8
    MaxRunes <- MCMaxRunes
    MaxItems <- MCMaxItems
    Files <- MCFiles
    Environments <- MCEnvironments
INVARIANTS
    TypeOK
    ServesCheckedSources
    NoPoolLeftOpen
    ListsWhatIsConfigured
PROPERTIES
    StartsAsDocumented
    ClosedStaysClosed
    StartupEnds
\* The process stops once.
CHECK_DEADLOCK FALSE
