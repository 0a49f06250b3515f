CONSTANTS
    Handles <- MCHandles
    Folders <- MCFolders
    Parent <- MCParent
    Name <- MCName
    InitialObjects <- MCInitial
    Special = Special
    None = None
    EventsInTransactions = TRUE
    MaxTrouble = 1
SPECIFICATION FairSpec
INVARIANTS TypeOK ParentsTrue LoadedFoldersComplete ListingComplete AnswersTrue
PROPERTIES RemovesOnlyNamed OperationsReturn
