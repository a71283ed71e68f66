\* Lines typed by hand, and batch files read in buffers of three lines.
CONSTANTS
    Texts <- AllTexts
    Programs = {"ls"}
    Files <- MCFiles
    Names <- MCNames
    MaxArguments = 3
    Batches <- BatchOrTyped
    Typed <- MCTyped
    MaxPathNum = 4
    BufLines = 3
    Dirs <- MCDirs
    Locked <- MCLocked
    TooLong <- MCTooLong
    MaxLines = 5
SPECIFICATION FairSpec
INVARIANTS
    PathsWellFormed
    CwdAgrees
    BatchOnce
PROPERTY
    LineUnderstood
    BatchEnds
