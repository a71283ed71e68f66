\* A leader and four more threads.
CONSTANTS
    Tid = {1, 2, 3, 4, 5}
    Leader = 1
    Views <- MCViews
    MaxIo = 3
SPECIFICATION FairSpec
INVARIANTS
    ListingExact
    IoExact
PROPERTY
    PidfdWakes
\* The group has exited and every tid is taken.
CHECK_DEADLOCK FALSE
