CONSTANTS
    Plans <- MCPlans
    Requests <- MCRequests
    Holds <- MCHolds
    Listed <- MCListed
    MaxRequests = 2
    Objects <- MCObjects
    Tolerated = {"pin0", "pin1"}

SPECIFICATION Spec

INVARIANTS
    AnswersInOrder
    ListIsWhole
    TornDownLast

PROPERTIES
    WaitsEnd

\* A program exits.
CHECK_DEADLOCK FALSE
