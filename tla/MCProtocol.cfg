CONSTANTS
    StackLimit = 7
    MaxNesting = 12
    Made <- MCMade
    Received <- MCReceived
    GivenDoubles <- MCGivenDoubles
    Nestings <- MCNestings
SPECIFICATION ProtocolSpec
INVARIANTS
    CloneIsEqual
    SurvivesTheWire
    FaultsAreNamed
    ReadableWithinLimit
    AcceptedIsCanonical
CHECK_DEADLOCK FALSE
