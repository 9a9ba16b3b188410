CONSTANTS
    Requests = {r1, r2, r3}
    NoRequest = NoRequest
    Script = Script
    Pause = Pause
    MaxSessions = 2
    MaxDepth = 4
SPECIFICATION FairSpec
INVARIANTS
    TypeOK
    LiveIsHeld
    RepliesAddUp
PROPERTIES
    DisconnectAnswersWaiting
    ReplySpec
    TerminationEnds
