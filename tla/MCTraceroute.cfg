CONSTANTS
    MaxHop = 5
    Distance = 4
    ReplyTTLs <- MCReplyTTLs
    MaxForeign = 2
    Stranger = Stranger
SPECIFICATION SearchSpec
INVARIANT PathsNameRoutersInReach
CHECK_DEADLOCK FALSE
