SPECIFICATION PageSpec
CONSTANTS
    c1 = c1
    c2 = c2
    Conversations <- MCConversations
    Nobody = Nobody
    Uses <- MCUses
    Seeds <- MCSeeds
    MaxMessages = 1
    MaxEvents <- MCMaxEvents
    MaxErrors = 1
INVARIANTS   AskedOnce
SYMMETRY Alike
CHECK_DEADLOCK FALSE
