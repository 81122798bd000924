\* Handlers that overtake each other, and answers that are lost.
CONSTANTS
    MaxSessions = 2
    Seeds = {1}
    NSlots = 3
    Persons <- Everyone
SPECIFICATION FairSpec
INVARIANTS
    ActionsStayTogether
    OncePerRequest
PROPERTIES
    PageFollows
    PageComesBack
CHECK_DEADLOCK FALSE
