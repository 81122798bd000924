SPECIFICATION Spec
CONSTANTS
    s1 = s1
    s2 = s2
    Sources <- MCSources
    MaxWeight = 10
    MaxScore = 4
    WeightIncrement = 2
    ContradictionPenalty = 3
    PromotionThreshold = 4
    RecurrenceThreshold = 2
    MinOccurrences = 2
    MinEvidence = 1
    DormantTTL = 2
    MaxEvents = 4
    MaxOccurrences = 2
    Offers <- LifeOffers
    Policies <- LivePolicies
    TurnSteps <- OneTurn
    ProbeDeltas <- Probes
INVARIANTS VersionIdentifiesAuthority AuthorityIsSound
PROPERTIES PromotionNeedsPolicy  KeepsPromise
CHECK_DEADLOCK FALSE
