SPECIFICATION UseSpec
CONSTANTS
    s1 = s1
    s2 = s2
    Sources <- MCSources
    MaxWeight = 10
    MaxScore = 4
    WeightIncrement = 2
    ContradictionPenalty = 3
    PromotionThreshold = 4
    RecurrenceThreshold = 1
    MinOccurrences = 2
    MinEvidence = 2
    DormantTTL = 2
    MaxEvents = 4
    MaxOccurrences = 2
    MaxUses = 1
    Offers <- UseOffers
    CurrentPolicies <- UsePolicies
    Policies <- UsePolicies
    TurnSteps <- NoTurns
    ProbeDeltas <- Probes
INVARIANTS RisesAreSupported UsesAreSound PromotionStaysUsable PanelSpeaksTrue
CHECK_DEADLOCK FALSE
