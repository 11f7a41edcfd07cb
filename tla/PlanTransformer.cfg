SPECIFICATION Spec
CONSTANTS
    Plans <- SmallPlans
    FlagSets <- SomeFlags
    MaxCalls = 2
INVARIANTS PlansKeepMeaning MatchesDisjoint NothingMissed
CHECK_DEADLOCK FALSE
