SPECIFICATION FairSpec
CONSTANTS
    Horizon = 3
    MaxDelay = 1
    Rules <- TwoRules
    Ops = {"create", "delete", "list"}
    MaxCalls = 2
    MaxTurns = 1
    MaxDisturbances = 1
INVARIANTS
    RemindersAreExact
    AnswersAreDurable
    WakeIsArmed
PROPERTIES
    RemindersAreDue
    RemindersAreServed
CHECK_DEADLOCK FALSE
