SPECIFICATION FairSpec
CONSTANTS
    KNetworkIdle = 1
    KLocalCeiling = 1
    Loads <- MCLoads
INVARIANT OutcomeIsTruthful
INVARIANT ReturnLeavesNothing
INVARIANT PromptRaisedOnce
INVARIANT SecretAnswersItsPrompt
INVARIANT FinishedIsTruthful
CHECK_DEADLOCK FALSE
PROPERTY EveryInvocationEnds
