CONSTANTS
    m1 = m1
    m2 = m2
    ModelCallIds <- MCModelCallIds
    Stops <- MCStops
    MaxTurns = 2
    MaxEvents = 5
SPECIFICATION FairSpec
INVARIANTS
    TypeOK
    EffectsAreWrittenAhead
    FinishAccountsForEffects
    OutcomeMatchesLog
    IndeterminateIsExact
    NoEffectAfterStop
    ConversationIsAnswered
PROPERTIES
    TerminalStatusIsFinal
    StopEndsTheRun
