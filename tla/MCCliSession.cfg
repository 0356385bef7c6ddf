CONSTANTS
    m1 = m1
    m2 = m2
    ModelCallIds <- MCModelCallIds
    Stops <- MCStops
    MaxTurns = 1
    MaxEvents = 3
    signal_action = "Interrupted"
    TypedInputs <- MCTypedInputs
    MaxLines = 2
    MAX_APPROVAL_INPUT_BYTES = 3
SPECIFICATION CliSpec
INVARIANTS
    ApprovedAsShown
    ExitIsTrue
PROPERTIES
    FailureEndsTheSession
