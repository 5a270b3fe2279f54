SPECIFICATION AgentSpec
CONSTANTS
    Version = {1, 2, 3}
    FirstCounter = 1
    WritesLost = TRUE
    Patient = TRUE
    MarkerTears = TRUE
INVARIANTS
    ActiveSlotIntact
    MarkerFollowsGate
    NoDowngrade
    BootsCompleteImage
PROPERTIES
    FailRollsBack
    NeverOlderThanCommitted
    UpdatesAtomically
\* A machine whose marker or image was lost does not come up again.
CHECK_DEADLOCK FALSE
