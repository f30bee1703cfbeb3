\* A spaced streak of failures is shorter than the cooldown.
SPECIFICATION Spec
CONSTANTS
    MinInterval = 2
    Threshold = 3
    Cooldown = 5
INVARIANTS FailuresAreRationed OpensAfterStreak
PROPERTIES ExhaustedIsReaped
