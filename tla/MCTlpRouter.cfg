SPECIFICATION TaskSpec
CONSTANT Registry <- MCRegistry
INVARIANTS NothingLeavesUnconsented ReleasedOnlyByAPerson
