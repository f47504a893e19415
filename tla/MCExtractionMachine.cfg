SPECIFICATION Spec
CONSTANTS
  Registry <- MCRegistry
  Jobs <- MCJobs
  Revised <- MCRevised
  Retries = 1
  MaxPrice = 4
  DailyCap = 5
  MonthlyCap = 9
INVARIANTS TypeOK CommittedTogether FinishedOnCurrentPriors LoggedSpendWithinCeiling CrossingsAudited
PROPERTIES NotPaidTwice ImplementsRows PassEnds
