SPECIFICATION Spec
CONSTANTS
  Refreshers = {r1, r2}
  Scheduler = scheduler
  MaxTarget = 2
  MaxVictim = 2
  Exact <- MCExact
  Fuzzy <- MCFuzzy
  MAX_RETRIES = 2
INVARIANTS TypeOK ScannedPairsAlerted ToldIsStored
SYMMETRY MCSymmetry
