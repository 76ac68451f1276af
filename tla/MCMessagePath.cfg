SPECIFICATION Spec
CONSTANTS
  Texts <- MCTexts
  Decimals <- MCDecimals
  WholeDoubles <- MCWholeDoubles
  IntRange = 36
  Misreadings <- MCMisreadings
  Uplinks <- MCUplinks
INVARIANTS
  ReadingArrivesIntact
  FilterKeepsGateways
  LossExplained
  MeasurementsKept
  GarbageOnlyFromGarbage
  IdsTellUplinksApart
\* One uplink is followed to its end.
CHECK_DEADLOCK FALSE
