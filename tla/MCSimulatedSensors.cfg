SPECIFICATION Spec
CONSTANTS
  Values <- MCValues
  MaxCount = 4
  MaxLead = 3
  MaxResets = 2
  Scale = 24
  Undefined = Undefined
INVARIANTS OnlyTruthIsUndefined MeanIsBounded
PROPERTY HoldEnds
