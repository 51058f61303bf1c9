SPECIFICATION FairSpec
CONSTANTS
  DIV = 2
  MULT = 5
  Clocks <- MCClocks
INVARIANTS MeasuresFirstHigh EdgesInRatio
PROPERTIES TimeGoesOn
