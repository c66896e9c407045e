SPECIFICATION Spec
CONSTANTS
  Second = 15
  Bits = 6
  Order <- MCOrder
  ap = 2
  ai = 4
  MaxAdjust = 3
  Instants <- MCInstants
  Corrections <- MCCorrections
INVARIANTS TypeOK FilterFits TimesExact
PROPERTIES FilterAverages Converges
