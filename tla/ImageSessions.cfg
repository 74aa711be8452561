SPECIFICATION ImageSpec
CONSTANTS
  one = one
  two = two
  Sessions <- MCSessions
  Requests <- MCRequests
  MaxEntries = 4
  MaxUnsaved = 2
  MaxUnclear = 1
INVARIANT PaidOnceAndAudited
PROPERTY ImplementsLog
SYMMETRY MCSymmetry
