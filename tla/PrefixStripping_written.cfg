CONSTANTS
  A = A
  B = B
  Names = {A, B}
  NameLength <- TwoLengths
  Values <- LongValues
  PrefixLists <- WrittenPrefixes
SPECIFICATION Spec
CHECK_DEADLOCK FALSE
INVARIANT TypeOK
INVARIANT LongestPrefixWins
