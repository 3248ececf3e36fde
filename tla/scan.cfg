SPECIFICATION Spec
CONSTANTS
  Byte <- Letters
  Pairs <- AllPairs
  Texts <- AllTexts
  Kinds <- AllKinds
INVARIANTS TypeOK DetectionReal KnownStillFound OutOfRangeOnlyAfterRollback SuffixKept
CHECK_DEADLOCK FALSE
