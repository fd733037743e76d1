CONSTANTS
  Keys <- MCKeys
  TypeNames <- MCTypeNames
  RawRules <- MCRawRules
  FileBodies <- MCFileBodies
  MaxEntries = 2

SPECIFICATION Spec
INVARIANT TypeOK
INVARIANT ReadyIsGroupingOfListed
INVARIANT ErrorIsFirstDefect
PROPERTY ImplementsAbstractLoader
\* Construction ends in "ready" or "failed" and stays there.
CHECK_DEADLOCK FALSE
