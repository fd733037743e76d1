\* The spec's all-or-nothing loading against entries.flatten().
CONSTANTS
  Keys <- MCKeys
  TypeNames <- MCTypeNames
  RawRules <- MCRawRules
  FileBodies <- MCFileBodies
  MaxEntries = 2

SPECIFICATION Spec
INVARIANT AllOrNothing
CHECK_DEADLOCK FALSE
