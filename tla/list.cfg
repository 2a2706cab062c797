\* Lists of up to four elements, of two patches.
CONSTANTS
  Patches = {p, q}
  MaxElement = 4
  MaxOps = 5
SPECIFICATION Spec
INVARIANTS
  CompilesWhatWasBuffered
PROPERTY ListsAreSequences
CHECK_DEADLOCK FALSE
