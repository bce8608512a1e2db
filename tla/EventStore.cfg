SPECIFICATION Spec
CONSTANTS
  Events <- PlainEvents
  NoValue = NoValue
  MaxNow = 1
INVARIANTS TypeOK OneReplaceable OneExplicitParam DeletionIsPermanent NothingLost Converges
PROPERTIES LeavesVisibleOnlyFor ImplementsArchive
