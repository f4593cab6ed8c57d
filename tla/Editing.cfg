SPECIFICATION FairSpec
CONSTANTS
  Slots = {r1, r2}
  Operations = {"edit", "duplicate", "archive", "delete", "enqueue"}
  MaxEdits = 2
  MaxCopies = 1
INVARIANTS TypeOK WorkBelongsToMatrix MatrixIsNeverEmpty DeletionIsFinal 
 
CHECK_DEADLOCK FALSE
