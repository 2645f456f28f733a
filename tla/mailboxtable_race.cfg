\* Two goroutines create mailboxes at the same time.
SPECIFICATION Spec
CONSTANTS
  Creators = {c1, c2}
  Serial = FALSE
  MaxBoxes = 5
INVARIANT IDsAreUnique
CHECK_DEADLOCK FALSE
