SPECIFICATION Spec
CONSTANTS
  QrLists <- MCLists
INVARIANTS GroupsKeptApart TextInOrder NoCodeLost
CHECK_DEADLOCK FALSE
