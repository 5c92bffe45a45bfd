SPECIFICATION DSpec
CONSTANTS
  Commands <- MCCommands
  MaxWrong = 1
  Trouble <- MCTrouble
INVARIANT VerdictExact
INVARIANT PassIsEarned
INVARIANT RowsAreOwn
