SPECIFICATION FairSpec
CONSTANT MaxK = 3
INVARIANT TallyConserved
INVARIANT ExcessIsInherited
INVARIANT RowsExact
PROPERTY Terminates
CHECK_DEADLOCK FALSE
