CONSTANTS
  WORD = 4
  NumReps = 2
  Time <- MCTime
  TLow = 1
  TUp = 3
SPECIFICATION FairSpec
INVARIANTS TypeOK TraceFaithful ExceptionExact
PROPERTY Returns
