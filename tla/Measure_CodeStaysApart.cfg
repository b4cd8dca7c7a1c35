CONSTANTS
  c1 = c1
  c2 = c2
  Client = {c1, c2}
  p1 = p1
  p2 = p2
  Cpu = {p1, p2}
  Elsewhere = Elsewhere
  Target <- MCTarget
  Missing <- MCMissing
  NSets <- MCNSets
  Areas <- MCAreas
  Lines = 2
  Hash <- MCHash
  Xor <- MCXor
  S2 = 4
  MaxAttempts = 2
  MaxTime = 2
  MaxAccess = 2
  Skip = 0
  Runs = 3
  Reps = 2
  MaxEvents = 1
SPECIFICATION Spec
INVARIANT CodeStaysApart
