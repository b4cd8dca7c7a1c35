CONSTANTS
  p0 = p0
  p1 = p1
  Cpu = {p0, p1}
  Boot = p0
  Inis <- MCInis
  L1 = L1
  L2 = L2
  Level = {L1, L2}
  Numbers = {4, 7}
  FirstLevel = L1
  FirstSet <- MCFirstSet
  None = None
  MaxLines = 3
SPECIFICATION Spec
INVARIANTS NoiseRestored LogIsTrue
PROPERTIES ComesToAnEnd
