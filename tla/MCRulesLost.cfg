SPECIFICATION Spec
CONSTANTS
  Files = {f1, f2}
  Programs = {exe}
  Lines = {a}
  MaxEdits = 1
  MaxDeaths = 0
  MaxFaults = 0
  MaxTrouble = 1
  Torn = Torn
  None = None
INVARIANTS
  ImportKeepsEdits
