SPECIFICATION FairSpec
CONSTANTS
  Files = {f1, f2}
  Programs = {}
  Lines = {a}
  MaxEdits = 2
  MaxDeaths = 1
  MaxFaults = 1
  MaxTrouble = 2
  Torn = Torn
  None = None
INVARIANTS
  RulesAreTheUsers
  
PROPERTIES
  ViewCatchesUp
  UpdateCompletes
CONSTRAINT
  Undisturbed
