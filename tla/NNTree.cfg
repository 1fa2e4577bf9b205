SPECIFICATION Spec
CONSTANTS
  Keys <- MCKeys
  Vals = {1, 2}
  Threshold = 3
  Sound <- MCSound
  Broken <- MCBroken
  MaxOps = 3
 
PROPERTIES ImplementsMap RepairRecovers
CHECK_DEADLOCK FALSE
