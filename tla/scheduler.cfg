SPECIFICATION Spec
CONSTANTS
  Schedules = {s1}
  Slots = {k1, k2, k3}
  CreateIntervals <- MCCreateIntervals
  PatchIntervals <- MCPatchIntervals
  MaxCrashes = 1
INVARIANT TypeOK RunningHasExecution
PROPERTY SettingsNotLost
SYMMETRY Symmetry
