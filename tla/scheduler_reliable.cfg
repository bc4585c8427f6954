SPECIFICATION UnattendedSpec
CONSTANTS
  Schedules = {s1}
  Slots = {k1, k2}
  CreateIntervals <- MCCreateIntervals
  PatchIntervals <- MCPatchIntervals
  MaxCrashes = 1
PROPERTY ReliableSchedule
