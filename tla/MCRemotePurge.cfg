SPECIFICATION Spec
CONSTANTS
  nfs = nfs
  scratch = scratch
  c1 = c1
  c2 = c2
  Torn = Torn
  Absent = Absent
  Corrupt = Corrupt
  Places = {nfs, scratch}
  Home <- MCHome
  Uses <- MCUses
  NPaths = 2
  TopLevel = {1}
  Name <- MCName
  Contents = {c1, c2}
  Outputs <- MCOutputs
  Size <- MCSize
  Orderly = FALSE
  MaxClock = 3
  MaxCommands = 3
PROPERTIES PurgeKeepsReferenced
CHECK_DEADLOCK FALSE
