SPECIFICATION LiveSpec
CONSTANTS
  Things = {t1, t2}
  NoThing = NoThing
  Offsets = {utc}
  ValidOffsets = {utc}
  UtcOffset = utc
  Expiries = {never, summer}
  ValidExpiries = {summer}
  NoExpiry = never
  NoZone = NoZone
  MaxAttachRetry = 1
  MaxSyncRetry = 1
  MaxFaults = 2
PROPERTIES
  EventuallySynced
  DeafSessionEnds
