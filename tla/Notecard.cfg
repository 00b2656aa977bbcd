SPECIFICATION FairSpec
CONSTANTS
  Things = {t1, t2}
  NoThing = NoThing
  Offsets = {utc}
  ValidOffsets = {utc}
  UtcOffset = utc
  Expiries = {never, summer}
  ValidExpiries = {summer}
  NoExpiry = never
  NoZone = NoZone
  MaxAttachRetry = 1
  MaxSyncRetry = 0
  MaxNotes = 2
INVARIANTS
  TypeOK
  FreshSession
  SketchKnowsAttachment
  ZoneConfigured
PROPERTIES
  PublishAfterSync
  NotesAreRead
