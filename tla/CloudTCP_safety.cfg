SPECIFICATION Spec
CONSTANTS
  Things = {t1, t2}
  NoThing = NoThing
  Offsets = {utc, far}
  ValidOffsets = {utc}
  UtcOffset = utc
  Expiries = {never, summer, winter}
  ValidExpiries = {summer, winter}
  NoExpiry = never
  NoZone = NoZone
  MaxAttachRetry = 2
  MaxSyncRetry = 1
SYMMETRY Symmetry
INVARIANTS
  TypeOK
  FreshSession
  SubscriptionMatchesAttachment
  SketchKnowsAttachment
  ZoneConfigured
PROPERTIES
  PublishAfterSync
  ImplementsThingSession
