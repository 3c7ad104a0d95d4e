CONSTANTS
  s1 = s1
  s2 = s2
  a1 = a1
  a2 = a2
  m1 = m1
  m2 = m2
  g1 = g1
  NoItem = NoItem
  SubBlocks = {s1, s2}
  Attachments = {a1, a2}
  Metadatas = {m1, m2}
  Guids = {g1}
  DimensionCount = 4
  MaxKeys = 2
  MaxSessions = 1
  MaxEdits = 4
  MaxFaults = 0
  SubBlockParts <- MCSubBlockParts
  AttachmentSize <- MCAttachmentSize
  MetadataSize <- MCMetadataSize
  Coordinate <- MCCoordinate
  Files <- MCFiles
SPECIFICATION Spec
INVARIANT ReplacedAttachmentsIntact
CHECK_DEADLOCK FALSE
