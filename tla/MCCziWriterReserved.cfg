CONSTANTS
  s1 = s1
  s2 = s2
  s3 = s3
  a1 = a1
  a2 = a2
  m1 = m1
  m2 = m2
  NoItem = NoItem
  SubBlocks = {s1}
  Attachments = {a1, a2}
  Metadatas = {m1}
  DimensionCount = 4
  AllowDuplicates = FALSE
  MaxEntries = 2
  MaxFaults = 0
  SubBlockParts <- MCSubBlockParts
  AttachmentSize <- MCAttachmentSize
  MetadataSize <- MCMetadataSize
  Coordinate <- MCCoordinate
  WriterInfos <- MCReservesAttachments
SPECIFICATION Spec
INVARIANT AttachmentsSurviveClose
