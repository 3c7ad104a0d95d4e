CONSTANTS
  s1 = s1
  s2 = s2
  s3 = s3
  a1 = a1
  a2 = a2
  m1 = m1
  m2 = m2
  NoItem = NoItem
  SubBlocks = {s2, s3}
  Attachments = {}
  Metadatas = {m1}
  DimensionCount = 4
  AllowDuplicates = TRUE
  MaxEntries = 2
  MaxFaults = 0
  SubBlockParts <- MCSubBlockParts
  AttachmentSize <- MCAttachmentSize
  MetadataSize <- MCMetadataSize
  Coordinate <- MCCoordinate
  WriterInfos <- MCWriterInfos
SPECIFICATION Spec
INVARIANT SubBlocksSurviveClose
