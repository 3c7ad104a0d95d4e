SPECIFICATION Spec
CONSTANTS
  t1 = t1
  t2 = t2
  t3 = t3
  full = full
  plain = plain
  NoStream = NoStream
  Nobody = Nobody
  Threads <- MCThreads
  Streams <- MCStreams
  Contents <- MCContents
INVARIANT
  ReadsTheirDocumentConcurrently
