------------------------- MODULE MCCziReaderWriter -------------------------
(***************************************************************************)
(* Instances of CziReaderWriter for TLC.  s2 does not fit where s1 was, a2 *)
(* not where a1 was, m2 not where m1 was; each of them fits the other way. *)
(* The last 80 bytes of the data of s2 are not delivered, but filled.      *)
(***************************************************************************)
EXTENDS CziReaderWriter, TLC

LOCAL INSTANCE SequencesExt

CONSTANTS s1, s2, a1, a2, m1, m2, g1

Part(size, delivered) == [size |-> size, delivered |-> delivered]

MCSubBlockParts ==
  [c \in SubBlocks |->
     IF c = s1 THEN <<Part(0, 0), Part(0, 0), Part(0, 0)>>
     ELSE <<Part(10, 10), Part(90, 10), Part(0, 0)>>]

MCAttachmentSize == [a \in Attachments |-> IF a = a1 THEN 0 ELSE 200]
MCMetadataSize == [m \in Metadatas |-> IF m = m1 THEN 20 ELSE 600]
MCCoordinate == [c \in SubBlocks |-> IF c = s1 THEN 1 ELSE 2]

\* A document of CCziWriter: s1, a1, m1, the directories, and the file header
DocumentFile ==
  LET posA == FileHeaderSegmentSize + SubBlockBytes(s1, SubBlockAllocated(s1))
      posM == posA + AttachmentBytes(a1, AttachmentAllocated(a1))
      posD == posM + SegmentHeaderSize + MetadataAllocated(m1)
      posT == posD + SegmentHeaderSize + SubBlkDirAllocated(1)
      subBlkDir == <<[id |-> s1, pos |-> FileHeaderSegmentSize]>>
      attachmentDir == <<[id |-> a1, pos |-> posA]>>
  IN  FoldLeft(Apply, {},
        WriteSubBlock(FileHeaderSegmentSize, s1, SubBlockAllocated(s1))
          \o WriteAttachment(posA, a1, AttachmentAllocated(a1))
          \o WriteMetadata(NoSegment, m1, posM)
          \o WriteSubBlkDirectory(NoSegment, subBlkDir, posD)
          \o WriteAttachmentDirectory(NoSegment, attachmentDir, posT)
          \o WriteHeaderSegment(g1, posD, posM, posT))

MCFiles == {{}, DocumentFile}
NewFile == {{}}
=============================================================================
