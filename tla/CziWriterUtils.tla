--------------------------- MODULE CziWriterUtils ---------------------------
(***************************************************************************)
(* CWriterUtils: which write calls put a segment into the file.            *)
(*                                                                         *)
(* Each operator gives the sequence of calls of the write function that    *)
(* the method of the same name makes, in order.  A directory or metadata   *)
(* segment goes into the existing segment of its kind if it fits there.    *)
(***************************************************************************)
EXTENDS CziFile

\* WrittenSegmentInfo: where a segment of this kind was put, or reserved
Segments == [valid : BOOLEAN, deleted : BOOLEAN, pos : Nat, allocated : Nat]

NoSegment == [valid |-> FALSE, deleted |-> FALSE, pos |-> 0, allocated |-> 0]

SegmentAt(pos, allocated, deleted) ==
  [valid |-> TRUE, deleted |-> deleted, pos |-> pos, allocated |-> allocated]

\* Zeroes, which also are the `rest` of a payload if they reach its end.
WriteZeroesFor(rest, pos, count) ==
  IF count > 0
  THEN <<Write(pos, ZeroFillLength(count),
               {x \in rest : x.hi <= pos + ZeroFillLength(count)})>>
  ELSE <<>>

WriteZeroes(pos, count) == WriteZeroesFor({}, pos, count)

\* A part of zero length makes no write call.
WritePart(pos, len, holds) ==
  IF len > 0 THEN <<Write(pos, len, holds)>> ELSE <<>>

WriteDeletedSegment(pos) == <<Write(pos, 16, {Magic(pos, "DELETED")})>>

-----------------------------------------------------------------------------

\* A segment is a head, a payload, and zeroes to its allocated size.
WriteSegment(pos, headSize, head, size, payload, rest, allocated) ==
  <<Write(pos, headSize, head)>>
    \o WritePart(pos + headSize, size, payload)
    \o WriteZeroesFor(rest, pos + (headSize + size),
                      (allocated + SegmentHeaderSize) - (headSize + size))

\* What a method that writes a segment returns: the bytes it has written
SegmentBytes(headSize, size, allocated) ==
  headSize + size
    + ZeroFillLength((allocated + SegmentHeaderSize) - (headSize + size))

\* What a reader gets is the parts that the client announced, filled up with
\* zeroes, if each begins where it should.
WriteSubBlock(pos, c, allocated) ==
  WriteSegment(pos, SubBlockHeadSize,
               SegmentHeader(pos, "ZISRAWSUBBLOCK", allocated)
                 \cup {SubBlockHead(pos, c)},
               PayloadBytes(c),
               {x \in {SubBlockPayload(pos, c)} : PartsInPlace(c)},
               NotEmpty({SubBlockRest(pos, c)}), allocated)

WriteAttachment(pos, a, allocated) ==
  WriteSegment(pos, FixedHeaderSize,
               SegmentHeader(pos, "ZISRAWATTACH", allocated)
                 \cup {AttachmentHead(pos, a)},
               AttachmentSize[a], {AttachmentPayload(pos, a)}, {}, allocated)

\* Mutant: the bytes of the directory entry and fixed part are forgotten.
SubBlockBytesWithoutHead(c, allocated) ==
  SegmentBytes(SubBlockHeadSize, PayloadBytes(c), allocated)
    - SubBlockHeadSize

SubBlockBytes(c, allocated) ==
  SegmentBytes(SubBlockHeadSize, PayloadBytes(c), allocated)

AttachmentBytes(a, allocated) ==
  SegmentBytes(FixedHeaderSize, AttachmentSize[a], allocated)

-----------------------------------------------------------------------------
(* Where a segment of `needed` bytes goes: [pos, allocated], and what is    *)
(* written first when the existing segment is too small for it.             *)

FitsInto(existing, needed) == existing.valid /\ existing.allocated >= needed

Placement(existing, needed, allocated, newPos) ==
  IF FitsInto(existing, needed)
  THEN [pos |-> existing.pos, allocated |-> existing.allocated]
  ELSE [pos |-> newPos, allocated |-> allocated]

MarkReplaced(existing, needed) ==
  IF ~FitsInto(existing, needed) /\ existing.valid /\ ~existing.deleted
  THEN WriteDeletedSegment(existing.pos)
  ELSE <<>>

MetadataPlace(existing, m, newPos) ==
  Placement(existing, MetadataAllocated(m), MetadataAllocated(m), newPos)

WriteMetadata(existing, m, newPos) ==
  LET at == MetadataPlace(existing, m, newPos)
  IN  MarkReplaced(existing, MetadataAllocated(m))
        \o WriteSegment(at.pos, FixedHeaderSize,
                        SegmentHeader(at.pos, "ZISRAWMETADATA", at.allocated)
                          \cup {MetadataHead(at.pos, m)},
                        MetadataSize[m], {MetadataPayload(at.pos, m)}, {},
                        at.allocated)

SubBlkDirPlace(existing, dir, newPos) ==
  Placement(existing, SubBlkDirAllocated(Len(dir)),
            SubBlkDirAllocated(Len(dir)), newPos)

WriteSubBlkDirectory(existing, dir, newPos) ==
  LET at == SubBlkDirPlace(existing, dir, newPos)
      written == SubBlkDirHeaderSize + Len(dir) * EntryDVSize
      segment == SegmentHeader(at.pos, "ZISRAWDIRECTORY", at.allocated)
                   \cup SubBlkDirExtents(at.pos, dir)
  IN  MarkReplaced(existing, SubBlkDirAllocated(Len(dir)))
        \o (<<Write(at.pos, written, segment)>>
              \o WriteZeroes(at.pos + written,
                             (at.allocated + SegmentHeaderSize) - written))

\* An existing attachment directory is reused by its used size.
AttachmentDirPlace(existing, dir, newPos) ==
  Placement(existing, AttachmentDirUsed(Len(dir)),
            AlignSegmentSize(AttachmentDirUsed(Len(dir))), newPos)

\* Whether anything is left to fill is decided by the total written, but the
\* fill starts after as many bytes as the entries alone have.
WriteAttachmentDirectory(existing, dir, newPos) ==
  LET at == AttachmentDirPlace(existing, dir, newPos)
      entries == Len(dir) * AttachmentEntrySize
      segment == at.allocated + SegmentHeaderSize
  IN  MarkReplaced(existing, AttachmentDirUsed(Len(dir)))
        \o <<Write(at.pos, FixedHeaderSize,
                   SegmentHeader(at.pos, "ZISRAWATTDIR", at.allocated)
                     \cup {AttachmentDirCount(at.pos, Len(dir))})>>
        \o <<Write(at.pos + FixedHeaderSize, entries,
                   {AttachmentDirEntry(at.pos, k, dir[k]) :
                      k \in DOMAIN dir})>>
        \o IF FixedHeaderSize + entries < segment
           THEN WriteZeroes(at.pos + entries, segment - entries)
           ELSE <<>>

WriteFileHeader(sbDir, md, attDir) ==
  <<Write(0, FileHeaderSegmentSize, FileHeader(sbDir, md, attDir))>>
=============================================================================
