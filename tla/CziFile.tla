------------------------------ MODULE CziFile ------------------------------
(***************************************************************************)
(* The bytes of a CZI file, as far as libCZI reads them back.              *)
(*                                                                         *)
(* A file is a set of extents.  An extent is a range of bytes [lo, hi)     *)
(* that some part of a segment occupies, with what is stored there: the    *)
(* magic that opens a segment, a position in the file header, the pixels   *)
(* of a sub-block, ...  Every extent of the set is intact; writing over    *)
(* any part of it removes it.  Bytes no reader looks at (spare fields,     *)
(* padding) are in no extent.  Sizes and offsets are those of CziStructs.h.*)
(***************************************************************************)
EXTENDS Integers, Sequences

CONSTANTS
  SubBlocks,        \* the sub-blocks a client hands in (AddSubBlockInfo)
  Attachments,      \* the attachments a client hands in (AddAttachmentInfo)
  Metadatas,        \* the XML documents a client hands in (WriteMetadataInfo)
  SubBlockParts,    \* a sub-block's metadata, data and attachment, see below
  AttachmentSize,   \* bytes of an attachment
  MetadataSize,     \* bytes of an XML document (and its attachment)
  DimensionCount    \* dimension entries of a directory entry (X, Y, C, M...)

\* Each part of a sub-block is got from a function of the client's: of the
\* `size` bytes it has announced, that hands over `delivered` before it returns
\* false (AddSubBlockInfo::getMetaData, getData, getAttachment).
ASSUME PartsAssumption ==
  \A c \in SubBlocks :
    /\ SubBlockParts[c] \in [1..3 -> [size : Nat, delivered : Nat]]
    /\ \A i \in 1..3 : SubBlockParts[c][i].delivered <= SubBlockParts[c][i].size

ASSUME SizesAreNat ==
  /\ AttachmentSize \in [Attachments -> Nat]
  /\ MetadataSize \in [Metadatas -> Nat]
  /\ DimensionCount \in Nat

-----------------------------------------------------------------------------
(* Sizes of the on-disk structures, in bytes. *)

SegmentHeaderSize     == 32
FileHeaderSegmentSize == 544
AttachmentEntrySize   == 128
SegmentAlign          == 32
ZeroChunk             == 4096

SubBlkDirHeaderSize   == SegmentHeaderSize + 128
FixedHeaderSize       == SegmentHeaderSize + 256
EntryDVSize           == 32 + 20 * DimensionCount

AlignSegmentSize(used) ==
  ((used + (SegmentAlign - 1)) \div SegmentAlign) * SegmentAlign

\* CalcSubBlockSegmentDataSize: header, fixed part and directory entry
SubBlockHeadSize ==
  IF SegmentHeaderSize + 16 + EntryDVSize > FixedHeaderSize
  THEN SegmentHeaderSize + 16 + EntryDVSize
  ELSE FixedHeaderSize

\* The bytes of the three parts, as announced
SubBlockSize ==
  [c \in SubBlocks |->
     SubBlockParts[c][1].size + SubBlockParts[c][2].size
       + SubBlockParts[c][3].size]

\* The bytes that "count" zeroes really come to: i runs up while count runs
\* down, so the loop ends after half of the chunks when there are two or more.
ZeroFillLength(count) ==
  IF count <= ZeroChunk
  THEN count
  ELSE ZeroChunk
         * (((count + (ZeroChunk - 1)) \div ZeroChunk + 1) \div 2)

\* WriteSubBlkDataGeneric: what was not delivered is to be filled with zeroes.
PartBytes(part) ==
  part.delivered + ZeroFillLength(part.size - part.delivered)

\* The bytes of the three parts, as written one behind the other
PayloadBytes(c) ==
  PartBytes(SubBlockParts[c][1]) + PartBytes(SubBlockParts[c][2])
    + PartBytes(SubBlockParts[c][3])

\* Nothing is missing: the functions hand over all they announce, or leave at
\* most a chunk of any part to be filled with zeroes.
WrittenInFull(c) == PayloadBytes(c) = SubBlockSize[c]

\* A part that comes out short moves the parts behind it.
PartsInPlace(c) ==
  \A i, j \in 1..3 :
    i < j /\ PartBytes(SubBlockParts[c][i]) < SubBlockParts[c][i].size
      => SubBlockParts[c][j].size = 0

(* The "allocated size" field of a segment header does not count the header. *)

SubBlockAllocated(c) ==
  AlignSegmentSize(SubBlockHeadSize + SubBlockSize[c]) - SegmentHeaderSize

AttachmentUsed(a) == 256 + AttachmentSize[a]

AttachmentAllocated(a) == AlignSegmentSize(AttachmentUsed(a))

MetadataAllocated(m) == AlignSegmentSize(256 + MetadataSize[m])

SubBlkDirAllocated(count) == AlignSegmentSize(128 + count * EntryDVSize)

AttachmentDirUsed(count) == 256 + count * AttachmentEntrySize

-----------------------------------------------------------------------------
(* Extents and writes. *)

Extent(lo, len, what) == [lo |-> lo, hi |-> lo + len, what |-> what]

\* One call of the write function: `len` bytes at `pos`, leaving `holds`.
Write(pos, len, holds) == [pos |-> pos, len |-> len, holds |-> holds]

Survives(x, w) == x.hi <= w.pos \/ w.pos + w.len <= x.lo

\* What is left when only some of the bytes of w reach the file: an extent
\* that w writes again as it was has the same bytes in any case.
Smash(f, w) == {x \in f : Survives(x, w) \/ x \in w.holds}

Apply(f, w) == {x \in f : Survives(x, w)} \cup w.holds

Magic(pos, id) == Extent(pos, 16, <<"magic", id>>)

SegmentHeader(pos, id, allocated) ==
  {Magic(pos, id), Extent(pos + 16, 8, <<"allocated", allocated>>)}

-----------------------------------------------------------------------------
(* The segments. *)

\* Positions of the sub-block directory, the metadata, the attachments; 0: none
FileHeader(sbDir, md, attDir) ==
  SegmentHeader(0, "ZISRAWFILE", FileHeaderSegmentSize - SegmentHeaderSize)
    \cup
  {Extent(84, 8, <<"SubBlockDirectoryPosition", sbDir>>),
   Extent(92, 8, <<"MetadataPosition", md>>),
   Extent(104, 8, <<"AttachmentDirectoryPosition", attDir>>)}

SubBlockHead(pos, c) ==
  Extent(pos + SegmentHeaderSize, SubBlockHeadSize - SegmentHeaderSize,
         <<"subblock", c>>)

SubBlockPayload(pos, c) ==
  Extent(pos + SubBlockHeadSize, PayloadBytes(c), <<"pixels", c>>)

\* What is missing at its end, and has to be zero
SubBlockRest(pos, c) ==
  Extent(pos + SubBlockHeadSize + PayloadBytes(c),
         SubBlockSize[c] - PayloadBytes(c), <<"zeroes">>)

AttachmentHead(pos, a) ==
  Extent(pos + SegmentHeaderSize, 256, <<"attachment", a>>)

AttachmentPayload(pos, a) ==
  Extent(pos + FixedHeaderSize, AttachmentSize[a], <<"blob", a>>)

MetadataHead(pos, m) == Extent(pos + SegmentHeaderSize, 8, <<"xmlsize", m>>)

MetadataPayload(pos, m) ==
  Extent(pos + FixedHeaderSize, MetadataSize[m], <<"xml", m>>)

\* A payload of no bytes is in no extent.
NotEmpty(extents) == {x \in extents : x.lo < x.hi}

\* What a reader needs of a segment to get its item back.
SubBlockExtents(pos, c) ==
  NotEmpty({Magic(pos, "ZISRAWSUBBLOCK"), SubBlockHead(pos, c),
            SubBlockPayload(pos, c), SubBlockRest(pos, c)})

AttachmentExtents(pos, a) ==
  NotEmpty({Magic(pos, "ZISRAWATTACH"), AttachmentHead(pos, a),
            AttachmentPayload(pos, a)})

MetadataExtents(pos, m) ==
  NotEmpty({Magic(pos, "ZISRAWMETADATA"), MetadataHead(pos, m),
            MetadataPayload(pos, m)})

\* A directory is a sequence of entries [id, pos].
SubBlkDirCount(pos, count) ==
  Extent(pos + SegmentHeaderSize, 4, <<"EntryCount", count>>)

SubBlkDirEntries(pos, dir) ==
  Extent(pos + SubBlkDirHeaderSize, Len(dir) * EntryDVSize, <<"entries", dir>>)

SubBlkDirExtents(pos, dir) ==
  NotEmpty({SubBlkDirCount(pos, Len(dir)), SubBlkDirEntries(pos, dir)})

AttachmentDirCount(pos, count) ==
  Extent(pos + SegmentHeaderSize, 4, <<"count", count>>)

AttachmentDirEntry(pos, k, entry) ==
  Extent(pos + FixedHeaderSize + (k - 1) * AttachmentEntrySize,
         AttachmentEntrySize, <<"entryA1", entry>>)

-----------------------------------------------------------------------------
(* Reading a file back. *)

HasMagic(f, pos, id) == Magic(pos, id) \in f

SubBlockAt(f, pos, c) == SubBlockExtents(pos, c) \subseteq f

AttachmentAt(f, pos, a) == AttachmentExtents(pos, a) \subseteq f

MetadataAt(f, pos, m) == MetadataExtents(pos, m) \subseteq f

\* The "allocated size" in the segment header at pos, {} when it is destroyed.
AllocatedSize(f, pos) ==
  {x.what[2] : x \in {y \in f : y.lo = pos + 16 /\ y.what[1] = "allocated"}}

\* The value of a position field of the file header, {} when it is destroyed.
HeaderField(f, name) ==
  {x.what[2] : x \in {y \in f : y.hi <= 112 /\ y.what[1] = name}}

\* The sub-block directory at pos, as a set of at most one sequence of entries:
\* a directory any part of which is overwritten counts as unreadable.
SubBlkDirAt(f, pos) ==
  IF ~HasMagic(f, pos, "ZISRAWDIRECTORY")
  THEN {}
  ELSE {x.what[2] : x \in {y \in f :
          /\ y.what[1] = "entries" /\ y.lo = pos + SubBlkDirHeaderSize
          /\ SubBlkDirCount(pos, Len(y.what[2])) \in f}}
         \cup {dir \in {<<>>} : SubBlkDirCount(pos, 0) \in f}

SubBlkDirRead(f) ==
  UNION {UNION {{dir[k] : k \in DOMAIN dir} : dir \in SubBlkDirAt(f, p)} :
         p \in HeaderField(f, "SubBlockDirectoryPosition")}

\* Open succeeds: file header and sub-block directory can be read, and the
\* attachment directory too, if the header names one.
CanOpen(f) ==
  /\ HasMagic(f, 0, "ZISRAWFILE")
  /\ \E p \in HeaderField(f, "SubBlockDirectoryPosition") :
       SubBlkDirAt(f, p) # {}
  /\ \A p \in HeaderField(f, "AttachmentDirectoryPosition") :
       p # 0 => HasMagic(f, p, "ZISRAWATTDIR")

\* The slots of the attachment directory at pos whose entries a reader gets:
\* those of the first `count` whose schema is still "A1", others are skipped.
AttachmentDirSlots(f, pos) ==
  {x \in f :
     /\ x.what[1] = "entryA1"
     /\ HasMagic(f, pos, "ZISRAWATTDIR")
     /\ \E z \in f : /\ z.lo = pos + SegmentHeaderSize
                     /\ z.what[1] = "count"
                     /\ \E k \in 1..z.what[2] :
                          x.lo = pos + FixedHeaderSize
                                   + (k - 1) * AttachmentEntrySize}

AttachmentDirRead(f) ==
  UNION {{x.what[2] : x \in AttachmentDirSlots(f, p)} :
         p \in HeaderField(f, "AttachmentDirectoryPosition") \ {0}}

ReadableSubBlocks(f) ==
  {c \in SubBlocks : CanOpen(f) /\ \E e \in SubBlkDirRead(f) :
                                     e.id = c /\ SubBlockAt(f, e.pos, c)}

ReadableAttachments(f) ==
  {a \in Attachments : CanOpen(f) /\ \E e \in AttachmentDirRead(f) :
                                       e.id = a /\ AttachmentAt(f, e.pos, a)}

ReadableMetadata(f) ==
  {m \in Metadatas : /\ CanOpen(f)
                     /\ \E p \in HeaderField(f, "MetadataPosition") :
                          p # 0 /\ MetadataAt(f, p, m)}
=============================================================================
