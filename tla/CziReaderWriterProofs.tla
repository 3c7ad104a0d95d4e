----------------------- MODULE CziReaderWriterProofs -----------------------
(***************************************************************************)
(* Theorems about CziReaderWriter.                                         *)
(*                                                                         *)
(* The file and the writes under way consist of parts that libCZI writes   *)
(* (IsCziFile, GoodWrites); what is read from such a file has its type,    *)
(* and so have the members that are made of it (TypeInv).                  *)
(***************************************************************************)
EXTENDS CziReaderWriter, CziWriterUtilsProofs, FiniteSetTheorems

(* Writes that keep a file one that libCZI writes. *)

GoodWrite(w) ==
  /\ w.pos \in Nat /\ w.len \in Nat
  /\ IsFiniteSet(w.holds)
  /\ \A x \in w.holds :
       /\ WellFormed(x) /\ w.pos <= x.lo /\ x.hi <= w.pos + w.len
       /\ \A y \in w.holds : x.lo = y.lo => x = y

GoodWrites(ws) == ws \in Seq(Range(ws)) /\ \A w \in Range(ws) : GoodWrite(w)

LEMMA WellFormedBounds ==
  ASSUME NEW x, WellFormed(x)
  PROVE  x.lo \in Nat /\ x.hi \in Nat /\ x.lo < x.hi
BY DEF WellFormed

LEMMA FileStep ==
  ASSUME NEW f, IsCziFile(f), NEW w, GoodWrite(w),
         NEW g, g \in {f, Smash(f, w), Apply(f, w)}
  PROVE  IsCziFile(g)
<1>1. \A x \in f : WellFormed(x) /\ x.lo \in Nat /\ x.hi \in Nat /\ x.lo < x.hi
  BY WellFormedBounds DEF IsCziFile
<1>2. \A x \in w.holds :
        WellFormed(x) /\ x.lo \in Nat /\ x.hi \in Nat /\ x.lo < x.hi
  BY WellFormedBounds DEF GoodWrite
<1>3. TidyFile(g)
  <2>1. TidyFile(f)
    BY <1>1 DEF TidyFile, IsCziFile
  <2>2. IsWrite(w) /\ Tidy(w)
    BY <1>2 DEF IsWrite, Tidy, IsExtent, GoodWrite
  <2> QED BY <1>1, <2>1, <2>2, TidyStep DEF IsExtent
<1>4. \A x \in g : WellFormed(x)
  BY <1>1, <1>2 DEF Smash, Apply
<1>5. IsFiniteSet(g)
  <2> DEFINE s == {x \in f : Survives(x, w)}
  <2>1. IsFiniteSet(f) /\ IsFiniteSet(w.holds)
    BY DEF IsCziFile, GoodWrite
  <2>2. IsFiniteSet(s)
    BY <2>1, FS_Subset
  <2>3. IsFiniteSet(s \cup w.holds)
    BY <2>1, <2>2, FS_Union
  <2>4. IsFiniteSet(Smash(f, w))
    BY <2>1, FS_Subset DEF Smash
  <2> QED BY <2>1, <2>3, <2>4 DEF Apply
<1> QED BY <1>3, <1>4, <1>5 DEF IsCziFile, TidyFile

\* Fewer parts are still a file.
LEMMA FewerParts ==
  ASSUME NEW f, IsCziFile(f), NEW g \in SUBSET f
  PROVE  IsCziFile(g)
BY FS_Subset DEF IsCziFile

LEMMA Joined ==
  ASSUME NEW s, GoodWrites(s), NEW t, GoodWrites(t)
  PROVE  /\ GoodWrites(s \o t)
         /\ Range(s \o t) = Range(s) \cup Range(t)
BY Concatenated DEF GoodWrites

LEMMA NoWrites == GoodWrites(<<>>) /\ Range(<<>>) = {}
BY NoElement DEF GoodWrites

LEMMA OneWrite ==
  ASSUME NEW w, GoodWrite(w)
  PROVE  GoodWrites(<<w>>) /\ Range(<<w>>) = {w}
BY OneElement DEF GoodWrites

LEMMA WritesLeft ==
  ASSUME NEW ws, GoodWrites(ws), ws # <<>>
  PROVE  /\ GoodWrite(Head(ws)) /\ GoodWrites(Tail(ws))
         /\ Head(ws) \in Range(ws)
         /\ Range(Tail(ws)) \subseteq Range(ws)
         /\ Range(ws) = {Head(ws)} \cup Range(Tail(ws))
BY HeadAndTail DEF GoodWrites

-----------------------------------------------------------------------------
(* The writes of CziWriterUtils are such writes. *)

LEMMA NothingWritten ==
  ASSUME NEW pos \in Nat, NEW len \in Nat
  PROVE  GoodWrite(Write(pos, len, {}))
BY FS_EmptySet DEF GoodWrite, Write

\* One part
LEMMA PartWritten ==
  ASSUME NEW pos \in Nat, NEW len \in Nat, NEW x, WellFormed(x),
         pos <= x.lo, x.hi <= pos + len
  PROVE  GoodWrite(Write(pos, len, {x}))
BY FS_Singleton DEF GoodWrite, Write

\* The tags of WellFormed
Plainly(what) ==
  what[1] \notin {"allocated", "SubBlockDirectoryPosition", "MetadataPosition",
                  "AttachmentDirectoryPosition", "FileGuid", "entries",
                  "count", "entryA1"}

LEMMA PlainlyWellFormed ==
  ASSUME NEW lo \in Nat, NEW len \in Nat, len > 0, NEW what, Plainly(what)
  PROVE  WellFormed(Extent(lo, len, what))
BY DEF WellFormed, Plainly, Extent

LEMMA HeaderWellFormed ==
  ASSUME NEW pos \in BehindHeader, NEW id, NEW allocated \in Nat
  PROVE  /\ WellFormed(Magic(pos, id))
         /\ WellFormed(Extent(pos + 16, 8, <<"allocated", allocated>>))
BY DEF WellFormed, Magic, Extent, BehindHeader, FileHeaderSegmentSize

LEMMA MarkWritten ==
  ASSUME NEW pos \in BehindHeader
  PROVE  /\ GoodWrites(WriteDeletedSegment(pos))
         /\ Range(WriteDeletedSegment(pos)) =
              {Write(pos, 16, {Magic(pos, "DELETED")})}
<1> DEFINE w == Write(pos, 16, {Magic(pos, "DELETED")})
<1>1. GoodWrite(w)
  <2>1. /\ pos \in Nat /\ WellFormed(Magic(pos, "DELETED"))
        /\ Magic(pos, "DELETED").lo = pos /\ Magic(pos, "DELETED").hi = pos + 16
    BY HeaderWellFormed DEF BehindHeader, Magic, Extent
  <2> QED BY <2>1, PartWritten
<1> HIDE DEF w
<1>2. WriteDeletedSegment(pos) = <<w>>
  BY DEF WriteDeletedSegment, w
<1> QED BY <1>1, <1>2, OneWrite DEF w

\* The head of a segment: magic, allocated size, and one part that follows
LEMMA HeadWritten ==
  ASSUME NEW pos \in BehindHeader, NEW headSize \in Nat, NEW id,
         NEW allocated \in Nat, NEW x, WellFormed(x),
         x.lo = pos + SegmentHeaderSize, x.hi <= pos + headSize
  PROVE  GoodWrite(Write(pos, headSize,
                         SegmentHeader(pos, id, allocated) \cup {x}))
<1> DEFINE e1 == Magic(pos, id)
           e2 == Extent(pos + 16, 8, <<"allocated", allocated>>)
           h == SegmentHeader(pos, id, allocated) \cup {x}
           w == Write(pos, headSize, h)
<1>1. h = {e1, e2, x}
  BY DEF SegmentHeader
<1>2. /\ e1.lo = pos /\ e1.hi = pos + 16
      /\ e2.lo = pos + 16 /\ e2.hi = pos + 24
      /\ x.lo = pos + 32 /\ x.hi \in Nat /\ x.hi > pos + 32 /\ pos \in Nat
  BY DEF Magic, Extent, SegmentHeaderSize, BehindHeader, WellFormed
<1>3. WellFormed(e1) /\ WellFormed(e2)
  BY HeaderWellFormed
<1>4. w.pos = pos /\ w.len = headSize /\ w.holds = h
  BY DEF Write
<1>5. IsFiniteSet(h)
  <2>1. h = ({e1} \cup {e2}) \cup {x}
    BY <1>1
  <2> HIDE DEF h, e1, e2
  <2> QED BY <2>1, FS_Singleton, FS_AddElement
<1> HIDE DEF e1, e2, h, w
<1>6. GoodWrite(w)
  BY <1>1, <1>2, <1>3, <1>4, <1>5 DEF GoodWrite
<1> QED BY <1>6 DEF w, h

LEMMA NoRestWritten ==
  ASSUME NEW pos \in Nat
  PROVE  \A len \in Nat : GoodWrite(Write(pos, len, {x \in {} : x.hi <= pos + len}))
<1>1. ASSUME NEW len \in Nat
      PROVE  GoodWrite(Write(pos, len, {x \in {} : x.hi <= pos + len}))
  <2>1. {x \in {} : x.hi <= pos + len} = {}
    OBVIOUS
  <2> QED BY <2>1, NothingWritten
<1> QED BY <1>1

\* A segment: its head, its payload, and what the zeroes reach of the rest
SegmentOf(ws, pos, headSize, head, size, payload, rest, alloc) ==
  /\ GoodWrites(ws)
  /\ Write(pos, headSize, head) \in Range(ws)
  /\ \A w \in Range(ws) :
       /\ w.pos >= pos
       /\ w.pos + w.len <= pos + alloc + SegmentHeaderSize
       /\ \/ w = Write(pos, headSize, head)
          \/ size > 0 /\ w = Write(pos + headSize, size, payload)
          \/ w.holds \subseteq rest /\ w.pos = pos + (headSize + size)

LEMMA SegmentWritten ==
  ASSUME NEW pos \in Nat, NEW headSize \in Nat, NEW size \in Nat,
         NEW alloc \in Nat, NEW head, NEW payload, NEW rest,
         headSize + size <= alloc + SegmentHeaderSize,
         GoodWrite(Write(pos, headSize, head)),
         size > 0 => GoodWrite(Write(pos + headSize, size, payload)),
         NEW p, p = pos + (headSize + size),
         \A len \in Nat : GoodWrite(Write(p, len, {x \in rest : x.hi <= p + len}))
  PROVE  SegmentOf(WriteSegment(pos, headSize, head, size, payload, rest, alloc),
                   pos, headSize, head, size, payload, rest, alloc)
<1> DEFINE w1 == Write(pos, headSize, head)
           w2 == Write(pos + headSize, size, payload)
           n  == (alloc + SegmentHeaderSize) - (headSize + size)
           w3 == Write(p, ZeroFillLength(n),
                       {x \in rest : x.hi <= p + ZeroFillLength(n)})
           s2 == WritePart(pos + headSize, size, payload)
           s3 == WriteZeroesFor(rest, p, n)
           ws == <<w1>> \o s2 \o s3
<1>1. n \in Nat /\ ZeroFillLength(n) \in Nat /\ ZeroFillLength(n) <= n
  BY ZeroFillProperties DEF SegmentHeaderSize
<1>2. GoodWrites(<<w1>>) /\ Range(<<w1>>) = {w1}
  BY OneWrite
<1>3. /\ GoodWrites(s2)
      /\ \A w \in Range(s2) : w = w2 /\ size > 0
  <2>1. CASE size > 0
    <3>1. s2 = <<w2>>
      BY <2>1 DEF WritePart
    <3>2. GoodWrite(w2)
      BY <2>1
    <3> HIDE DEF w2, s2
    <3> QED BY <2>1, <3>1, <3>2, OneWrite
  <2>2. CASE ~(size > 0)
    <3>1. s2 = <<>>
      BY <2>2 DEF WritePart
    <3> QED BY <3>1, NoWrites
  <2> QED BY <2>1, <2>2
<1>4. /\ GoodWrites(s3)
      /\ \A w \in Range(s3) : w = w3
  <2>1. CASE n > 0
    <3>1. s3 = <<w3>>
      BY <2>1 DEF WriteZeroesFor
    <3>2. GoodWrite(w3)
      BY <1>1
    <3> HIDE DEF w3, s3
    <3> QED BY <3>1, <3>2, OneWrite
  <2>2. CASE ~(n > 0)
    <3>1. s3 = <<>>
      BY <2>2 DEF WriteZeroesFor
    <3> QED BY <3>1, NoWrites
  <2> QED BY <2>1, <2>2
<1>5. /\ w1.pos >= pos /\ w1.pos + w1.len <= pos + alloc + SegmentHeaderSize
      /\ w2.pos >= pos /\ w2.pos + w2.len <= pos + alloc + SegmentHeaderSize
  BY DEF Write, SegmentHeaderSize
<1>6. /\ w3.pos >= pos /\ w3.pos + w3.len <= pos + alloc + SegmentHeaderSize
      /\ w3.holds \subseteq rest /\ w3.pos = pos + (headSize + size)
  <2> HIDE DEF n
  <2>1. n = (alloc + SegmentHeaderSize) - (headSize + size)
    BY DEF n
  <2> QED BY <1>1, <2>1 DEF SegmentHeaderSize, Write
<1> HIDE DEF w1, w2, w3, s2, s3
<1>7. /\ GoodWrites(ws) /\ w1 \in Range(ws)
      /\ \A w \in Range(ws) : w = w1 \/ (w = w2 /\ size > 0) \/ w = w3
  <2>1. /\ GoodWrites(<<w1>> \o s2)
        /\ Range(<<w1>> \o s2) = Range(<<w1>>) \cup Range(s2)
    BY <1>2, <1>3, Joined
  <2>2. /\ GoodWrites(ws)
        /\ Range(ws) = Range(<<w1>> \o s2) \cup Range(s3)
    BY <2>1, <1>4, Joined
  <2> QED BY <2>1, <2>2, <1>2, <1>3, <1>4
<1>8. WriteSegment(pos, headSize, head, size, payload, rest, alloc) = ws
  BY DEF WriteSegment, w1, s2, s3
<1>9. \A w \in Range(ws) :
        /\ w.pos >= pos
        /\ w.pos + w.len <= pos + alloc + SegmentHeaderSize
        /\ \/ w = w1
           \/ size > 0 /\ w = w2
           \/ w.holds \subseteq rest /\ w.pos = pos + (headSize + size)
  BY <1>5, <1>6, <1>7
<1> HIDE DEF ws
<1> QED BY <1>7, <1>8, <1>9 DEF SegmentOf, w1, w2

\* Where the writes of an item go, and what they hold.  The item may have been
\* in a larger segment before.
ItemWritten(ws, pos, allocated, parts) ==
  /\ GoodWrites(ws)
  /\ \A w \in Range(ws) :
       /\ w.pos >= pos
       /\ w.pos + w.len <= pos + allocated + SegmentHeaderSize
       /\ w.holds \subseteq
            parts \cup {Extent(pos + 16, 8, <<"allocated", allocated>>)}
       /\ w.pos = pos \/ w.pos >= pos + FixedHeaderSize

LEMMA SubBlockWritten ==
  ASSUME NEW pos \in BehindHeader, NEW c \in SubBlocks, NEW allocated \in Nat,
         SubBlockHeadSize + SubBlockSize[c] <= allocated + SegmentHeaderSize
  PROVE  ItemWritten(WriteSubBlock(pos, c, allocated), pos, allocated,
                     SubBlockExtents(pos, c))
<1> DEFINE head == SegmentHeader(pos, "ZISRAWSUBBLOCK", allocated)
                     \cup {SubBlockHead(pos, c)}
           pixels == SubBlockPayload(pos, c)
           payload == {x \in {pixels} : PartsInPlace(c)}
           missing == SubBlockRest(pos, c)
           rest == NotEmpty({missing})
           size == PayloadBytes(c)
           p == pos + (SubBlockHeadSize + size)
           ws == WriteSubBlock(pos, c, allocated)
           e == Extent(pos + 16, 8, <<"allocated", allocated>>)
<1>1. /\ SubBlockHeadSize \in Nat /\ SubBlockHeadSize >= 288 /\ size \in Nat
      /\ pos \in Nat /\ SubBlockHeadSize + size <= allocated + SegmentHeaderSize
  <2>1. /\ SubBlockHeadSize \in Nat /\ SubBlockHeadSize >= 288 /\ size \in Nat
        /\ SubBlockSize[c] \in Nat /\ size <= SubBlockSize[c] /\ pos \in Nat
    BY HeadSizes, PayloadProperties DEF BehindHeader
  <2> HIDE DEF size
  <2> QED BY <2>1 DEF SegmentHeaderSize
<1>2. GoodWrite(Write(pos, SubBlockHeadSize, head))
  <2>1. /\ SubBlockHead(pos, c).lo = pos + SegmentHeaderSize
        /\ SubBlockHead(pos, c).hi = pos + SubBlockHeadSize
    BY <1>1 DEF SubBlockHead, Extent, SegmentHeaderSize
  <2>2. WellFormed(SubBlockHead(pos, c))
    BY <1>1, PlainlyWellFormed DEF SubBlockHead, Plainly, SegmentHeaderSize
  <2> QED BY <1>1, <2>1, <2>2, HeadWritten
<1>3. ASSUME size > 0
      PROVE  GoodWrite(Write(pos + SubBlockHeadSize, size, payload))
  <2>1. WellFormed(pixels)
    BY <1>1, <1>3, PlainlyWellFormed DEF SubBlockPayload, Plainly
  <2>2. pixels.lo = pos + SubBlockHeadSize /\ pixels.hi = pixels.lo + size
    BY DEF SubBlockPayload, Extent
  <2>3. GoodWrite(Write(pos + SubBlockHeadSize, size, {pixels}))
    BY <1>1, <2>1, <2>2, PartWritten
  <2>4. GoodWrite(Write(pos + SubBlockHeadSize, size, {}))
    BY <1>1, NothingWritten
  <2>5. payload = {pixels} \/ payload = {}
    OBVIOUS
  <2> QED BY <2>3, <2>4, <2>5
<1>4. /\ head \subseteq SubBlockExtents(pos, c) \cup {e}
      /\ size > 0 => payload \subseteq SubBlockExtents(pos, c)
      /\ rest \subseteq SubBlockExtents(pos, c)
  BY <1>1 DEF SubBlockExtents, NotEmpty, SegmentHeader, Magic, SubBlockHead,
              SubBlockPayload, Extent, SegmentHeaderSize
<1>5. ws = WriteSegment(pos, SubBlockHeadSize, head, size, payload, rest,
                        allocated)
  BY DEF WriteSubBlock
<1>6. ASSUME NEW len \in Nat
      PROVE  GoodWrite(Write(p, len, {x \in rest : x.hi <= p + len}))
  <2>1. p \in Nat /\ p = (pos + SubBlockHeadSize) + size
    BY <1>1
  <2>2. CASE missing.lo < missing.hi /\ missing.hi <= p + len
    <3>1. missing = Extent(p, SubBlockSize[c] - size, <<"zeroes">>)
      <4> HIDE DEF p, size
      <4> QED BY <2>1 DEF SubBlockRest, size
    <3>2. missing.lo = p /\ missing.hi = p + (SubBlockSize[c] - size)
      <4> HIDE DEF p, size, missing
      <4> QED BY <3>1 DEF Extent
    <3>3. SubBlockSize[c] \in Nat /\ size \in Nat
      BY PayloadProperties
    <3>4. SubBlockSize[c] - size \in Nat /\ SubBlockSize[c] - size > 0
      <4> HIDE DEF p, size, missing
      <4> QED BY <2>1, <2>2, <3>2, <3>3
    <3>5. WellFormed(missing)
      <4> HIDE DEF p, size, missing
      <4> QED BY <2>1, <3>1, <3>4, PlainlyWellFormed DEF Plainly
    <3>6. {x \in rest : x.hi <= p + len} = {missing}
      BY <2>2 DEF NotEmpty
    <3>7. GoodWrite(Write(p, len, {missing}))
      <4> HIDE DEF p, size, missing
      <4> QED BY <2>1, <2>2, <3>2, <3>5, PartWritten
    <3> QED BY <3>6, <3>7
  <2>3. CASE ~(missing.lo < missing.hi /\ missing.hi <= p + len)
    <3>1. {x \in rest : x.hi <= p + len} = {}
      BY <2>3 DEF NotEmpty
    <3> QED BY <2>1, <3>1, NothingWritten
  <2> QED BY <2>2, <2>3
<1> HIDE DEF ws, head, payload, rest, size
<1>7. SegmentOf(ws, pos, SubBlockHeadSize, head, size, payload, rest, allocated)
  <2>1. size > 0 => GoodWrite(Write(pos + SubBlockHeadSize, size, payload))
    BY <1>3
  <2> QED BY <1>1, <1>2, <2>1, <1>5, <1>6, SegmentWritten
<1>8. ASSUME NEW w \in Range(ws)
      PROVE  /\ w.holds \subseteq SubBlockExtents(pos, c) \cup {e}
             /\ w.pos = pos \/ w.pos >= pos + FixedHeaderSize
  BY <1>1, <1>4, <1>7 DEF SegmentOf, Write, FixedHeaderSize, SegmentHeaderSize
<1>9. ItemWritten(ws, pos, allocated, SubBlockExtents(pos, c))
  BY <1>7, <1>8 DEF SegmentOf, ItemWritten
<1> QED BY <1>9 DEF ws

LEMMA AttachmentWritten ==
  ASSUME NEW pos \in BehindHeader, NEW a \in Attachments,
         NEW allocated \in Nat, AttachmentUsed(a) <= allocated
  PROVE  ItemWritten(WriteAttachment(pos, a, allocated), pos, allocated,
                     AttachmentExtents(pos, a))
<1> DEFINE head == SegmentHeader(pos, "ZISRAWATTACH", allocated)
                     \cup {AttachmentHead(pos, a)}
           payload == AttachmentPayload(pos, a)
           size == AttachmentSize[a]
           ws == WriteAttachment(pos, a, allocated)
           e == Extent(pos + 16, 8, <<"allocated", allocated>>)
<1>1. /\ size \in Nat /\ pos \in Nat /\ FixedHeaderSize = 288
      /\ FixedHeaderSize \in Nat
      /\ FixedHeaderSize + size <= allocated + SegmentHeaderSize
  BY SizesAreNat DEF BehindHeader, AttachmentUsed, FixedHeaderSize,
                     SegmentHeaderSize
<1>2. GoodWrite(Write(pos, FixedHeaderSize, head))
  <2>1. /\ AttachmentHead(pos, a).lo = pos + SegmentHeaderSize
        /\ AttachmentHead(pos, a).hi = pos + FixedHeaderSize
    BY <1>1 DEF AttachmentHead, Extent, SegmentHeaderSize
  <2>2. WellFormed(AttachmentHead(pos, a))
    BY <1>1, PlainlyWellFormed DEF AttachmentHead, Plainly, SegmentHeaderSize
  <2> QED BY <1>1, <2>1, <2>2, HeadWritten
<1>3. ASSUME size > 0
      PROVE  GoodWrite(Write(pos + FixedHeaderSize, size, {payload}))
  <2>1. WellFormed(payload)
    BY <1>1, <1>3, PlainlyWellFormed DEF AttachmentPayload, Plainly
  <2>2. payload.lo = pos + FixedHeaderSize /\ payload.hi = payload.lo + size
    BY DEF AttachmentPayload, Extent
  <2> QED BY <1>1, <2>1, <2>2, PartWritten
<1>4. /\ head \subseteq AttachmentExtents(pos, a) \cup {e}
      /\ size > 0 => payload \in AttachmentExtents(pos, a)
  BY <1>1 DEF AttachmentExtents, NotEmpty, SegmentHeader, Magic,
              AttachmentHead, AttachmentPayload, Extent, SegmentHeaderSize
<1>5. ws = WriteSegment(pos, FixedHeaderSize, head, size, {payload}, {},
                        allocated)
  BY DEF WriteAttachment
<1> HIDE DEF ws, head, payload, size
<1>6. SegmentOf(ws, pos, FixedHeaderSize, head, size, {payload}, {},
                        allocated)
  <2>1. size > 0 => GoodWrite(Write(pos + FixedHeaderSize, size, {payload}))
    BY <1>3
  <2>2. /\ FixedHeaderSize \in Nat /\ size \in Nat /\ pos \in Nat
        /\ FixedHeaderSize + size <= allocated + SegmentHeaderSize
    BY <1>1
  <2>3. pos + (FixedHeaderSize + size) \in Nat
    BY <2>2
  <2>4. \A len \in Nat :
          GoodWrite(Write(pos + (FixedHeaderSize + size), len,
                          {x \in {} : x.hi <= (pos + (FixedHeaderSize + size))
                                               + len}))
    BY <2>3, NoRestWritten
  <2> QED BY <1>2, <2>1, <2>2, <2>4, <1>5, SegmentWritten
<1>7. ASSUME NEW w \in Range(ws)
      PROVE  /\ w.holds \subseteq AttachmentExtents(pos, a) \cup {e}
             /\ w.pos = pos \/ w.pos >= pos + FixedHeaderSize
  BY <1>1, <1>4, <1>6 DEF SegmentOf, Write
<1>8. ItemWritten(ws, pos, allocated, AttachmentExtents(pos, a))
  BY <1>6, <1>7 DEF SegmentOf, ItemWritten
<1> QED BY <1>8 DEF ws

\* A segment that is written in place or appended: see Segments and Placed.
PlacedSegments ==
  {s \in LiveSegments : s.pos \in (IF s.valid THEN BehindHeader ELSE {0})}

LEMMA PlacedTyped ==
  /\ PlacedSegments \subseteq Segments
  /\ NoSegment \in PlacedSegments
  /\ \A pos \in BehindHeader, allocated \in Nat :
       SegmentAt(pos, allocated, FALSE) \in PlacedSegments
  /\ \A s \in PlacedSegments : s.valid => s.pos \in BehindHeader
  /\ \A s \in PlacedSegments : s.pos \in BehindHeader \cup {0}
BY DEF PlacedSegments, LiveSegments, Segments, NoSegment, SegmentAt,
       BehindHeader

LEMMA ReplacedWritten ==
  ASSUME NEW existing \in PlacedSegments, NEW needed
  PROVE  LET ws == MarkReplaced(existing, needed)
         IN  /\ GoodWrites(ws)
             /\ \A w \in Range(ws) :
                  /\ existing.valid
                  /\ w = Write(existing.pos, 16, {Magic(existing.pos, "DELETED")})
<1>1. CASE ~FitsInto(existing, needed) /\ existing.valid /\ ~existing.deleted
  <2>1. MarkReplaced(existing, needed) = WriteDeletedSegment(existing.pos)
    BY <1>1 DEF MarkReplaced
  <2> QED BY <1>1, <2>1, PlacedTyped, MarkWritten
<1>2. CASE ~(~FitsInto(existing, needed) /\ existing.valid /\ ~existing.deleted)
  <2>1. MarkReplaced(existing, needed) = <<>>
    BY <1>2 DEF MarkReplaced
  <2> QED BY <2>1, NoWrites
<1> QED BY <1>1, <1>2

\* Writes behind the file header
EditWrites(ws) ==
  GoodWrites(ws) /\ \A w \in Range(ws) : w.pos \in BehindHeader

LEMMA Behind ==
  ASSUME NEW pos \in BehindHeader, NEW n \in Nat, n >= pos
  PROVE  n \in BehindHeader
BY DEF BehindHeader, FileHeaderSegmentSize

LEMMA EditsJoined ==
  ASSUME NEW s, EditWrites(s), NEW t, EditWrites(t)
  PROVE  EditWrites(s \o t)
BY Joined DEF EditWrites

LEMMA OneEdit ==
  ASSUME NEW w, GoodWrite(w), w.pos \in BehindHeader
  PROVE  EditWrites(<<w>>)
BY OneWrite DEF EditWrites

LEMMA NoEdits == EditWrites(<<>>)
BY NoWrites DEF EditWrites

LEMMA ZeroesWritten ==
  ASSUME NEW pos \in BehindHeader, NEW count \in Int
  PROVE  EditWrites(WriteZeroes(pos, count))
<1> DEFINE w == Write(pos, ZeroFillLength(count), {})
<1>1. CASE count > 0
  <2>1. WriteZeroes(pos, count) = <<w>>
    BY <1>1, ZeroesFor
  <2>2. GoodWrite(w) /\ w.pos = pos
    <3>1. pos \in Nat /\ ZeroFillLength(count) \in Nat
      BY <1>1, ZeroFillProperties DEF BehindHeader
    <3> QED BY <3>1, NothingWritten DEF Write
  <2> HIDE DEF w
  <2> QED BY <2>1, <2>2, OneEdit
<1>2. CASE ~(count > 0)
  <2>1. WriteZeroes(pos, count) = <<>>
    BY <1>2, ZeroesFor
  <2> QED BY <2>1, NoEdits
<1> QED BY <1>1, <1>2

LEMMA ItemEdits ==
  ASSUME NEW ws, NEW pos \in BehindHeader, NEW allocated, NEW parts,
         ItemWritten(ws, pos, allocated, parts)
  PROVE  EditWrites(ws)
<1>1. \A w \in Range(ws) : w.pos \in Nat /\ w.pos >= pos
  BY DEF ItemWritten, GoodWrites, GoodWrite
<1> QED BY <1>1, Behind DEF ItemWritten, EditWrites

LEMMA MarkEdits ==
  /\ \A pos \in BehindHeader : EditWrites(WriteDeletedSegment(pos))
  /\ \A existing \in PlacedSegments, needed \in Nat :
       EditWrites(MarkReplaced(existing, needed))
<1>1. ASSUME NEW pos \in BehindHeader
      PROVE  EditWrites(WriteDeletedSegment(pos))
  BY MarkWritten DEF EditWrites, Write
<1>2. ASSUME NEW existing \in PlacedSegments, NEW needed \in Nat
      PROVE  EditWrites(MarkReplaced(existing, needed))
  <2>1. existing.valid => existing.pos \in BehindHeader
    BY PlacedTyped
  <2> QED BY <2>1, ReplacedWritten DEF EditWrites, Write
<1> QED BY <1>1, <1>2

LEMMA PlaceTyped ==
  ASSUME NEW existing \in PlacedSegments, NEW needed \in Nat,
         NEW allocated \in Nat, allocated >= needed, NEW newPos \in BehindHeader
  PROVE  LET at == Placement(existing, needed, allocated, newPos)
         IN  /\ at.pos \in BehindHeader /\ at.allocated \in Nat
             /\ at.allocated >= needed
<1>1. existing \in Segments /\ (existing.valid => existing.pos \in BehindHeader)
  BY PlacedTyped
<1> QED BY <1>1 DEF Placement, FitsInto, Segments

LEMMA MetadataEdits ==
  ASSUME NEW existing \in PlacedSegments, NEW m \in Metadatas,
         NEW newPos \in BehindHeader
  PROVE  /\ EditWrites(WriteMetadata(existing, m, newPos))
         /\ MetadataPlace(existing, m, newPos).pos \in BehindHeader
         /\ MetadataPlace(existing, m, newPos).allocated \in Nat
<1> DEFINE at == MetadataPlace(existing, m, newPos)
           pos == at.pos
           allocated == at.allocated
           head == SegmentHeader(pos, "ZISRAWMETADATA", allocated)
                     \cup {MetadataHead(pos, m)}
           payload == MetadataPayload(pos, m)
           size == MetadataSize[m]
           needed == MetadataAllocated(m)
           s1 == MarkReplaced(existing, needed)
           s2 == WriteSegment(pos, FixedHeaderSize, head, size, {payload},
                              {}, allocated)
<1>1. /\ size \in Nat /\ FixedHeaderSize \in Nat /\ FixedHeaderSize = 288
      /\ needed \in Nat /\ needed >= 256 + size
  BY SizesAreNat, AlignProperties DEF FixedHeaderSize, SegmentHeaderSize,
                                      MetadataAllocated
<1>2. pos \in BehindHeader /\ allocated \in Nat /\ allocated >= needed
  BY <1>1, PlaceTyped DEF MetadataPlace
<1>3. WriteMetadata(existing, m, newPos) = s1 \o s2
  BY DEF WriteMetadata
<1>4. EditWrites(s1)
  BY <1>1, MarkEdits
<1> HIDE DEF pos, allocated, needed
<1>5. /\ pos \in Nat
      /\ FixedHeaderSize + size <= allocated + SegmentHeaderSize
  BY <1>1, <1>2 DEF BehindHeader, FixedHeaderSize, SegmentHeaderSize
<1>6. GoodWrite(Write(pos, FixedHeaderSize, head))
  <2>1. /\ MetadataHead(pos, m).lo = pos + SegmentHeaderSize
        /\ MetadataHead(pos, m).hi <= pos + FixedHeaderSize
    BY <1>1, <1>5 DEF MetadataHead, Extent, SegmentHeaderSize
  <2>2. WellFormed(MetadataHead(pos, m))
    BY <1>5, PlainlyWellFormed DEF MetadataHead, Plainly, SegmentHeaderSize
  <2> QED BY <1>1, <1>2, <2>1, <2>2, HeadWritten
<1>7. size > 0 => GoodWrite(Write(pos + FixedHeaderSize, size, {payload}))
  <2> SUFFICES ASSUME size > 0
               PROVE  GoodWrite(Write(pos + FixedHeaderSize, size, {payload}))
    OBVIOUS
  <2>1. WellFormed(payload)
    BY <1>1, <1>5, PlainlyWellFormed DEF MetadataPayload, Plainly
  <2>2. payload.lo = pos + FixedHeaderSize /\ payload.hi = payload.lo + size
    BY DEF MetadataPayload, Extent
  <2> QED BY <1>1, <1>5, <2>1, <2>2, PartWritten
<1> HIDE DEF head, payload, size
<1>8. SegmentOf(s2, pos, FixedHeaderSize, head, size, {payload}, {}, allocated)
  <2>1. FixedHeaderSize \in Nat /\ size \in Nat
    BY <1>1
  <2>2. pos + (FixedHeaderSize + size) \in Nat
    BY <1>5, <2>1
  <2>3. \A len \in Nat :
          GoodWrite(Write(pos + (FixedHeaderSize + size), len,
                          {x \in {} : x.hi <= (pos + (FixedHeaderSize + size))
                                               + len}))
    BY <2>2, NoRestWritten
  <2> QED BY <1>2, <1>5, <1>6, <1>7, <2>1, <2>3, SegmentWritten
<1>9. EditWrites(s2)
  <2> HIDE DEF s2
  <2>1. GoodWrites(s2) /\ \A w \in Range(s2) : w.pos >= pos /\ w.pos \in Nat
    BY <1>8 DEF SegmentOf, GoodWrites, GoodWrite
  <2> QED BY <1>2, <2>1, Behind DEF EditWrites
<1>10. EditWrites(s1 \o s2)
  BY <1>4, <1>9, EditsJoined
<1> QED BY <1>2, <1>3, <1>10 DEF pos, allocated

LEMMA FourParts ==
  ASSUME NEW a, NEW b, NEW c, NEW d
  PROVE  IsFiniteSet({a, b, c, d})
<1>1. IsFiniteSet({a}) /\ IsFiniteSet({b}) /\ IsFiniteSet({c})
      /\ IsFiniteSet({d})
  BY FS_Singleton
<1>2. IsFiniteSet({a} \cup {b}) /\ IsFiniteSet({c} \cup {d})
  BY <1>1, FS_Union
<1>3. IsFiniteSet(({a} \cup {b}) \cup ({c} \cup {d}))
  BY <1>2, FS_Union
<1>4. ({a} \cup {b}) \cup ({c} \cup {d}) = {a, b, c, d}
  OBVIOUS
<1> QED BY <1>3, <1>4

SubBlockEntries == [id : SubBlocks, pos : BehindHeader]
AttachmentEntries == [id : Attachments, pos : BehindHeader]

LEMMA SubBlkDirEdits ==
  ASSUME NEW existing \in PlacedSegments, NEW dir \in Seq(SubBlockEntries),
         NEW newPos \in BehindHeader
  PROVE  /\ EditWrites(WriteSubBlkDirectory(existing, dir, newPos))
         /\ SubBlkDirPlace(existing, dir, newPos).pos \in BehindHeader
         /\ SubBlkDirPlace(existing, dir, newPos).allocated \in Nat
<1> DEFINE at == SubBlkDirPlace(existing, dir, newPos)
           pos == at.pos
           allocated == at.allocated
           n == Len(dir)
           len == n * EntryDVSize
           written == SubBlkDirHeaderSize + len
           needed == SubBlkDirAllocated(n)
           e1 == Magic(pos, "ZISRAWDIRECTORY")
           e2 == Extent(pos + 16, 8, <<"allocated", allocated>>)
           e3 == SubBlkDirCount(pos, n)
           e4 == SubBlkDirEntries(pos, dir)
           holds == SegmentHeader(pos, "ZISRAWDIRECTORY", allocated)
                      \cup SubBlkDirExtents(pos, dir)
           w == Write(pos, written, holds)
           s1 == MarkReplaced(existing, needed)
           s3 == WriteZeroes(pos + written,
                             (allocated + SegmentHeaderSize) - written)
<1>1. n \in Nat
  OBVIOUS
<1> HIDE DEF n
<1>2. EntryDVSize \in Nat /\ len \in Nat
  BY <1>1, HeadSizes, ProductIsNat
<1>3. needed \in Nat
  <2>1. 128 + len \in Nat
    BY <1>2
  <2> QED BY <2>1, AlignProperties DEF SubBlkDirAllocated
<1>4. pos \in BehindHeader /\ allocated \in Nat
  BY <1>3, PlaceTyped DEF SubBlkDirPlace, n
<1>5. WriteSubBlkDirectory(existing, dir, newPos) = s1 \o (<<w>> \o s3)
  BY DEF WriteSubBlkDirectory, n
<1>6. EditWrites(s1)
  BY <1>3, MarkEdits
<1> HIDE DEF pos, allocated, needed, len
<1>7. pos \in Nat /\ written = 160 + len /\ written \in Nat
      /\ pos + written \in BehindHeader
  <2>1. pos \in Nat /\ written = 160 + len /\ written \in Nat
    BY <1>2, <1>4 DEF BehindHeader, SubBlkDirHeaderSize, SegmentHeaderSize
  <2> HIDE DEF written
  <2>2. pos + written \in Nat /\ pos + written >= pos
    BY <2>1
  <2> QED BY <1>4, <2>1, <2>2, Behind
<1>8. EditWrites(s3)
  <2>1. (allocated + SegmentHeaderSize) - written \in Int
    BY <1>4, <1>7 DEF SegmentHeaderSize
  <2> HIDE DEF written
  <2> QED BY <1>7, <2>1, ZeroesWritten
<1>9. /\ e1.lo = pos /\ e1.hi = pos + 16
      /\ e2.lo = pos + 16 /\ e2.hi = pos + 24
      /\ e3.lo = pos + 32 /\ e3.hi = pos + 36
      /\ e4.lo = pos + 160 /\ e4.hi = pos + 160 + len
  <2>1. e4.lo = pos + 160 /\ e4.hi = (pos + 160) + len
    BY DEF Extent, SubBlkDirEntries, SegmentHeaderSize, SubBlkDirHeaderSize,
           len, n
  <2> HIDE DEF e4
  <2> QED BY <1>2, <1>7, <2>1
          DEF Magic, Extent, SubBlkDirCount, SegmentHeaderSize
<1>10. /\ WellFormed(e1) /\ WellFormed(e2) /\ WellFormed(e3)
       /\ len > 0 => WellFormed(e4)
  <2>1. WellFormed(e1) /\ WellFormed(e2)
    BY <1>4, HeaderWellFormed
  <2>2. WellFormed(e3)
    <3>1. pos + 32 \in Nat /\ Plainly(<<"EntryCount", n>>)
      BY <1>7 DEF Plainly
    <3> QED BY <3>1, PlainlyWellFormed DEF SubBlkDirCount, SegmentHeaderSize
  <2>3. ASSUME len > 0 PROVE WellFormed(e4)
    <3>1. e4.what = <<"entries", dir>>
      BY DEF SubBlkDirEntries, Extent
    <3>2. e4 = Extent(e4.lo, Len(e4.what[2]) * EntryDVSize, e4.what)
      BY DEF SubBlkDirEntries, Extent
    <3> HIDE DEF e4
    <3> QED BY <1>2, <1>7, <1>9, <2>3, <3>1, <3>2
            DEF WellFormed, SubBlockEntries
  <2> QED BY <2>1, <2>2, <2>3
<1>11. holds \subseteq {e1, e2, e3, e4} /\ (e4 \in holds => len > 0)
  <2>1. e4 \notin {e1, e2, e3}
    BY <1>7, <1>9
  <2>2. SubBlkDirExtents(pos, dir) = NotEmpty({e3, e4})
    BY DEF SubBlkDirExtents, n
  <2>3. \A x : x \in NotEmpty({e3, e4}) => x \in {e3, e4} /\ x.lo < x.hi
    BY DEF NotEmpty
  <2>4. SegmentHeader(pos, "ZISRAWDIRECTORY", allocated) = {e1, e2}
    BY DEF SegmentHeader
  <2>5. e4.lo < e4.hi => len > 0
    BY <1>2, <1>7, <1>9
  <2> HIDE DEF e1, e2, e3, e4
  <2> QED BY <2>1, <2>2, <2>3, <2>4, <2>5
<1>12. IsFiniteSet(holds)
  <2> HIDE DEF e1, e2, e3, e4, holds
  <2> QED BY <1>11, FourParts, FS_Subset
<1>13. GoodWrite(w) /\ w.pos = pos
  <2>1. w.pos = pos /\ w.len = written /\ w.holds = holds
    BY DEF Write
  <2> HIDE DEF e1, e2, e3, e4, holds, w
  <2> QED BY <1>2, <1>7, <1>9, <1>10, <1>11, <1>12, <2>1 DEF GoodWrite
<1> HIDE DEF w, s1, s3
<1>14. EditWrites(s1 \o (<<w>> \o s3))
  BY <1>4, <1>6, <1>8, <1>13, OneEdit, EditsJoined
<1> QED BY <1>4, <1>5, <1>14 DEF pos, allocated

LEMMA AttachmentDirEdits ==
  ASSUME NEW existing \in PlacedSegments, NEW dir \in Seq(AttachmentEntries),
         NEW newPos \in BehindHeader
  PROVE  /\ EditWrites(WriteAttachmentDirectory(existing, dir, newPos))
         /\ AttachmentDirPlace(existing, dir, newPos).pos \in BehindHeader
         /\ AttachmentDirPlace(existing, dir, newPos).allocated \in Nat
<1> DEFINE at == AttachmentDirPlace(existing, dir, newPos)
           pos == at.pos
           allocated == at.allocated
           n == Len(dir)
           entries == n * AttachmentEntrySize
           segment == allocated + SegmentHeaderSize
           needed == AttachmentDirUsed(n)
           count == AttachmentDirCount(pos, n)
           slots == {AttachmentDirEntry(pos, k, dir[k]) : k \in DOMAIN dir}
           head == SegmentHeader(pos, "ZISRAWATTDIR", allocated) \cup {count}
           w1 == Write(pos, FixedHeaderSize, head)
           w2 == Write(pos + FixedHeaderSize, entries, slots)
           s1 == MarkReplaced(existing, needed)
           s3 == IF FixedHeaderSize + entries < segment
                 THEN WriteZeroes(pos + entries, segment - entries)
                 ELSE <<>>
<1>1. n \in Nat /\ DOMAIN dir = 1..n
  OBVIOUS
<1>2. \A k \in 1..n : dir[k] \in AttachmentEntries
  OBVIOUS
<1> HIDE DEF n
<1>3. /\ entries \in Nat /\ entries = n * 128
      /\ needed \in Nat /\ AlignSegmentSize(needed) \in Nat
      /\ AlignSegmentSize(needed) >= needed
  <2>1. entries \in Nat /\ entries = n * 128 /\ needed \in Nat
    BY <1>1 DEF AttachmentEntrySize, AttachmentDirUsed
  <2> HIDE DEF needed
  <2> QED BY <2>1, AlignProperties
<1>4. pos \in BehindHeader /\ allocated \in Nat
  BY <1>3, PlaceTyped DEF AttachmentDirPlace, n
<1>5. WriteAttachmentDirectory(existing, dir, newPos)
        = s1 \o <<w1>> \o <<w2>> \o s3
  BY DEF WriteAttachmentDirectory, n
<1>6. EditWrites(s1)
  BY <1>3, MarkEdits
<1> HIDE DEF pos, allocated, needed, entries
<1>7. /\ pos \in Nat /\ FixedHeaderSize \in Nat /\ FixedHeaderSize = 288
      /\ pos + entries \in BehindHeader /\ pos + FixedHeaderSize \in BehindHeader
      /\ segment - entries \in Int
  <2>1. pos \in Nat /\ FixedHeaderSize = 288 /\ segment - entries \in Int
    BY <1>3, <1>4 DEF BehindHeader, FixedHeaderSize, SegmentHeaderSize
  <2>2. pos + entries \in Nat /\ pos + entries >= pos
        /\ pos + 288 \in Nat /\ pos + 288 >= pos
    BY <1>3, <2>1
  <2> QED BY <1>4, <2>1, <2>2, Behind
<1>8. EditWrites(s3)
  <2> HIDE DEF segment
  <2>1. EditWrites(WriteZeroes(pos + entries, segment - entries))
    BY <1>7, ZeroesWritten
  <2> QED BY <2>1, NoEdits
<1>9. GoodWrite(w1) /\ w1.pos = pos
  <2>1. count.lo = pos + SegmentHeaderSize /\ count.hi <= pos + FixedHeaderSize
    BY <1>7 DEF AttachmentDirCount, Extent, SegmentHeaderSize
  <2>2. WellFormed(count)
    <3>1. /\ count.lo = pos + 32 /\ count.hi = pos + 36
          /\ count.what = <<"count", n>> /\ count = Extent(count.lo, 4, count.what)
      BY <1>7 DEF AttachmentDirCount, Extent, SegmentHeaderSize
    <3> HIDE DEF count
    <3> QED BY <1>1, <1>7, <3>1 DEF WellFormed
  <2>3. GoodWrite(w1)
    <3>1. FixedHeaderSize \in Nat
      BY <1>7
    <3> QED BY <1>4, <3>1, <2>1, <2>2, HeadWritten, Zenon
  <2> QED BY <2>3 DEF Write
<1>10. ASSUME NEW k \in 1..n
       PROVE  LET e == AttachmentDirEntry(pos, k, dir[k])
              IN  /\ e.lo = pos + 288 + (k - 1) * 128
                  /\ e.hi = pos + 288 + k * 128
                  /\ e.what = <<"entryA1", dir[k]>>
  BY <1>7 DEF AttachmentDirEntry, Extent, AttachmentEntrySize
<1>11. IsFiniteSet(slots)
  <2> DEFINE g == [k \in 1..n |-> AttachmentDirEntry(pos, k, dir[k])]
  <2>1. g \in Surjection(1..n, slots)
    BY <1>1 DEF Surjection
  <2>2. IsFiniteSet(1..n)
    BY <1>1, FS_Interval
  <2> QED BY <2>1, <2>2, FS_Surjection
<1>12. ASSUME NEW x \in slots
       PROVE  /\ WellFormed(x)
              /\ pos + 288 <= x.lo /\ x.hi <= pos + 288 + entries
              /\ \A y \in slots : x.lo = y.lo => x = y
  <2>1. PICK k \in 1..n : x = AttachmentDirEntry(pos, k, dir[k])
    BY <1>1
  <2>2. /\ x.lo = pos + 288 + (k - 1) * 128 /\ x.hi = pos + 288 + k * 128
        /\ x.what = <<"entryA1", dir[k]>>
    BY <1>10, <2>1, Zenon
  <2>3. ASSUME NEW y \in slots, x.lo = y.lo
        PROVE  x = y
    <3>1. PICK j \in 1..n : y = AttachmentDirEntry(pos, j, dir[j])
      BY <1>1
    <3>2. y.lo = pos + 288 + (j - 1) * 128
      BY <1>10, <3>1
    <3>3. j = k
      BY <1>1, <1>7, <2>2, <2>3, <3>2
    <3> QED BY <2>1, <3>1, <3>3
  <2>4. x.lo \in Nat /\ x.hi \in Nat /\ x.lo < x.hi
        /\ pos + 288 <= x.lo /\ x.hi <= pos + 288 + entries
    BY <1>1, <1>3, <1>7, <2>2
  <2>5. WellFormed(x)
    <3>1. dir[k] \in AttachmentEntries
      BY <1>2
    <3>2. x = Extent(x.lo, AttachmentEntrySize, x.what)
      BY <2>1 DEF AttachmentDirEntry, Extent
    <3> QED BY <2>2, <2>4, <3>1, <3>2 DEF WellFormed, AttachmentEntries
  <2> QED BY <2>3, <2>4, <2>5
<1>13. GoodWrite(w2) /\ w2.pos = pos + FixedHeaderSize
  <2>1. w2.pos = pos + FixedHeaderSize /\ w2.len = entries /\ w2.holds = slots
    BY DEF Write
  <2>2. pos + FixedHeaderSize = pos + 288 /\ pos + FixedHeaderSize \in Nat
    BY <1>7
  <2> HIDE DEF w2, slots
  <2> QED BY <1>3, <1>11, <1>12, <2>1, <2>2 DEF GoodWrite
<1>14. EditWrites(s1 \o <<w1>> \o <<w2>> \o s3)
  <2>1. EditWrites(<<w1>>) /\ EditWrites(<<w2>>)
    BY <1>4, <1>7, <1>9, <1>13, OneEdit
  <2> HIDE DEF s1, w1, w2, s3
  <2> QED BY <1>6, <1>8, <2>1, EditsJoined
<1> QED BY <1>4, <1>5, <1>14 DEF pos, allocated

-----------------------------------------------------------------------------
(* The file header and its GUIDs. *)

PositionsOrNone == BehindHeader \cup {0}
FileGuids == Guids \cup {TornGuid}

LEMMA GuidWellFormed ==
  ASSUME NEW g \in FileGuids
  PROVE  /\ WellFormed(FileGuid(g)) /\ WellFormed(PrimaryFileGuid(g))
         /\ FileGuid(g).lo = 64 /\ FileGuid(g).hi = 80
         /\ FileGuid(g).what = <<"FileGuid", g>>
         /\ PrimaryFileGuid(g).lo = 48 /\ PrimaryFileGuid(g).hi = 64
<1>1. /\ FileGuid(g).lo = 64 /\ FileGuid(g).hi = 80
      /\ FileGuid(g).what = <<"FileGuid", g>>
      /\ PrimaryFileGuid(g).lo = 48 /\ PrimaryFileGuid(g).hi = 64
  BY DEF FileGuid, PrimaryFileGuid, Extent
<1>2. WellFormed(PrimaryFileGuid(g))
  BY PlainlyWellFormed DEF PrimaryFileGuid, Plainly
<1>3. WellFormed(FileGuid(g))
  <2> DEFINE x == FileGuid(g)
  <2>1. \E h \in Guids \cup {TornGuid} : x = FileGuid(h)
    BY DEF FileGuids
  <2> HIDE DEF x
  <2>2. x.lo = 64 /\ x.hi = 80 /\ x.what = <<"FileGuid", g>>
    BY <1>1 DEF x
  <2>3. WellFormed(x)
    BY <2>1, <2>2 DEF WellFormed
  <2> QED BY <2>3 DEF x
<1> QED BY <1>1, <1>2, <1>3

LEMMA HeaderWritten ==
  ASSUME NEW g \in FileGuids, NEW p \in PositionsOrNone,
         NEW r \in PositionsOrNone, NEW q \in PositionsOrNone
  PROVE  LET ws == WriteHeaderSegment(g, p, r, q)
         IN  /\ GoodWrites(ws)
             /\ \A w \in Range(ws) : FileGuid(g) \in w.holds
             /\ ws # <<>>
<1> DEFINE e1 == Magic(0, "ZISRAWFILE")
           e2 == Extent(16, 8, <<"allocated", 512>>)
           e3 == Extent(84, 8, <<"SubBlockDirectoryPosition", p>>)
           e4 == Extent(92, 8, <<"MetadataPosition", r>>)
           e5 == Extent(104, 8, <<"AttachmentDirectoryPosition", q>>)
           e6 == PrimaryFileGuid(g)
           e7 == FileGuid(g)
           holds == {e1, e2, e3, e4, e5, e6, e7}
           w == Write(0, 544, holds)
<1>1. WriteHeaderSegment(g, p, r, q) = <<w>>
  <2>1. FileHeader(p, r, q) \cup {e6, e7} = holds
    BY DEF FileHeader, SegmentHeader, FileHeaderSegmentSize, SegmentHeaderSize
  <2> QED BY <2>1 DEF WriteHeaderSegment, FileHeaderSegmentSize
<1>2. /\ e1.lo = 0 /\ e1.hi = 16 /\ e2.lo = 16 /\ e2.hi = 24
      /\ e3.lo = 84 /\ e3.hi = 92 /\ e4.lo = 92 /\ e4.hi = 100
      /\ e5.lo = 104 /\ e5.hi = 112 /\ e6.lo = 48 /\ e6.hi = 64
      /\ e7.lo = 64 /\ e7.hi = 80
  BY DEF Magic, Extent, PrimaryFileGuid, FileGuid
<1>3. WellFormed(e1) /\ WellFormed(e2)
  BY DEF WellFormed, Magic, Extent, FileHeaderSegmentSize, SegmentHeaderSize
<1>4. WellFormed(e3) /\ WellFormed(e4) /\ WellFormed(e5)
  BY DEF WellFormed, Extent, PositionsOrNone
<1>5. WellFormed(e6) /\ WellFormed(e7)
  BY GuidWellFormed
<1>6. w.pos = 0 /\ w.len = 544 /\ w.holds = holds
  BY DEF Write
<1> HIDE DEF e1, e2, e3, e4, e5, e6, e7
<1>7. IsFiniteSet(holds)
  <2>1. IsFiniteSet({e1, e2, e3, e4} \cup {e5, e6, e7, e1})
    BY FourParts, FS_Union
  <2>2. {e1, e2, e3, e4} \cup {e5, e6, e7, e1} = holds
    OBVIOUS
  <2> QED BY <2>1, <2>2
<1> HIDE DEF w
<1>8. GoodWrite(w)
  <2>1. /\ \A x \in holds : WellFormed(x) /\ 0 <= x.lo /\ x.hi <= 0 + 544
        /\ \A x \in holds : \A y \in holds : x.lo = y.lo => x = y
    BY <1>2, <1>3, <1>4, <1>5
  <2> HIDE DEF holds
  <2> QED BY <1>6, <1>7, <2>1 DEF GoodWrite
<1>9. FileGuid(g) \in w.holds
  BY <1>6 DEF e7
<1>10. <<w>> # <<>>
  OBVIOUS
<1> QED BY <1>1, <1>8, <1>9, <1>10, OneWrite

LEMMA GuidsWritten ==
  ASSUME NEW g \in FileGuids, NEW f
  PROVE  LET ws == UpdateFileHeaderGuid(g)
         IN  /\ GoodWrites(ws)
             /\ \A w \in Range(ws) : w.pos >= 48
             /\ Lasting(f, Range(ws), FileGuid(g))
<1> DEFINE w1 == Write(48, 16, {PrimaryFileGuid(g)})
           w2 == Write(64, 16, {FileGuid(g)})
<1>1. GoodWrite(w1) /\ GoodWrite(w2)
  BY GuidWellFormed, PartWritten
<1>2. /\ w1.pos = 48 /\ w1.len = 16 /\ w2.pos = 64 /\ w2.len = 16
      /\ FileGuid(g) \in w2.holds
  BY DEF Write
<1>3. UpdateFileHeaderGuid(g) = <<w1>> \o <<w2>>
  BY DEF UpdateFileHeaderGuid
<1> HIDE DEF w1, w2
<1>4. /\ GoodWrites(<<w1>>) /\ Range(<<w1>>) = {w1}
      /\ GoodWrites(<<w2>>) /\ Range(<<w2>>) = {w2}
  BY <1>1, OneWrite
<1>5. /\ GoodWrites(<<w1>> \o <<w2>>)
      /\ Range(<<w1>> \o <<w2>>) = {w1} \cup {w2}
  BY <1>4, Joined
<1>6. Survives(FileGuid(g), w1)
  BY <1>2, GuidWellFormed DEF Survives
<1> DEFINE ws == <<w1>> \o <<w2>>
<1> HIDE DEF ws
<1>7. \A w \in Range(ws) : w.pos >= 48
  BY <1>2, <1>5 DEF ws
<1>8. Lasting(f, Range(ws), FileGuid(g))
  BY <1>2, <1>5, <1>6, Zenon DEF Lasting, ws
<1> QED BY <1>3, <1>5, <1>7, <1>8 DEF ws

-----------------------------------------------------------------------------
(* What is read from such a file. *)

LEMMA AllocatedTyped ==
  ASSUME NEW f, IsCziFile(f)
  PROVE  /\ \A pos \in Nat : \A a \in AllocatedSize(f, pos) : a \in Nat
         /\ \A pos \in PositionsOrNone : \A a \in AllocatedSize(f, pos) :
              pos + SegmentHeaderSize + a \in BehindHeader
<1>1. ASSUME NEW pos \in Nat, NEW a \in AllocatedSize(f, pos)
      PROVE  a \in Nat /\ (pos = 0 => a >= 512)
  <2>1. PICK x \in f : x.lo = pos + 16 /\ x.what[1] = "allocated" /\ x.what[2] = a
    BY DEF AllocatedSize
  <2>2. WellFormed(x)
    BY DEF IsCziFile
  <2> QED BY <2>1, <2>2
          DEF WellFormed, FileHeaderSegmentSize, SegmentHeaderSize
<1>2. ASSUME NEW pos \in PositionsOrNone, NEW a \in AllocatedSize(f, pos)
      PROVE  pos + SegmentHeaderSize + a \in BehindHeader
  <2>1. pos \in Nat /\ (pos = 0 \/ pos >= 544)
    BY DEF PositionsOrNone, BehindHeader, FileHeaderSegmentSize
  <2>2. a \in Nat /\ (pos = 0 => a >= 512)
    BY <1>1, <2>1
  <2> QED BY <2>1, <2>2 DEF BehindHeader, FileHeaderSegmentSize,
                            SegmentHeaderSize
<1> QED BY <1>1, <1>2

LEMMA HeaderFieldsTyped ==
  ASSUME NEW f, IsCziFile(f)
  PROVE  /\ HeaderField(f, "SubBlockDirectoryPosition") \subseteq PositionsOrNone
         /\ HeaderField(f, "AttachmentDirectoryPosition")
              \subseteq PositionsOrNone
         /\ HeaderField(f, "MetadataPosition") \subseteq PositionsOrNone
<1>1. ASSUME NEW n \in {"SubBlockDirectoryPosition",
                        "AttachmentDirectoryPosition", "MetadataPosition"},
             NEW p \in HeaderField(f, n)
      PROVE  p \in PositionsOrNone
  <2>1. PICK x \in f : x.what[1] = n /\ x.what[2] = p
    BY DEF HeaderField
  <2>2. WellFormed(x)
    BY DEF IsCziFile
  <2> QED BY <2>1, <2>2 DEF WellFormed, PositionsOrNone
<1> QED BY <1>1

LEMMA SubBlkDirTyped ==
  ASSUME NEW f, IsCziFile(f), NEW pos, NEW dir \in SubBlkDirAt(f, pos)
  PROVE  /\ dir \in Seq(SubBlockEntries)
         /\ HasMagic(f, pos, "ZISRAWDIRECTORY")
<1>1. HasMagic(f, pos, "ZISRAWDIRECTORY")
  BY DEF SubBlkDirAt
<1>2. CASE dir = <<>>
  BY <1>1, <1>2
<1>3. CASE dir # <<>>
  <2>1. PICK x \in f : x.what[1] = "entries" /\ x.what[2] = dir
    BY <1>1, <1>3 DEF SubBlkDirAt
  <2>2. WellFormed(x)
    BY DEF IsCziFile
  <2> QED BY <1>1, <2>1, <2>2 DEF WellFormed, SubBlockEntries
<1> QED BY <1>2, <1>3

\* Two kinds of segments do not begin at the same byte.
LEMMA OneMagic ==
  ASSUME NEW f, IsCziFile(f), NEW pos, NEW id1, NEW id2,
         HasMagic(f, pos, id1), HasMagic(f, pos, id2)
  PROVE  id1 = id2
<1>1. Magic(pos, id1) = Magic(pos, id2)
  <2>1. Magic(pos, id1).lo = Magic(pos, id2).lo
    BY DEF Magic, Extent
  <2> QED BY <2>1 DEF HasMagic, IsCziFile
<1>2. Magic(pos, id1).what[2] = id1 /\ Magic(pos, id2).what[2] = id2
  BY DEF Magic, Extent
<1> QED BY <1>1, <1>2

\* SetToSeq, for the sets it is used with
LEMMA Listed ==
  ASSUME NEW S, IsFiniteSet(S)
  PROVE  /\ SetToSeq(S) \in [1..Cardinality(S) -> S] /\ Cardinality(S) \in Nat
         /\ \A x \in S : \E i \in DOMAIN SetToSeq(S) : SetToSeq(S)[i] = x
<1> DEFINE n == Cardinality(S)
           seq == SetToSeq(S)
<1>1. Cardinality(S) \in Nat
  BY FS_CardinalityType
<1>2. \E b : b \in [1..Cardinality(S) -> S] /\ IsInjective(b)
  <2>1. ExistsBijection(1..Cardinality(S), S)
    BY FS_CardinalityType
  <2>2. PICK b : b \in Bijection(1..Cardinality(S), S)
    BY <2>1 DEF ExistsBijection
  <2>3. b \in [1..Cardinality(S) -> S] /\ IsInjective(b)
    BY <2>2 DEF Bijection, Injection, IsInjective
  <2> QED BY <2>3
<1>3. seq \in [1..n -> S] /\ IsInjective(seq)
  BY <1>2 DEF SetToSeq
<1> HIDE DEF seq, n
<1>4. seq \in Surjection(1..n, S)
  <2>1. seq \in Injection(1..n, S)
    BY <1>3 DEF Injection, IsInjective
  <2>2. IsFiniteSet(1..n) /\ Cardinality(1..n) = n
    BY <1>1, FS_Interval DEF n
  <2> QED BY <2>1, <2>2, FS_Injection DEF n
<1> QED BY <1>1, <1>3, <1>4 DEF Surjection, seq, n

\* No attachment directory, or one that is found
LEMMA AttachmentDirectoriesTyped ==
  ASSUME IsCziFile(file), NEW pos \in PositionsOrNone,
         NEW att \in AttachmentDirectories(pos)
  PROVE  /\ att[1] \in Seq(AttachmentEntries)
         /\ att[2] \in PlacedSegments
<1>1. CASE pos = 0
  <2>1. att = <<<<>>, NoSegment>>
    BY <1>1 DEF AttachmentDirectories
  <2> QED BY <2>1, PlacedTyped
<1>2. CASE pos # 0
  <2> DEFINE S == AttachmentDirSlots(file, pos)
             slots == SetToSeq(S)
             n == Cardinality(S)
             dir == [i \in DOMAIN slots |-> slots[i].what[2]]
  <2>1. PICK a \in AllocatedSize(file, pos) :
          att = <<dir, SegmentAt(pos, a, FALSE)>>
    BY <1>2 DEF AttachmentDirectories
  <2>2. SegmentAt(pos, a, FALSE) \in PlacedSegments
    <3>1. pos \in BehindHeader /\ pos \in Nat
      BY <1>2 DEF PositionsOrNone, BehindHeader
    <3> QED BY <3>1, AllocatedTyped, PlacedTyped
  <2>3. \A x \in S : x.what[2] \in AttachmentEntries
    <3>1. \A x \in S : WellFormed(x) /\ x.what[1] = "entryA1"
      BY DEF AttachmentDirSlots, IsCziFile
    <3> QED BY <3>1 DEF WellFormed, AttachmentEntries
  <2>4. IsFiniteSet(S)
    BY FS_Subset DEF AttachmentDirSlots, IsCziFile
  <2> HIDE DEF S
  <2>5. slots \in [1..n -> S] /\ n \in Nat
    BY <2>4, Listed
  <2> HIDE DEF slots, n
  <2>6. dir \in [1..n -> AttachmentEntries]
    BY <2>3, <2>5
  <2>7. dir \in Seq(AttachmentEntries)
    BY <2>5, <2>6
  <2> QED BY <2>1, <2>2, <2>7
<1> QED BY <1>1, <1>2

LEMMA MetadataSegmentsTyped ==
  ASSUME IsCziFile(file), NEW pos \in PositionsOrNone,
         NEW segment \in MetadataSegments(pos)
  PROVE  segment \in PlacedSegments
<1>1. CASE pos = 0
  BY <1>1, PlacedTyped DEF MetadataSegments
<1>2. CASE pos # 0
  <2>1. PICK a \in AllocatedSize(file, pos) : segment = SegmentAt(pos, a, FALSE)
    BY <1>2 DEF MetadataSegments
  <2>2. pos \in BehindHeader /\ pos \in Nat
    BY <1>2 DEF PositionsOrNone, BehindHeader
  <2> QED BY <2>1, <2>2, AllocatedTyped, PlacedTyped
<1> QED BY <1>1, <1>2

-----------------------------------------------------------------------------
(* The directories in memory. *)

IsDirectory(d, E) ==
  /\ d = [entries |-> d.entries, next |-> d.next, modified |-> d.modified]
  /\ d.next \in Nat /\ d.modified \in BOOLEAN
  /\ d.entries \in [DOMAIN d.entries -> E]
  /\ DOMAIN d.entries \subseteq 0 .. d.next - 1

LEMMA EmptyIsDirectory ==
  ASSUME NEW E
  PROVE  IsDirectory(EmptyDirectory, E) /\ DOMAIN EmptyDirectory.entries = {}
<1>1. /\ EmptyDirectory.entries = <<>> /\ EmptyDirectory.next = 0
      /\ EmptyDirectory.modified = FALSE
  BY DEF EmptyDirectory
<1>2. DOMAIN <<>> = {} /\ <<>> \in [{} -> E]
  OBVIOUS
<1>3. EmptyDirectory = [entries |-> EmptyDirectory.entries,
                        next |-> EmptyDirectory.next,
                        modified |-> EmptyDirectory.modified]
  BY DEF EmptyDirectory
<1>4. /\ EmptyDirectory.entries \in [DOMAIN EmptyDirectory.entries -> E]
      /\ DOMAIN EmptyDirectory.entries = {}
      /\ EmptyDirectory.next \in Nat /\ EmptyDirectory.modified \in BOOLEAN
  <2> DEFINE x == EmptyDirectory.entries
  <2>1. x = <<>>
    BY <1>1
  <2> HIDE DEF x
  <2>2. x \in [DOMAIN x -> E] /\ DOMAIN x = {}
    BY <1>2, <2>1, Zenon
  <2>3. EmptyDirectory.next \in Nat
    BY <1>1
  <2>4. EmptyDirectory.modified \in BOOLEAN
    BY DEF EmptyDirectory
  <2> QED BY <2>2, <2>3, <2>4, Zenon DEF x
<1> QED BY <1>3, <1>4 DEF IsDirectory

\* A directory with other entries
WithEntries(d, entries, modified) ==
  [d EXCEPT !.entries = entries, !.modified = modified]

LEMMA EntriesChanged ==
  ASSUME NEW d, NEW en, NEW nx, NEW mo, NEW entries, NEW modified,
         d = [entries |-> en, next |-> nx, modified |-> mo]
  PROVE  WithEntries(d, entries, modified)
           = [entries |-> entries, next |-> nx, modified |-> modified]
<1> DEFINE r == [d EXCEPT !.entries = entries]
<1>1. r = [entries |-> entries, next |-> nx, modified |-> mo]
  OBVIOUS
<1> HIDE DEF r
<1>2. [r EXCEPT !.modified = modified]
        = [entries |-> entries, next |-> nx, modified |-> modified]
  BY <1>1
<1> QED BY <1>2 DEF WithEntries, r

LEMMA ReadIsDirectory ==
  ASSUME NEW E, NEW dir \in Seq(E)
  PROVE  /\ IsDirectory(DirectoryOf(dir), E)
         /\ DOMAIN DirectoryOf(dir).entries = 0 .. Len(dir) - 1
         /\ \A k \in 0 .. Len(dir) - 1 : DirectoryOf(dir).entries[k] = dir[k + 1]
<1> DEFINE n == Len(dir)
           d == DirectoryOf(dir)
<1>1. n \in Nat /\ \A k \in 0 .. n - 1 : dir[k + 1] \in E
  OBVIOUS
<1> HIDE DEF n
<1>2. /\ d.entries = [k \in 0 .. n - 1 |-> dir[k + 1]]
      /\ d.next = n /\ d.modified = FALSE
      /\ d = [entries |-> d.entries, next |-> d.next, modified |-> d.modified]
  BY DEF DirectoryOf, n
<1> HIDE DEF d
<1>3. d.entries \in [0 .. n - 1 -> E] /\ DOMAIN d.entries = 0 .. n - 1
      /\ \A k \in 0 .. n - 1 : d.entries[k] = dir[k + 1]
  BY <1>1, <1>2
<1>4. IsDirectory(d, E)
  BY <1>1, <1>2, <1>3 DEF IsDirectory
<1> QED BY <1>2, <1>3, <1>4 DEF n, d

LEMMA AddIsDirectory ==
  ASSUME NEW E, NEW d, IsDirectory(d, E), NEW e \in E
  PROVE  /\ IsDirectory(AddEntry(d, e), E)
         /\ DOMAIN AddEntry(d, e).entries = DOMAIN d.entries \cup {d.next}
         /\ \A k \in DOMAIN d.entries : AddEntry(d, e).entries[k] = d.entries[k]
         /\ AddEntry(d, e).entries[d.next] = e
         /\ d.next \notin DOMAIN d.entries
<1> DEFINE K == DOMAIN d.entries
           n == d.next
           a == AddEntry(d, e)
<1>1. /\ n \in Nat /\ d.entries \in [K -> E] /\ K \subseteq 0 .. n - 1
  BY DEF IsDirectory
<1>2. /\ a.entries = [k \in K \cup {n} |-> IF k = n THEN e ELSE d.entries[k]]
      /\ a.next = n + 1 /\ a.modified = TRUE
      /\ a = [entries |-> a.entries, next |-> a.next, modified |-> a.modified]
  BY DEF AddEntry
<1> HIDE DEF a, K, n
<1>3. n \notin K /\ K \cup {n} \subseteq 0 .. (n + 1) - 1
  BY <1>1
<1>4. /\ a.entries \in [K \cup {n} -> E] /\ DOMAIN a.entries = K \cup {n}
      /\ a.entries[n] = e /\ \A k \in K : a.entries[k] = d.entries[k]
  BY <1>1, <1>2, <1>3
<1>5. IsDirectory(a, E)
  <2>1. a.next \in Nat /\ DOMAIN a.entries \subseteq 0 .. a.next - 1
    BY <1>1, <1>2, <1>3, <1>4
  <2>2. a.entries \in [DOMAIN a.entries -> E] /\ a.modified \in BOOLEAN
    BY <1>2, <1>4
  <2> QED BY <1>2, <2>1, <2>2 DEF IsDirectory
<1> QED BY <1>2, <1>3, <1>4, <1>5 DEF a, K, n

LEMMA ModifyIsDirectory ==
  ASSUME NEW E, NEW d, IsDirectory(d, E), NEW k, NEW e \in E
  PROVE  /\ IsDirectory(ModifyEntry(d, k, e), E)
         /\ DOMAIN ModifyEntry(d, k, e).entries = DOMAIN d.entries
         /\ \A j \in DOMAIN d.entries :
              ModifyEntry(d, k, e).entries[j] =
                IF j = k THEN e ELSE d.entries[j]
<1> DEFINE K == DOMAIN d.entries
           a == ModifyEntry(d, k, e)
<1>1. /\ d.next \in Nat /\ d.entries \in [K -> E] /\ K \subseteq 0 .. d.next - 1
      /\ d = [entries |-> d.entries, next |-> d.next, modified |-> d.modified]
  BY DEF IsDirectory
<1>2. /\ a.entries = [d.entries EXCEPT ![k] = e]
      /\ a.next = d.next /\ a.modified = TRUE
      /\ a = [entries |-> a.entries, next |-> a.next, modified |-> a.modified]
  <2> DEFINE other == [d.entries EXCEPT ![k] = e]
  <2> DEFINE yes == TRUE
  <2>1. a = WithEntries(d, other, yes)
    BY DEF WithEntries, ModifyEntry
  <2> HIDE DEF other, a, yes
  <2>2. a = [entries |-> other, next |-> d.next, modified |-> yes]
    BY <1>1, <2>1, EntriesChanged
  <2> QED BY <2>2 DEF other, yes
<1> HIDE DEF a, K
<1>3. /\ a.entries \in [K -> E] /\ DOMAIN a.entries = K
      /\ \A j \in K : a.entries[j] = IF j = k THEN e ELSE d.entries[j]
  BY <1>1, <1>2
<1>4. IsDirectory(a, E)
  BY <1>1, <1>2, <1>3 DEF IsDirectory
<1> QED BY <1>2, <1>3, <1>4 DEF a, K

LEMMA RemoveIsDirectory ==
  ASSUME NEW E, NEW d, IsDirectory(d, E), NEW k
  PROVE  /\ IsDirectory(RemoveEntry(d, k), E)
         /\ DOMAIN RemoveEntry(d, k).entries = DOMAIN d.entries \ {k}
         /\ \A j \in DOMAIN d.entries \ {k} :
              RemoveEntry(d, k).entries[j] = d.entries[j]
<1> DEFINE K == DOMAIN d.entries
           a == RemoveEntry(d, k)
<1>1. /\ d.next \in Nat /\ d.entries \in [K -> E] /\ K \subseteq 0 .. d.next - 1
      /\ d = [entries |-> d.entries, next |-> d.next, modified |-> d.modified]
  BY DEF IsDirectory
<1>2. /\ a.entries = [j \in K \ {k} |-> d.entries[j]]
      /\ a.next = d.next /\ a.modified = TRUE
      /\ a = [entries |-> a.entries, next |-> a.next, modified |-> a.modified]
  <2> DEFINE other == [j \in K \ {k} |-> d.entries[j]]
  <2> DEFINE yes == TRUE
  <2>1. a = WithEntries(d, other, yes)
    BY DEF WithEntries, RemoveEntry
  <2> HIDE DEF other, a, yes
  <2>2. a = [entries |-> other, next |-> d.next, modified |-> yes]
    BY <1>1, <2>1, EntriesChanged
  <2> QED BY <2>2 DEF other, yes
<1> HIDE DEF a, K
<1>3. /\ a.entries \in [K \ {k} -> E] /\ DOMAIN a.entries = K \ {k}
      /\ \A j \in K \ {k} : a.entries[j] = d.entries[j]
  BY <1>1, <1>2
<1>4. IsDirectory(a, E)
  BY <1>1, <1>2, <1>3 DEF IsDirectory
<1> QED BY <1>2, <1>3, <1>4 DEF a, K

\* Among subsets of a finite set, there is one that contains no other.
LEMMA LeastSubset ==
  ASSUME NEW S, IsFiniteSet(S), NEW B, B \subseteq SUBSET S, B # {}
  PROVE  \E T \in B : \A U \in B : U \subseteq T => U = T
<1>1. IsWellFoundedOn(StrictSubsetOrdering(S), SUBSET S)
  BY FS_StrictSubsetOrderingWellFounded, FS_FiniteSubsetsOfFinite
<1>2. PICK T \in B : \A U \in B : <<U, T>> \notin StrictSubsetOrdering(S)
  BY <1>1, WFMin
<1> QED BY <1>2 DEF StrictSubsetOrdering

LEMMA Greatest ==
  ASSUME NEW S, IsFiniteSet(S), S \subseteq Nat, S # {}
  PROVE  \E m \in S : \A n \in S : n <= m
<1> DEFINE above == [x \in S |-> {y \in S : y > x}]
           B == {above[x] : x \in S}
<1>1. B \subseteq SUBSET S /\ B # {}
  OBVIOUS
<1>2. \A x \in S : above[x] \in B
  OBVIOUS
<1>3. \A T \in B : \E x \in S : T = above[x]
  OBVIOUS
<1>4. \A x \in S : \A y : y \in above[x] <=> y \in S /\ y > x
  OBVIOUS
<1> HIDE DEF B, above
<1>5. \E T \in B : \A U \in B : U \subseteq T => U = T
  <2>1. IsFiniteSet(S) /\ B \subseteq SUBSET S /\ B # {}
    BY <1>1
  <2> QED BY ONLY <2>1, LeastSubset
<1>6. PICK T \in B : \A U \in B : U \subseteq T => U = T
  BY <1>5
<1>7. PICK m \in S : T = above[m]
  BY <1>3
<1>8. ASSUME NEW n \in S, n > m
      PROVE  FALSE
  <2>1. n \in Nat /\ m \in Nat /\ \A y \in S : y \in Nat
    OBVIOUS
  <2>2. above[n] \subseteq T
    <3> SUFFICES ASSUME NEW y \in above[n] PROVE y \in T
      OBVIOUS
    <3>1. y \in S /\ y > n
      BY <1>4
    <3>2. y > m
      BY <1>8, <2>1, <3>1
    <3> QED BY <1>4, <1>7, <3>1, <3>2
  <2>3. n \in T /\ n \notin above[n]
    BY <1>4, <1>7, <1>8, <2>1
  <2> QED BY <1>2, <1>6, <2>2, <2>3
<1>9. \A n \in S : n \in Nat
  OBVIOUS
<1> QED BY <1>8, <1>9

\* The positions in a directory are finitely many.
LEMMA PositionsFinite ==
  ASSUME NEW E, NEW d, IsDirectory(d, E)
  PROVE  IsFiniteSet({e.pos : e \in EntriesOf(d)})
<1> DEFINE K == DOMAIN d.entries
           P == {e.pos : e \in EntriesOf(d)}
           g == [k \in K |-> d.entries[k].pos]
<1>1. IsFiniteSet(K)
  <2>1. d.next \in Nat /\ K \subseteq 0 .. d.next - 1
    BY DEF IsDirectory
  <2>2. IsFiniteSet(0 .. d.next - 1)
    BY <2>1, FS_Interval
  <2> QED BY <2>1, <2>2, FS_Subset
<1>2. g \in Surjection(K, P)
  BY DEF Surjection, EntriesOf
<1> HIDE DEF K, P, g
<1>3. IsFiniteSet(P)
  BY <1>1, <1>2, FS_Surjection
<1> QED BY <1>3 DEF P

\* The entries in some order, as they are written
IsListOf(dir, d) ==
  Len(dir) \in Nat /\ {dir[i] : i \in DOMAIN dir} = EntriesOf(d)

LEMMA EnumeratedIsList ==
  ASSUME NEW E, NEW d, IsDirectory(d, E)
  PROVE  Enumerated(d) \in Seq(E) /\ IsListOf(Enumerated(d), d)
<1> DEFINE K == DOMAIN d.entries
           keys == SetToSeq(K)
           n == Cardinality(K)
           dir == [i \in DOMAIN keys |-> d.entries[keys[i]]]
<1>1. d.entries \in [K -> E] /\ d.next \in Nat /\ K \subseteq 0 .. d.next - 1
  BY DEF IsDirectory
<1>2. IsFiniteSet(K)
  <2>1. IsFiniteSet(0 .. d.next - 1)
    BY <1>1, FS_Interval
  <2> QED BY <1>1, <2>1, FS_Subset
<1>3. dir = Enumerated(d)
  BY DEF Enumerated
<1> HIDE DEF K
<1>4. /\ keys \in [1..n -> K] /\ n \in Nat
      /\ \A k \in K : \E i \in DOMAIN keys : keys[i] = k
  BY <1>2, Listed
<1> HIDE DEF keys, n
<1>5. dir \in [1..n -> E]
  BY <1>1, <1>4
<1>6. dir \in Seq(E) /\ Len(dir) \in Nat
  BY <1>4, <1>5
<1>7. {dir[i] : i \in DOMAIN dir} = EntriesOf(d)
  <2>1. \A i \in DOMAIN dir : dir[i] = d.entries[keys[i]] /\ keys[i] \in K
    BY <1>4
  <2>2. \A k \in K : \E i \in DOMAIN dir : dir[i] = d.entries[k]
    BY <1>4
  <2> HIDE DEF dir
  <2> QED BY <2>1, <2>2 DEF EntriesOf, K
<1> QED BY <1>3, <1>6, <1>7 DEF IsListOf

-----------------------------------------------------------------------------
(* Type correctness. *)

SubBlockOps ==
  {"AddSubBlock", "ReplaceSubBlockInplace", "ReplaceSubBlockAddNewAtEnd"}

AttachmentOps ==
  {"AddAttachment", "ReplaceAttachmentInplace", "ReplaceAttachmentAddNewAtEnd"}

AppendOps ==
  {"AddSubBlock", "ReplaceSubBlockAddNewAtEnd", "AddAttachment",
   "ReplaceAttachmentAddNewAtEnd", "WriteMetadata"}

CreateOps == {"WriteHeader", "ReadCziStructure"}
CloseOps == {"FinishSubBlkDir", "WriteAttachmentDir", "FinishAttachmentDir",
             "UpdateFileHeader"}

FileTyped == IsCziFile(file) /\ GoodWrites(writes)

HeaderTyped ==
  /\ hdrSegmentData \in
       [guid : FileGuids, subBlockDirectory : PositionsOrNone,
        attachmentDirectory : PositionsOrNone, metadata : PositionsOrNone]
  /\ lastSegmentPos \in PositionsOrNone

DirectoriesTyped ==
  /\ IsDirectory(sbBlkDirectory, SubBlockEntries)
  /\ IsDirectory(attachmentDirectory, AttachmentEntries)

SegmentsTyped ==
  /\ metadataSegment \in PlacedSegments
  /\ subBlockDirectorySegment \in PlacedSegments
  /\ attachmentDirectorySegment \in PlacedSegments

\* Once the append position is needed, it is there.
NextTyped ==
  /\ nextSegmentPos \in PositionsOrNone
  /\ \/ op \in AppendOps
     \/ op = "FinishSubBlkDir" /\ sbBlkDirectory.modified
     \/ op = "FinishAttachmentDir" /\ attachmentDirectory.modified
     => nextSegmentPos \in BehindHeader

\* Only Create, and Close at its end, write to the file header.
WritesTyped ==
  /\ op \notin CreateOps \cup {"UpdateFileHeader"} => EditWrites(writes)
  /\ op = "idle" => writes = <<>>
  /\ op = "ReadCziStructure" =>
       /\ HasMagic(file, 0, "ZISRAWFILE")
       /\ \A w \in Range(writes) : w.pos >= 48

CallTyped ==
  /\ op \in Ops
  /\ op \in SubBlockOps =>
       item \in SubBlocks /\ key \in DOMAIN sbBlkDirectory.entries
  /\ op \in AttachmentOps =>
       item \in Attachments /\ key \in DOMAIN attachmentDirectory.entries
  /\ op = "WriteMetadata" => item \in Metadatas
  /\ op = "WriteHeader" => item \in Guids
  /\ op = "ReadCziStructure" => item \in Guids \cup {NoItem}

OpInPhase ==
  /\ op \in CreateOps => phase = "creating"
  /\ op \in CloseOps => phase = "closing"
  /\ op \notin CreateOps \cup CloseOps \cup {"idle"} => phase = "open"
  /\ phase = "creating" => op \in CreateOps

\* The client knows no key that is not in a directory.
ClientTyped ==
  /\ phase \in {"none", "creating", "open", "closing", "closed"}
  /\ stream \in BOOLEAN
  /\ meta \in Metadatas \cup {NoMeta, UnknownMeta}
  /\ \A k : SubBlock(k) \in known => k \in DOMAIN sbBlkDirectory.entries
  /\ \A k : Attachment(k) \in known => k \in DOMAIN attachmentDirectory.entries

BoundsTyped ==
  /\ faults \in 0..MaxFaults /\ sessions \in 0..MaxSessions
  /\ edits \in 0..MaxEdits

TypeInv ==
  /\ FileTyped /\ HeaderTyped /\ DirectoriesTyped /\ SegmentsTyped
  /\ NextTyped /\ WritesTyped /\ CallTyped /\ OpInPhase /\ ClientTyped
  /\ BoundsTyped

LEMMA KeyProperties ==
  /\ \A j, k : SubBlock(j) = SubBlock(k) => j = k
  /\ \A j, k : Attachment(j) = Attachment(k) => j = k
  /\ \A j, k : SubBlock(j) # Attachment(k)
BY DEF SubBlock, Attachment

LEMMA TypeImplied == TypeInv => TypeOK
<1> SUFFICES ASSUME TypeInv PROVE TypeOK
  OBVIOUS
<1>1. \A x \in file : x.lo \in Nat /\ x.hi \in Nat
  BY WellFormedBounds DEF TypeInv, FileTyped, IsCziFile
<1>2. PositionsOrNone \subseteq Nat /\ BehindHeader \subseteq Nat
  BY DEF PositionsOrNone, BehindHeader
<1>3. /\ hdrSegmentData \in [guid : Guids \cup {TornGuid},
                             subBlockDirectory : Nat, attachmentDirectory : Nat,
                             metadata : Nat]
      /\ lastSegmentPos \in Nat /\ nextSegmentPos \in Nat
  BY <1>2 DEF TypeInv, HeaderTyped, NextTyped, FileGuids
<1>4. /\ DirectoryOK(sbBlkDirectory, SubBlocks)
      /\ DirectoryOK(attachmentDirectory, Attachments)
  BY <1>2 DEF TypeInv, DirectoriesTyped, IsDirectory, DirectoryOK,
              SubBlockEntries, AttachmentEntries
<1>5. /\ metadataSegment \in LiveSegments
      /\ subBlockDirectorySegment \in LiveSegments
      /\ attachmentDirectorySegment \in LiveSegments
  BY DEF TypeInv, SegmentsTyped, PlacedSegments
<1> QED BY <1>1, <1>3, <1>4, <1>5
        DEF TypeInv, CallTyped, ClientTyped, BoundsTyped, SubBlockOps,
            AttachmentOps, TypeOK

LEMMA TypeInit == Init => TypeInv
<1> SUFFICES ASSUME Init PROVE TypeInv
  OBVIOUS
<1>1. FileTyped
  BY FilesAssumption, NoWrites DEF Init, FileTyped
<1>2. HeaderTyped
  BY DEF Init, HeaderTyped, NoHeader, FileGuids, PositionsOrNone
<1>3. DirectoriesTyped
  BY EmptyIsDirectory DEF Init, DirectoriesTyped
<1>4. SegmentsTyped
  BY PlacedTyped DEF Init, SegmentsTyped
<1>5. NextTyped
  BY DEF Init, NextTyped, AppendOps, PositionsOrNone
<1>6. WritesTyped
  BY NoEdits DEF Init, WritesTyped
<1>7. CallTyped
  BY DEF Init, CallTyped, Ops, SubBlockOps, AttachmentOps
<1>8. OpInPhase
  BY DEF Init, OpInPhase, CreateOps, CloseOps
<1>9. ClientTyped /\ BoundsTyped
  <2>1. stream \in BOOLEAN
    BY DEF Init
  <2>2. faults = 0 /\ sessions = 0 /\ edits = 0 /\ known = {} /\ meta = NoMeta
        /\ phase = "none"
    BY DEF Init
  <2> QED BY <2>1, <2>2, ReaderWriterAssumption DEF ClientTyped, BoundsTyped
<1> QED BY <1>1, <1>2, <1>3, <1>4, <1>5, <1>6, <1>7, <1>8, <1>9 DEF TypeInv

LEMMA NextSegmentTyped ==
  ASSUME TypeInv, NEW n \in EnsureNextSegmentInfo
  PROVE  n \in BehindHeader
<1>1. CASE nextSegmentPos # 0
  BY <1>1 DEF TypeInv, NextTyped, PositionsOrNone, EnsureNextSegmentInfo
<1>2. CASE nextSegmentPos = 0
  <2>1. PICK a \in AllocatedSize(file, lastSegmentPos) :
          n = lastSegmentPos + SegmentHeaderSize + a
    BY <1>2 DEF EnsureNextSegmentInfo
  <2> QED BY <2>1, AllocatedTyped DEF TypeInv, FileTyped, HeaderTyped
<1> QED BY <1>1, <1>2

\* A call has ended.
LEMMA CallEnded ==
  ASSUME op' = "idle", writes' = <<>>
  PROVE  CallTyped' /\ WritesTyped' /\ GoodWrites(writes)'
<1>1. CallTyped'
  BY DEF CallTyped, Ops, SubBlockOps, AttachmentOps
<1>2. WritesTyped'
  BY NoEdits DEF WritesTyped
<1> QED BY <1>1, <1>2, NoWrites

\* Create
LEMMA TypeCreateNew ==
  ASSUME TypeInv, CreateNew
  PROVE  TypeInv'
<1>1. PICK g \in Guids :
        Begin("WriteHeader", g, NoKey, WriteHeaderSegment(g, 0, 0, 0))
  BY DEF CreateNew
<1>2. op' = "WriteHeader" /\ item' = g
      /\ writes' = WriteHeaderSegment(g, 0, 0, 0)
  BY <1>1 DEF Begin
<1>3. FileTyped'
  <2>1. g \in FileGuids /\ 0 \in PositionsOrNone
    BY DEF FileGuids, PositionsOrNone
  <2>2. GoodWrites(WriteHeaderSegment(g, 0, 0, 0))
    BY <2>1, HeaderWritten
  <2> QED BY <1>2, <2>2 DEF TypeInv, FileTyped, CreateNew, Create
<1>4. HeaderTyped' /\ DirectoriesTyped' /\ SegmentsTyped'
  BY DEF TypeInv, HeaderTyped, DirectoriesTyped, SegmentsTyped, CreateNew,
         Create, directories, segments
<1>5. NextTyped'
  BY <1>2 DEF TypeInv, NextTyped, CreateNew, Create, AppendOps
<1>6. WritesTyped'
  BY <1>2 DEF WritesTyped, CreateOps
<1>7. CallTyped'
  BY <1>2 DEF CallTyped, Ops, SubBlockOps, AttachmentOps
<1>8. OpInPhase'
  BY <1>2 DEF OpInPhase, CreateOps, CloseOps, CreateNew, Create
<1>9. ClientTyped'
  BY DEF TypeInv, ClientTyped, CreateNew, Create, directories
<1>10. BoundsTyped'
  BY ReaderWriterAssumption DEF TypeInv, BoundsTyped, CreateNew, Create
<1> QED BY <1>3, <1>4, <1>5, <1>6, <1>7, <1>8, <1>9, <1>10 DEF TypeInv

LEMMA TypeOpenDocument ==
  ASSUME TypeInv, OpenDocument
  PROVE  TypeInv'
<1>1. /\ op' = "ReadCziStructure" /\ item' \in Guids \cup {NoItem}
      /\ GoodWrites(writes') /\ \A w \in Range(writes') : w.pos >= 48
  <2>1. CASE Begin("ReadCziStructure", NoItem, NoKey, <<>>)
    BY <2>1, NoWrites DEF Begin
  <2>2. CASE \E g \in Guids :
               Begin("ReadCziStructure", g, NoKey, UpdateFileHeaderGuid(g))
    <3>1. PICK g \in Guids :
            Begin("ReadCziStructure", g, NoKey, UpdateFileHeaderGuid(g))
      BY <2>2
    <3>2. g \in FileGuids
      BY DEF FileGuids
    <3> QED BY <3>1, <3>2, GuidsWritten DEF Begin
  <2> QED BY <2>1, <2>2 DEF OpenDocument
<1>2. FileTyped'
  BY <1>1 DEF TypeInv, FileTyped, OpenDocument, Create
<1>3. HeaderTyped' /\ DirectoriesTyped' /\ SegmentsTyped'
  BY DEF TypeInv, HeaderTyped, DirectoriesTyped, SegmentsTyped, OpenDocument,
         Create, directories, segments
<1>4. NextTyped'
  BY <1>1 DEF TypeInv, NextTyped, OpenDocument, Create, AppendOps
<1>5. WritesTyped'
  BY <1>1 DEF WritesTyped, CreateOps, OpenDocument, Create
<1>6. CallTyped'
  BY <1>1 DEF CallTyped, Ops, SubBlockOps, AttachmentOps
<1>7. OpInPhase'
  BY <1>1 DEF OpInPhase, CreateOps, CloseOps, OpenDocument, Create
<1>8. ClientTyped'
  BY DEF TypeInv, ClientTyped, OpenDocument, Create, directories
<1>9. BoundsTyped'
  BY ReaderWriterAssumption DEF TypeInv, BoundsTyped, OpenDocument, Create
<1> QED BY <1>2, <1>3, <1>4, <1>5, <1>6, <1>7, <1>8, <1>9 DEF TypeInv

LEMMA TypeCreatedNew ==
  ASSUME TypeInv, CreatedNew
  PROVE  TypeInv'
<1>1. op' = "idle" /\ writes' = <<>> /\ item \in Guids
  BY DEF CreatedNew, Done, ReturnToClient, TypeInv, CallTyped
<1>2. FileTyped' /\ WritesTyped' /\ CallTyped'
  BY <1>1, CallEnded DEF TypeInv, FileTyped, CreatedNew
<1>3. HeaderTyped'
  BY <1>1 DEF HeaderTyped, NoHeader, CreatedNew, FileGuids, PositionsOrNone
<1>4. DirectoriesTyped' /\ SegmentsTyped'
  BY DEF TypeInv, DirectoriesTyped, SegmentsTyped, CreatedNew, directories,
         segments
<1>5. NextTyped'
  BY <1>1 DEF TypeInv, NextTyped, CreatedNew, AppendOps
<1>6. OpInPhase'
  BY <1>1 DEF OpInPhase, CreateOps, CloseOps, CreatedNew
<1>7. ClientTyped' /\ BoundsTyped'
  BY DEF TypeInv, ClientTyped, BoundsTyped, CreatedNew, directories, bounds
<1> QED BY <1>2, <1>3, <1>4, <1>5, <1>6, <1>7 DEF TypeInv

LEMMA TypeCreateThrows ==
  ASSUME TypeInv, CreateThrows
  PROVE  TypeInv'
<1>1. op' = "idle" /\ writes' = <<>>
  BY DEF CreateThrows, Done, ReturnToClient
<1>2. FileTyped' /\ WritesTyped' /\ CallTyped'
  BY <1>1, CallEnded DEF TypeInv, FileTyped, CreateThrows
<1>3. HeaderTyped' /\ DirectoriesTyped' /\ SegmentsTyped'
  BY DEF TypeInv, HeaderTyped, DirectoriesTyped, SegmentsTyped, CreateThrows,
         directories, segments
<1>4. NextTyped'
  BY <1>1 DEF TypeInv, NextTyped, CreateThrows, AppendOps
<1>5. OpInPhase'
  BY <1>1 DEF OpInPhase, CreateOps, CloseOps, CreateThrows
<1>6. ClientTyped' /\ BoundsTyped'
  BY DEF TypeInv, ClientTyped, BoundsTyped, CreateThrows, directories, bounds
<1> QED BY <1>2, <1>3, <1>4, <1>5, <1>6 DEF TypeInv

LEMMA GuidFoundTyped ==
  ASSUME NEW f, IsCziFile(f)
  PROVE  FileGuidIn(f) \in FileGuids
<1> DEFINE found == {x.what[2] : x \in {y \in f : y.what[1] = "FileGuid"}}
<1>1. found \subseteq FileGuids
  <2> SUFFICES ASSUME NEW x \in f, x.what[1] = "FileGuid"
               PROVE  x.what[2] \in FileGuids
    OBVIOUS
  <2>1. WellFormed(x)
    BY DEF IsCziFile
  <2>2. PICK g \in FileGuids : x = FileGuid(g)
    BY <2>1 DEF WellFormed, FileGuids
  <2> QED BY <2>2, GuidWellFormed
<1>2. FileGuidIn(f) = IF found = {} THEN TornGuid ELSE CHOOSE g \in found : TRUE
  BY DEF FileGuidIn
<1> HIDE DEF found
<1> QED BY <1>1, <1>2 DEF FileGuids

LEMMA TypeReadCziStructure ==
  ASSUME TypeInv, ReadCziStructure
  PROVE  TypeInv'
<1>1. op' = "idle" /\ writes' = <<>>
  BY DEF ReadCziStructure, Done, ReturnToClient
<1>2. FileTyped' /\ WritesTyped' /\ CallTyped'
  BY <1>1, CallEnded DEF TypeInv, FileTyped, ReadCziStructure
<1>3. IsCziFile(file) /\ HasMagic(file, 0, "ZISRAWFILE")
      /\ item \in Guids \cup {NoItem}
  BY DEF TypeInv, FileTyped, WritesTyped, CallTyped, ReadCziStructure, Done
<1>4. PICK p \in HeaderField(file, "SubBlockDirectoryPosition"),
           q \in HeaderField(file, "AttachmentDirectoryPosition"),
           r \in HeaderField(file, "MetadataPosition") :
        \E dir \in SubBlkDirAt(file, p), a \in AllocatedSize(file, p),
           att \in AttachmentDirectories(q), md \in MetadataSegments(r) :
          /\ hdrSegmentData' = [guid |-> GuidKept(file, item),
                                subBlockDirectory |-> p,
                                attachmentDirectory |-> q, metadata |-> r]
          /\ sbBlkDirectory' = DirectoryOf(dir)
          /\ subBlockDirectorySegment' = SegmentAt(p, a, FALSE)
          /\ attachmentDirectory' = DirectoryOf(att[1])
          /\ attachmentDirectorySegment' = att[2]
          /\ metadataSegment' = md
          /\ meta' = MetadataRead(md)
          /\ kept' = {SubBlock(k) : k \in Found(dir, SubBlockAt)}
                       \cup {Attachment(k) : k \in Found(att[1], AttachmentAt)}
          /\ untouched' = {dir[k + 1] : k \in Found(dir, SubBlockAt)}
  BY Zenon DEF ReadCziStructure
<1>5. PICK dir \in SubBlkDirAt(file, p), a \in AllocatedSize(file, p),
           att \in AttachmentDirectories(q), md \in MetadataSegments(r) :
        /\ hdrSegmentData' = [guid |-> GuidKept(file, item),
                              subBlockDirectory |-> p,
                              attachmentDirectory |-> q, metadata |-> r]
        /\ sbBlkDirectory' = DirectoryOf(dir)
        /\ subBlockDirectorySegment' = SegmentAt(p, a, FALSE)
        /\ attachmentDirectory' = DirectoryOf(att[1])
        /\ attachmentDirectorySegment' = att[2]
        /\ metadataSegment' = md
        /\ meta' = MetadataRead(md)
        /\ kept' = {SubBlock(k) : k \in Found(dir, SubBlockAt)}
                     \cup {Attachment(k) : k \in Found(att[1], AttachmentAt)}
        /\ untouched' = {dir[k + 1] : k \in Found(dir, SubBlockAt)}
  BY <1>4, Zenon
<1>6. p \in PositionsOrNone /\ q \in PositionsOrNone /\ r \in PositionsOrNone
  BY <1>3, HeaderFieldsTyped
<1>7. /\ dir \in Seq(SubBlockEntries)
      /\ HasMagic(file, p, "ZISRAWDIRECTORY") /\ p \in BehindHeader
  <2>1. dir \in Seq(SubBlockEntries) /\ HasMagic(file, p, "ZISRAWDIRECTORY")
    BY <1>3, SubBlkDirTyped
  <2>2. p # 0
    BY <1>3, <2>1, OneMagic
  <2> QED BY <1>6, <2>1, <2>2 DEF PositionsOrNone
<1>8. att[1] \in Seq(AttachmentEntries) /\ att[2] \in PlacedSegments
  BY <1>3, <1>6, AttachmentDirectoriesTyped
<1>9. DirectoriesTyped'
  BY <1>5, <1>7, <1>8, ReadIsDirectory DEF DirectoriesTyped
<1>10. SegmentsTyped'
  <2>1. md \in PlacedSegments
    BY <1>3, <1>6, MetadataSegmentsTyped
  <2>2. a \in Nat /\ SegmentAt(p, a, FALSE) \in PlacedSegments
    <3>1. p \in Nat
      BY <1>7 DEF BehindHeader
    <3>2. a \in Nat
      BY <1>3, <3>1, AllocatedTyped
    <3> QED BY <1>7, <3>2, PlacedTyped
  <2> QED BY <1>5, <1>8, <2>1, <2>2 DEF SegmentsTyped
<1>11. /\ hdrSegmentData' \in
            [guid : FileGuids, subBlockDirectory : PositionsOrNone,
             attachmentDirectory : PositionsOrNone, metadata : PositionsOrNone]
  <2>1. GuidKept(file, item) \in FileGuids
    BY <1>3, GuidFoundTyped DEF GuidKept, FileGuids
  <2> QED BY <1>5, <1>6, <2>1
<1>12. lastSegmentPos' \in PositionsOrNone
  <2> DEFINE all == {e.pos : e \in EntriesOf(sbBlkDirectory')
                                     \cup EntriesOf(attachmentDirectory')}
                      \cup {hdrSegmentData'.subBlockDirectory,
                            hdrSegmentData'.attachmentDirectory,
                            hdrSegmentData'.metadata, 0}
  <2>1. \A e \in EntriesOf(sbBlkDirectory') \cup EntriesOf(attachmentDirectory') :
          e.pos \in BehindHeader
    BY <1>9 DEF DirectoriesTyped, IsDirectory, EntriesOf, SubBlockEntries,
                AttachmentEntries
  <2>2. all \subseteq PositionsOrNone
    BY <1>11, <2>1 DEF PositionsOrNone
  <2>3. lastSegmentPos' = CHOOSE n \in all : \A m \in all : m <= n
    BY DEF ReadCziStructure, DetermineNextSubBlockOffset
  <2>4. \E n \in all : \A m \in all : m <= n
    <3> DEFINE P == {e.pos : e \in EntriesOf(sbBlkDirectory')}
               Q == {e.pos : e \in EntriesOf(attachmentDirectory')}
               R == {hdrSegmentData'.subBlockDirectory,
                     hdrSegmentData'.attachmentDirectory,
                     hdrSegmentData'.metadata, 0}
    <3>1. all = (P \cup Q) \cup R /\ 0 \in all
      OBVIOUS
    <3>2. IsFiniteSet(P) /\ IsFiniteSet(Q)
      BY <1>9, PositionsFinite DEF DirectoriesTyped
    <3>3. IsFiniteSet(R)
      BY FourParts
    <3> HIDE DEF P, Q, R, all
    <3>4. IsFiniteSet(all)
      BY <3>1, <3>2, <3>3, FS_Union
    <3>5. all \subseteq Nat
      BY <2>2 DEF PositionsOrNone, BehindHeader
    <3> QED BY <3>1, <3>4, <3>5, Greatest
  <2> HIDE DEF all
  <2> QED BY <2>2, <2>3, <2>4
<1>13. HeaderTyped'
  BY <1>11, <1>12 DEF HeaderTyped
<1>14. NextTyped'
  BY <1>1 DEF TypeInv, NextTyped, ReadCziStructure, AppendOps
<1>15. OpInPhase'
  BY <1>1 DEF OpInPhase, CreateOps, CloseOps, ReadCziStructure
<1>16. ClientTyped'
  <2>1. meta' \in Metadatas \cup {NoMeta, UnknownMeta}
    <3> DEFINE found == {m \in Metadatas : MetadataAt(file, md.pos, m)}
    <3>1. MetadataRead(md) \in {NoMeta, UnknownMeta} \cup found
      BY DEF MetadataRead
    <3> QED BY <1>5, <3>1
  <2>2. /\ Found(dir, SubBlockAt) \subseteq 0 .. Len(dir) - 1
        /\ Found(att[1], AttachmentAt) \subseteq 0 .. Len(att[1]) - 1
    BY DEF Found
  <2>3. /\ DOMAIN sbBlkDirectory'.entries = 0 .. Len(dir) - 1
        /\ DOMAIN attachmentDirectory'.entries = 0 .. Len(att[1]) - 1
    BY <1>5, <1>7, <1>8, ReadIsDirectory
  <2>4. \A k : /\ SubBlock(k) \in known' => k \in DOMAIN sbBlkDirectory'.entries
               /\ Attachment(k) \in known'
                    => k \in DOMAIN attachmentDirectory'.entries
    <3>1. known' = {SubBlock(k) : k \in Found(dir, SubBlockAt)}
                     \cup {Attachment(k) : k \in Found(att[1], AttachmentAt)}
      BY <1>5 DEF ReadCziStructure
    <3> DEFINE F == Found(dir, SubBlockAt)
               G == Found(att[1], AttachmentAt)
    <3> HIDE DEF F, G
    <3>2. known' = {SubBlock(k) : k \in F} \cup {Attachment(k) : k \in G}
      BY <3>1 DEF F, G
    <3> QED BY <2>2, <2>3, <3>2, KeyProperties DEF F, G
  <2> QED BY <2>1, <2>4 DEF TypeInv, ClientTyped, ReadCziStructure
<1>17. BoundsTyped'
  BY DEF TypeInv, BoundsTyped, ReadCziStructure, bounds
<1> QED BY <1>2, <1>9, <1>10, <1>13, <1>14, <1>15, <1>16, <1>17 DEF TypeInv

\* The calls that edit
LEMMA EditingTyped ==
  ASSUME TypeInv, NEW o \in Ops, NEW i, NEW k, NEW ws, Edit(o, i, k, ws),
         EditWrites(ws), edits < MaxEdits, UNCHANGED <<file, stream, phase>>,
         phase = "open", o \notin CreateOps \cup CloseOps \cup {"idle"}
  PROVE  FileTyped' /\ WritesTyped' /\ OpInPhase' /\ BoundsTyped'
<1>1. op' = o /\ writes' = ws /\ file' = file /\ phase' = "open"
  BY DEF Edit, Begin
<1>2. FileTyped'
  BY <1>1 DEF TypeInv, FileTyped, EditWrites
<1>3. WritesTyped'
  BY <1>1 DEF WritesTyped, CreateOps
<1>4. OpInPhase'
  BY <1>1 DEF OpInPhase, CreateOps, CloseOps
<1>5. BoundsTyped'
  BY ReaderWriterAssumption DEF TypeInv, BoundsTyped, Edit
<1> QED BY <1>2, <1>3, <1>4, <1>5

LEMMA MembersUnchanged ==
  ASSUME TypeInv, UNCHANGED <<opened, segments>>
  PROVE  HeaderTyped' /\ SegmentsTyped'
BY DEF TypeInv, HeaderTyped, SegmentsTyped, opened, segments

LEMMA TypeSyncAddSubBlock ==
  ASSUME TypeInv, NEW c \in SubBlocks, SyncAddSubBlock(c)
  PROVE  TypeInv'
<1>1. PICK n \in BehindHeader : n = nextSegmentPos'
  BY NextSegmentTyped DEF SyncAddSubBlock
<1> DEFINE e == [id |-> c, pos |-> n]
           k == sbBlkDirectory.next
           ws == WriteSubBlock(n, c, SubBlockAllocated(c))
<1>2. /\ sbBlkDirectory' = AddEntry(sbBlkDirectory, e)
      /\ Edit("AddSubBlock", c, k, ws) /\ edits < MaxEdits /\ phase = "open"
      /\ UNCHANGED <<file, opened, attachmentDirectory, segments, client>>
  BY <1>1 DEF SyncAddSubBlock, Callable
<1>3. EditWrites(ws)
  BY <1>1, AllocatedSizes, SubBlockWritten, ItemEdits DEF SegmentHeaderSize
<1>4. e \in SubBlockEntries
  BY <1>1 DEF SubBlockEntries
<1> HIDE DEF e, k, ws
<1>5. FileTyped' /\ WritesTyped' /\ OpInPhase' /\ BoundsTyped'
  BY <1>2, <1>3, EditingTyped
     DEF Ops, CreateOps, CloseOps, opened, client
<1>6. /\ DirectoriesTyped'
      /\ DOMAIN sbBlkDirectory'.entries = DOMAIN sbBlkDirectory.entries \cup {k}
  <2>1. IsDirectory(sbBlkDirectory, SubBlockEntries) /\ IsDirectory(attachmentDirectory, AttachmentEntries)
    BY DEF TypeInv, DirectoriesTyped
  <2>2. /\ IsDirectory(sbBlkDirectory', SubBlockEntries)
        /\ DOMAIN sbBlkDirectory'.entries = DOMAIN sbBlkDirectory.entries \cup {k}
    <3>1. /\ IsDirectory(AddEntry(sbBlkDirectory, e), SubBlockEntries)
          /\ DOMAIN AddEntry(sbBlkDirectory, e).entries
               = DOMAIN sbBlkDirectory.entries \cup {sbBlkDirectory.next}
      BY <1>4, <2>1, AddIsDirectory
    <3> QED BY <1>2, <3>1, Zenon DEF k
  <2>3. IsDirectory(attachmentDirectory', AttachmentEntries)
    BY <1>2, <2>1
  <2> QED BY <2>2, <2>3 DEF DirectoriesTyped
<1>7. HeaderTyped' /\ SegmentsTyped'
  BY <1>2, MembersUnchanged
<1>8. op' = "AddSubBlock" /\ item' = c /\ key' = k
  BY <1>2 DEF Edit, Begin
<1>9. NextTyped'
  BY <1>1, <1>8 DEF NextTyped, PositionsOrNone
<1>10. CallTyped'
  BY <1>6, <1>8 DEF CallTyped, Ops, SubBlockOps, AttachmentOps
<1>11. ClientTyped'
  BY <1>2, <1>6 DEF TypeInv, ClientTyped, opened, client
<1> QED BY <1>5, <1>6, <1>7, <1>9, <1>10, <1>11 DEF TypeInv

LEMMA TypeSyncAddAttachment ==
  ASSUME TypeInv, NEW a \in Attachments, SyncAddAttachment(a)
  PROVE  TypeInv'
<1>1. PICK n \in BehindHeader : n = nextSegmentPos'
  BY NextSegmentTyped DEF SyncAddAttachment
<1> DEFINE e == [id |-> a, pos |-> n]
           k == attachmentDirectory.next
           ws == WriteAttachment(n, a, AttachmentAllocated(a))
<1>2. /\ attachmentDirectory' = AddEntry(attachmentDirectory, e)
      /\ Edit("AddAttachment", a, k, ws) /\ edits < MaxEdits /\ phase = "open"
      /\ UNCHANGED <<file, opened, sbBlkDirectory, segments, client>>
  BY <1>1 DEF SyncAddAttachment, Callable
<1>3. EditWrites(ws)
  BY <1>1, AllocatedSizes, AttachmentWritten, ItemEdits DEF AttachmentUsed
<1>4. e \in AttachmentEntries
  BY <1>1 DEF AttachmentEntries
<1> HIDE DEF e, k, ws
<1>5. FileTyped' /\ WritesTyped' /\ OpInPhase' /\ BoundsTyped'
  BY <1>2, <1>3, EditingTyped
     DEF Ops, CreateOps, CloseOps, opened, client
<1>6. /\ DirectoriesTyped'
      /\ DOMAIN attachmentDirectory'.entries
           = DOMAIN attachmentDirectory.entries \cup {k}
  <2>1. IsDirectory(attachmentDirectory, AttachmentEntries) /\ IsDirectory(sbBlkDirectory, SubBlockEntries)
    BY DEF TypeInv, DirectoriesTyped
  <2>2. /\ IsDirectory(attachmentDirectory', AttachmentEntries)
        /\ DOMAIN attachmentDirectory'.entries = DOMAIN attachmentDirectory.entries \cup {k}
    <3>1. /\ IsDirectory(AddEntry(attachmentDirectory, e), AttachmentEntries)
          /\ DOMAIN AddEntry(attachmentDirectory, e).entries
               = DOMAIN attachmentDirectory.entries \cup {attachmentDirectory.next}
      BY <1>4, <2>1, AddIsDirectory
    <3> QED BY <1>2, <3>1, Zenon DEF k
  <2>3. IsDirectory(sbBlkDirectory', SubBlockEntries)
    BY <1>2, <2>1
  <2> QED BY <2>2, <2>3 DEF DirectoriesTyped
<1>7. HeaderTyped' /\ SegmentsTyped'
  BY <1>2, MembersUnchanged
<1>8. op' = "AddAttachment" /\ item' = a /\ key' = k
  BY <1>2 DEF Edit, Begin
<1>9. NextTyped'
  BY <1>1, <1>8 DEF NextTyped, PositionsOrNone
<1>10. CallTyped'
  BY <1>6, <1>8 DEF CallTyped, Ops, SubBlockOps, AttachmentOps
<1>11. ClientTyped'
  BY <1>2, <1>6 DEF TypeInv, ClientTyped, opened, client
<1> QED BY <1>5, <1>6, <1>7, <1>9, <1>10, <1>11 DEF TypeInv

\* An item that is known has an entry.
LEMMA KnownEntry ==
  ASSUME TypeInv, NEW k
  PROVE  /\ SubBlock(k) \in known =>
              /\ k \in DOMAIN sbBlkDirectory.entries
              /\ sbBlkDirectory.entries[k] \in SubBlockEntries
              /\ sbBlkDirectory.entries[k].pos \in BehindHeader
         /\ Attachment(k) \in known =>
              /\ k \in DOMAIN attachmentDirectory.entries
              /\ attachmentDirectory.entries[k] \in AttachmentEntries
              /\ attachmentDirectory.entries[k].pos \in BehindHeader
BY DEF TypeInv, ClientTyped, DirectoriesTyped, IsDirectory, SubBlockEntries,
       AttachmentEntries

LEMMA TypeReplaceSubBlock ==
  ASSUME TypeInv, NEW k, NEW c \in SubBlocks, ReplaceSubBlock(k, c)
  PROVE  TypeInv'
<1> DEFINE old == sbBlkDirectory.entries[k]
<1>1. /\ old.pos \in BehindHeader /\ old.pos \in Nat
      /\ k \in DOMAIN sbBlkDirectory.entries
  BY KnownEntry DEF ReplaceSubBlock, BehindHeader
<1>2. /\ edits < MaxEdits /\ phase = "open"
      /\ UNCHANGED <<file, opened, directories, segments, phase, known, meta>>
  BY DEF ReplaceSubBlock, Callable
<1>3. \E o \in {"ReplaceSubBlockInplace", "ReplaceSubBlockAddNewAtEnd"} : \E ws :
        /\ Edit(o, c, k, ws) /\ EditWrites(ws)
        /\ o = "ReplaceSubBlockInplace" => UNCHANGED nextSegmentPos
        /\ o = "ReplaceSubBlockAddNewAtEnd" => nextSegmentPos' \in BehindHeader
  <2>1. PICK existing \in AllocatedSize(file, old.pos) :
          \/ /\ existing + SegmentHeaderSize
                  >= SubBlockHeadSize + SubBlockSize[c]
             /\ Edit("ReplaceSubBlockInplace", c, k,
                      WriteSubBlock(old.pos, c, existing))
             /\ UNCHANGED nextSegmentPos
          \/ /\ nextSegmentPos' \in EnsureNextSegmentInfo
             /\ Edit("ReplaceSubBlockAddNewAtEnd", c, k,
                      WriteSubBlock(nextSegmentPos', c, SubBlockAllocated(c))
                        \o WriteDeletedSegment(old.pos))
    BY DEF ReplaceSubBlock
  <2>2. existing \in Nat
    BY <1>1, AllocatedTyped DEF TypeInv, FileTyped
  <2>3. CASE /\ existing + SegmentHeaderSize
                  >= SubBlockHeadSize + SubBlockSize[c]
             /\ Edit("ReplaceSubBlockInplace", c, k,
                      WriteSubBlock(old.pos, c, existing))
             /\ UNCHANGED nextSegmentPos
    <3> HIDE DEF old
    <3>1. SubBlockHeadSize + SubBlockSize[c] <= existing + SegmentHeaderSize
      BY <2>2, <2>3, HeadSizes, SizesAreNat DEF SegmentHeaderSize
    <3>2. EditWrites(WriteSubBlock(old.pos, c, existing))
      BY <1>1, <2>2, <3>1, SubBlockWritten, ItemEdits
    <3> QED BY <2>3, <3>2
  <2>4. CASE /\ nextSegmentPos' \in EnsureNextSegmentInfo
             /\ Edit("ReplaceSubBlockAddNewAtEnd", c, k,
                      WriteSubBlock(nextSegmentPos', c, SubBlockAllocated(c))
                        \o WriteDeletedSegment(old.pos))
    <3> DEFINE n == nextSegmentPos'
    <3>1. n \in BehindHeader
      BY <2>4, NextSegmentTyped
    <3> HIDE DEF old
    <3>2. EditWrites(WriteSubBlock(n, c, SubBlockAllocated(c)))
      BY <3>1, AllocatedSizes, SubBlockWritten, ItemEdits DEF SegmentHeaderSize
    <3>3. EditWrites(WriteSubBlock(n, c, SubBlockAllocated(c))
                       \o WriteDeletedSegment(old.pos))
      BY <1>1, <3>2, MarkEdits, EditsJoined
    <3> QED BY <2>4, <3>1, <3>3
  <2> QED BY <2>1, <2>3, <2>4
<1>4. PICK o \in {"ReplaceSubBlockInplace", "ReplaceSubBlockAddNewAtEnd"} :
      \E ws :
        /\ Edit(o, c, k, ws) /\ EditWrites(ws)
        /\ o = "ReplaceSubBlockInplace" => UNCHANGED nextSegmentPos
        /\ o = "ReplaceSubBlockAddNewAtEnd" => nextSegmentPos' \in BehindHeader
  BY <1>3
<1>5. op' = o /\ item' = c /\ key' = k
  BY <1>4 DEF Edit, Begin
<1>6. FileTyped' /\ WritesTyped' /\ OpInPhase' /\ BoundsTyped'
  <2>1. o \in Ops /\ o \notin CreateOps \cup CloseOps \cup {"idle"}
        /\ UNCHANGED <<file, stream, phase>>
    BY <1>2 DEF Ops, CreateOps, CloseOps, opened
  <2> QED BY <1>2, <1>4, <2>1, EditingTyped
<1>7. DirectoriesTyped'
  BY <1>2 DEF TypeInv, DirectoriesTyped, directories
<1>8. HeaderTyped' /\ SegmentsTyped'
  BY <1>2, MembersUnchanged
<1>9. NextTyped'
  BY <1>4, <1>5 DEF TypeInv, NextTyped, PositionsOrNone, AppendOps
<1>10. CallTyped'
  BY <1>1, <1>2, <1>5
     DEF CallTyped, Ops, SubBlockOps, AttachmentOps, directories
<1>11. ClientTyped'
  BY <1>2 DEF TypeInv, ClientTyped, opened, directories
<1> QED BY <1>6, <1>7, <1>8, <1>9, <1>10, <1>11 DEF TypeInv

LEMMA TypeReplaceAttachment ==
  ASSUME TypeInv, NEW k, NEW a \in Attachments, ReplaceAttachment(k, a)
  PROVE  TypeInv'
<1> DEFINE old == attachmentDirectory.entries[k]
<1>1. /\ old.pos \in BehindHeader /\ old.pos \in Nat
      /\ k \in DOMAIN attachmentDirectory.entries
  BY KnownEntry DEF ReplaceAttachment, BehindHeader
<1>2. /\ edits < MaxEdits /\ phase = "open"
      /\ UNCHANGED <<file, opened, directories, segments, phase, known, meta>>
  BY DEF ReplaceAttachment, Callable
<1>3. \E o \in {"ReplaceAttachmentInplace", "ReplaceAttachmentAddNewAtEnd"} :
      \E ws :
        /\ Edit(o, a, k, ws) /\ EditWrites(ws)
        /\ o = "ReplaceAttachmentInplace" => UNCHANGED nextSegmentPos
        /\ o = "ReplaceAttachmentAddNewAtEnd" => nextSegmentPos' \in BehindHeader
  <2>1. PICK existing \in AllocatedSize(file, old.pos) :
          \/ /\ existing >= AttachmentUsed(a)
             /\ Edit("ReplaceAttachmentInplace", a, k,
                      WriteAttachment(old.pos, a, existing))
             /\ UNCHANGED nextSegmentPos
          \/ /\ nextSegmentPos' \in EnsureNextSegmentInfo
             /\ Edit("ReplaceAttachmentAddNewAtEnd", a, k,
                      WriteAttachment(nextSegmentPos', a,
                                      AttachmentAllocated(a))
                        \o WriteDeletedSegment(old.pos))
    BY DEF ReplaceAttachment
  <2>2. existing \in Nat
    BY <1>1, AllocatedTyped DEF TypeInv, FileTyped
  <2>3. CASE /\ existing >= AttachmentUsed(a)
             /\ Edit("ReplaceAttachmentInplace", a, k,
                      WriteAttachment(old.pos, a, existing))
             /\ UNCHANGED nextSegmentPos
    <3> HIDE DEF old
    <3>1. AttachmentUsed(a) <= existing
      BY <2>2, <2>3, SizesAreNat DEF AttachmentUsed
    <3>2. EditWrites(WriteAttachment(old.pos, a, existing))
      BY <1>1, <2>2, <3>1, AttachmentWritten, ItemEdits
    <3> QED BY <2>3, <3>2
  <2>4. CASE /\ nextSegmentPos' \in EnsureNextSegmentInfo
             /\ Edit("ReplaceAttachmentAddNewAtEnd", a, k,
                      WriteAttachment(nextSegmentPos', a,
                                      AttachmentAllocated(a))
                        \o WriteDeletedSegment(old.pos))
    <3>1. PICK n \in BehindHeader : n = nextSegmentPos'
      BY <2>4, NextSegmentTyped
    <3> HIDE DEF old
    <3>2. EditWrites(WriteAttachment(n, a, AttachmentAllocated(a)))
      BY <3>1, AllocatedSizes, AttachmentWritten, ItemEdits DEF AttachmentUsed
    <3>3. EditWrites(WriteAttachment(n, a, AttachmentAllocated(a))
                       \o WriteDeletedSegment(old.pos))
      BY <1>1, <3>2, MarkEdits, EditsJoined
    <3> QED BY <2>4, <3>1, <3>3
  <2> QED BY <2>1, <2>3, <2>4
<1>4. PICK o \in {"ReplaceAttachmentInplace", "ReplaceAttachmentAddNewAtEnd"} :
      \E ws :
        /\ Edit(o, a, k, ws) /\ EditWrites(ws)
        /\ o = "ReplaceAttachmentInplace" => UNCHANGED nextSegmentPos
        /\ o = "ReplaceAttachmentAddNewAtEnd" => nextSegmentPos' \in BehindHeader
  BY <1>3
<1>5. op' = o /\ item' = a /\ key' = k
  BY <1>4 DEF Edit, Begin
<1>6. FileTyped' /\ WritesTyped' /\ OpInPhase' /\ BoundsTyped'
  <2>1. o \in Ops /\ o \notin CreateOps \cup CloseOps \cup {"idle"}
        /\ UNCHANGED <<file, stream, phase>>
    BY <1>2 DEF Ops, CreateOps, CloseOps, opened
  <2> QED BY <1>2, <1>4, <2>1, EditingTyped
<1>7. DirectoriesTyped'
  BY <1>2 DEF TypeInv, DirectoriesTyped, directories
<1>8. HeaderTyped' /\ SegmentsTyped'
  BY <1>2, MembersUnchanged
<1>9. NextTyped'
  BY <1>4, <1>5 DEF TypeInv, NextTyped, PositionsOrNone, AppendOps
<1>10. CallTyped'
  BY <1>1, <1>2, <1>5
     DEF CallTyped, Ops, SubBlockOps, AttachmentOps, directories
<1>11. ClientTyped'
  BY <1>2 DEF TypeInv, ClientTyped, opened, directories
<1> QED BY <1>6, <1>7, <1>8, <1>9, <1>10, <1>11 DEF TypeInv

LEMMA TypeRemove ==
  ASSUME TypeInv, NEW k, RemoveSubBlock(k) \/ RemoveAttachment(k)
  PROVE  TypeInv'
<1>1. PICK pos \in BehindHeader : Edit("Remove", NoItem, k, WriteDeletedSegment(pos))
  BY KnownEntry DEF RemoveSubBlock, RemoveAttachment
<1>2. EditWrites(WriteDeletedSegment(pos))
  BY MarkEdits
<1>3. /\ edits < MaxEdits /\ phase = "open"
      /\ UNCHANGED <<file, opened, nextSegmentPos, segments, phase, meta>>
  BY DEF RemoveSubBlock, RemoveAttachment, Callable
<1>4. FileTyped' /\ WritesTyped' /\ OpInPhase' /\ BoundsTyped'
  <2>1. UNCHANGED <<file, stream, phase>>
    BY <1>3 DEF opened
  <2> QED BY <1>1, <1>2, <1>3, <2>1, EditingTyped DEF Ops, CreateOps, CloseOps
<1>5. HeaderTyped' /\ SegmentsTyped'
  BY <1>3, MembersUnchanged
<1>6. op' = "Remove"
  BY <1>1 DEF Edit, Begin
<1>7. NextTyped'
  BY <1>3, <1>6 DEF TypeInv, NextTyped, AppendOps
<1>8. CallTyped'
  BY <1>6 DEF CallTyped, Ops, SubBlockOps, AttachmentOps
<1>9. IsDirectory(sbBlkDirectory, SubBlockEntries)
      /\ IsDirectory(attachmentDirectory, AttachmentEntries)
  BY DEF TypeInv, DirectoriesTyped
<1>10. CASE RemoveSubBlock(k)
  <2>1. /\ IsDirectory(sbBlkDirectory', SubBlockEntries)
        /\ DOMAIN sbBlkDirectory'.entries = DOMAIN sbBlkDirectory.entries \ {k}
        /\ UNCHANGED attachmentDirectory /\ known' = known \ {SubBlock(k)}
    BY <1>9, <1>10, RemoveIsDirectory DEF RemoveSubBlock
  <2>2. DirectoriesTyped'
    BY <1>9, <2>1 DEF DirectoriesTyped
  <2>3. ClientTyped'
    BY <1>3, <2>1, KeyProperties DEF TypeInv, ClientTyped, opened
  <2> QED BY <1>4, <1>5, <1>7, <1>8, <2>2, <2>3 DEF TypeInv
<1>11. CASE RemoveAttachment(k)
  <2>1. /\ IsDirectory(attachmentDirectory', AttachmentEntries)
        /\ DOMAIN attachmentDirectory'.entries
             = DOMAIN attachmentDirectory.entries \ {k}
        /\ UNCHANGED sbBlkDirectory /\ known' = known \ {Attachment(k)}
    BY <1>9, <1>11, RemoveIsDirectory DEF RemoveAttachment
  <2>2. DirectoriesTyped'
    BY <1>9, <2>1 DEF DirectoriesTyped
  <2>3. ClientTyped'
    BY <1>3, <2>1, KeyProperties DEF TypeInv, ClientTyped, opened
  <2> QED BY <1>4, <1>5, <1>7, <1>8, <2>2, <2>3 DEF TypeInv
<1> QED BY <1>10, <1>11

LEMMA TypeSyncWriteMetadata ==
  ASSUME TypeInv, NEW m \in Metadatas, SyncWriteMetadata(m)
  PROVE  TypeInv'
<1>1. PICK n \in BehindHeader : n = nextSegmentPos'
  BY NextSegmentTyped DEF SyncWriteMetadata
<1> DEFINE ws == WriteMetadata(metadataSegment, m, n)
<1>2. /\ edits < MaxEdits /\ phase = "open"
      /\ Edit("WriteMetadata", m, NoKey, ws)
      /\ UNCHANGED <<file, opened, directories, segments, client>>
  BY <1>1 DEF SyncWriteMetadata, Callable
<1>3. EditWrites(ws)
  BY MetadataEdits DEF TypeInv, SegmentsTyped
<1> HIDE DEF ws
<1>4. FileTyped' /\ WritesTyped' /\ OpInPhase' /\ BoundsTyped'
  BY <1>2, <1>3, EditingTyped DEF Ops, CreateOps, CloseOps, opened, client
<1>5. HeaderTyped' /\ SegmentsTyped'
  BY <1>2, MembersUnchanged
<1>6. op' = "WriteMetadata" /\ item' = m
  BY <1>2 DEF Edit, Begin
<1>7. NextTyped'
  BY <1>1, <1>6 DEF NextTyped, PositionsOrNone
<1>8. CallTyped'
  BY <1>6 DEF CallTyped, Ops, SubBlockOps, AttachmentOps
<1>9. DirectoriesTyped' /\ ClientTyped'
  BY <1>2 DEF TypeInv, DirectoriesTyped, ClientTyped, directories, client,
              opened
<1> QED BY <1>4, <1>5, <1>7, <1>8, <1>9 DEF TypeInv

\* What happens when the writes of a call have been made
LEMMA BytesTyped ==
  /\ \A c \in SubBlocks : SubBlockBytes(c, SubBlockAllocated(c)) \in Nat
  /\ \A a \in Attachments : AttachmentBytes(a, AttachmentAllocated(a)) \in Nat
<1>1. 0 \in Nat
  OBVIOUS
<1> QED BY <1>1, SubBlockWrites, AttachmentWrites

LEMMA EndingTyped ==
  ASSUME TypeInv, writes = <<>>, ReturnToClient, UNCHANGED <<file, bounds>>,
         phase' \in {"open", "closed"} \/ UNCHANGED phase,
         phase # "creating"
  PROVE  /\ FileTyped' /\ WritesTyped' /\ CallTyped' /\ OpInPhase'
         /\ BoundsTyped'
         /\ nextSegmentPos' \in PositionsOrNone => NextTyped'
<1>1. op' = "idle" /\ writes' = <<>>
  BY DEF ReturnToClient
<1>2. FileTyped' /\ WritesTyped' /\ CallTyped'
  BY <1>1, CallEnded DEF TypeInv, FileTyped
<1>3. OpInPhase'
  BY <1>1 DEF TypeInv, OpInPhase, CreateOps, CloseOps
<1>4. BoundsTyped'
  BY DEF TypeInv, BoundsTyped, bounds
<1>5. nextSegmentPos' \in PositionsOrNone => NextTyped'
  BY <1>1 DEF NextTyped, AppendOps
<1> QED BY <1>2, <1>3, <1>4, <1>5

LEMMA Appended ==
  ASSUME NEW n \in BehindHeader, NEW m \in Nat
  PROVE  n + m \in PositionsOrNone
BY DEF BehindHeader, PositionsOrNone, FileHeaderSegmentSize

LEMMA TypeAdded ==
  ASSUME TypeInv, SubBlockAdded \/ AttachmentAdded
  PROVE  TypeInv'
<1>1. /\ writes = <<>> /\ ReturnToClient /\ UNCHANGED <<file, bounds, phase>>
      /\ UNCHANGED <<opened, directories, segments, meta>>
      /\ op \in {"AddSubBlock", "AddAttachment"}
  BY DEF SubBlockAdded, AttachmentAdded, Done
<1>2. phase # "creating" /\ nextSegmentPos \in BehindHeader
  BY <1>1 DEF TypeInv, OpInPhase, NextTyped, CreateOps, AppendOps
<1>3. nextSegmentPos' \in PositionsOrNone
  <2>1. PICK m \in Nat : nextSegmentPos' = nextSegmentPos + m
    BY BytesTyped DEF TypeInv, CallTyped, SubBlockOps, AttachmentOps, Done,
                      SubBlockAdded, AttachmentAdded
  <2> QED BY <1>2, <2>1, Appended
<1>4. /\ FileTyped' /\ WritesTyped' /\ CallTyped' /\ OpInPhase' /\ BoundsTyped'
      /\ NextTyped'
  BY <1>1, <1>2, <1>3, EndingTyped
<1>5. HeaderTyped' /\ SegmentsTyped'
  BY <1>1, MembersUnchanged
<1>6. DirectoriesTyped'
  BY <1>1 DEF TypeInv, DirectoriesTyped, directories
<1>7. ClientTyped'
  <2>1. \A k : SubBlock(k) \in known' => k \in DOMAIN sbBlkDirectory.entries
    BY KeyProperties DEF TypeInv, ClientTyped, CallTyped, SubBlockOps, Done,
                         SubBlockAdded, AttachmentAdded
  <2>2. \A k : Attachment(k) \in known' =>
                 k \in DOMAIN attachmentDirectory.entries
    BY KeyProperties DEF TypeInv, ClientTyped, CallTyped, AttachmentOps, Done,
                         SubBlockAdded, AttachmentAdded
  <2> QED BY <1>1, <2>1, <2>2 DEF TypeInv, ClientTyped, opened, directories
<1> QED BY <1>4, <1>5, <1>6, <1>7 DEF TypeInv

LEMMA TypeAddRejected ==
  ASSUME TypeInv, NEW exists, AddRejected(exists)
  PROVE  TypeInv'
<1>1. nextSegmentPos' \in BehindHeader
  BY NextSegmentTyped DEF AddRejected
<1>2. /\ op = "idle"
      /\ UNCHANGED <<file, opened, directories, segments, call, client, bounds>>
  BY DEF AddRejected, Callable
<1>3. NextTyped'
  BY <1>1 DEF NextTyped, PositionsOrNone
<1>4. FileTyped' /\ HeaderTyped' /\ DirectoriesTyped' /\ SegmentsTyped'
  BY <1>2 DEF TypeInv, FileTyped, HeaderTyped, DirectoriesTyped, SegmentsTyped,
              opened, directories, segments, call
<1>5. WritesTyped' /\ CallTyped' /\ OpInPhase'
  BY <1>2 DEF TypeInv, WritesTyped, CallTyped, OpInPhase, call, client,
              directories
<1>6. ClientTyped' /\ BoundsTyped'
  BY <1>2 DEF TypeInv, ClientTyped, BoundsTyped, client, bounds, directories,
              opened
<1> QED BY <1>3, <1>4, <1>5, <1>6 DEF TypeInv

LEMMA TypeSubBlockReplaced ==
  ASSUME TypeInv, SubBlockReplacedInplace \/ SubBlockReplacedAtEnd
  PROVE  TypeInv'
<1>1. /\ writes = <<>> /\ ReturnToClient /\ UNCHANGED <<file, bounds, phase>>
      /\ UNCHANGED <<opened, attachmentDirectory, segments, meta, known>>
      /\ op \in {"ReplaceSubBlockInplace", "ReplaceSubBlockAddNewAtEnd"}
  BY DEF SubBlockReplacedInplace, SubBlockReplacedAtEnd, Done
<1>2. /\ phase # "creating" /\ item \in SubBlocks
      /\ key \in DOMAIN sbBlkDirectory.entries
      /\ nextSegmentPos \in PositionsOrNone
      /\ op = "ReplaceSubBlockAddNewAtEnd" => nextSegmentPos \in BehindHeader
  BY <1>1 DEF TypeInv, OpInPhase, NextTyped, CallTyped, CreateOps, AppendOps,
              SubBlockOps
<1>3. IsDirectory(sbBlkDirectory, SubBlockEntries)
      /\ IsDirectory(attachmentDirectory, AttachmentEntries)
  BY DEF TypeInv, DirectoriesTyped
<1>4. nextSegmentPos' \in PositionsOrNone
  <2>1. CASE SubBlockReplacedInplace
    BY <1>2, <2>1 DEF SubBlockReplacedInplace
  <2>2. CASE SubBlockReplacedAtEnd
    <3>1. PICK m \in Nat : m = SubBlockBytes(item, SubBlockAllocated(item))
      BY <1>2, BytesTyped
    <3>2. nextSegmentPos' = nextSegmentPos + m + SegmentHeaderSize
          /\ nextSegmentPos \in BehindHeader
      BY <1>2, <2>2, <3>1 DEF SubBlockReplacedAtEnd, Done
    <3>3. nextSegmentPos' = nextSegmentPos + (m + 32) /\ m + 32 \in Nat
      BY <3>2 DEF SegmentHeaderSize, BehindHeader
    <3> QED BY <3>2, <3>3, Appended
  <2> QED BY <2>1, <2>2
<1>5. /\ FileTyped' /\ WritesTyped' /\ CallTyped' /\ OpInPhase' /\ BoundsTyped'
      /\ NextTyped'
  BY <1>1, <1>2, <1>4, EndingTyped
<1>6. PICK e \in SubBlockEntries :
        sbBlkDirectory' = ModifyEntry(sbBlkDirectory, key, e)
  <2>1. CASE SubBlockReplacedInplace
    <3>1. sbBlkDirectory.entries[key].pos \in BehindHeader
      BY <1>2, <1>3 DEF IsDirectory, SubBlockEntries
    <3>2. [id |-> item, pos |-> sbBlkDirectory.entries[key].pos]
            \in SubBlockEntries
      BY <1>2, <3>1 DEF SubBlockEntries
    <3> QED BY <2>1, <3>2 DEF SubBlockReplacedInplace
  <2>2. CASE SubBlockReplacedAtEnd
    <3>1. [id |-> item, pos |-> nextSegmentPos] \in SubBlockEntries
      BY <1>2, <2>2 DEF SubBlockEntries, SubBlockReplacedAtEnd, Done
    <3> QED BY <2>2, <3>1 DEF SubBlockReplacedAtEnd
  <2> QED BY <2>1, <2>2
<1>7. /\ IsDirectory(sbBlkDirectory', SubBlockEntries)
      /\ DOMAIN sbBlkDirectory'.entries = DOMAIN sbBlkDirectory.entries
  BY <1>3, <1>6, ModifyIsDirectory
<1>8. HeaderTyped' /\ SegmentsTyped'
  BY <1>1, MembersUnchanged
<1>9. DirectoriesTyped'
  BY <1>1, <1>3, <1>7 DEF DirectoriesTyped
<1>10. ClientTyped'
  BY <1>1, <1>7 DEF TypeInv, ClientTyped, opened
<1> QED BY <1>5, <1>8, <1>9, <1>10 DEF TypeInv

LEMMA TypeAttachmentReplaced ==
  ASSUME TypeInv, AttachmentReplacedInplace \/ AttachmentReplacedAtEnd
  PROVE  TypeInv'
<1>1. /\ writes = <<>> /\ ReturnToClient /\ UNCHANGED <<file, bounds, phase>>
      /\ UNCHANGED <<opened, nextSegmentPos, sbBlkDirectory, segments, meta>>
      /\ known' \subseteq known
      /\ op \in {"ReplaceAttachmentInplace", "ReplaceAttachmentAddNewAtEnd"}
  BY DEF AttachmentReplacedInplace, AttachmentReplacedAtEnd, Done
<1>2. /\ phase # "creating" /\ item \in Attachments
      /\ key \in DOMAIN attachmentDirectory.entries
      /\ nextSegmentPos \in PositionsOrNone
      /\ op = "ReplaceAttachmentAddNewAtEnd" => nextSegmentPos \in BehindHeader
  BY <1>1 DEF TypeInv, OpInPhase, NextTyped, CallTyped, CreateOps, AppendOps,
              AttachmentOps
<1>3. IsDirectory(sbBlkDirectory, SubBlockEntries)
      /\ IsDirectory(attachmentDirectory, AttachmentEntries)
  BY DEF TypeInv, DirectoriesTyped
<1>4. /\ FileTyped' /\ WritesTyped' /\ CallTyped' /\ OpInPhase' /\ BoundsTyped'
      /\ NextTyped'
  BY <1>1, <1>2, EndingTyped
<1>5. PICK e \in AttachmentEntries :
        attachmentDirectory' = ModifyEntry(attachmentDirectory, key, e)
  <2>1. CASE AttachmentReplacedInplace
    <3>1. attachmentDirectory.entries[key].pos \in BehindHeader
      BY <1>2, <1>3 DEF IsDirectory, AttachmentEntries
    <3>2. [id |-> item, pos |-> attachmentDirectory.entries[key].pos]
            \in AttachmentEntries
      BY <1>2, <3>1 DEF AttachmentEntries
    <3> QED BY <2>1, <3>2 DEF AttachmentReplacedInplace
  <2>2. CASE AttachmentReplacedAtEnd
    <3>1. [id |-> item, pos |-> nextSegmentPos] \in AttachmentEntries
      BY <1>2, <2>2 DEF AttachmentEntries, AttachmentReplacedAtEnd, Done
    <3> QED BY <2>2, <3>1 DEF AttachmentReplacedAtEnd
  <2> QED BY <2>1, <2>2
<1>6. /\ IsDirectory(attachmentDirectory', AttachmentEntries)
      /\ DOMAIN attachmentDirectory'.entries = DOMAIN attachmentDirectory.entries
  BY <1>3, <1>5, ModifyIsDirectory
<1>7. HeaderTyped' /\ SegmentsTyped'
  BY <1>1, MembersUnchanged
<1>8. DirectoriesTyped'
  BY <1>1, <1>3, <1>6 DEF DirectoriesTyped
<1>9. ClientTyped'
  BY <1>1, <1>6 DEF TypeInv, ClientTyped, opened
<1> QED BY <1>4, <1>7, <1>8, <1>9 DEF TypeInv

LEMMA TypeRemoved ==
  ASSUME TypeInv, Removed
  PROVE  TypeInv'
<1>1. /\ writes = <<>> /\ ReturnToClient /\ UNCHANGED <<file, bounds, phase>>
      /\ UNCHANGED <<opened, nextSegmentPos, directories, segments, client>>
      /\ op = "Remove"
  BY DEF Removed, Done, client
<1>2. phase # "creating" /\ nextSegmentPos' \in PositionsOrNone
  BY <1>1 DEF TypeInv, OpInPhase, NextTyped, CreateOps
<1>3. /\ FileTyped' /\ WritesTyped' /\ CallTyped' /\ OpInPhase' /\ BoundsTyped'
      /\ NextTyped'
  BY <1>1, <1>2, EndingTyped
<1>4. HeaderTyped' /\ SegmentsTyped'
  BY <1>1, MembersUnchanged
<1>5. DirectoriesTyped' /\ ClientTyped'
  BY <1>1 DEF TypeInv, DirectoriesTyped, ClientTyped, directories, client,
              opened
<1> QED BY <1>3, <1>4, <1>5 DEF TypeInv

LEMMA TypeMetadataWritten ==
  ASSUME TypeInv, MetadataWritten
  PROVE  TypeInv'
<1> DEFINE at == MetadataPlace(metadataSegment, item, nextSegmentPos)
           pos == at.pos
           allocated == at.allocated
<1>1. /\ writes = <<>> /\ ReturnToClient /\ UNCHANGED <<file, bounds, phase>>
      /\ UNCHANGED <<opened, directories, subBlockDirectorySegment,
                     attachmentDirectorySegment, known>>
      /\ meta' = item /\ op = "WriteMetadata"
      /\ IF pos = nextSegmentPos
         THEN /\ metadataSegment' = SegmentAt(pos, allocated, FALSE)
              /\ nextSegmentPos' = pos + allocated + SegmentHeaderSize
         ELSE UNCHANGED <<metadataSegment, nextSegmentPos>>
  BY DEF MetadataWritten, Done
<1>2. /\ phase # "creating" /\ nextSegmentPos \in BehindHeader
      /\ item \in Metadatas
  BY <1>1 DEF TypeInv, OpInPhase, NextTyped, CallTyped, CreateOps, AppendOps
<1>3. pos \in BehindHeader /\ allocated \in Nat
  BY <1>2, MetadataEdits DEF TypeInv, SegmentsTyped
<1> HIDE DEF pos, allocated
<1>4. nextSegmentPos' \in PositionsOrNone
  <2>1. CASE pos = nextSegmentPos
    <3>1. nextSegmentPos' = pos + (allocated + SegmentHeaderSize)
          /\ allocated + SegmentHeaderSize \in Nat
      BY <1>1, <1>3, <2>1 DEF SegmentHeaderSize, BehindHeader
    <3> QED BY <1>3, <3>1, Appended
  <2>2. CASE pos # nextSegmentPos
    BY <1>1, <1>2, <2>2 DEF PositionsOrNone
  <2> QED BY <2>1, <2>2
<1>5. /\ FileTyped' /\ WritesTyped' /\ CallTyped' /\ OpInPhase' /\ BoundsTyped'
      /\ NextTyped'
  BY <1>1, <1>2, <1>4, EndingTyped
<1>6. SegmentsTyped'
  <2>1. SegmentAt(pos, allocated, FALSE) \in PlacedSegments
    BY <1>3, PlacedTyped
  <2>2. metadataSegment' \in PlacedSegments
    BY <1>1, <2>1 DEF TypeInv, SegmentsTyped
  <2> QED BY <1>1, <2>2 DEF TypeInv, SegmentsTyped
<1>7. HeaderTyped' /\ DirectoriesTyped'
  BY <1>1 DEF TypeInv, HeaderTyped, DirectoriesTyped, opened, directories
<1>8. ClientTyped'
  BY <1>1, <1>2 DEF TypeInv, ClientTyped, opened, directories
<1> QED BY <1>5, <1>6, <1>7, <1>8 DEF TypeInv

\* Close
LEMMA TypeClose ==
  ASSUME TypeInv, Close
  PROVE  TypeInv'
<1>1. /\ op' = "FinishSubBlkDir" /\ phase' = "closing" /\ writes = <<>>
      /\ UNCHANGED <<file, opened, directories, segments, known, meta, bounds>>
  BY DEF Close, Begin, TypeInv, WritesTyped
<1>2. /\ EditWrites(writes') /\ nextSegmentPos' \in PositionsOrNone
      /\ sbBlkDirectory.modified => nextSegmentPos' \in BehindHeader
  <2>1. CASE sbBlkDirectory.modified
    <3>1. PICK n \in BehindHeader : n = nextSegmentPos'
      BY <2>1, NextSegmentTyped DEF Close
    <3>2. writes' = WriteSubBlkDirectory(subBlockDirectorySegment,
                                         Enumerated(sbBlkDirectory), n)
      BY <2>1, <3>1 DEF Close, Begin
    <3>3. Enumerated(sbBlkDirectory) \in Seq(SubBlockEntries)
      BY EnumeratedIsList DEF TypeInv, DirectoriesTyped
    <3>4. subBlockDirectorySegment \in PlacedSegments
      BY DEF TypeInv, SegmentsTyped
    <3>5. EditWrites(WriteSubBlkDirectory(subBlockDirectorySegment,
                                          Enumerated(sbBlkDirectory), n))
      BY <3>3, <3>4, SubBlkDirEdits
    <3> QED BY <3>1, <3>2, <3>5 DEF PositionsOrNone
  <2>2. CASE ~sbBlkDirectory.modified
    BY <2>2, NoEdits DEF Close, Begin, TypeInv, NextTyped
  <2> QED BY <2>1, <2>2
<1>3. FileTyped'
  BY <1>1, <1>2 DEF TypeInv, FileTyped, EditWrites
<1>4. HeaderTyped' /\ SegmentsTyped'
  BY <1>1, MembersUnchanged
<1>5. DirectoriesTyped' /\ ClientTyped' /\ BoundsTyped'
  BY <1>1 DEF TypeInv, DirectoriesTyped, ClientTyped, BoundsTyped, directories,
              opened, bounds
<1>6. NextTyped'
  BY <1>1, <1>2 DEF NextTyped, AppendOps, directories
<1>7. WritesTyped'
  BY <1>1, <1>2 DEF WritesTyped
<1>8. CallTyped'
  BY <1>1 DEF CallTyped, Ops, SubBlockOps, AttachmentOps
<1>9. OpInPhase'
  BY <1>1 DEF OpInPhase, CreateOps, CloseOps
<1> QED BY <1>3, <1>4, <1>5, <1>6, <1>7, <1>8, <1>9 DEF TypeInv

\* Where a directory that has been written is, and what follows it
LEMMA AfterDirectoryTyped ==
  ASSUME NEW at, at.pos \in BehindHeader, at.allocated \in Nat,
         nextSegmentPos \in BehindHeader
  PROVE  /\ AfterDirectory(at) \in PositionsOrNone
         /\ SegmentAt(at.pos, at.allocated, FALSE) \in PlacedSegments
<1>1. SegmentAt(at.pos, at.allocated, FALSE) \in PlacedSegments
  BY PlacedTyped
<1>2. AfterDirectory(at) \in PositionsOrNone
  <2>1. CASE at.pos = nextSegmentPos
    BY <2>1, Appended DEF AfterDirectory
  <2>2. CASE at.pos # nextSegmentPos
    BY <2>2 DEF AfterDirectory, PositionsOrNone
  <2> QED BY <2>1, <2>2
<1> QED BY <1>1, <1>2

LEMMA TypeSubBlkDirFinished ==
  ASSUME TypeInv, SubBlkDirFinished
  PROVE  TypeInv'
<1> DEFINE at == SubBlkDirPlace(subBlockDirectorySegment,
                                Enumerated(sbBlkDirectory), nextSegmentPos)
<1>1. /\ op = "FinishSubBlkDir" /\ op' = "WriteAttachmentDir"
      /\ writes = <<>>
      /\ UNCHANGED <<file, opened, directories, metadataSegment,
                     attachmentDirectorySegment, item, key, writes, client,
                     bounds>>
      /\ IF sbBlkDirectory.modified
         THEN /\ subBlockDirectorySegment' =
                   SegmentAt(at.pos, at.allocated, FALSE)
              /\ nextSegmentPos' = AfterDirectory(at)
         ELSE UNCHANGED <<subBlockDirectorySegment, nextSegmentPos>>
  BY DEF SubBlkDirFinished, Done
<1>2. /\ subBlockDirectorySegment' \in PlacedSegments
      /\ nextSegmentPos' \in PositionsOrNone
  <2>1. CASE sbBlkDirectory.modified
    <3>1. nextSegmentPos \in BehindHeader
      BY <1>1, <2>1 DEF TypeInv, NextTyped
    <3>2. Enumerated(sbBlkDirectory) \in Seq(SubBlockEntries)
      BY EnumeratedIsList DEF TypeInv, DirectoriesTyped
    <3>3. subBlockDirectorySegment \in PlacedSegments
      BY DEF TypeInv, SegmentsTyped
    <3>4. at.pos \in BehindHeader /\ at.allocated \in Nat
      BY <3>1, <3>2, <3>3, SubBlkDirEdits
    <3> HIDE DEF at
    <3>5. /\ AfterDirectory(at) \in PositionsOrNone
          /\ SegmentAt(at.pos, at.allocated, FALSE) \in PlacedSegments
      BY <3>1, <3>4, AfterDirectoryTyped
    <3> QED BY <1>1, <2>1, <3>5
  <2>2. CASE ~sbBlkDirectory.modified
    BY <1>1, <2>2 DEF TypeInv, SegmentsTyped, NextTyped
  <2> QED BY <2>1, <2>2
<1> HIDE DEF at
<1>3. phase = "closing" /\ UNCHANGED phase
  BY <1>1 DEF TypeInv, OpInPhase, CloseOps, client
<1>4. FileTyped'
  BY <1>1 DEF TypeInv, FileTyped
<1>5. HeaderTyped' /\ DirectoriesTyped' /\ ClientTyped' /\ BoundsTyped'
  BY <1>1 DEF TypeInv, HeaderTyped, DirectoriesTyped, ClientTyped, BoundsTyped,
              directories, opened, client, bounds
<1>6. SegmentsTyped'
  BY <1>1, <1>2 DEF TypeInv, SegmentsTyped
<1>7. NextTyped'
  BY <1>1, <1>2 DEF NextTyped, AppendOps
<1>8. WritesTyped'
  BY <1>1, NoEdits DEF WritesTyped
<1>9. CallTyped'
  BY <1>1 DEF CallTyped, Ops, SubBlockOps, AttachmentOps
<1>10. OpInPhase'
  BY <1>1, <1>3 DEF OpInPhase, CreateOps, CloseOps
<1> QED BY <1>4, <1>5, <1>6, <1>7, <1>8, <1>9, <1>10 DEF TypeInv

LEMMA TypeAttachmentDirBegun ==
  ASSUME TypeInv, AttachmentDirBegun
  PROVE  TypeInv'
<1>1. /\ op = "WriteAttachmentDir" /\ op' = "FinishAttachmentDir"
      /\ UNCHANGED <<file, opened, directories, segments, client, bounds>>
  BY DEF AttachmentDirBegun, Begin, Done
<1>2. /\ EditWrites(writes') /\ nextSegmentPos' \in PositionsOrNone
      /\ attachmentDirectory.modified => nextSegmentPos' \in BehindHeader
  <2>1. CASE attachmentDirectory.modified
    <3>1. PICK n \in BehindHeader : n = nextSegmentPos'
      BY <2>1, NextSegmentTyped DEF AttachmentDirBegun
    <3>2. writes' = WriteAttachmentDirectory(attachmentDirectorySegment,
                                             Enumerated(attachmentDirectory), n)
      BY <2>1, <3>1 DEF AttachmentDirBegun, Begin
    <3>3. Enumerated(attachmentDirectory) \in Seq(AttachmentEntries)
      BY EnumeratedIsList DEF TypeInv, DirectoriesTyped
    <3>4. attachmentDirectorySegment \in PlacedSegments
      BY DEF TypeInv, SegmentsTyped
    <3>5. EditWrites(WriteAttachmentDirectory(attachmentDirectorySegment,
                                              Enumerated(attachmentDirectory),
                                              n))
      BY <3>3, <3>4, AttachmentDirEdits
    <3> QED BY <3>1, <3>2, <3>5 DEF PositionsOrNone
  <2>2. CASE ~attachmentDirectory.modified
    BY <2>2, NoEdits DEF AttachmentDirBegun, Begin, TypeInv, NextTyped
  <2> QED BY <2>1, <2>2
<1>3. phase = "closing" /\ UNCHANGED phase
  BY <1>1 DEF TypeInv, OpInPhase, CloseOps, client
<1>4. FileTyped'
  BY <1>1, <1>2 DEF TypeInv, FileTyped, EditWrites
<1>5. HeaderTyped' /\ SegmentsTyped'
  BY <1>1, MembersUnchanged
<1>6. DirectoriesTyped' /\ ClientTyped' /\ BoundsTyped'
  BY <1>1 DEF TypeInv, DirectoriesTyped, ClientTyped, BoundsTyped, directories,
              opened, client, bounds
<1>7. NextTyped'
  BY <1>1, <1>2 DEF NextTyped, AppendOps, directories
<1>8. WritesTyped'
  BY <1>1, <1>2 DEF WritesTyped
<1>9. CallTyped'
  BY <1>1 DEF CallTyped, Ops, SubBlockOps, AttachmentOps
<1>10. OpInPhase'
  BY <1>1, <1>3 DEF OpInPhase, CreateOps, CloseOps
<1> QED BY <1>4, <1>5, <1>6, <1>7, <1>8, <1>9, <1>10 DEF TypeInv

LEMMA TypeAttachmentDirFinished ==
  ASSUME TypeInv, AttachmentDirFinished
  PROVE  TypeInv'
<1> DEFINE at == AttachmentDirPlace(attachmentDirectorySegment,
                                    Enumerated(attachmentDirectory),
                                    nextSegmentPos)
<1>1. /\ op = "FinishAttachmentDir" /\ op' = "UpdateFileHeader"
      /\ UNCHANGED <<file, opened, directories, metadataSegment,
                     subBlockDirectorySegment, client, bounds>>
      /\ IF attachmentDirectory.modified
         THEN /\ attachmentDirectorySegment' =
                   SegmentAt(at.pos, at.allocated, FALSE)
              /\ nextSegmentPos' = AfterDirectory(at)
         ELSE UNCHANGED <<attachmentDirectorySegment, nextSegmentPos>>
  BY DEF AttachmentDirFinished, Begin, Done
<1>2. /\ attachmentDirectorySegment' \in PlacedSegments
      /\ nextSegmentPos' \in PositionsOrNone
  <2>1. CASE attachmentDirectory.modified
    <3>1. nextSegmentPos \in BehindHeader
      BY <1>1, <2>1 DEF TypeInv, NextTyped
    <3>2. Enumerated(attachmentDirectory) \in Seq(AttachmentEntries)
      BY EnumeratedIsList DEF TypeInv, DirectoriesTyped
    <3>3. attachmentDirectorySegment \in PlacedSegments
      BY DEF TypeInv, SegmentsTyped
    <3>4. at.pos \in BehindHeader /\ at.allocated \in Nat
      BY <3>1, <3>2, <3>3, AttachmentDirEdits
    <3> HIDE DEF at
    <3>5. /\ AfterDirectory(at) \in PositionsOrNone
          /\ SegmentAt(at.pos, at.allocated, FALSE) \in PlacedSegments
      BY <3>1, <3>4, AfterDirectoryTyped
    <3> QED BY <1>1, <2>1, <3>5
  <2>2. CASE ~attachmentDirectory.modified
    BY <1>1, <2>2 DEF TypeInv, SegmentsTyped, NextTyped
  <2> QED BY <2>1, <2>2
<1> HIDE DEF at
<1>3. PICK s \in PlacedSegments : s = attachmentDirectorySegment'
  BY <1>2
<1>4. GoodWrites(writes')
  <2>1. writes' = IF HeaderIsStale(s)
                  THEN WriteHeaderSegment(hdrSegmentData.guid,
                                          subBlockDirectorySegment.pos,
                                          metadataSegment.pos, s.pos)
                  ELSE <<>>
    BY <1>3 DEF AttachmentDirFinished, Begin
  <2>2. /\ hdrSegmentData.guid \in FileGuids
        /\ subBlockDirectorySegment.pos \in PositionsOrNone
        /\ metadataSegment.pos \in PositionsOrNone
        /\ s.pos \in PositionsOrNone
    BY PlacedTyped
       DEF TypeInv, SegmentsTyped, HeaderTyped, PositionsOrNone
  <2>3. GoodWrites(WriteHeaderSegment(hdrSegmentData.guid,
                                      subBlockDirectorySegment.pos,
                                      metadataSegment.pos, s.pos))
    BY <2>2, HeaderWritten
  <2> QED BY <2>1, <2>3, NoWrites
<1>5. phase = "closing" /\ UNCHANGED phase
  BY <1>1 DEF TypeInv, OpInPhase, CloseOps, client
<1>6. FileTyped'
  BY <1>1, <1>4 DEF TypeInv, FileTyped
<1>7. HeaderTyped' /\ DirectoriesTyped' /\ ClientTyped' /\ BoundsTyped'
  BY <1>1 DEF TypeInv, HeaderTyped, DirectoriesTyped, ClientTyped, BoundsTyped,
              directories, opened, client, bounds
<1>8. SegmentsTyped'
  BY <1>1, <1>2 DEF TypeInv, SegmentsTyped
<1>9. NextTyped'
  BY <1>1, <1>2 DEF NextTyped, AppendOps
<1>10. WritesTyped'
  BY <1>1 DEF WritesTyped
<1>11. CallTyped'
  BY <1>1 DEF CallTyped, Ops, SubBlockOps, AttachmentOps
<1>12. OpInPhase'
  BY <1>1, <1>5 DEF OpInPhase, CreateOps, CloseOps
<1> QED BY <1>6, <1>7, <1>8, <1>9, <1>10, <1>11, <1>12 DEF TypeInv

LEMMA TypeClosed ==
  ASSUME TypeInv, Closed
  PROVE  TypeInv'
<1>1. /\ writes = <<>> /\ ReturnToClient /\ UNCHANGED <<file, bounds>>
      /\ UNCHANGED <<opened, nextSegmentPos, directories, segments, known,
                     meta>>
      /\ op = "UpdateFileHeader" /\ phase' = "closed"
  BY DEF Closed, Done
<1>2. phase # "creating" /\ nextSegmentPos' \in PositionsOrNone
  BY <1>1 DEF TypeInv, OpInPhase, NextTyped, CreateOps
<1>3. /\ FileTyped' /\ WritesTyped' /\ CallTyped' /\ OpInPhase' /\ BoundsTyped'
      /\ NextTyped'
  BY <1>1, <1>2, EndingTyped
<1>4. HeaderTyped' /\ SegmentsTyped'
  BY <1>1, MembersUnchanged
<1>5. DirectoriesTyped' /\ ClientTyped'
  BY <1>1 DEF TypeInv, DirectoriesTyped, ClientTyped, directories, opened
<1> QED BY <1>3, <1>4, <1>5 DEF TypeInv

\* The stream, and the end of the object
LEMMA TypeWriteOk ==
  ASSUME TypeInv, WriteOk
  PROVE  TypeInv'
<1> DEFINE w == Head(writes)
<1>1. /\ writes # <<>> /\ file' = Apply(file, w) /\ writes' = Tail(writes)
      /\ UNCHANGED <<opened, nextSegmentPos, directories, segments, op, item,
                     key, client, bounds>>
  BY DEF WriteOk
<1>2. /\ GoodWrite(w) /\ GoodWrites(Tail(writes)) /\ w \in Range(writes)
      /\ Range(Tail(writes)) \subseteq Range(writes)
  BY <1>1, WritesLeft DEF TypeInv, FileTyped
<1> HIDE DEF w
<1>3. FileTyped'
  <2>1. IsCziFile(Apply(file, w))
    BY <1>2, FileStep DEF TypeInv, FileTyped
  <2> QED BY <1>1, <1>2, <2>1 DEF FileTyped
<1>4. WritesTyped'
  <2>1. op # "idle"
    BY <1>1 DEF TypeInv, WritesTyped
  <2>2. op \notin CreateOps \cup {"UpdateFileHeader"} =>
          EditWrites(Tail(writes))
    BY <1>2 DEF TypeInv, WritesTyped, EditWrites
  <2>3. ASSUME op = "ReadCziStructure"
        PROVE  /\ HasMagic(Apply(file, w), 0, "ZISRAWFILE")
               /\ \A v \in Range(Tail(writes)) : v.pos >= 48
    <3>1. /\ HasMagic(file, 0, "ZISRAWFILE")
          /\ w.pos >= 48 /\ w.pos \in Nat
          /\ \A v \in Range(Tail(writes)) : v.pos >= 48
      BY <1>2, <2>3 DEF TypeInv, WritesTyped, GoodWrite
    <3>2. Survives(Magic(0, "ZISRAWFILE"), w)
      BY <3>1 DEF Survives, Magic, Extent
    <3> QED BY <3>1, <3>2 DEF HasMagic, Apply
  <2> QED BY <1>1, <2>1, <2>2, <2>3 DEF WritesTyped
<1>5. HeaderTyped' /\ SegmentsTyped'
  BY <1>1, MembersUnchanged
<1>6. DirectoriesTyped' /\ ClientTyped' /\ BoundsTyped'
  BY <1>1 DEF TypeInv, DirectoriesTyped, ClientTyped, BoundsTyped, directories,
              opened, client, bounds
<1>7. NextTyped' /\ CallTyped' /\ OpInPhase'
  BY <1>1 DEF TypeInv, NextTyped, CallTyped, OpInPhase, directories, client
<1> QED BY <1>3, <1>4, <1>5, <1>6, <1>7 DEF TypeInv

LEMMA TypeWriteFails ==
  ASSUME TypeInv, WriteFails
  PROVE  TypeInv'
<1> DEFINE w == Head(writes)
<1>1. /\ writes # <<>> /\ faults < MaxFaults /\ faults' = faults + 1
      /\ file' \in {file, Smash(file, w), Apply(file, w)}
      /\ op' = "idle" /\ writes' = <<>>
      /\ UNCHANGED <<hdrSegmentData, lastSegmentPos, nextSegmentPos,
                     directories, segments, known, sessions, edits>>
      /\ IF op \in CreateOps
         THEN stream' = FALSE /\ phase' = "none"
         ELSE UNCHANGED <<stream, phase>>
      /\ meta' \in {meta, UnknownMeta}
  BY DEF WriteFails, CreateOps
<1>2. GoodWrite(w)
  BY <1>1, WritesLeft DEF TypeInv, FileTyped
<1> HIDE DEF w
<1>3. FileTyped' /\ WritesTyped' /\ CallTyped'
  <2>1. PICK f : f = file'
    OBVIOUS
  <2>2. IsCziFile(f)
    BY <1>1, <1>2, <2>1, FileStep DEF TypeInv, FileTyped
  <2> QED BY <1>1, <2>1, <2>2, CallEnded DEF FileTyped
<1>4. HeaderTyped' /\ DirectoriesTyped' /\ SegmentsTyped'
  BY <1>1 DEF TypeInv, HeaderTyped, DirectoriesTyped, SegmentsTyped,
              directories, segments
<1>5. NextTyped'
  BY <1>1 DEF TypeInv, NextTyped, AppendOps
<1>6. OpInPhase'
  BY <1>1 DEF TypeInv, OpInPhase, CreateOps, CloseOps
<1>7. ClientTyped'
  <2>1. stream' \in BOOLEAN
    BY <1>1 DEF TypeInv, ClientTyped
  <2>2. /\ phase' \in {"none", "creating", "open", "closing", "closed"}
        /\ meta' \in Metadatas \cup {NoMeta, UnknownMeta}
    BY <1>1 DEF TypeInv, ClientTyped
  <2> QED BY <1>1, <2>1, <2>2 DEF TypeInv, ClientTyped, directories
<1>8. BoundsTyped'
  BY <1>1, ReaderWriterAssumption DEF TypeInv, BoundsTyped
<1> QED BY <1>3, <1>4, <1>5, <1>6, <1>7, <1>8 DEF TypeInv

LEMMA TypeDiscard ==
  ASSUME TypeInv, Discard
  PROVE  TypeInv'
<1>1. /\ op' = "idle" /\ writes' = <<>> /\ phase' = "none" /\ known' = {}
      /\ meta' = NoMeta /\ stream' = FALSE
      /\ hdrSegmentData' = NoHeader /\ lastSegmentPos' = 0
      /\ nextSegmentPos' = 0
      /\ sbBlkDirectory' = EmptyDirectory
      /\ attachmentDirectory' = EmptyDirectory
      /\ metadataSegment' = NoSegment /\ subBlockDirectorySegment' = NoSegment
      /\ attachmentDirectorySegment' = NoSegment
      /\ UNCHANGED <<file, bounds>>
  BY DEF Discard, NewObject
<1>2. FileTyped' /\ WritesTyped' /\ CallTyped'
  BY <1>1, CallEnded DEF TypeInv, FileTyped
<1>3. HeaderTyped'
  BY <1>1 DEF HeaderTyped, NoHeader, FileGuids, PositionsOrNone
<1>4. DirectoriesTyped'
  BY <1>1, EmptyIsDirectory DEF DirectoriesTyped
<1>5. SegmentsTyped'
  BY <1>1, PlacedTyped DEF SegmentsTyped
<1>6. NextTyped'
  BY <1>1 DEF NextTyped, AppendOps, PositionsOrNone
<1>7. OpInPhase'
  BY <1>1 DEF OpInPhase, CreateOps, CloseOps
<1>8. ClientTyped'
  <2>1. stream' \in BOOLEAN
    BY <1>1
  <2>2. phase' = "none" /\ known' = {} /\ meta' = NoMeta
    BY <1>1
  <2> QED BY <2>1, <2>2 DEF ClientTyped
<1>9. BoundsTyped'
  BY <1>1 DEF TypeInv, BoundsTyped, bounds
<1> QED BY <1>2, <1>3, <1>4, <1>5, <1>6, <1>7, <1>8, <1>9 DEF TypeInv

LEMMA TypeUnchanged ==
  ASSUME TypeInv, UNCHANGED vars
  PROVE  TypeInv'
<1>1. FileTyped' /\ HeaderTyped' /\ DirectoriesTyped' /\ SegmentsTyped'
  BY DEF TypeInv, FileTyped, HeaderTyped, DirectoriesTyped, SegmentsTyped,
         vars, opened, directories, segments, call
<1>2. NextTyped' /\ WritesTyped' /\ CallTyped'
  BY DEF TypeInv, NextTyped, WritesTyped, CallTyped, vars, directories, call
<1>3. OpInPhase' /\ ClientTyped' /\ BoundsTyped'
  BY DEF TypeInv, OpInPhase, ClientTyped, BoundsTyped, vars, opened,
         directories, call, client, bounds
<1> QED BY <1>1, <1>2, <1>3 DEF TypeInv

LEMMA TypeStep ==
  ASSUME TypeInv, [Next]_vars
  PROVE  TypeInv'
<1>1. CASE CreateNew \/ CreatedNew \/ OpenDocument \/ ReadCziStructure
             \/ CreateThrows
  BY <1>1, TypeCreateNew, TypeCreatedNew, TypeOpenDocument,
     TypeReadCziStructure, TypeCreateThrows
<1>2. CASE \E c \in SubBlocks : SyncAddSubBlock(c) \/ AddSubBlockRejected(c)
  BY <1>2, TypeSyncAddSubBlock, TypeAddRejected DEF AddSubBlockRejected
<1>3. CASE \E a \in Attachments :
             SyncAddAttachment(a) \/ AddAttachmentRejected(a)
  BY <1>3, TypeSyncAddAttachment, TypeAddRejected DEF AddAttachmentRejected
<1>4. CASE SubBlockAdded \/ AttachmentAdded
  BY <1>4, TypeAdded
<1>5. CASE \E k \in Keys, c \in SubBlocks : ReplaceSubBlock(k, c)
  BY <1>5, TypeReplaceSubBlock
<1>6. CASE SubBlockReplacedInplace \/ SubBlockReplacedAtEnd
  BY <1>6, TypeSubBlockReplaced
<1>7. CASE \E k \in Keys, a \in Attachments : ReplaceAttachment(k, a)
  BY <1>7, TypeReplaceAttachment
<1>8. CASE AttachmentReplacedInplace \/ AttachmentReplacedAtEnd
  BY <1>8, TypeAttachmentReplaced
<1>9. CASE \E k \in Keys : RemoveSubBlock(k) \/ RemoveAttachment(k)
  BY <1>9, TypeRemove
<1>10. CASE Removed
  BY <1>10, TypeRemoved
<1>11. CASE \E m \in Metadatas : SyncWriteMetadata(m)
  BY <1>11, TypeSyncWriteMetadata
<1>12. CASE MetadataWritten
  BY <1>12, TypeMetadataWritten
<1>13. CASE Close \/ SubBlkDirFinished \/ AttachmentDirBegun
              \/ AttachmentDirFinished \/ Closed
  BY <1>13, TypeClose, TypeSubBlkDirFinished, TypeAttachmentDirBegun,
     TypeAttachmentDirFinished, TypeClosed
<1>14. CASE WriteOk \/ WriteFails \/ Discard
  BY <1>14, TypeWriteOk, TypeWriteFails, TypeDiscard
<1>15. CASE UNCHANGED vars
  BY <1>15, TypeUnchanged
<1> QED BY <1>1, <1>2, <1>3, <1>4, <1>5, <1>6, <1>7, <1>8, <1>9, <1>10,
           <1>11, <1>12, <1>13, <1>14, <1>15 DEF Next

\* In every reachable state the file consists of parts that libCZI writes, and
\* so do the writes that are still to be made; the members of CCziReaderWriter,
\* its directories and the arguments of the call that runs have their types.
LEMMA TypeInvariance == Spec => []TypeInv
<1>1. TypeInv /\ [Next]_vars => TypeInv'
  BY TypeStep
<1> QED BY <1>1, TypeInit, PTL DEF Spec

\* The members of CCziReaderWriter and the state of a call have their types,
\* however calls, failing writes, crashes and new sessions follow one another;
\* no directory holds a key that will be given out again.
THEOREM TypeCorrect == Spec => []TypeOK
<1>1. TypeInv => TypeOK
  BY TypeImplied
<1> QED BY <1>1, TypeInvariance, PTL

-----------------------------------------------------------------------------
(* The GUID that the object reports is the one in the file. *)

LEMMA GuidRead ==
  ASSUME NEW f, IsCziFile(f), NEW g \in FileGuids, FileGuid(g) \in f
  PROVE  FileGuidIn(f) = g
<1> DEFINE found == {x.what[2] : x \in {y \in f : y.what[1] = "FileGuid"}}
<1>1. g \in found
  BY GuidWellFormed
<1>2. ASSUME NEW x \in f, x.what[1] = "FileGuid"
      PROVE  x.what[2] = g
  <2>1. WellFormed(x) /\ \A y \in f : x.lo = y.lo => x = y
    BY DEF IsCziFile
  <2>2. PICK h \in FileGuids : x = FileGuid(h)
    BY <1>2, <2>1 DEF WellFormed, FileGuids
  <2>3. x.lo = FileGuid(g).lo
    BY <2>2, GuidWellFormed
  <2>4. x = FileGuid(g)
    BY <2>1, <2>3
  <2> QED BY <2>4, GuidWellFormed
<1>3. found = {g}
  BY <1>1, <1>2
<1>4. FileGuidIn(f) = IF found = {} THEN TornGuid ELSE CHOOSE h \in found : TRUE
  BY DEF FileGuidIn
<1> HIDE DEF found
<1> QED BY <1>3, <1>4

\* Only what is in the GUID's place counts.
LEMMA SameGuidRead ==
  ASSUME NEW f, NEW g, \A x : x.what[1] = "FileGuid" => (x \in f <=> x \in g)
  PROVE  FileGuidIn(g) = FileGuidIn(f)
<1>1. {y \in f : y.what[1] = "FileGuid"} = {y \in g : y.what[1] = "FileGuid"}
  OBVIOUS
<1> QED BY <1>1 DEF FileGuidIn

LEMMA EditKeepsGuid ==
  ASSUME NEW f, IsCziFile(f), NEW w, GoodWrite(w), w.pos \in BehindHeader,
         NEW g, g \in {f, Smash(f, w), Apply(f, w)}
  PROVE  FileGuidIn(g) = FileGuidIn(f)
<1>1. w.pos \in Nat /\ w.pos >= 544
  BY DEF BehindHeader, FileHeaderSegmentSize
<1>2. ASSUME NEW x, WellFormed(x), x.what[1] = "FileGuid"
      PROVE  x.lo = 64 /\ x.hi = 80
  <2>1. PICK h \in FileGuids : x = FileGuid(h)
    BY <1>2 DEF WellFormed, FileGuids
  <2> QED BY <2>1, GuidWellFormed
<1>3. \A x \in f : x.what[1] = "FileGuid" => Survives(x, w)
  <2> SUFFICES ASSUME NEW x \in f, x.what[1] = "FileGuid"
               PROVE  Survives(x, w)
    OBVIOUS
  <2>1. x.hi = 80
    BY <1>2 DEF IsCziFile
  <2> QED BY <1>1, <2>1 DEF Survives
<1>4. \A x \in w.holds : x.what[1] # "FileGuid"
  BY <1>1, <1>2 DEF GoodWrite
<1>5. \A x : x.what[1] = "FileGuid" => (x \in f <=> x \in g)
  BY <1>3, <1>4 DEF Smash, Apply
<1> QED BY <1>5, SameGuidRead

LEMMA HeaderKeepsGuid ==
  ASSUME NEW f, IsCziFile(f), NEW w, GoodWrite(w),
         FileGuid(FileGuidIn(f)) \in w.holds,
         NEW g, g \in {f, Smash(f, w), Apply(f, w)}
  PROVE  FileGuidIn(g) = FileGuidIn(f)
<1> DEFINE guid == FileGuidIn(f)
<1>1. guid \in FileGuids /\ IsCziFile(g)
  BY GuidFoundTyped, FileStep
<1> HIDE DEF guid
<1>2. CASE FileGuid(guid) \in g
  BY <1>1, <1>2, GuidRead DEF guid
<1>3. CASE FileGuid(guid) \notin g
  <2>1. FileGuid(guid) \notin f /\ g \subseteq f
    BY <1>3 DEF Smash, Apply, guid
  <2>2. ASSUME NEW x \in f, x.what[1] = "FileGuid"
        PROVE  FALSE
    <3>1. WellFormed(x)
      BY DEF IsCziFile
    <3>2. PICK h \in FileGuids : x = FileGuid(h)
      BY <2>2, <3>1 DEF WellFormed, FileGuids
    <3>3. guid = h
      BY <3>2, GuidRead DEF guid
    <3> QED BY <2>1, <3>2, <3>3
  <2>3. \A x : x.what[1] = "FileGuid" => (x \in f <=> x \in g)
    BY <2>1, <2>2
  <2> QED BY <2>3, SameGuidRead
<1> QED BY <1>2, <1>3

\* What lasts through the writes lasts through those that are left.
LEMMA LastingLeft ==
  ASSUME NEW f, NEW x, NEW w, NEW ws, NEW vs, ws = {w} \cup vs,
         Lasting(f, ws, x)
  PROVE  Lasting(Apply(f, w), vs, x)
<1>1. CASE x \in f /\ \A v \in ws : Survives(x, v)
  BY <1>1 DEF Lasting, Apply
<1>2. CASE \E u \in ws : x \in u.holds /\ \A v \in ws : v = u \/ Survives(x, v)
  <2>1. PICK u \in ws : x \in u.holds /\ \A v \in ws : v = u \/ Survives(x, v)
    BY <1>2
  <2>2. CASE u \in vs
    BY <2>1, <2>2 DEF Lasting
  <2>3. CASE u \notin vs
    BY <2>1, <2>3 DEF Lasting, Apply
  <2> QED BY <2>2, <2>3
<1> QED BY <1>1, <1>2 DEF Lasting

Session == {"open", "closing", "closed"}

\* The GUID that Create writes is in the file when the writes are made.
GuidComes ==
  op = "WriteHeader" \/ (op = "ReadCziStructure" /\ item # NoItem) =>
    Lasting(file, Range(writes), FileGuid(item))

\* The file header is written with the GUID that is there.
GuidWrittenBack ==
  op = "UpdateFileHeader" =>
    \A w \in Range(writes) : FileGuid(hdrSegmentData.guid) \in w.holds

GuidInv == GuidComes /\ GuidWrittenBack /\ GuidIsThatOfTheFile

LEMMA GuidElsewhere ==
  ASSUME GuidInv, UNCHANGED <<file, hdrSegmentData>>,
         op' \notin CreateOps \cup {"UpdateFileHeader"},
         phase' \in Session => phase \in Session
  PROVE  GuidInv'
BY DEF GuidInv, GuidComes, GuidWrittenBack, GuidIsThatOfTheFile, CreateOps,
       Session

LEMMA GuidNotYet ==
  ASSUME op' \notin CreateOps \cup {"UpdateFileHeader"}, phase' \notin Session
  PROVE  GuidInv'
BY DEF GuidInv, GuidComes, GuidWrittenBack, GuidIsThatOfTheFile, CreateOps,
       Session

LEMMA GuidCreate ==
  ASSUME TypeInv, GuidInv, CreateNew \/ OpenDocument
  PROVE  GuidInv'
<1>1. phase' = "creating" /\ op' \in CreateOps /\ file' = file
  BY DEF CreateNew, OpenDocument, Create, Begin, CreateOps
<1>2. GuidComes'
  <2>1. CASE CreateNew
    <3>1. PICK g \in Guids : item' = g /\ op' = "WriteHeader"
                             /\ writes' = WriteHeaderSegment(g, 0, 0, 0)
      BY <2>1 DEF CreateNew, Begin
    <3> DEFINE h == FileHeader(0, 0, 0) \cup {PrimaryFileGuid(g), FileGuid(g)}
               w == Write(0, FileHeaderSegmentSize, h)
    <3>2. writes' = <<w>> /\ FileGuid(g) \in w.holds
      BY <3>1 DEF WriteHeaderSegment, Write
    <3> HIDE DEF w
    <3>3. Range(<<w>>) = {w}
      BY OneElement
    <3>4. Lasting(file, {w}, FileGuid(g))
      BY <3>2 DEF Lasting
    <3> QED BY <1>1, <3>1, <3>2, <3>3, <3>4 DEF GuidComes
  <2>2. CASE OpenDocument
    <3>1. CASE Begin("ReadCziStructure", NoItem, NoKey, <<>>)
      BY <3>1 DEF GuidComes, Begin
    <3>2. CASE \E g \in Guids :
                 Begin("ReadCziStructure", g, NoKey, UpdateFileHeaderGuid(g))
      <4>1. PICK g \in Guids :
              Begin("ReadCziStructure", g, NoKey, UpdateFileHeaderGuid(g))
        BY <3>2
      <4>2. Lasting(file, Range(UpdateFileHeaderGuid(g)), FileGuid(g))
        BY GuidsWritten DEF FileGuids
      <4> QED BY <1>1, <4>1, <4>2 DEF GuidComes, Begin
    <3> QED BY <2>2, <3>1, <3>2 DEF OpenDocument
  <2> QED BY <2>1, <2>2
<1> QED BY <1>1, <1>2
        DEF GuidInv, GuidWrittenBack, GuidIsThatOfTheFile, CreateOps

LEMMA GuidCreated ==
  ASSUME TypeInv, GuidInv, CreatedNew \/ ReadCziStructure
  PROVE  GuidInv'
<1>1. /\ op' = "idle" /\ file' = file /\ writes = <<>>
      /\ op \in CreateOps
  BY DEF CreatedNew, ReadCziStructure, ReturnToClient, Done, CreateOps
<1>2. IsCziFile(file)
  BY DEF TypeInv, FileTyped
<1>3. ASSUME op = "WriteHeader" \/ (op = "ReadCziStructure" /\ item # NoItem)
      PROVE  FileGuidIn(file) = item
  <2>1. Lasting(file, Range(writes), FileGuid(item))
    BY <1>3 DEF GuidInv, GuidComes
  <2>2. FileGuid(item) \in file
    BY <1>1, <2>1, NoElement, LastingDone
  <2>3. item \in FileGuids
    BY <1>3 DEF TypeInv, CallTyped, FileGuids
  <2> QED BY <1>2, <2>2, <2>3, GuidRead
<1>4. hdrSegmentData'.guid = FileGuidIn(file)
  <2>1. CASE CreatedNew
    <3>1. hdrSegmentData'.guid = item
      BY <2>1 DEF CreatedNew, NoHeader
    <3> QED BY <1>3, <2>1, <3>1 DEF CreatedNew, Done
  <2>2. CASE ReadCziStructure
    <3>1. hdrSegmentData'.guid = GuidKept(file, item)
      BY <2>2 DEF ReadCziStructure
    <3> QED BY <1>3, <2>2, <3>1 DEF ReadCziStructure, Done, GuidKept
  <2> QED BY <2>1, <2>2
<1> QED BY <1>1, <1>4
        DEF GuidInv, GuidComes, GuidWrittenBack, GuidIsThatOfTheFile

LEMMA GuidHeaderBegun ==
  ASSUME TypeInv, GuidInv, AttachmentDirFinished
  PROVE  GuidInv'
<1>1. /\ op = "FinishAttachmentDir" /\ op' = "UpdateFileHeader"
      /\ UNCHANGED <<file, hdrSegmentData, phase>>
  BY DEF AttachmentDirFinished, Begin, Done, opened, client
<1>2. GuidWrittenBack'
  <2>1. PICK s : s = attachmentDirectorySegment'
    OBVIOUS
  <2> DEFINE g == hdrSegmentData.guid
             h == FileHeader(subBlockDirectorySegment.pos, metadataSegment.pos,
                             s.pos) \cup {PrimaryFileGuid(g), FileGuid(g)}
             w == Write(0, FileHeaderSegmentSize, h)
  <2>2. writes' = <<w>> \/ writes' = <<>>
    BY <2>1 DEF AttachmentDirFinished, Begin, WriteHeaderSegment
  <2>3. FileGuid(g) \in w.holds
    BY DEF Write
  <2> HIDE DEF w
  <2>4. Range(writes') \subseteq {w}
    BY <2>2, OneElement, NoElement
  <2> QED BY <1>1, <2>3, <2>4 DEF GuidWrittenBack
<1> QED BY <1>1, <1>2 DEF GuidInv, GuidComes, GuidIsThatOfTheFile

LEMMA GuidWriteOk ==
  ASSUME TypeInv, GuidInv, WriteOk
  PROVE  GuidInv'
<1> DEFINE w == Head(writes)
<1>1. /\ writes # <<>> /\ file' = Apply(file, w) /\ writes' = Tail(writes)
      /\ UNCHANGED <<hdrSegmentData, op, item, phase>>
  BY DEF WriteOk, opened, client
<1>2. /\ GoodWrite(w) /\ w \in Range(writes)
      /\ Range(Tail(writes)) \subseteq Range(writes)
      /\ Range(writes) = {w} \cup Range(Tail(writes))
  BY <1>1, WritesLeft DEF TypeInv, FileTyped
<1> HIDE DEF w
<1>3. GuidComes'
  <2> SUFFICES ASSUME op = "WriteHeader"
                        \/ (op = "ReadCziStructure" /\ item # NoItem)
               PROVE  Lasting(Apply(file, w), Range(Tail(writes)),
                              FileGuid(item))
    BY <1>1 DEF GuidComes
  <2>1. Lasting(file, Range(writes), FileGuid(item))
    BY DEF GuidInv, GuidComes
  <2> QED BY <1>2, <2>1, LastingLeft
<1>4. GuidWrittenBack'
  BY <1>1, <1>2 DEF GuidInv, GuidWrittenBack
<1>5. GuidIsThatOfTheFile'
  <2> SUFFICES ASSUME phase \in Session
               PROVE  FileGuidIn(Apply(file, w)) = hdrSegmentData.guid
    BY <1>1 DEF GuidIsThatOfTheFile, Session
  <2>1. FileGuidIn(file) = hdrSegmentData.guid /\ IsCziFile(file)
    BY DEF GuidInv, GuidIsThatOfTheFile, Session, TypeInv, FileTyped
  <2>2. op \notin CreateOps
    BY DEF TypeInv, OpInPhase, Session
  <2>3. CASE op = "UpdateFileHeader"
    <3>1. FileGuid(FileGuidIn(file)) \in w.holds
      BY <1>2, <2>1, <2>3 DEF GuidInv, GuidWrittenBack
    <3> QED BY <1>2, <2>1, <3>1, HeaderKeepsGuid
  <2>4. CASE op # "UpdateFileHeader"
    <3>1. w.pos \in BehindHeader
      BY <1>2, <2>2, <2>4 DEF TypeInv, WritesTyped, EditWrites
    <3> QED BY <1>2, <2>1, <3>1, EditKeepsGuid
  <2> QED BY <2>3, <2>4
<1> QED BY <1>3, <1>4, <1>5 DEF GuidInv

LEMMA GuidWriteFails ==
  ASSUME TypeInv, GuidInv, WriteFails
  PROVE  GuidInv'
<1> DEFINE w == Head(writes)
<1>1. /\ writes # <<>> /\ op' = "idle"
      /\ file' \in {file, Smash(file, w), Apply(file, w)}
      /\ UNCHANGED hdrSegmentData
      /\ IF op \in CreateOps THEN phase' = "none" ELSE UNCHANGED phase
  BY DEF WriteFails, CreateOps
<1>2. GoodWrite(w) /\ w \in Range(writes)
  BY <1>1, WritesLeft DEF TypeInv, FileTyped
<1> HIDE DEF w
<1>3. GuidIsThatOfTheFile'
  <2>1. CASE phase' \in Session
    <3>1. phase \in Session /\ op \notin CreateOps
      BY <1>1, <2>1 DEF Session
    <3>2. FileGuidIn(file) = hdrSegmentData.guid /\ IsCziFile(file)
      BY <3>1 DEF GuidInv, GuidIsThatOfTheFile, Session, TypeInv, FileTyped
    <3>3. PICK f \in {file, Smash(file, w), Apply(file, w)} : f = file'
      BY <1>1
    <3>4. FileGuidIn(f) = FileGuidIn(file)
      <4>1. CASE op = "UpdateFileHeader"
        <5>1. FileGuid(FileGuidIn(file)) \in w.holds
          BY <1>2, <3>2, <4>1 DEF GuidInv, GuidWrittenBack
        <5> QED BY <1>2, <3>2, <5>1, HeaderKeepsGuid
      <4>2. CASE op # "UpdateFileHeader"
        <5>1. w.pos \in BehindHeader
          BY <1>2, <3>1, <4>2 DEF TypeInv, WritesTyped, EditWrites
        <5> QED BY <1>2, <3>2, <5>1, EditKeepsGuid
      <4> QED BY <4>1, <4>2
    <3> QED BY <1>1, <3>2, <3>3, <3>4 DEF GuidIsThatOfTheFile
  <2>2. CASE phase' \notin Session
    BY <2>2 DEF GuidIsThatOfTheFile, Session
  <2> QED BY <2>1, <2>2
<1> QED BY <1>1, <1>3 DEF GuidInv, GuidComes, GuidWrittenBack

LEMMA GuidStep ==
  ASSUME TypeInv, GuidInv, [Next]_vars
  PROVE  GuidInv'
<1>1. CASE CreateNew \/ OpenDocument
  BY <1>1, GuidCreate
<1>2. CASE CreatedNew \/ ReadCziStructure
  BY <1>2, GuidCreated
<1>3. CASE CreateThrows \/ Discard
  <2>1. op' = "idle" /\ phase' = "none"
    BY <1>3 DEF CreateThrows, ReturnToClient, Discard, NewObject
  <2> QED BY <2>1, GuidNotYet DEF CreateOps, Session
<1>4. CASE \E c \in SubBlocks : SyncAddSubBlock(c) \/ AddSubBlockRejected(c)
  <2>1. /\ UNCHANGED <<file, hdrSegmentData, phase>>
        /\ op' \in {"AddSubBlock", "idle"}
    BY <1>4 DEF SyncAddSubBlock, AddSubBlockRejected, AddRejected, Callable,
                Edit, Begin, opened, client, call
  <2> QED BY <2>1, GuidElsewhere DEF CreateOps
<1>5. CASE \E a \in Attachments :
             SyncAddAttachment(a) \/ AddAttachmentRejected(a)
  <2>1. /\ UNCHANGED <<file, hdrSegmentData, phase>>
        /\ op' \in {"AddAttachment", "idle"}
    BY <1>5 DEF SyncAddAttachment, AddAttachmentRejected, AddRejected, Callable,
                Edit, Begin, opened, client, call
  <2> QED BY <2>1, GuidElsewhere DEF CreateOps
<1>6. CASE \E k \in Keys, c \in SubBlocks : ReplaceSubBlock(k, c)
  <2>1. /\ UNCHANGED <<file, hdrSegmentData, phase>>
        /\ op' \in {"ReplaceSubBlockInplace", "ReplaceSubBlockAddNewAtEnd"}
    BY <1>6 DEF ReplaceSubBlock, Edit, Begin, opened
  <2> QED BY <2>1, GuidElsewhere DEF CreateOps
<1>7. CASE \E k \in Keys, a \in Attachments : ReplaceAttachment(k, a)
  <2>1. /\ UNCHANGED <<file, hdrSegmentData, phase>>
        /\ op' \in {"ReplaceAttachmentInplace", "ReplaceAttachmentAddNewAtEnd"}
    BY <1>7 DEF ReplaceAttachment, Edit, Begin, opened
  <2> QED BY <2>1, GuidElsewhere DEF CreateOps
<1>8. CASE \E k \in Keys : RemoveSubBlock(k) \/ RemoveAttachment(k)
  <2>1. UNCHANGED <<file, hdrSegmentData, phase>> /\ op' = "Remove"
    BY <1>8 DEF RemoveSubBlock, RemoveAttachment, Edit, Begin, opened
  <2> QED BY <2>1, GuidElsewhere DEF CreateOps
<1>9. CASE \E m \in Metadatas : SyncWriteMetadata(m)
  <2>1. UNCHANGED <<file, hdrSegmentData, phase>> /\ op' = "WriteMetadata"
    BY <1>9 DEF SyncWriteMetadata, Edit, Begin, opened, client
  <2> QED BY <2>1, GuidElsewhere DEF CreateOps
<1>10. CASE \/ SubBlockAdded \/ AttachmentAdded \/ SubBlockReplacedInplace
            \/ SubBlockReplacedAtEnd \/ AttachmentReplacedInplace
            \/ AttachmentReplacedAtEnd \/ Removed \/ MetadataWritten
  <2>1. UNCHANGED <<file, hdrSegmentData, phase>> /\ op' = "idle"
    BY <1>10 DEF SubBlockAdded, AttachmentAdded, SubBlockReplacedInplace,
                 SubBlockReplacedAtEnd, AttachmentReplacedInplace,
                 AttachmentReplacedAtEnd, Removed, MetadataWritten,
                 ReturnToClient, opened, client
  <2> QED BY <2>1, GuidElsewhere DEF CreateOps
<1>11. CASE Close \/ SubBlkDirFinished \/ AttachmentDirBegun \/ Closed
  <2>1. /\ UNCHANGED <<file, hdrSegmentData>>
        /\ op' \in {"FinishSubBlkDir", "WriteAttachmentDir",
                    "FinishAttachmentDir", "idle"}
    BY <1>11 DEF Close, SubBlkDirFinished, AttachmentDirBegun, Closed, Begin,
                 ReturnToClient, opened
  <2>2. phase \in Session
    BY <1>11 DEF Close, SubBlkDirFinished, AttachmentDirBegun, Closed, Done,
                 TypeInv, OpInPhase, CloseOps, Session
  <2> QED BY <2>1, <2>2, GuidElsewhere DEF CreateOps
<1>12. CASE AttachmentDirFinished
  BY <1>12, GuidHeaderBegun
<1>13. CASE WriteOk \/ WriteFails
  BY <1>13, GuidWriteOk, GuidWriteFails
<1>14. CASE UNCHANGED vars
  BY <1>14 DEF GuidInv, GuidComes, GuidWrittenBack, GuidIsThatOfTheFile, vars,
               opened, call, client
<1> QED BY <1>1, <1>2, <1>3, <1>4, <1>5, <1>6, <1>7, <1>8, <1>9, <1>10,
           <1>11, <1>12, <1>13, <1>14 DEF Next

\* While a document is open, being closed and afterwards, the GUID that the
\* object reports and writes back with the file header is the one in the file:
\* no write of an edit reaches the header, and a header write that fails, or is
\* cut short, still leaves the GUID that was there (GetFileHeaderInfo,
\* UpdateFileHeaderGuid, UpdateFileHeader).
THEOREM GuidIsKept == Spec => []GuidIsThatOfTheFile
<1>1. Init => GuidInv
  BY DEF Init, GuidInv, GuidComes, GuidWrittenBack, GuidIsThatOfTheFile
<1>2. TypeInv /\ TypeInv' /\ GuidInv /\ [Next]_vars => GuidInv'
  BY GuidStep
<1>3. GuidInv => GuidIsThatOfTheFile
  BY DEF GuidInv
<1> QED BY <1>1, <1>2, <1>3, TypeInvariance, PTL DEF Spec

-----------------------------------------------------------------------------
(* Where the segments lie.  A span is a range of bytes with an owner: an item *)
(* by its key, the metadata, or what was read of the document (its header and *)
(* directories, as they were when it was opened).  A call that appends an     *)
(* item writes to no span, but behind all of them.                            *)

Document == <<"document", 0>>
TheMetadata == <<"metadata", 0>>
Nobody == <<"nobody", 0>>
IsItem(o) == o[1] \in {"subblock", "attachment"}

HeaderSpan == [owner |-> Document, lo |-> 0, hi |-> FileHeaderSegmentSize]

\* The spans lie apart; in the segment of an item, its header has room.
Arranged(S) ==
  /\ \A s \in S : /\ s.lo \in Nat /\ s.hi \in Nat /\ s.lo < s.hi
                  /\ IsItem(s.owner) => s.lo + SegmentHeaderSize <= s.hi
  /\ \A s, t \in S : s = t \/ s.hi <= t.lo \/ t.hi <= s.lo

\* An allocated size, if x is one: the segment of an item goes no further than
\* its span, and what is appended behind the last segment is behind all spans.
SizeFits(S, last, next, x) ==
  x.what[1] = "allocated" =>
    /\ \A s \in S : IsItem(s.owner) /\ x.lo = s.lo + 16 =>
         s.lo + SegmentHeaderSize + x.what[2] <= s.hi
    /\ next = 0 /\ x.lo = last + 16 =>
         \A s \in S : s.hi <= last + SegmentHeaderSize + x.what[2]

\* The write reaches no span but those of o.
Spares(S, o, w) ==
  \A s \in S : s.owner = o \/ s.hi <= w.pos \/ w.pos + w.len <= s.lo

Inside(S, o, parts) ==
  \A x \in parts : \E s \in S : s.owner = o /\ s.lo <= x.lo /\ x.hi <= s.hi

\* The file f, with the writes ws that are left of a call that may write to
\* what o owns.
Ground(S, H, f, o, ws, last, next) ==
  /\ Arranged(S)
  /\ next # 0 => \A s \in S : s.hi <= next
  /\ \A x \in f : SizeFits(S, last, next, x)
  /\ \A w \in ws : Spares(S, o, w) /\ \A x \in w.holds : SizeFits(S, last, next, x)
  /\ H \subseteq f /\ Inside(S, Document, H)

LEMMA GroundIdle ==
  ASSUME NEW S, NEW H, NEW f, NEW o, NEW p, NEW last, NEW next,
         Ground(S, H, f, o, {}, last, next)
  PROVE  Ground(S, H, f, p, {}, last, next)
BY DEF Ground

\* What no write reaches survives.
LEMMA Spared ==
  ASSUME NEW S, Arranged(S), NEW o, NEW w, GoodWrite(w), Spares(S, o, w),
         NEW p, p # o, NEW x, WellFormed(x), Inside(S, p, {x})
  PROVE  Survives(x, w)
<1>1. PICK s \in S : s.owner = p /\ s.lo <= x.lo /\ x.hi <= s.hi
  BY DEF Inside
<1>2. s.hi <= w.pos \/ w.pos + w.len <= s.lo
  BY <1>1 DEF Spares
<1>3. /\ s.lo \in Nat /\ s.hi \in Nat /\ w.pos \in Nat /\ w.len \in Nat
      /\ x.lo \in Nat /\ x.hi \in Nat
  BY WellFormedBounds DEF Arranged, GoodWrite
<1> QED BY <1>1, <1>2, <1>3 DEF Survives

LEMMA SparedInFile ==
  ASSUME NEW f, IsCziFile(f),
         NEW S, Arranged(S), NEW o, NEW w, GoodWrite(w), Spares(S, o, w),
         NEW p, p # o, NEW parts, parts \subseteq f, Inside(S, p, parts),
         NEW g, g \in {f, Smash(f, w), Apply(f, w)}
  PROVE  parts \subseteq g
<1> SUFFICES ASSUME NEW x \in parts PROVE x \in g
  OBVIOUS
<1>1. x \in f /\ WellFormed(x) /\ Inside(S, p, {x})
  BY DEF IsCziFile, Inside
<1>2. Survives(x, w)
  BY <1>1, Spared
<1> QED BY <1>1, <1>2 DEF Smash, Apply

LEMMA GroundStep ==
  ASSUME NEW S, NEW H, NEW f, NEW o, NEW ws, NEW last, NEW next,
         Ground(S, H, f, o, ws, last, next), IsCziFile(f), o # Document,
         NEW w \in ws, GoodWrite(w), NEW vs, vs \subseteq ws,
         NEW g, g \in {f, Smash(f, w), Apply(f, w)}
  PROVE  Ground(S, H, g, o, vs, last, next)
<1>1. H \subseteq g
  BY SparedInFile DEF Ground
<1>2. \A x \in g : x \in f \/ x \in w.holds
  BY DEF Smash, Apply
<1> QED BY <1>1, <1>2 DEF Ground

\* The append position is determined.
LEMMA GroundNext ==
  ASSUME NEW S, NEW H, NEW f, NEW o, NEW p, NEW last \in Nat, NEW next \in Nat,
         Ground(S, H, f, o, {}, last, next), NEW n \in Nat, n # 0,
         \/ next # 0 /\ n = next
         \/ /\ next = 0
            /\ \E a \in AllocatedSize(f, last) :
                 n = last + SegmentHeaderSize + a
  PROVE  Ground(S, H, f, p, {}, last, n)
<1>1. \A s \in S : s.hi <= n
  <2>1. CASE next # 0 /\ n = next
    BY <2>1 DEF Ground
  <2>2. CASE /\ next = 0
             /\ \E a \in AllocatedSize(f, last) :
                  n = last + SegmentHeaderSize + a
    <3>1. PICK x \in f : /\ x.lo = last + 16 /\ x.what[1] = "allocated"
                         /\ n = last + SegmentHeaderSize + x.what[2]
      BY <2>2 DEF AllocatedSize
    <3>2. SizeFits(S, last, next, x)
      BY DEF Ground
    <3> QED BY <2>2, <3>1, <3>2 DEF SizeFits
  <2> QED BY <2>1, <2>2
<1>2. \A x \in f : SizeFits(S, last, n, x)
  BY DEF Ground, SizeFits
<1> QED BY <1>1, <1>2 DEF Ground

\* A call begins to write.
LEMMA GroundBegin ==
  ASSUME NEW S, NEW H, NEW f, NEW o, NEW p, NEW last, NEW next, NEW ws,
         Ground(S, H, f, o, {}, last, next),
         \A w \in ws : /\ Spares(S, p, w)
                       /\ \A x \in w.holds : SizeFits(S, last, next, x)
  PROVE  Ground(S, H, f, p, ws, last, next)
BY DEF Ground

\* A write behind all spans
LEMMA WriteBehind ==
  ASSUME NEW S, Arranged(S), NEW n \in Nat, n # 0, \A s \in S : s.hi <= n,
         NEW o, NEW last, NEW w, GoodWrite(w), w.pos >= n
  PROVE  Spares(S, o, w) /\ \A x \in w.holds : SizeFits(S, last, n, x)
<1>1. w.pos \in Nat /\ \A s \in S : s.lo \in Nat /\ s.hi \in Nat /\ s.lo < s.hi
  BY DEF GoodWrite, Arranged
<1>2. Spares(S, o, w)
  BY <1>1 DEF Spares
<1>3. ASSUME NEW x \in w.holds PROVE SizeFits(S, last, n, x)
  <2>1. x.lo \in Nat /\ x.lo >= n
    BY <1>1, WellFormedBounds DEF GoodWrite
  <2>2. ASSUME NEW s \in S, IsItem(s.owner) PROVE x.lo # s.lo + 16
    <3>1. s.lo + 32 <= s.hi /\ s.hi <= n /\ s.lo \in Nat /\ s.hi \in Nat
      BY <2>2 DEF Arranged, SegmentHeaderSize
    <3> QED BY <2>1, <3>1
  <2> QED BY <2>1, <2>2 DEF SizeFits
<1> QED BY <1>2, <1>3

\* A write within a span: the allocated size that it holds, if any, is the one
\* that was there.
LEMMA WriteWithin ==
  ASSUME NEW S, Arranged(S), NEW t \in S, NEW last, NEW next,
         NEW w, GoodWrite(w), t.lo <= w.pos, w.pos + w.len <= t.hi
  PROVE  Spares(S, t.owner, w)
BY DEF Spares, Arranged, GoodWrite

LEMMA SizeWithin ==
  ASSUME NEW S, Arranged(S), NEW t \in S, NEW last, NEW next, NEW x,
         t.lo + SegmentHeaderSize <= t.hi, x.lo = t.lo + 16,
         x.what[2] \in Nat,
         t.lo + SegmentHeaderSize + x.what[2] <= t.hi,
         next = 0 /\ last = t.lo =>
           \A s \in S : s.hi <= last + SegmentHeaderSize + x.what[2],
         last \in Nat
  PROVE  SizeFits(S, last, next, x)
<1>1. t.lo \in Nat /\ \A s \in S : s.lo \in Nat /\ s.hi \in Nat /\ s.lo < s.hi
  BY DEF Arranged
<1>2. ASSUME NEW s \in S, IsItem(s.owner), x.lo = s.lo + 16
      PROVE  s = t
  <2>1. s.lo = t.lo
    BY <1>1, <1>2
  <2> QED BY <1>1, <2>1 DEF Arranged
<1>3. x.lo = last + 16 => last = t.lo
  BY <1>1
<1> QED BY <1>2, <1>3 DEF SizeFits

\* A span is added behind the others.
LEMMA GroundAppend ==
  ASSUME NEW S, NEW H, NEW f, NEW o, NEW last, NEW next, NEW n \in Nat, n # 0,
         Ground(S, H, f, o, {}, last, n), NEW t,
         t.lo = n, t.hi \in Nat, t.lo < t.hi,
         IsItem(t.owner) => t.lo + SegmentHeaderSize <= t.hi,
         IsItem(t.owner) =>
           \A x \in f : x.what[1] = "allocated" /\ x.lo = n + 16 =>
             n + SegmentHeaderSize + x.what[2] <= t.hi,
         next \in Nat, t.hi <= next
  PROVE  Ground(S \cup {t}, H, f, o, {}, last, next)
<1> DEFINE T == S \cup {t}
<1>1. \A s \in S : s.lo \in Nat /\ s.hi \in Nat /\ s.lo < s.hi /\ s.hi <= n
  BY DEF Ground, Arranged
<1>2. Arranged(T)
  BY <1>1 DEF Ground, Arranged
<1>3. next # 0 /\ \A s \in T : s.hi <= next
  BY <1>1
<1>4. \A x \in f : SizeFits(T, last, next, x)
  BY <1>3 DEF Ground, SizeFits
<1>5. Inside(T, Document, H)
  BY DEF Ground, Inside
<1> HIDE DEF T
<1>6. Ground(T, H, f, o, {}, last, next)
  BY <1>2, <1>3, <1>4, <1>5 DEF Ground
<1> QED BY <1>6 DEF T

-----------------------------------------------------------------------------
(* What the client relies on lies in the spans of its owner.               *)

HasSpan(S, o, pos) == \E s \in S : s.owner = o /\ s.lo = pos

Stays(S, f, o, parts) == parts \subseteq f /\ Inside(S, o, parts)

\* The parts H of the document, as it was opened, still give a reader what the
\* client left alone.
StillRead(H, e) ==
  /\ CanOpen(H) /\ e \in SubBlkDirRead(H)
  /\ HeaderField(H, "AttachmentDirectoryPosition") # {}

\* With the entries se and ae of the directories, by keys
SubBlocksStay(S, f, knows, keeps, se) ==
  \A k : /\ SubBlock(k) \in knows => HasSpan(S, SubBlock(k), se[k].pos)
         /\ SubBlock(k) \in keeps =>
              /\ SubBlock(k) \in knows
              /\ Stays(S, f, SubBlock(k), SubBlockExtents(se[k].pos, se[k].id))

AttachmentsStay(S, f, knows, keeps, ae) ==
  \A k : Attachment(k) \in knows =>
    /\ HasSpan(S, Attachment(k), ae[k].pos)
    /\ Attachment(k) \in keeps =>
         Stays(S, f, Attachment(k), AttachmentExtents(ae[k].pos, ae[k].id))

UntouchedStay(H, keeps, left, se) ==
  \A e \in left :
    /\ StillRead(H, e)
    /\ \E k : SubBlock(k) \in keeps /\ e = se[k]

MetadataStays(S, segment) ==
  segment.valid =>
    \E s \in S : /\ s.owner = TheMetadata /\ s.lo = segment.pos
                 /\ SegmentEnd(segment) <= s.hi

Items(S, H, f, o, knows, keeps, left, se, ae) ==
  /\ o \notin keeps /\ Document \notin keeps /\ TheMetadata \notin keeps
  /\ Nobody \notin keeps
  /\ SubBlocksStay(S, f, knows, keeps, se)
  /\ AttachmentsStay(S, f, knows, keeps, ae)
  /\ UntouchedStay(H, keeps, left, se)

LEMMA Owners ==
  /\ \A k : IsItem(SubBlock(k)) /\ IsItem(Attachment(k))
  /\ ~IsItem(Document) /\ ~IsItem(TheMetadata) /\ Document # TheMetadata
  /\ ~IsItem(Nobody) /\ Nobody # Document /\ Nobody # TheMetadata
  /\ \A k : SubBlock(k) # Document /\ Attachment(k) # Document
            /\ SubBlock(k) # TheMetadata /\ Attachment(k) # TheMetadata
            /\ SubBlock(k) # Nobody /\ Attachment(k) # Nobody
BY DEF IsItem, SubBlock, Attachment, Document, TheMetadata, Nobody

LEMMA StaysStep ==
  ASSUME NEW f, IsCziFile(f),
         NEW S, Arranged(S), NEW o, NEW w, GoodWrite(w), Spares(S, o, w),
         NEW p, p # o, NEW parts, Stays(S, f, p, parts),
         NEW g, g \in {f, Smash(f, w), Apply(f, w)}
  PROVE  Stays(S, g, p, parts)
BY SparedInFile DEF Stays

LEMMA ItemsStep ==
  ASSUME NEW f, IsCziFile(f),
         NEW S, Arranged(S), NEW o, NEW w, GoodWrite(w), Spares(S, o, w),
         NEW g, g \in {f, Smash(f, w), Apply(f, w)},
         NEW H, NEW knows, NEW keeps, NEW left, NEW se, NEW ae,
         Items(S, H, f, o, knows, keeps, left, se, ae)
  PROVE  Items(S, H, g, o, knows, keeps, left, se, ae)
<1>1. SubBlocksStay(S, g, knows, keeps, se)
  <2> SUFFICES ASSUME NEW k, SubBlock(k) \in keeps
               PROVE  Stays(S, g, SubBlock(k),
                            SubBlockExtents(se[k].pos, se[k].id))
    BY DEF Items, SubBlocksStay
  <2>1. SubBlock(k) # o
    BY DEF Items
  <2>2. Stays(S, f, SubBlock(k), SubBlockExtents(se[k].pos, se[k].id))
    BY DEF Items, SubBlocksStay
  <2> QED BY <2>1, <2>2, StaysStep
<1>2. AttachmentsStay(S, g, knows, keeps, ae)
  <2> SUFFICES ASSUME NEW k, Attachment(k) \in knows, Attachment(k) \in keeps
               PROVE  Stays(S, g, Attachment(k),
                            AttachmentExtents(ae[k].pos, ae[k].id))
    BY DEF Items, AttachmentsStay
  <2>1. Attachment(k) # o
    BY DEF Items
  <2>2. Stays(S, f, Attachment(k), AttachmentExtents(ae[k].pos, ae[k].id))
    BY DEF Items, AttachmentsStay
  <2> QED BY <2>1, <2>2, StaysStep
<1> QED BY <1>1, <1>2 DEF Items

\* More spans do no harm.
LEMMA StaysMore ==
  ASSUME NEW S, NEW T, S \subseteq T, NEW f, NEW o, NEW parts,
         Stays(S, f, o, parts)
  PROVE  Stays(T, f, o, parts)
BY DEF Stays, Inside

LEMMA ItemsMore ==
  ASSUME NEW S, NEW T, S \subseteq T, NEW f, NEW o, NEW p, NEW H, NEW knows,
         NEW keeps, NEW left, NEW se, NEW ae,
         Items(S, H, f, o, knows, keeps, left, se, ae), p \notin keeps
  PROVE  Items(T, H, f, p, knows, keeps, left, se, ae)
<1>1. SubBlocksStay(T, f, knows, keeps, se)
  BY StaysMore DEF Items, SubBlocksStay, HasSpan
<1>2. AttachmentsStay(T, f, knows, keeps, ae)
  BY StaysMore DEF Items, AttachmentsStay, HasSpan
<1> QED BY <1>1, <1>2 DEF Items

LEMMA MetadataMore ==
  ASSUME NEW S, NEW T, S \subseteq T, NEW segment, MetadataStays(S, segment)
  PROVE  MetadataStays(T, segment)
BY DEF MetadataStays

\* An item is replaced or removed: the client relies on it no more.
LEMMA ItemsLess ==
  ASSUME NEW S, NEW f, NEW o, NEW p, NEW H, NEW knows, NEW keeps, NEW left,
         NEW se, NEW ae, NEW k,
         Items(S, H, f, o, knows, keeps, left, se, ae),
         p \in {SubBlock(k), Attachment(k)},
         NEW knows2, knows2 \in {knows, knows \ {p}}, NEW left2,
         p = SubBlock(k) => left2 = left \ {se[k]},
         p = Attachment(k) => left2 = left
  PROVE  Items(S, H, f, p, knows2, keeps \ {p}, left2, se, ae)
<1>1. SubBlocksStay(S, f, knows2, keeps \ {p}, se)
  BY DEF Items, SubBlocksStay
<1>2. AttachmentsStay(S, f, knows2, keeps \ {p}, ae)
  BY DEF Items, AttachmentsStay
<1>3. UntouchedStay(H, keeps \ {p}, left2, se)
  <2> SUFFICES ASSUME NEW e \in left2
               PROVE  \E j : SubBlock(j) \in keeps \ {p} /\ e = se[j]
    BY DEF Items, UntouchedStay
  <2>1. PICK j : SubBlock(j) \in keeps /\ e = se[j]
    BY DEF Items, UntouchedStay
  <2>2. SubBlock(j) # p
    BY <2>1, KeyProperties
  <2> QED BY <2>1, <2>2
<1> QED BY <1>1, <1>2, <1>3 DEF Items

\* A sub-block was written: the client relies on it.
LEMMA ItemsSubBlock ==
  ASSUME NEW S, NEW f, NEW o, NEW H, NEW knows, NEW keeps, NEW left,
         NEW se, NEW ae, NEW k, NEW se2, NEW p,
         Items(S, H, f, o, knows, keeps, left, se, ae),
         \A j : SubBlock(j) \in knows => j = k \/ se2[j] = se[j],
         SubBlock(k) \in keeps => se2[k] = se[k],
         HasSpan(S, SubBlock(k), se2[k].pos),
         Stays(S, f, SubBlock(k), SubBlockExtents(se2[k].pos, se2[k].id)),
         p = Nobody
  PROVE  Items(S, H, f, p, knows \cup {SubBlock(k)}, keeps \cup {SubBlock(k)},
               left, se2, ae)
<1>1. SubBlocksStay(S, f, knows \cup {SubBlock(k)}, keeps \cup {SubBlock(k)},
                    se2)
  <2> SUFFICES ASSUME NEW j
               PROVE /\ SubBlock(j) \in knows \cup {SubBlock(k)} =>
                          HasSpan(S, SubBlock(j), se2[j].pos)
                     /\ SubBlock(j) \in keeps \cup {SubBlock(k)} =>
                          /\ SubBlock(j) \in knows \cup {SubBlock(k)}
                          /\ Stays(S, f, SubBlock(j),
                                   SubBlockExtents(se2[j].pos, se2[j].id))
    BY DEF SubBlocksStay
  <2>1. CASE j = k
    BY <2>1
  <2>2. CASE j # k
    <3>1. SubBlock(j) # SubBlock(k)
      BY <2>2, KeyProperties
    <3> QED BY <2>2, <3>1 DEF Items, SubBlocksStay
  <2> QED BY <2>1, <2>2
<1>2. AttachmentsStay(S, f, knows \cup {SubBlock(k)}, keeps \cup {SubBlock(k)},
                      ae)
  BY KeyProperties DEF Items, AttachmentsStay
<1>3. UntouchedStay(H, keeps \cup {SubBlock(k)}, left, se2)
  <2> SUFFICES ASSUME NEW e \in left
               PROVE  \E j : SubBlock(j) \in keeps \cup {SubBlock(k)}
                             /\ e = se2[j]
    BY DEF Items, UntouchedStay
  <2>1. PICK j : SubBlock(j) \in keeps /\ e = se[j]
    BY DEF Items, UntouchedStay
  <2>2. SubBlock(j) \in knows
    BY <2>1 DEF Items, SubBlocksStay
  <2> QED BY <2>1, <2>2
<1>4. /\ Document \notin keeps \cup {SubBlock(k)}
      /\ TheMetadata \notin keeps \cup {SubBlock(k)}
      /\ Nobody \notin keeps \cup {SubBlock(k)}
  BY Owners DEF Items
<1> QED BY <1>1, <1>2, <1>3, <1>4 DEF Items

\* The same for an attachment.
LEMMA ItemsAttachment ==
  ASSUME NEW S, NEW f, NEW o, NEW H, NEW knows, NEW keeps, NEW left,
         NEW se, NEW ae, NEW k, NEW ae2, NEW p,
         Items(S, H, f, o, knows, keeps, left, se, ae),
         \A j : Attachment(j) \in knows => j = k \/ ae2[j] = ae[j],
         HasSpan(S, Attachment(k), ae2[k].pos),
         Stays(S, f, Attachment(k), AttachmentExtents(ae2[k].pos, ae2[k].id)),
         p = Nobody
  PROVE  Items(S, H, f, p, knows \cup {Attachment(k)},
               keeps \cup {Attachment(k)}, left, se, ae2)
<1>1. AttachmentsStay(S, f, knows \cup {Attachment(k)},
                      keeps \cup {Attachment(k)}, ae2)
  <2> SUFFICES ASSUME NEW j, Attachment(j) \in knows \cup {Attachment(k)}
               PROVE /\ HasSpan(S, Attachment(j), ae2[j].pos)
                     /\ Attachment(j) \in keeps \cup {Attachment(k)} =>
                          Stays(S, f, Attachment(j),
                                AttachmentExtents(ae2[j].pos, ae2[j].id))
    BY DEF AttachmentsStay
  <2>1. CASE j = k
    BY <2>1
  <2>2. CASE j # k
    <3>1. Attachment(j) # Attachment(k)
      BY <2>2, KeyProperties
    <3> QED BY <2>2, <3>1 DEF Items, AttachmentsStay
  <2> QED BY <2>1, <2>2
<1>2. SubBlocksStay(S, f, knows \cup {Attachment(k)},
                    keeps \cup {Attachment(k)}, se)
  BY KeyProperties DEF Items, SubBlocksStay
<1>3. UntouchedStay(H, keeps \cup {Attachment(k)}, left, se)
  BY DEF Items, UntouchedStay
<1>4. /\ Document \notin keeps \cup {Attachment(k)}
      /\ TheMetadata \notin keeps \cup {Attachment(k)}
      /\ Nobody \notin keeps \cup {Attachment(k)}
  BY Owners DEF Items
<1> QED BY <1>1, <1>2, <1>3, <1>4 DEF Items

\* An attachment went where the next item will go: its key is used no more.
LEMMA ItemsAttachmentMoved ==
  ASSUME NEW S, NEW f, NEW o, NEW H, NEW knows, NEW keeps, NEW left,
         NEW se, NEW ae, NEW k, NEW ae2, NEW p,
         Items(S, H, f, o, knows, keeps, left, se, ae),
         \A j : Attachment(j) \in knows => j = k \/ ae2[j] = ae[j],
         p = Nobody
  PROVE  Items(S, H, f, p, knows \ {Attachment(k)},
               keeps \cup {Attachment(k)}, left, se, ae2)
<1>1. AttachmentsStay(S, f, knows \ {Attachment(k)},
                      keeps \cup {Attachment(k)}, ae2)
  <2> SUFFICES ASSUME NEW j, Attachment(j) \in knows, j # k
               PROVE /\ HasSpan(S, Attachment(j), ae2[j].pos)
                     /\ Attachment(j) \in keeps =>
                          Stays(S, f, Attachment(j),
                                AttachmentExtents(ae2[j].pos, ae2[j].id))
    BY KeyProperties DEF AttachmentsStay
  <2> QED BY DEF Items, AttachmentsStay
<1>2. SubBlocksStay(S, f, knows \ {Attachment(k)}, keeps \cup {Attachment(k)},
                    se)
  BY KeyProperties DEF Items, SubBlocksStay
<1>3. UntouchedStay(H, keeps \cup {Attachment(k)}, left, se)
  BY DEF Items, UntouchedStay
<1>4. /\ Document \notin keeps \cup {Attachment(k)}
      /\ TheMetadata \notin keeps \cup {Attachment(k)}
      /\ Nobody \notin keeps \cup {Attachment(k)}
  BY Owners DEF Items
<1> QED BY <1>1, <1>2, <1>3, <1>4 DEF Items

\* Entries that the client does not know play no role.
LEMMA ItemsEntries ==
  ASSUME NEW S, NEW f, NEW o, NEW p, NEW H, NEW knows, NEW keeps, NEW left,
         NEW se, NEW ae, NEW se2, NEW ae2,
         Items(S, H, f, o, knows, keeps, left, se, ae), p \notin keeps,
         \A j : SubBlock(j) \in knows => se2[j] = se[j],
         \A j : Attachment(j) \in knows => ae2[j] = ae[j]
  PROVE  Items(S, H, f, p, knows, keeps, left, se2, ae2)
<1>1. SubBlocksStay(S, f, knows, keeps, se2)
  BY DEF Items, SubBlocksStay
<1>2. AttachmentsStay(S, f, knows, keeps, ae2)
  BY DEF Items, AttachmentsStay
<1>3. UntouchedStay(H, keeps, left, se2)
  BY DEF Items, UntouchedStay, SubBlocksStay
<1> QED BY <1>1, <1>2, <1>3 DEF Items

\* What the invariant is for
LEMMA ItemsRead ==
  ASSUME NEW S, NEW f, IsCziFile(f), NEW o, NEW H, H \subseteq f, NEW knows,
         NEW keeps, NEW left, NEW se, NEW ae,
         Items(S, H, f, o, knows, keeps, left, se, ae)
  PROVE  /\ \A k : SubBlock(k) \in keeps =>
              SubBlock(k) \in knows /\ SubBlockAt(f, se[k].pos, se[k].id)
         /\ \A k : Attachment(k) \in keeps \cap knows =>
              AttachmentAt(f, ae[k].pos, ae[k].id)
         /\ left # {} => CanOpen(f)
         /\ \A e \in left : e \in SubBlkDirRead(f) /\ SubBlockAt(f, e.pos, e.id)
<1>1. \A k : SubBlock(k) \in keeps =>
               SubBlock(k) \in knows /\ SubBlockAt(f, se[k].pos, se[k].id)
  BY DEF Items, SubBlocksStay, Stays, SubBlockAt
<1>2. \A k : Attachment(k) \in keeps \cap knows =>
               AttachmentAt(f, ae[k].pos, ae[k].id)
  BY DEF Items, AttachmentsStay, Stays, AttachmentAt
<1>3. \A e \in left : StillRead(H, e) /\ SubBlockAt(f, e.pos, e.id)
  BY <1>1 DEF Items, UntouchedStay
<1>4. \A n : HeaderField(H, n) \subseteq HeaderField(f, n)
  BY DEF HeaderField
<1>5. \A p : SubBlkDirAt(H, p) \subseteq SubBlkDirAt(f, p)
  BY DEF SubBlkDirAt, HasMagic
<1>6. ASSUME NEW e, StillRead(H, e)
      PROVE  CanOpen(f) /\ e \in SubBlkDirRead(f)
  <2>1. e \in SubBlkDirRead(f)
    <3>1. PICK p \in HeaderField(H, "SubBlockDirectoryPosition") :
            e \in UNION {{dir[k] : k \in DOMAIN dir} : dir \in SubBlkDirAt(H, p)}
      BY <1>6 DEF StillRead, SubBlkDirRead
    <3>2. PICK dir \in SubBlkDirAt(H, p) : e \in {dir[k] : k \in DOMAIN dir}
      BY <3>1
    <3> QED BY <1>4, <1>5, <3>1, <3>2 DEF SubBlkDirRead
  <2>2. PICK q : q \in HeaderField(H, "AttachmentDirectoryPosition")
    BY <1>6 DEF StillRead
  <2>3. ASSUME NEW p \in HeaderField(f, "AttachmentDirectoryPosition")
        PROVE  p = q
    <3>1. PICK x \in f : /\ x.what[1] = "AttachmentDirectoryPosition"
                         /\ x.what[2] = p
      BY DEF HeaderField
    <3>2. PICK y \in f : /\ y.what[1] = "AttachmentDirectoryPosition"
                         /\ y.what[2] = q
      BY <2>2 DEF HeaderField
    <3>3. x.lo = 104 /\ y.lo = 104
      BY <3>1, <3>2 DEF IsCziFile, WellFormed
    <3> QED BY <3>1, <3>2, <3>3 DEF IsCziFile
  <2>4. HasMagic(f, 0, "ZISRAWFILE")
    BY <1>6 DEF StillRead, CanOpen, HasMagic
  <2>5. \E p \in HeaderField(f, "SubBlockDirectoryPosition") :
          SubBlkDirAt(f, p) # {}
    BY <1>4, <1>5, <1>6 DEF StillRead, CanOpen
  <2>6. q # 0 => HasMagic(f, q, "ZISRAWATTDIR")
    BY <1>6, <2>2 DEF StillRead, CanOpen, HasMagic
  <2>7. CanOpen(f)
    BY <2>3, <2>4, <2>5, <2>6 DEF CanOpen
  <2> QED BY <2>1, <2>7
<1> QED BY <1>1, <1>2, <1>3, <1>6

-----------------------------------------------------------------------------
(* The writes of an item leave its parts in its segment.                   *)

\* The parts, and the allocated size of the segment at pos, will be there.
Coming(f, ws, pos, allocated, parts) ==
  \A x \in parts \cup {Extent(pos + 16, 8, <<"allocated", allocated>>)} :
    Lasting(f, ws, x) /\ Within(x, pos, allocated)

LEMMA SubBlockComes ==
  ASSUME FunctorsDeliver,
         NEW pos \in Nat, NEW c \in SubBlocks, NEW allocated \in Nat, NEW f,
         SubBlockHeadSize + SubBlockSize[c] <= allocated + SegmentHeaderSize
  PROVE  Coming(f, Range(WriteSubBlock(pos, c, allocated)), pos, allocated,
                SubBlockExtents(pos, c))
<1> DEFINE head == SegmentHeader(pos, "ZISRAWSUBBLOCK", allocated)
                     \cup {SubBlockHead(pos, c)}
           payload == SubBlockPayload(pos, c)
           size == PayloadBytes(c)
           holds == {x \in {payload} : PartsInPlace(c)}
           rest == NotEmpty({SubBlockRest(pos, c)})
           n == SubBlockHeadSize
           e1 == Magic(pos, "ZISRAWSUBBLOCK")
           e2 == Extent(pos + 16, 8, <<"allocated", allocated>>)
           e3 == SubBlockHead(pos, c)
           ws == WriteSubBlock(pos, c, allocated)
<1>1. n \in Nat /\ n >= 288 /\ size \in Nat /\ n + size <= allocated + 32
  <2>1. size = SubBlockSize[c] /\ size \in Nat
    BY PayloadProperties DEF FunctorsDeliver, WrittenInFull
  <2> HIDE DEF size
  <2> QED BY <2>1, HeadSizes DEF SegmentHeaderSize
<1>2. /\ e1.lo = pos /\ e1.hi = pos + 16
      /\ e2.lo = pos + 16 /\ e2.hi = pos + 24
      /\ e3.lo = pos + 32 /\ e3.hi = pos + n
      /\ payload.lo = pos + n /\ payload.hi = payload.lo + size
  BY <1>1 DEF Magic, SubBlockHead, SubBlockPayload, Extent, SegmentHeaderSize
<1>3. e1 \in head /\ e2 \in head /\ e3 \in head
  BY DEF SegmentHeader
<1>4. SubBlockExtents(pos, c) = NotEmpty({e1, e3, payload})
  <2>1. NotEmpty({SubBlockRest(pos, c)}) = {}
    BY NoRest DEF FunctorsDeliver
  <2> QED BY <2>1 DEF SubBlockExtents, NotEmpty
<1>5. payload \in holds
  BY PayloadProperties DEF FunctorsDeliver
<1>6. ws = WriteSegment(pos, n, head, size, holds, rest, allocated)
  BY DEF WriteSubBlock
<1> HIDE DEF n, size, head, payload, holds, rest, e1, e2, e3, ws
<1>7. ASSUME NEW x \in SubBlockExtents(pos, c) \cup {e2}
      PROVE  /\ x.lo \in Nat /\ x.hi \in Nat
             /\ x.lo >= pos /\ x.hi <= pos + (n + size)
             /\ \/ x \in head /\ x.hi <= pos + n
                \/ /\ x = payload /\ size > 0
                   /\ x.lo = pos + n /\ x.hi = x.lo + size
  <2>1. x \in {e1, e2, e3} \/ (x = payload /\ payload.lo < payload.hi)
    BY <1>4 DEF NotEmpty
  <2>2. CASE x \in {e1, e2, e3}
    BY <1>1, <1>2, <1>3, <2>2
  <2>3. CASE x = payload /\ payload.lo < payload.hi
    BY <1>1, <1>2, <2>3
  <2> QED BY <2>1, <2>2, <2>3
<1>8. ASSUME NEW x \in SubBlockExtents(pos, c) \cup {e2}
      PROVE  Lasting(f, Range(ws), x) /\ Within(x, pos, allocated)
  <2>1. Lasting(f, Range(ws), x)
    <3>1. /\ x.lo \in Nat /\ x.hi \in Nat
          /\ \/ x \in head /\ x.hi <= pos + n
             \/ /\ x = payload /\ size > 0
                /\ x.lo = pos + n /\ x.hi = x.lo + size
      BY <1>7, <1>8
    <3>2. n + size <= allocated + SegmentHeaderSize
      BY <1>1 DEF SegmentHeaderSize
    <3> QED BY <1>1, <1>6, <1>5, <3>1, <3>2, SegmentWritesLast
  <2>2. Within(x, pos, allocated)
    BY <1>1, <1>7 DEF Within, SegmentHeaderSize
  <2> QED BY <2>1, <2>2
<1>9. Coming(f, Range(ws), pos, allocated, SubBlockExtents(pos, c))
  BY <1>8 DEF Coming, e2
<1> QED BY <1>9 DEF ws

LEMMA AttachmentComes ==
  ASSUME NEW pos \in Nat, NEW a \in Attachments, NEW allocated \in Nat, NEW f,
         AttachmentUsed(a) <= allocated
  PROVE  Coming(f, Range(WriteAttachment(pos, a, allocated)), pos, allocated,
                AttachmentExtents(pos, a))
<1> DEFINE head == SegmentHeader(pos, "ZISRAWATTACH", allocated)
                     \cup {AttachmentHead(pos, a)}
           payload == AttachmentPayload(pos, a)
           size == AttachmentSize[a]
           n == FixedHeaderSize
           e1 == Magic(pos, "ZISRAWATTACH")
           e2 == Extent(pos + 16, 8, <<"allocated", allocated>>)
           e3 == AttachmentHead(pos, a)
           ws == WriteAttachment(pos, a, allocated)
<1>1. n \in Nat /\ n = 288 /\ size \in Nat /\ n + size <= allocated + 32
  BY SizesAreNat DEF SegmentHeaderSize, FixedHeaderSize, AttachmentUsed
<1>2. /\ e1.lo = pos /\ e1.hi = pos + 16
      /\ e2.lo = pos + 16 /\ e2.hi = pos + 24
      /\ e3.lo = pos + 32 /\ e3.hi = pos + n
      /\ payload.lo = pos + n /\ payload.hi = payload.lo + size
  BY <1>1 DEF Magic, AttachmentHead, AttachmentPayload, Extent,
              SegmentHeaderSize
<1>3. e1 \in head /\ e2 \in head /\ e3 \in head
  BY DEF SegmentHeader
<1>4. AttachmentExtents(pos, a) = NotEmpty({e1, e3, payload})
  BY DEF AttachmentExtents
<1>5. ws = WriteSegment(pos, n, head, size, {payload}, {}, allocated)
  BY DEF WriteAttachment
<1>6. n \in Nat /\ n >= 288
  BY <1>1
<1> HIDE DEF n, size, head, payload, e1, e2, e3, ws
<1>7. ASSUME NEW x \in AttachmentExtents(pos, a) \cup {e2}
      PROVE  /\ x.lo \in Nat /\ x.hi \in Nat
             /\ x.lo >= pos /\ x.hi <= pos + (n + size)
             /\ \/ x \in head /\ x.hi <= pos + n
                \/ /\ x = payload /\ size > 0
                   /\ x.lo = pos + n /\ x.hi = x.lo + size
  <2>1. x \in {e1, e2, e3} \/ (x = payload /\ payload.lo < payload.hi)
    BY <1>4 DEF NotEmpty
  <2>2. CASE x \in {e1, e2, e3}
    BY <1>1, <1>2, <1>3, <2>2
  <2>3. CASE x = payload /\ payload.lo < payload.hi
    BY <1>1, <1>2, <2>3
  <2> QED BY <2>1, <2>2, <2>3
<1>8. ASSUME NEW x \in AttachmentExtents(pos, a) \cup {e2}
      PROVE  Lasting(f, Range(ws), x) /\ Within(x, pos, allocated)
  <2>1. Lasting(f, Range(ws), x)
    <3>1. /\ x.lo \in Nat /\ x.hi \in Nat
          /\ \/ x \in head /\ x.hi <= pos + n
             \/ /\ x = payload /\ size > 0
                /\ x.lo = pos + n /\ x.hi = x.lo + size
      BY <1>7, <1>8
    <3>2. n + size <= allocated + SegmentHeaderSize /\ size \in Nat
      BY <1>1 DEF SegmentHeaderSize
    <3> QED BY <1>5, <1>6, <3>1, <3>2, SegmentWritesLast
  <2>2. Within(x, pos, allocated)
    BY <1>1, <1>7 DEF Within, SegmentHeaderSize
  <2> QED BY <2>1, <2>2
<1>9. Coming(f, Range(ws), pos, allocated, AttachmentExtents(pos, a))
  BY <1>8 DEF Coming, e2
<1> QED BY <1>9 DEF ws

\* Behind an item at most 31 bytes are filled, so all of them are counted.
LEMMA AlignUpTo ==
  ASSUME NEW n \in Nat
  PROVE  AlignSegmentSize(n) \in Nat /\ AlignSegmentSize(n) <= n + 31
BY DEF AlignSegmentSize, SegmentAlign

LEMMA BytesOfItems ==
  /\ FunctorsDeliver =>
       \A c \in SubBlocks :
         SubBlockBytes(c, SubBlockAllocated(c))
           = SubBlockAllocated(c) + SegmentHeaderSize
  /\ \A a \in Attachments :
       AttachmentBytes(a, AttachmentAllocated(a))
         = AttachmentAllocated(a) + SegmentHeaderSize
<1>1. ASSUME NEW used \in Nat, NEW total \in Nat, used <= total,
             total <= used + 31
      PROVE  used + ZeroFillLength(total - used) = total
  BY <1>1 DEF ZeroFillLength, ZeroChunk
<1>2. ASSUME FunctorsDeliver, NEW c \in SubBlocks
      PROVE  SubBlockBytes(c, SubBlockAllocated(c))
               = SubBlockAllocated(c) + SegmentHeaderSize
  <2> DEFINE used == SubBlockHeadSize + SubBlockSize[c]
             total == SubBlockAllocated(c) + SegmentHeaderSize
  <2>1. used \in Nat /\ SubBlockAllocated(c) \in Nat
        /\ SubBlockAllocated(c) + 32 >= used
    BY HeadSizes, PayloadProperties, AllocatedSizes
  <2>2. SubBlockAllocated(c) = AlignSegmentSize(used) - 32
    BY DEF SubBlockAllocated, SegmentHeaderSize
  <2>3. SubBlockBytes(c, SubBlockAllocated(c))
          = used + ZeroFillLength(total - used)
    <3>1. PayloadBytes(c) = SubBlockSize[c]
      BY <1>2 DEF FunctorsDeliver, WrittenInFull
    <3> QED BY <3>1 DEF SubBlockBytes, SegmentBytes
  <2> HIDE DEF used
  <2>4. total \in Nat /\ used <= total /\ total <= used + 31
    BY <2>1, <2>2, AlignUpTo DEF SegmentHeaderSize
  <2> HIDE DEF total
  <2>5. used + ZeroFillLength(total - used) = total
    BY <1>1, <2>1, <2>4
  <2> QED BY <2>3, <2>5 DEF total
<1>3. ASSUME NEW a \in Attachments
      PROVE  AttachmentBytes(a, AttachmentAllocated(a))
               = AttachmentAllocated(a) + SegmentHeaderSize
  <2> DEFINE used == FixedHeaderSize + AttachmentSize[a]
             total == AttachmentAllocated(a) + SegmentHeaderSize
  <2>1. /\ AttachmentUsed(a) \in Nat /\ used = AttachmentUsed(a) + 32
        /\ AttachmentAllocated(a) \in Nat
        /\ AttachmentAllocated(a) >= AttachmentUsed(a)
    BY SizesAreNat, AllocatedSizes
       DEF AttachmentUsed, FixedHeaderSize, SegmentHeaderSize
  <2>2. AttachmentAllocated(a) = AlignSegmentSize(AttachmentUsed(a))
    BY DEF AttachmentAllocated
  <2>3. AttachmentBytes(a, AttachmentAllocated(a))
          = used + ZeroFillLength(total - used)
    BY DEF AttachmentBytes, SegmentBytes
  <2> HIDE DEF used
  <2>4. /\ used \in Nat /\ total \in Nat /\ used <= total
        /\ total <= used + 31
    BY <2>1, <2>2, AlignUpTo DEF SegmentHeaderSize
  <2> HIDE DEF total
  <2>5. used + ZeroFillLength(total - used) = total
    BY <1>1, <2>4
  <2> QED BY <2>3, <2>5 DEF total
<1> QED BY <1>2, <1>3

-----------------------------------------------------------------------------
(* What Close relies on of the document as it was opened: its file header,  *)
(* and the directories that were not edited.  Each is read from parts that  *)
(* lie in a span of the document.                                           *)

Parts(f, lo, hi) == {x \in f : lo <= x.lo /\ x.hi <= hi}

Held(S, lo, hi) == \E t \in S : t.owner = Document /\ t.lo <= lo /\ hi <= t.hi

\* Where the entries of a directory at pos end
DirectoryEnd(pos, count) ==
  IF count = 0 THEN pos + SegmentHeaderSize + 4
  ELSE pos + SubBlkDirHeaderSize + count * EntryDVSize

\* The file header P names these positions.
Names(P, sub, md, att) ==
  /\ HasMagic(P, 0, "ZISRAWFILE")
  /\ sub \in HeaderField(P, "SubBlockDirectoryPosition")
  /\ md \in HeaderField(P, "MetadataPosition")
  /\ att \in HeaderField(P, "AttachmentDirectoryPosition")

Reads(f, pos, dir) ==
  dir \in SubBlkDirAt(Parts(f, pos, DirectoryEnd(pos, Len(dir))), pos)

\* The parts P of the attachment directory give the entries, and there is room
\* for as many as it counts.
ListsAttachments(P, segment, entries) ==
  /\ HasMagic(P, segment.pos, "ZISRAWATTDIR")
  /\ \E z \in P :
       /\ z.lo = segment.pos + SegmentHeaderSize /\ z.what[1] = "count"
       /\ segment.pos + SegmentHeaderSize + AttachmentDirUsed(z.what[2])
            <= SegmentEnd(segment)
  /\ {x.what[2] : x \in AttachmentDirSlots(P, segment.pos)} = entries

ReadsAttachments(f, segment, entries) ==
  ListsAttachments(Parts(f, segment.pos, SegmentEnd(segment)), segment, entries)

\* What is not the document's lies apart from the directory, and what will be
\* appended lies behind it.
DirectoryRoom(S, segment) ==
  segment.valid =>
    /\ \A s \in S : \/ s.owner = Document
                    \/ s.hi <= segment.pos \/ SegmentEnd(segment) <= s.lo
    /\ \E t \in S : SegmentEnd(segment) <= t.hi

\* The attachment directory lies apart from the sub-block directory, or over the
\* end of its room, which then has none for entries.
Pair(sub, att) ==
  sub.valid /\ att.valid =>
    \/ SegmentEnd(att) <= sub.pos
    \/ SegmentEnd(sub) <= att.pos
    \/ /\ sub.pos + SegmentHeaderSize + 4 <= att.pos
       /\ att.pos < SegmentEnd(sub)
       /\ sub.allocated < SubBlkDirAllocated(1)

HeaderKept(S, f, hdr) ==
  /\ Held(S, 0, FileHeaderSegmentSize)
  /\ Names(Parts(f, 0, FileHeaderSegmentSize), hdr.subBlockDirectory,
           hdr.metadata, hdr.attachmentDirectory)

\* The directory on disk, and where it ends
Keeps(S, f, sub, att, dir, end) ==
  /\ Reads(f, sub.pos, dir) /\ Held(S, sub.pos, end)
  /\ end <= SegmentEnd(sub)
  /\ att.valid => end <= att.pos \/ SegmentEnd(att) <= sub.pos

SubBlkDirKept(S, f, sub, att, sb) ==
  sub.valid /\ ~sb.modified =>
    \E dir : /\ IsListOf(dir, sb)
             /\ Keeps(S, f, sub, att, dir, DirectoryEnd(sub.pos, Len(dir)))

AttachmentDirKept(S, f, att, ad) ==
  ~ad.modified =>
    /\ att.valid => /\ Held(S, att.pos, SegmentEnd(att))
                    /\ ReadsAttachments(f, att, EntriesOf(ad))
    /\ ~att.valid => EntriesOf(ad) = {}

Frame(S, f, hdr, sub, att, sb, ad) ==
  /\ HeaderKept(S, f, hdr)
  /\ sub.pos = hdr.subBlockDirectory /\ att.pos = hdr.attachmentDirectory
  /\ DirectoryRoom(S, sub) /\ DirectoryRoom(S, att) /\ Pair(sub, att)
  /\ SubBlkDirKept(S, f, sub, att, sb) /\ AttachmentDirKept(S, f, att, ad)

\* A write leaves alone what it does not reach.
LEMMA PartsKept ==
  ASSUME NEW f, IsCziFile(f), NEW w, GoodWrite(w), NEW lo \in Nat,
         NEW hi \in Nat, hi <= w.pos \/ w.pos + w.len <= lo,
         NEW g, g \in {f, Smash(f, w), Apply(f, w)}
  PROVE  Parts(g, lo, hi) = Parts(f, lo, hi)
<1>1. w.pos \in Nat /\ w.len \in Nat
  BY DEF GoodWrite
<1>2. ASSUME NEW x \in f, lo <= x.lo, x.hi <= hi PROVE x \in g
  <2>1. x.lo \in Nat /\ x.hi \in Nat
    BY WellFormedBounds DEF IsCziFile
  <2>2. Survives(x, w)
    BY <1>1, <1>2, <2>1 DEF Survives
  <2> QED BY <2>2 DEF Smash, Apply
<1>3. ASSUME NEW x \in g, lo <= x.lo, x.hi <= hi PROVE x \in f
  <2>1. CASE x \in w.holds
    <3>1. /\ x.lo \in Nat /\ x.hi \in Nat /\ x.lo < x.hi
          /\ w.pos <= x.lo /\ x.hi <= w.pos + w.len
      BY <2>1, WellFormedBounds DEF GoodWrite
    <3> QED BY <1>1, <1>3, <3>1
  <2> QED BY <1>3, <2>1 DEF Smash, Apply
<1> QED BY <1>2, <1>3 DEF Parts

LEMMA HeldParts ==
  ASSUME NEW f, IsCziFile(f),
         NEW S, Arranged(S), NEW o, o # Document, NEW w, GoodWrite(w),
         Spares(S, o, w), NEW g, g \in {f, Smash(f, w), Apply(f, w)},
         NEW lo \in Nat, NEW hi \in Nat, Held(S, lo, hi)
  PROVE  Parts(g, lo, hi) = Parts(f, lo, hi)
<1>1. PICK t \in S : t.owner = Document /\ t.lo <= lo /\ hi <= t.hi
  BY DEF Held
<1>2. t.hi <= w.pos \/ w.pos + w.len <= t.lo
  BY <1>1 DEF Spares
<1>3. t.lo \in Nat /\ t.hi \in Nat /\ w.pos \in Nat /\ w.len \in Nat
  BY DEF Arranged, GoodWrite
<1>4. hi <= w.pos \/ w.pos + w.len <= lo
  BY <1>1, <1>2, <1>3
<1> QED BY <1>4, PartsKept

LEMMA EndTyped ==
  /\ \A segment \in Segments : segment.pos \in Nat /\ SegmentEnd(segment) \in Nat
  /\ \A pos \in Nat, n \in Nat : DirectoryEnd(pos, n) \in Nat
<1>1. ASSUME NEW segment \in Segments
      PROVE  segment.pos \in Nat /\ SegmentEnd(segment) \in Nat
  BY DEF Segments, SegmentEnd, SegmentHeaderSize
<1>2. ASSUME NEW pos \in Nat, NEW n \in Nat PROVE DirectoryEnd(pos, n) \in Nat
  <2>1. EntryDVSize \in Nat
    BY HeadSizes
  <2>2. n * EntryDVSize \in Nat
    BY <2>1
  <2> QED BY <2>2 DEF DirectoryEnd, SegmentHeaderSize, SubBlkDirHeaderSize
<1> QED BY <1>1, <1>2

LEMMA FrameStep ==
  ASSUME NEW f, IsCziFile(f),
         NEW S, Arranged(S), NEW o, o # Document, NEW w, GoodWrite(w),
         Spares(S, o, w), NEW g, g \in {f, Smash(f, w), Apply(f, w)},
         NEW hdr, NEW sub \in Segments, NEW att \in Segments, NEW sb, NEW ad,
         Frame(S, f, hdr, sub, att, sb, ad)
  PROVE  Frame(S, g, hdr, sub, att, sb, ad)
<1>1. HeaderKept(S, g, hdr)
  <2>1. Held(S, 0, FileHeaderSegmentSize) /\ FileHeaderSegmentSize \in Nat
    BY DEF Frame, HeaderKept, FileHeaderSegmentSize
  <2>2. Parts(g, 0, FileHeaderSegmentSize) = Parts(f, 0, FileHeaderSegmentSize)
    BY <2>1, HeldParts
  <2> QED BY <2>2 DEF Frame, HeaderKept
<1>2. SubBlkDirKept(S, g, sub, att, sb)
  <2> SUFFICES ASSUME sub.valid, ~sb.modified
               PROVE  \E dir : /\ IsListOf(dir, sb)
                               /\ Keeps(S, g, sub, att, dir,
                                        DirectoryEnd(sub.pos, Len(dir)))
    BY DEF SubBlkDirKept
  <2>1. PICK dir : /\ IsListOf(dir, sb)
                   /\ Keeps(S, f, sub, att, dir,
                            DirectoryEnd(sub.pos, Len(dir)))
    BY DEF Frame, SubBlkDirKept
  <2>2. PICK end : end = DirectoryEnd(sub.pos, Len(dir))
    OBVIOUS
  <2>3. end \in Nat /\ sub.pos \in Nat
    BY <2>1, <2>2, EndTyped DEF IsListOf
  <2>4. Parts(g, sub.pos, end) = Parts(f, sub.pos, end)
    BY <2>1, <2>2, <2>3, HeldParts DEF Keeps
  <2>5. Reads(g, sub.pos, dir)
    BY <2>1, <2>2, <2>4 DEF Keeps, Reads
  <2> QED BY <2>1, <2>5 DEF Keeps
<1>3. AttachmentDirKept(S, g, att, ad)
  <2> SUFFICES ASSUME ~ad.modified, att.valid
               PROVE  ReadsAttachments(g, att, EntriesOf(ad))
    BY DEF Frame, AttachmentDirKept
  <2>1. /\ Held(S, att.pos, SegmentEnd(att))
        /\ ReadsAttachments(f, att, EntriesOf(ad))
    BY DEF Frame, AttachmentDirKept
  <2>2. PICK lo, hi : lo = att.pos /\ hi = SegmentEnd(att)
    OBVIOUS
  <2>3. lo \in Nat /\ hi \in Nat
    BY <2>2, EndTyped
  <2>4. Parts(g, lo, hi) = Parts(f, lo, hi)
    BY <2>1, <2>2, <2>3, HeldParts
  <2> QED BY <2>1, <2>2, <2>4 DEF ReadsAttachments
<1> QED BY <1>1, <1>2, <1>3 DEF Frame

\* A span is added behind the others.
LEMMA FrameMore ==
  ASSUME NEW S, Arranged(S), NEW f, NEW hdr, NEW sub \in Segments,
         NEW att \in Segments, NEW sb, NEW ad,
         Frame(S, f, hdr, sub, att, sb, ad),
         NEW t, t.lo \in Nat, \A s \in S : s.hi <= t.lo,
         NEW T, T = S \cup {t}
  PROVE  Frame(T, f, hdr, sub, att, sb, ad)
<1>1. \A lo, hi : Held(S, lo, hi) => Held(T, lo, hi)
  BY DEF Held
<1>2. ASSUME NEW segment \in Segments, DirectoryRoom(S, segment)
      PROVE  DirectoryRoom(T, segment)
  <2> SUFFICES ASSUME segment.valid
               PROVE  /\ \A s \in T : \/ s.owner = Document
                                      \/ s.hi <= segment.pos
                                      \/ SegmentEnd(segment) <= s.lo
                      /\ \E s \in T : SegmentEnd(segment) <= s.hi
    BY DEF DirectoryRoom
  <2>1. /\ \A s \in S : \/ s.owner = Document
                        \/ s.hi <= segment.pos \/ SegmentEnd(segment) <= s.lo
        /\ \E s \in S : SegmentEnd(segment) <= s.hi
    BY <1>2 DEF DirectoryRoom
  <2>2. SegmentEnd(segment) \in Nat /\ \A s \in S : s.hi \in Nat
    BY EndTyped DEF Arranged
  <2>3. SegmentEnd(segment) <= t.lo
    BY <2>1, <2>2
  <2> QED BY <2>1, <2>3
<1>3. HeaderKept(T, f, hdr)
  BY <1>1 DEF Frame, HeaderKept
<1>4. SubBlkDirKept(T, f, sub, att, sb)
  BY <1>1 DEF Frame, SubBlkDirKept, Keeps
<1>5. AttachmentDirKept(T, f, att, ad)
  BY <1>1 DEF Frame, AttachmentDirKept
<1> QED BY <1>2, <1>3, <1>4, <1>5 DEF Frame

\* A directory that is edited is marked as modified.
EditedFrom(d, before) == d = before \/ d.modified

LEMMA FrameEdited ==
  ASSUME NEW S, NEW f, NEW hdr, NEW sub, NEW att, NEW sb, NEW ad,
         Frame(S, f, hdr, sub, att, sb, ad),
         NEW sb2, EditedFrom(sb2, sb), NEW ad2, EditedFrom(ad2, ad)
  PROVE  Frame(S, f, hdr, sub, att, sb2, ad2)
BY DEF Frame, SubBlkDirKept, AttachmentDirKept, EditedFrom

LEMMA EditMarks ==
  ASSUME NEW E, NEW d, IsDirectory(d, E), NEW k, NEW e
  PROVE  /\ EditedFrom(AddEntry(d, e), d) /\ EditedFrom(RemoveEntry(d, k), d)
         /\ EditedFrom(ModifyEntry(d, k, e), d)
<1> DEFINE yes == TRUE
<1>1. AddEntry(d, e).modified
  BY DEF AddEntry
<1>2. ASSUME NEW other PROVE WithEntries(d, other, yes).modified
  <2>1. d = [entries |-> d.entries, next |-> d.next, modified |-> d.modified]
    BY DEF IsDirectory
  <2> HIDE DEF yes
  <2>2. WithEntries(d, other, yes)
          = [entries |-> other, next |-> d.next, modified |-> yes]
    BY <2>1, EntriesChanged
  <2>3. WithEntries(d, other, yes).modified = yes
    BY <2>2
  <2> QED BY <2>3 DEF yes
<1>3. RemoveEntry(d, k).modified
  <2> DEFINE other == [j \in DOMAIN d.entries \ {k} |-> d.entries[j]]
  <2>1. RemoveEntry(d, k) = WithEntries(d, other, yes)
    BY DEF WithEntries, RemoveEntry
  <2> QED BY <1>2, <2>1, Zenon
<1>4. ModifyEntry(d, k, e).modified
  <2> DEFINE other == [d.entries EXCEPT ![k] = e]
  <2>1. ModifyEntry(d, k, e) = WithEntries(d, other, yes)
    BY DEF WithEntries, ModifyEntry
  <2> QED BY <1>2, <2>1, Zenon
<1> QED BY <1>1, <1>3, <1>4 DEF EditedFrom

-----------------------------------------------------------------------------
(* While a document is open, what the client relies on stays in its place. *)

\* The parts will be there, in a span of o.
Placing(S, f, ws, o, parts) ==
  Inside(S, o, parts) /\ \A x \in parts : Lasting(f, ws, x)

\* So will the metadata.
XmlComes(f, ws, at, m) ==
  \A x \in MetadataExtents(at.pos, m) :
    Lasting(f, ws, x) /\ Within(x, at.pos, at.allocated)

\* What the call that runs is about to have written
Running(S) ==
  /\ op = "AddSubBlock" =>
       /\ sbBlkDirectory.entries[key] = [id |-> item, pos |-> nextSegmentPos]
       /\ Coming(file, Range(writes), nextSegmentPos, SubBlockAllocated(item),
                 SubBlockExtents(nextSegmentPos, item))
  /\ op = "AddAttachment" =>
       /\ attachmentDirectory.entries[key]
            = [id |-> item, pos |-> nextSegmentPos]
       /\ Coming(file, Range(writes), nextSegmentPos,
                 AttachmentAllocated(item),
                 AttachmentExtents(nextSegmentPos, item))
  /\ op = "ReplaceSubBlockAddNewAtEnd" =>
       /\ SubBlock(key) \in known \ kept
       /\ Coming(file, Range(writes), nextSegmentPos, SubBlockAllocated(item),
                 SubBlockExtents(nextSegmentPos, item))
  /\ op = "ReplaceSubBlockInplace" =>
       /\ SubBlock(key) \in known \ kept
       /\ Placing(S, file, Range(writes), SubBlock(key),
                  SubBlockExtents(sbBlkDirectory.entries[key].pos, item))
  /\ op = "ReplaceAttachmentInplace" =>
       /\ Attachment(key) \in known \ kept
       /\ Placing(S, file, Range(writes), Attachment(key),
                  AttachmentExtents(attachmentDirectory.entries[key].pos, item))
  /\ op = "WriteMetadata" =>
       XmlComes(file, Range(writes),
                MetadataPlace(metadataSegment, item, nextSegmentPos), item)

Framed(S) ==
  Frame(S, file, hdrSegmentData, subBlockDirectorySegment,
        attachmentDirectorySegment, sbBlkDirectory, attachmentDirectory)

\* The metadata m can be read from its segment.
XmlStays(S, f, segment, m) ==
  m \in Metadatas =>
    segment.valid /\ Stays(S, f, TheMetadata, MetadataExtents(segment.pos, m))

MetadataKept(S, o) ==
  op # "WriteMetadata" =>
    o # TheMetadata /\ XmlStays(S, file, metadataSegment, meta)

Layout(S, H, o) ==
  /\ Ground(S, H, file, o, Range(writes), lastSegmentPos, nextSegmentPos)
  /\ Items(S, H, file, o, known, kept, untouched, sbBlkDirectory.entries,
           attachmentDirectory.entries)
  /\ MetadataStays(S, metadataSegment)
  /\ Framed(S) /\ MetadataKept(S, o)
  /\ Running(S)

\* Some spans, and parts of the document, are such: those of its segments as it
\* was opened, and one for each segment appended since.
LaidOutWhileOpen ==
  phase = "open" => \E S, H, o : o # Document /\ Layout(S, H, o)

\* A new object has no members that could name anything.
Fresh ==
  phase \in {"none", "creating"} =>
    /\ nextSegmentPos = 0 /\ ~metadataSegment.valid
    /\ subBlockDirectorySegment = NoSegment
    /\ attachmentDirectorySegment = NoSegment
    /\ attachmentDirectory = EmptyDirectory
    /\ known = {} /\ kept = {} /\ untouched = {} /\ meta = NoMeta
    /\ op = "WriteHeader" =>
         \A x \in FileHeader(0, 0, 0) : Lasting(file, Range(writes), x)

LayoutInv == LaidOutWhileOpen /\ Fresh

LEMMA LayoutSays ==
  ASSUME TypeInv, LayoutInv
  PROVE  SubBlocksIntact /\ AttachmentsIntact /\ UntouchedStayReadable
<1> SUFFICES ASSUME phase = "open"
             PROVE  /\ \A k \in Keys : KeptIntact(k)
                    /\ \A k \in Keys : Attachment(k) \in kept \cap known =>
                                         KeptAttachmentIntact(k)
                    /\ untouched # {} => CanOpen(file)
                    /\ \A e \in untouched :
                         e \in SubBlkDirRead(file) /\ SubBlockAt(file, e.pos, e.id)
  BY DEF SubBlocksIntact, AttachmentsIntact, UntouchedStayReadable
<1>1. PICK S, H, o : Layout(S, H, o)
  BY DEF LayoutInv, LaidOutWhileOpen
<1>2. H \subseteq file /\ IsCziFile(file)
  BY <1>1 DEF Layout, Ground, TypeInv, FileTyped
<1>3. Items(S, H, file, o, known, kept, untouched, sbBlkDirectory.entries,
            attachmentDirectory.entries)
  BY <1>1 DEF Layout
<1>4. /\ \A k : SubBlock(k) \in kept =>
           /\ SubBlock(k) \in known
           /\ SubBlockAt(file, sbBlkDirectory.entries[k].pos,
                         sbBlkDirectory.entries[k].id)
      /\ \A k : Attachment(k) \in kept \cap known =>
           AttachmentAt(file, attachmentDirectory.entries[k].pos,
                        attachmentDirectory.entries[k].id)
      /\ untouched # {} => CanOpen(file)
      /\ \A e \in untouched :
           e \in SubBlkDirRead(file) /\ SubBlockAt(file, e.pos, e.id)
  BY <1>2, <1>3, ItemsRead
<1>5. /\ \A k : SubBlock(k) \in known => k \in DOMAIN sbBlkDirectory.entries
      /\ \A k : Attachment(k) \in known =>
                  k \in DOMAIN attachmentDirectory.entries
  BY DEF TypeInv, ClientTyped
<1> QED BY <1>4, <1>5 DEF KeptIntact, KeptAttachmentIntact

LEMMA LayoutNotYet ==
  ASSUME phase' # "open", Fresh'
  PROVE  LayoutInv'
BY DEF LayoutInv, LaidOutWhileOpen

LEMMA LayoutHolds ==
  ASSUME phase' = "open", NEW S, NEW H, NEW o, o # Document, Layout(S, H, o)'
  PROVE  LayoutInv'
BY DEF LayoutInv, LaidOutWhileOpen, Fresh

\* A write that the call may make reaches neither what Close relies on of the
\* document, nor the metadata, if that is not what is written.
LEMMA KeptStep ==
  ASSUME TypeInv, NEW S, NEW H, NEW o, o # Document, Layout(S, H, o),
         NEW w \in Range(writes), NEW g, g \in {file, Smash(file, w), Apply(file, w)}
  PROVE  /\ Frame(S, g, hdrSegmentData, subBlockDirectorySegment,
                  attachmentDirectorySegment, sbBlkDirectory,
                  attachmentDirectory)
         /\ op # "WriteMetadata" =>
              o # TheMetadata /\ XmlStays(S, g, metadataSegment, meta)
<1>1. /\ GoodWrite(w) /\ IsCziFile(file) /\ Arranged(S) /\ Spares(S, o, w)
      /\ subBlockDirectorySegment \in Segments
      /\ attachmentDirectorySegment \in Segments
  BY PlacedTyped
     DEF Layout, Ground, TypeInv, FileTyped, GoodWrites, SegmentsTyped
<1>2. Frame(S, g, hdrSegmentData, subBlockDirectorySegment,
            attachmentDirectorySegment, sbBlkDirectory, attachmentDirectory)
  BY <1>1, FrameStep DEF Layout, Framed
<1>3. ASSUME op # "WriteMetadata"
      PROVE  o # TheMetadata /\ XmlStays(S, g, metadataSegment, meta)
  <2>1. o # TheMetadata /\ XmlStays(S, file, metadataSegment, meta)
    BY <1>3 DEF Layout, MetadataKept
  <2>2. ASSUME NEW parts, Stays(S, file, TheMetadata, parts)
        PROVE  Stays(S, g, TheMetadata, parts)
    BY <1>1, <2>1, <2>2, StaysStep
  <2> QED BY <2>1, <2>2 DEF XmlStays
<1> QED BY <1>2, <1>3

\* The stream
LEMMA LayoutWriteOk ==
  ASSUME TypeInv, LayoutInv, WriteOk
  PROVE  LayoutInv'
<1> DEFINE w == Head(writes)
<1>1. /\ writes # <<>> /\ file' = Apply(file, w) /\ writes' = Tail(writes)
      /\ UNCHANGED <<opened, nextSegmentPos, directories, segments, op, item,
                     key, client>>
  BY DEF WriteOk
<1>2. /\ GoodWrite(w) /\ w \in Range(writes) /\ IsCziFile(file)
      /\ Range(Tail(writes)) \subseteq Range(writes)
      /\ Range(writes) = {w} \cup Range(Tail(writes))
  BY <1>1, WritesLeft DEF TypeInv, FileTyped
<1> HIDE DEF w
<1>3. CASE phase = "open"
  <2>1. PICK S, H, o : o # Document /\ Layout(S, H, o)
    BY <1>3 DEF LayoutInv, LaidOutWhileOpen
  <2> DEFINE g == Apply(file, w)
             vs == Range(Tail(writes))
  <2>2. Ground(S, H, g, o, vs, lastSegmentPos, nextSegmentPos)
    <3>1. Ground(S, H, file, o, Range(writes), lastSegmentPos, nextSegmentPos)
      BY <2>1 DEF Layout
    <3>2. g \in {file, Smash(file, w), Apply(file, w)}
      OBVIOUS
    <3> HIDE DEF g, vs
    <3> QED BY ONLY <1>2, <2>1, <3>1, <3>2, GroundStep DEF vs
  <2>3. Items(S, H, g, o, known, kept, untouched, sbBlkDirectory.entries,
              attachmentDirectory.entries)
    <3>1. Items(S, H, file, o, known, kept, untouched, sbBlkDirectory.entries,
                attachmentDirectory.entries)
          /\ Arranged(S) /\ Spares(S, o, w)
      BY <1>2, <2>1 DEF Layout, Ground
    <3> QED BY <1>2, <3>1, ItemsStep
  <2>4. \A x : Lasting(file, Range(writes), x) => Lasting(g, vs, x)
    BY <1>2, LastingLeft
  <2> HIDE DEF g, vs
  <2>5. \A pos, allocated, parts :
          Coming(file, Range(writes), pos, allocated, parts) =>
            Coming(g, vs, pos, allocated, parts)
    BY <2>4 DEF Coming
  <2>6. \A p, parts : Placing(S, file, Range(writes), p, parts) =>
                        Placing(S, g, vs, p, parts)
    BY <2>4 DEF Placing
  <2>7. file' = g /\ Range(writes') = vs
    BY <1>1 DEF g, vs
  <2>10. \A at, m : XmlComes(file, Range(writes), at, m) => XmlComes(g, vs, at, m)
    BY <2>4 DEF XmlComes
  <2>11. /\ Frame(S, g, hdrSegmentData, subBlockDirectorySegment,
                  attachmentDirectorySegment, sbBlkDirectory,
                  attachmentDirectory)
         /\ op # "WriteMetadata" =>
              o # TheMetadata /\ XmlStays(S, g, metadataSegment, meta)
    <3>1. g \in {file, Smash(file, w), Apply(file, w)}
      BY DEF g
    <3> QED BY <1>2, <2>1, <3>1, KeptStep
  <2>12. Framed(S)' /\ MetadataKept(S, o)'
    BY <1>1, <2>7, <2>11
       DEF Framed, MetadataKept, opened, directories, segments, client
  <2>8. Running(S)'
    BY <1>1, <2>1, <2>5, <2>6, <2>7, <2>10
       DEF Layout, Running, directories, segments, client
  <2>9. Layout(S, H, o)'
    BY <1>1, <2>1, <2>2, <2>3, <2>7, <2>8, <2>12
       DEF Layout, opened, directories, segments, client
  <2> QED BY <1>1, <1>3, <2>1, <2>9, LayoutHolds DEF client
<1>4. CASE phase # "open"
  <2>2. \A x : Lasting(file, Range(writes), x) =>
                 Lasting(file', Range(writes'), x)
    BY <1>1, <1>2, LastingLeft
  <2>1. Fresh'
    BY <1>1, <2>2 DEF LayoutInv, Fresh, directories, segments, client
  <2> QED BY <1>1, <1>4, <2>1, LayoutNotYet DEF client
<1> QED BY <1>3, <1>4

LEMMA LayoutWriteFails ==
  ASSUME TypeInv, LayoutInv, WriteFails
  PROVE  LayoutInv'
<1> DEFINE w == Head(writes)
<1>1. /\ writes # <<>> /\ file' \in {file, Smash(file, w), Apply(file, w)}
      /\ op' = "idle" /\ writes' = <<>>
      /\ UNCHANGED <<hdrSegmentData, lastSegmentPos, nextSegmentPos,
                     directories, segments, known, kept, untouched>>
      /\ meta' = IF op = "WriteMetadata" THEN UnknownMeta ELSE meta
      /\ IF op \in CreateOps THEN phase' = "none" ELSE UNCHANGED phase
  BY DEF WriteFails, CreateOps
<1>2. GoodWrite(w) /\ w \in Range(writes) /\ IsCziFile(file)
  BY <1>1, WritesLeft DEF TypeInv, FileTyped
<1> HIDE DEF w
<1>3. CASE phase = "open"
  <2>1. PICK S, H, o : o # Document /\ Layout(S, H, o)
    BY <1>3 DEF LayoutInv, LaidOutWhileOpen
  <2>2. PICK g \in {file, Smash(file, w), Apply(file, w)} : g = file'
    BY <1>1
  <2>3. Ground(S, H, g, o, {}, lastSegmentPos, nextSegmentPos)
    <3>1. Ground(S, H, file, o, Range(writes), lastSegmentPos, nextSegmentPos)
      BY <2>1 DEF Layout
    <3>2. {} \subseteq Range(writes)
      OBVIOUS
    <3> QED BY ONLY <1>2, <2>1, <2>2, <3>1, <3>2, GroundStep
  <2>4. Items(S, H, g, o, known, kept, untouched, sbBlkDirectory.entries,
              attachmentDirectory.entries)
    <3>1. Items(S, H, file, o, known, kept, untouched, sbBlkDirectory.entries,
                attachmentDirectory.entries)
          /\ Arranged(S) /\ Spares(S, o, w)
      BY <1>2, <2>1 DEF Layout, Ground
    <3> QED BY <1>2, <2>2, <3>1, ItemsStep
  <2>5. Range(writes') = {}
    BY <1>1, NoElement
  <2>6. Running(S)'
    BY <1>1 DEF Running
  <2>9. /\ Frame(S, g, hdrSegmentData, subBlockDirectorySegment,
                 attachmentDirectorySegment, sbBlkDirectory,
                 attachmentDirectory)
        /\ op # "WriteMetadata" => XmlStays(S, g, metadataSegment, meta)
    BY <1>2, <2>1, <2>2, KeptStep
  <2>10. Framed(S)'
    BY <1>1, <2>2, <2>9 DEF Framed, directories, segments
  <2>11. MetadataKept(S, Nobody)'
    <3>1. CASE op = "WriteMetadata"
      BY <1>1, <3>1, Owners, MetadataAssumption DEF MetadataKept, XmlStays
    <3>2. CASE op # "WriteMetadata"
      BY <1>1, <2>2, <2>9, <3>2, Owners DEF MetadataKept, segments
    <3> QED BY <3>1, <3>2
  <2>12. Ground(S, H, g, Nobody, {}, lastSegmentPos, nextSegmentPos)
    BY <2>3, GroundIdle
  <2>13. Items(S, H, g, Nobody, known, kept, untouched, sbBlkDirectory.entries,
               attachmentDirectory.entries)
    <3>1. Nobody \notin kept
      BY <2>4 DEF Items
    <3> QED BY <2>4, <3>1, ItemsMore
  <2>7. Layout(S, H, Nobody)'
    BY <1>1, <2>1, <2>2, <2>5, <2>6, <2>10, <2>11, <2>12, <2>13
       DEF Layout, directories, segments
  <2>8. phase' = "open"
    BY <1>1, <1>3 DEF TypeInv, OpInPhase
  <2> QED BY <2>7, <2>8, LayoutHolds, Owners
<1>4. CASE phase # "open"
  <2>1. phase' \in {"none", "creating"} => phase \in {"none", "creating"}
    BY <1>1 DEF TypeInv, OpInPhase
  <2>2. Fresh'
    <3>1. phase' \in {"none", "creating"} => op # "WriteMetadata"
      BY <2>1 DEF TypeInv, OpInPhase, CreateOps, CloseOps
    <3> QED BY <1>1, <2>1, <3>1 DEF LayoutInv, Fresh, directories, segments
  <2>3. phase' # "open"
    BY <1>1, <1>4
  <2> QED BY <2>2, <2>3, LayoutNotYet
<1> QED BY <1>3, <1>4

\* No call is writing: what the invariant says then
Rests(S, H) ==
  /\ Ground(S, H, file, Nobody, {}, lastSegmentPos, nextSegmentPos)
  /\ Items(S, H, file, Nobody, known, kept, untouched,
           sbBlkDirectory.entries, attachmentDirectory.entries)
  /\ MetadataStays(S, metadataSegment)
  /\ Framed(S) /\ MetadataKept(S, Nobody)

LEMMA AtRest ==
  ASSUME LayoutInv, phase = "open", writes = <<>>
  PROVE  \E S, H : Rests(S, H) /\ Running(S)
<1>1. PICK S, H, o : Layout(S, H, o)
  BY DEF LayoutInv, LaidOutWhileOpen
<1>2. Range(writes) = {}
  BY NoElement
<1>3. Ground(S, H, file, Nobody, {}, lastSegmentPos, nextSegmentPos)
  BY <1>1, <1>2, GroundIdle DEF Layout
<1>4. Items(S, H, file, Nobody, known, kept, untouched,
            sbBlkDirectory.entries, attachmentDirectory.entries)
  <2>1. Items(S, H, file, o, known, kept, untouched, sbBlkDirectory.entries,
              attachmentDirectory.entries)
    BY <1>1 DEF Layout
  <2>2. Nobody \notin kept
    BY <2>1 DEF Items
  <2> QED BY <2>1, <2>2, ItemsMore
<1>5. MetadataKept(S, Nobody)
  BY <1>1, Owners DEF Layout, MetadataKept
<1> QED BY <1>1, <1>3, <1>4, <1>5 DEF Layout, Rests

LEMMA NextIsBehind ==
  ASSUME TypeInv, NEW S, NEW H, Rests(S, H), NEW n \in EnsureNextSegmentInfo,
         NEW o
  PROVE  /\ n \in BehindHeader /\ n \in Nat /\ n # 0
         /\ Ground(S, H, file, o, {}, lastSegmentPos, n)
         /\ Arranged(S) /\ \A s \in S : s.hi <= n
<1>1. n \in BehindHeader
  BY NextSegmentTyped
<1>2. n \in Nat /\ n # 0
  BY <1>1 DEF BehindHeader, FileHeaderSegmentSize
<1>3. lastSegmentPos \in Nat /\ nextSegmentPos \in Nat
  BY DEF TypeInv, HeaderTyped, NextTyped, PositionsOrNone, BehindHeader
<1>4. \/ nextSegmentPos # 0 /\ n = nextSegmentPos
      \/ /\ nextSegmentPos = 0
         /\ \E a \in AllocatedSize(file, lastSegmentPos) :
              n = lastSegmentPos + SegmentHeaderSize + a
  BY DEF EnsureNextSegmentInfo
<1>5. Ground(S, H, file, o, {}, lastSegmentPos, n)
  <2>1. Ground(S, H, file, Nobody, {}, lastSegmentPos, nextSegmentPos)
    BY DEF Rests
  <2> QED BY <1>2, <1>3, <1>4, <2>1, GroundNext
<1> QED BY <1>1, <1>2, <1>5 DEF Ground

\* The directories that are edited are marked as modified.
Edited ==
  /\ EditedFrom(sbBlkDirectory', sbBlkDirectory)
  /\ EditedFrom(attachmentDirectory', attachmentDirectory)

\* Only a call that writes the metadata may reach it.
Careful(o) == op' = "WriteMetadata" \/ (o # TheMetadata /\ UNCHANGED meta)

LEMMA NotEdited ==
  ASSUME UNCHANGED directories
  PROVE  Edited
BY DEF directories, Edited, EditedFrom

\* A call begins to write.
LEMMA LayoutBegun ==
  ASSUME phase' = "open", NEW S, NEW H, Rests(S, H), op = "idle", Edited,
         NEW o, o # Document, Careful(o), NEW n, NEW ws,
         nextSegmentPos' = n, UNCHANGED <<file, opened, segments>>,
         Ground(S, H, file, o, {}, lastSegmentPos, n),
         Range(writes') = ws,
         \A w \in ws : /\ Spares(S, o, w)
                       /\ \A x \in w.holds : SizeFits(S, lastSegmentPos, n, x),
         Items(S, H, file, o, known', kept', untouched',
               sbBlkDirectory'.entries, attachmentDirectory'.entries),
         MetadataStays(S, metadataSegment), Running(S)'
  PROVE  LayoutInv'
<1>1. Ground(S, H, file, o, ws, lastSegmentPos, n)
  BY GroundBegin
<1>3. Framed(S)'
  <2>1. Frame(S, file, hdrSegmentData, subBlockDirectorySegment,
              attachmentDirectorySegment, sbBlkDirectory', attachmentDirectory')
    BY FrameEdited DEF Rests, Framed, Edited
  <2> QED BY <2>1 DEF Framed, opened, segments
<1>4. MetadataKept(S, o)'
  BY DEF MetadataKept, Rests, Careful, segments
<1>2. Layout(S, H, o)'
  BY <1>1, <1>3, <1>4 DEF Layout, opened, segments
<1> QED BY <1>2, LayoutHolds

LEMMA LayoutSyncAddSubBlock ==
  ASSUME FunctorsDeliver, TypeInv, LayoutInv, NEW c \in SubBlocks, SyncAddSubBlock(c)
  PROVE  LayoutInv'
<1>1. phase = "open" /\ writes = <<>> /\ op = "idle"
  BY DEF SyncAddSubBlock, Callable, TypeInv, WritesTyped
<1>2. PICK S, H : Rests(S, H)
  BY <1>1, AtRest
<1>3. PICK n \in EnsureNextSegmentInfo : n = nextSegmentPos'
  BY DEF SyncAddSubBlock
<1>4. /\ n \in BehindHeader /\ n \in Nat /\ n # 0
      /\ Ground(S, H, file, Nobody, {}, lastSegmentPos, n)
      /\ Arranged(S) /\ \A s \in S : s.hi <= n
  BY <1>2, NextIsBehind
<1> DEFINE e == [id |-> c, pos |-> n]
           k == sbBlkDirectory.next
           alloc == SubBlockAllocated(c)
           ws == WriteSubBlock(n, c, alloc)
<1>5. /\ sbBlkDirectory' = AddEntry(sbBlkDirectory, e)
      /\ op' = "AddSubBlock" /\ item' = c /\ key' = k /\ writes' = ws
      /\ UNCHANGED <<file, opened, attachmentDirectory, segments, client>>
  BY <1>3 DEF SyncAddSubBlock, Edit, Begin
<1>6. alloc \in Nat /\ SubBlockHeadSize + SubBlockSize[c] <= alloc + SegmentHeaderSize
  BY AllocatedSizes, HeadSizes, SizesAreNat DEF SegmentHeaderSize
<1>7. /\ AddEntry(sbBlkDirectory, e).entries[k] = e
      /\ \A j \in DOMAIN sbBlkDirectory.entries :
           AddEntry(sbBlkDirectory, e).entries[j] = sbBlkDirectory.entries[j]
  <2>1. e \in SubBlockEntries /\ IsDirectory(sbBlkDirectory, SubBlockEntries)
    BY <1>4 DEF SubBlockEntries, TypeInv, DirectoriesTyped
  <2> HIDE DEF e
  <2> QED BY <2>1, AddIsDirectory
<1>13. Edited
  <2>1. IsDirectory(sbBlkDirectory, SubBlockEntries)
    BY DEF TypeInv, DirectoriesTyped
  <2> QED BY <1>5, <2>1, EditMarks DEF Edited, EditedFrom
<1>14. Careful(Nobody)
  BY <1>5, Owners DEF Careful, client
<1> HIDE DEF k, alloc, ws
<1>8. ItemWritten(ws, n, alloc, SubBlockExtents(n, c))
  BY <1>4, <1>6, SubBlockWritten DEF ws
<1>9. \A w \in Range(ws) :
        /\ Spares(S, Nobody, w)
        /\ \A x \in w.holds : SizeFits(S, lastSegmentPos, n, x)
  <2>1. \A w \in Range(ws) : GoodWrite(w) /\ w.pos >= n
    BY <1>8 DEF ItemWritten, GoodWrites
  <2> QED BY <1>4, <2>1, WriteBehind
<1>10. Items(S, H, file, Nobody, known, kept, untouched,
             sbBlkDirectory'.entries, attachmentDirectory.entries)
  <2>1. Items(S, H, file, Nobody, known, kept, untouched,
              sbBlkDirectory.entries, attachmentDirectory.entries)
    BY <1>2 DEF Rests
  <2>2. Nobody \notin kept
    BY <2>1 DEF Items
  <2>3. \A j : SubBlock(j) \in known =>
                 sbBlkDirectory'.entries[j] = sbBlkDirectory.entries[j]
    BY <1>5, <1>7 DEF TypeInv, ClientTyped
  <2> QED BY <2>1, <2>2, <2>3, ItemsEntries
<1>11. Coming(file, Range(ws), n, alloc, SubBlockExtents(n, c))
  BY <1>4, <1>6, SubBlockComes DEF ws
<1>12. Running(S)'
  BY <1>3, <1>5, <1>7, <1>11 DEF Running, alloc
<1> QED BY <1>1, <1>2, <1>3, <1>4, <1>5, <1>9, <1>10, <1>12, <1>13, <1>14,
           LayoutBegun, Owners DEF Rests, client

LEMMA LayoutSyncAddAttachment ==
  ASSUME TypeInv, LayoutInv, NEW a \in Attachments, SyncAddAttachment(a)
  PROVE  LayoutInv'
<1>1. phase = "open" /\ writes = <<>> /\ op = "idle"
  BY DEF SyncAddAttachment, Callable, TypeInv, WritesTyped
<1>2. PICK S, H : Rests(S, H)
  BY <1>1, AtRest
<1>3. PICK n \in EnsureNextSegmentInfo : n = nextSegmentPos'
  BY DEF SyncAddAttachment
<1>4. /\ n \in BehindHeader /\ n \in Nat /\ n # 0
      /\ Ground(S, H, file, Nobody, {}, lastSegmentPos, n)
      /\ Arranged(S) /\ \A s \in S : s.hi <= n
  BY <1>2, NextIsBehind
<1> DEFINE e == [id |-> a, pos |-> n]
           k == attachmentDirectory.next
           alloc == AttachmentAllocated(a)
           ws == WriteAttachment(n, a, alloc)
<1>5. /\ attachmentDirectory' = AddEntry(attachmentDirectory, e)
      /\ op' = "AddAttachment" /\ item' = a /\ key' = k /\ writes' = ws
      /\ UNCHANGED <<file, opened, sbBlkDirectory, segments, client>>
  BY <1>3 DEF SyncAddAttachment, Edit, Begin
<1>6. alloc \in Nat /\ AttachmentUsed(a) <= alloc
  BY AllocatedSizes DEF AttachmentUsed
<1>7. /\ AddEntry(attachmentDirectory, e).entries[k] = e
      /\ \A j \in DOMAIN attachmentDirectory.entries :
           AddEntry(attachmentDirectory, e).entries[j]
             = attachmentDirectory.entries[j]
  <2>1. /\ e \in AttachmentEntries
        /\ IsDirectory(attachmentDirectory, AttachmentEntries)
    BY <1>4 DEF AttachmentEntries, TypeInv, DirectoriesTyped
  <2> HIDE DEF e
  <2> QED BY <2>1, AddIsDirectory
<1>13. Edited
  <2>1. IsDirectory(attachmentDirectory, AttachmentEntries)
    BY DEF TypeInv, DirectoriesTyped
  <2> QED BY <1>5, <2>1, EditMarks DEF Edited, EditedFrom
<1>14. Careful(Nobody)
  BY <1>5, Owners DEF Careful, client
<1> HIDE DEF k, alloc, ws
<1>8. ItemWritten(ws, n, alloc, AttachmentExtents(n, a))
  BY <1>4, <1>6, AttachmentWritten DEF ws
<1>9. \A w \in Range(ws) :
        /\ Spares(S, Nobody, w)
        /\ \A x \in w.holds : SizeFits(S, lastSegmentPos, n, x)
  <2>1. \A w \in Range(ws) : GoodWrite(w) /\ w.pos >= n
    BY <1>8 DEF ItemWritten, GoodWrites
  <2> QED BY <1>4, <2>1, WriteBehind
<1>10. Items(S, H, file, Nobody, known, kept, untouched,
             sbBlkDirectory.entries, attachmentDirectory'.entries)
  <2>1. Items(S, H, file, Nobody, known, kept, untouched,
              sbBlkDirectory.entries, attachmentDirectory.entries)
    BY <1>2 DEF Rests
  <2>2. Nobody \notin kept
    BY <2>1 DEF Items
  <2>3. \A j : Attachment(j) \in known =>
                 attachmentDirectory'.entries[j] = attachmentDirectory.entries[j]
    BY <1>5, <1>7 DEF TypeInv, ClientTyped
  <2> QED BY <2>1, <2>2, <2>3, ItemsEntries
<1>11. Coming(file, Range(ws), n, alloc, AttachmentExtents(n, a))
  BY <1>4, <1>6, AttachmentComes DEF ws
<1>12. Running(S)'
  BY <1>3, <1>5, <1>7, <1>11 DEF Running, alloc
<1> QED BY <1>1, <1>2, <1>3, <1>4, <1>5, <1>9, <1>10, <1>12, <1>13, <1>14,
           LayoutBegun, Owners DEF Rests, client

LEMMA LayoutAddRejected ==
  ASSUME TypeInv, LayoutInv, NEW exists, AddRejected(exists)
  PROVE  LayoutInv'
<1>1. /\ phase = "open" /\ writes = <<>> /\ op = "idle" /\ op' = "idle"
      /\ UNCHANGED <<file, opened, directories, segments, call, client>>
  BY DEF AddRejected, Callable, TypeInv, WritesTyped, call
<1>2. PICK S, H : Rests(S, H)
  BY <1>1, AtRest
<1>3. PICK n \in EnsureNextSegmentInfo : n = nextSegmentPos'
  BY DEF AddRejected
<1>4. Ground(S, H, file, Nobody, {}, lastSegmentPos, n)
  BY <1>2, NextIsBehind
<1>5. Range(writes') = {}
  BY <1>1, NoElement DEF call
<1>6. Running(S)'
  BY <1>1 DEF Running
<1>7. Items(S, H, file, Nobody, known', kept', untouched',
            sbBlkDirectory'.entries, attachmentDirectory'.entries)
  BY <1>1, <1>2 DEF Rests, client, directories
<1>8. Edited /\ Careful(Nobody)
  BY <1>1, NotEdited, Owners DEF Careful, client
<1> QED BY <1>1, <1>2, <1>3, <1>4, <1>5, <1>6, <1>7, <1>8, LayoutBegun, Owners
        DEF Rests, client

\* The segment of an item, as its header gives its size
LEMMA RoomOfItem ==
  ASSUME TypeInv, NEW S, NEW H, Rests(S, H), NEW t \in S, IsItem(t.owner),
         NEW existing \in AllocatedSize(file, t.lo)
  PROVE  /\ existing \in Nat /\ t.lo + SegmentHeaderSize + existing <= t.hi
         /\ nextSegmentPos = 0 /\ lastSegmentPos = t.lo =>
              \A s \in S : s.hi <= lastSegmentPos + SegmentHeaderSize + existing
<1>1. PICK x \in file : /\ x.lo = t.lo + 16 /\ x.what[1] = "allocated"
                        /\ x.what[2] = existing
  BY DEF AllocatedSize
<1>2. SizeFits(S, lastSegmentPos, nextSegmentPos, x) /\ t.lo \in Nat
  BY DEF Rests, Ground, Arranged
<1>3. existing \in Nat
  BY <1>2, AllocatedTyped DEF TypeInv, FileTyped
<1> QED BY <1>1, <1>2, <1>3 DEF SizeFits

\* An item goes into the segment that is there.
LEMMA WrittenInPlace ==
  ASSUME NEW S, Arranged(S), NEW t \in S, IsItem(t.owner),
         NEW last \in Nat, NEW next, NEW existing \in Nat,
         t.lo + SegmentHeaderSize + existing <= t.hi,
         next = 0 /\ last = t.lo =>
           \A s \in S : s.hi <= last + SegmentHeaderSize + existing,
         NEW ws, NEW parts, ItemWritten(ws, t.lo, existing, parts),
         \A x \in parts : x.what[1] # "allocated"
  PROVE  \A w \in Range(ws) : /\ Spares(S, t.owner, w)
                              /\ \A x \in w.holds : SizeFits(S, last, next, x)
<1> SUFFICES ASSUME NEW w \in Range(ws)
             PROVE  /\ Spares(S, t.owner, w)
                    /\ \A x \in w.holds : SizeFits(S, last, next, x)
  OBVIOUS
<1> DEFINE e == Extent(t.lo + 16, 8, <<"allocated", existing>>)
<1>1. /\ GoodWrite(w) /\ w.pos >= t.lo
      /\ w.pos + w.len <= t.lo + existing + SegmentHeaderSize
      /\ w.holds \subseteq parts \cup {e}
  BY DEF ItemWritten, GoodWrites
<1>2. t.lo \in Nat /\ t.hi \in Nat /\ t.lo + SegmentHeaderSize <= t.hi
  BY DEF Arranged
<1>3. Spares(S, t.owner, w)
  <2>1. w.pos \in Nat /\ w.len \in Nat
    BY <1>1 DEF GoodWrite
  <2>2. t.lo <= w.pos /\ w.pos + w.len <= t.hi
    BY <1>1, <1>2, <2>1 DEF SegmentHeaderSize
  <2> QED BY <1>1, <2>2, WriteWithin
<1>4. SizeFits(S, last, next, e)
  <2>1. e.lo = t.lo + 16 /\ e.what[2] = existing
    BY DEF Extent
  <2> HIDE DEF e
  <2> QED BY <1>2, <2>1, SizeWithin
<1>5. \A x \in parts : SizeFits(S, last, next, x)
  BY DEF SizeFits
<1> QED BY <1>1, <1>3, <1>4, <1>5

\* A segment is marked as deleted.
LEMMA MarkedInPlace ==
  ASSUME NEW S, Arranged(S), NEW t \in S, IsItem(t.owner), t.lo \in BehindHeader,
         NEW last, NEW next
  PROVE  /\ GoodWrites(WriteDeletedSegment(t.lo))
         /\ \A w \in Range(WriteDeletedSegment(t.lo)) :
              /\ w.pos = t.lo /\ w.pos + w.len <= t.hi
              /\ Spares(S, t.owner, w)
              /\ \A x \in w.holds : SizeFits(S, last, next, x)
<1> DEFINE m == Magic(t.lo, "DELETED")
           w == Write(t.lo, 16, {m})
<1>1. /\ GoodWrites(WriteDeletedSegment(t.lo))
      /\ Range(WriteDeletedSegment(t.lo)) = {w}
  BY MarkWritten
<1>2. GoodWrite(w)
  BY <1>1 DEF GoodWrites
<1>3. w.pos = t.lo /\ w.len = 16 /\ w.holds = {m} /\ m.what[1] = "magic"
  BY DEF Write, Magic, Extent
<1> HIDE DEF w, m
<1>4. /\ t.lo \in Nat /\ t.hi \in Nat /\ t.lo + 32 <= t.hi
  BY DEF Arranged, SegmentHeaderSize
<1>5. w.pos + w.len <= t.hi /\ Spares(S, t.owner, w)
  <2>1. t.lo <= w.pos /\ w.pos + w.len <= t.hi
    BY <1>3, <1>4
  <2> QED BY <1>2, <2>1, WriteWithin
<1>6. SizeFits(S, last, next, m)
  BY <1>3 DEF SizeFits
<1> QED BY <1>1, <1>3, <1>5, <1>6

LEMMA PartsOfItems ==
  /\ \A pos, c : \A x \in SubBlockExtents(pos, c) : x.what[1] # "allocated"
  /\ \A pos, a : \A x \in AttachmentExtents(pos, a) : x.what[1] # "allocated"
BY DEF SubBlockExtents, AttachmentExtents, NotEmpty, Magic, SubBlockHead,
       SubBlockPayload, SubBlockRest, AttachmentHead, AttachmentPayload, Extent

\* What comes behind all spans survives a write within one of them.
LEMMA ComingAfterMark ==
  ASSUME NEW f, NEW ws, NEW vs, NEW n \in Nat, NEW allocated, NEW parts,
         Coming(f, ws, n, allocated, parts),
         \A v \in vs : GoodWrite(v) /\ v.pos + v.len <= n
  PROVE  Coming(f, ws \cup vs, n, allocated, parts)
<1> DEFINE e == Extent(n + 16, 8, <<"allocated", allocated>>)
<1>1. ASSUME NEW x \in parts \cup {e}
      PROVE  Lasting(f, vs \cup ws, x) /\ Within(x, n, allocated)
  <2>1. Lasting(f, ws, x) /\ Within(x, n, allocated)
    BY DEF Coming
  <2>2. \A v \in vs : Survives(x, v)
    <3> SUFFICES ASSUME NEW v \in vs PROVE v.pos + v.len <= x.lo
      BY DEF Survives
    <3>1. /\ v.pos + v.len <= n /\ n <= x.lo
          /\ v.pos \in Nat /\ v.len \in Nat /\ x.lo \in Nat
      BY <2>1 DEF Within, GoodWrite
    <3> QED BY <3>1
  <2> QED BY <2>1, <2>2, LastingAfter
<1>2. vs \cup ws = ws \cup vs
  OBVIOUS
<1> QED BY <1>1, <1>2 DEF Coming

\* What is written in place will be there.
LEMMA PlacedInSpan ==
  ASSUME NEW S, NEW t \in S, NEW f, NEW ws, NEW existing \in Nat, NEW parts,
         t.lo \in Nat, t.hi \in Nat, t.lo + SegmentHeaderSize + existing <= t.hi,
         Coming(f, ws, t.lo, existing, parts)
  PROVE  Placing(S, f, ws, t.owner, parts)
<1>1. ASSUME NEW x \in parts
      PROVE  Lasting(f, ws, x) /\ t.lo <= x.lo /\ x.hi <= t.hi
  <2>1. Lasting(f, ws, x) /\ Within(x, t.lo, existing)
    BY DEF Coming
  <2> QED BY <2>1 DEF Within, SegmentHeaderSize
<1> QED BY <1>1 DEF Placing, Inside

LEMMA LayoutReplaceSubBlock ==
  ASSUME FunctorsDeliver, TypeInv, LayoutInv, NEW k, NEW c \in SubBlocks, ReplaceSubBlock(k, c)
  PROVE  LayoutInv'
<1> DEFINE old == sbBlkDirectory.entries[k]
           p == SubBlock(k)
<1>1. /\ phase = "open" /\ writes = <<>> /\ op = "idle" /\ p \in known
      /\ untouched' = untouched \ {old} /\ kept' = kept \ {p}
      /\ UNCHANGED <<file, opened, directories, segments, phase, known, meta>>
  BY DEF ReplaceSubBlock, Callable, TypeInv, WritesTyped
<1>2. PICK S, H : Rests(S, H)
  BY <1>1, AtRest
<1>3. PICK existing \in AllocatedSize(file, old.pos) :
        \/ /\ existing + SegmentHeaderSize
                >= SubBlockHeadSize + SubBlockSize[c]
           /\ Edit("ReplaceSubBlockInplace", c, k,
                    WriteSubBlock(old.pos, c, existing))
           /\ UNCHANGED nextSegmentPos
        \/ /\ nextSegmentPos' \in EnsureNextSegmentInfo
           /\ Edit("ReplaceSubBlockAddNewAtEnd", c, k,
                    WriteSubBlock(nextSegmentPos', c, SubBlockAllocated(c))
                      \o WriteDeletedSegment(old.pos))
  BY DEF ReplaceSubBlock
<1>4. /\ Ground(S, H, file, Nobody, {}, lastSegmentPos, nextSegmentPos)
      /\ Arranged(S) /\ MetadataStays(S, metadataSegment)
      /\ Items(S, H, file, Nobody, known, kept, untouched,
               sbBlkDirectory.entries, attachmentDirectory.entries)
  BY <1>2 DEF Rests, Ground
<1>5. PICK t \in S : t.owner = p /\ t.lo = old.pos
  BY <1>1, <1>4 DEF Items, SubBlocksStay, HasSpan
<1>6. Items(S, H, file, p, known, kept \ {p}, untouched \ {old},
            sbBlkDirectory.entries, attachmentDirectory.entries)
  <2>1. /\ p \in {SubBlock(k), Attachment(k)} /\ known \in {known, known \ {p}}
        /\ untouched \ {old} = untouched \ {sbBlkDirectory.entries[k]}
        /\ p # Attachment(k)
    BY KeyProperties
  <2> HIDE DEF p, old
  <2> QED BY <1>4, <2>1, ItemsLess
<1>7. /\ IsItem(t.owner) /\ p # Document
      /\ t.lo \in BehindHeader /\ t.lo \in Nat /\ t.hi \in Nat
  BY <1>1, <1>4, <1>5, KnownEntry, Owners DEF BehindHeader, Arranged
<1>13. Edited /\ Careful(p)
  BY <1>1, NotEdited, Owners DEF Careful
<1>8. existing \in AllocatedSize(file, t.lo) /\ IsItem(t.owner)
  BY <1>3, <1>5, <1>7
<1> HIDE DEF old
<1>9. /\ existing \in Nat /\ t.lo + SegmentHeaderSize + existing <= t.hi
      /\ nextSegmentPos = 0 /\ lastSegmentPos = t.lo =>
           \A s \in S : s.hi <= lastSegmentPos + SegmentHeaderSize + existing
  BY <1>2, <1>8, RoomOfItem
<1>10. lastSegmentPos \in Nat
  BY DEF TypeInv, HeaderTyped, PositionsOrNone, BehindHeader
<1>11. CASE /\ existing + SegmentHeaderSize
                 >= SubBlockHeadSize + SubBlockSize[c]
            /\ Edit("ReplaceSubBlockInplace", c, k,
                     WriteSubBlock(old.pos, c, existing))
            /\ UNCHANGED nextSegmentPos
  <2> DEFINE ws == WriteSubBlock(t.lo, c, existing)
             parts == SubBlockExtents(t.lo, c)
  <2>1. /\ op' = "ReplaceSubBlockInplace" /\ item' = c /\ key' = k
        /\ writes' = ws
    BY <1>5, <1>11 DEF Edit, Begin
  <2>2. SubBlockHeadSize + SubBlockSize[c] <= existing + SegmentHeaderSize
    BY <1>9, <1>11, HeadSizes, SizesAreNat DEF SegmentHeaderSize
  <2>3. /\ ItemWritten(ws, t.lo, existing, parts)
        /\ Coming(file, Range(ws), t.lo, existing, parts)
    BY <1>7, <1>9, <2>2, SubBlockWritten, SubBlockComes
  <2>4. \A x \in parts : x.what[1] # "allocated"
    BY PartsOfItems
  <2> HIDE DEF ws, parts
  <2>5. \A w \in Range(ws) :
          /\ Spares(S, t.owner, w)
          /\ \A x \in w.holds : SizeFits(S, lastSegmentPos, nextSegmentPos, x)
    BY <1>4, <1>7, <1>9, <1>10, <2>3, <2>4, WrittenInPlace
  <2>6. Placing(S, file, Range(ws), t.owner, parts)
    BY <1>7, <1>9, <2>3, PlacedInSpan
  <2>7. Running(S)'
    <3>1. sbBlkDirectory'.entries[k].pos = t.lo
      BY <1>1, <1>5 DEF directories, old
    <3>2. p \in known' \ kept'
      BY <1>1
    <3> QED BY <1>1, <1>5, <2>1, <2>6, <3>1, <3>2 DEF Running, parts
  <2>8. Ground(S, H, file, p, {}, lastSegmentPos, nextSegmentPos)
    BY <1>4, GroundIdle
  <2> QED BY <1>1, <1>2, <1>4, <1>5, <1>6, <1>7, <1>11, <1>13, <2>1, <2>5,
             <2>7, <2>8, LayoutBegun DEF directories
<1>12. CASE /\ nextSegmentPos' \in EnsureNextSegmentInfo
            /\ Edit("ReplaceSubBlockAddNewAtEnd", c, k,
                     WriteSubBlock(nextSegmentPos', c, SubBlockAllocated(c))
                       \o WriteDeletedSegment(old.pos))
  <2>1. PICK n \in EnsureNextSegmentInfo : n = nextSegmentPos'
    BY <1>12
  <2>2. /\ n \in BehindHeader /\ n \in Nat /\ n # 0
        /\ Ground(S, H, file, p, {}, lastSegmentPos, n)
        /\ \A s \in S : s.hi <= n
    BY <1>2, <2>1, NextIsBehind
  <2> DEFINE alloc == SubBlockAllocated(c)
             ws == WriteSubBlock(n, c, alloc)
             vs == WriteDeletedSegment(t.lo)
             parts == SubBlockExtents(n, c)
  <2>3. /\ op' = "ReplaceSubBlockAddNewAtEnd" /\ item' = c /\ key' = k
        /\ writes' = ws \o vs
    BY <1>5, <1>12, <2>1 DEF Edit, Begin
  <2>4. /\ alloc \in Nat
        /\ SubBlockHeadSize + SubBlockSize[c] <= alloc + SegmentHeaderSize
    BY AllocatedSizes, HeadSizes, SizesAreNat DEF SegmentHeaderSize
  <2>5. /\ ItemWritten(ws, n, alloc, parts)
        /\ Coming(file, Range(ws), n, alloc, parts)
    BY <2>2, <2>4, SubBlockWritten, SubBlockComes
  <2> HIDE DEF alloc, ws, parts, vs
  <2>6. \A w \in Range(ws) :
          Spares(S, p, w) /\ \A x \in w.holds : SizeFits(S, lastSegmentPos, n, x)
    <3>1. \A w \in Range(ws) : GoodWrite(w) /\ w.pos >= n
      BY <2>5 DEF ItemWritten, GoodWrites
    <3> QED BY <1>4, <2>2, <3>1, WriteBehind
  <2>7. /\ GoodWrites(vs)
        /\ \A w \in Range(vs) :
             /\ w.pos = t.lo /\ w.pos + w.len <= t.hi
             /\ Spares(S, p, w)
             /\ \A x \in w.holds : SizeFits(S, lastSegmentPos, n, x)
    BY <1>4, <1>5, <1>7, MarkedInPlace DEF vs
  <2>8. Range(ws \o vs) = Range(ws) \cup Range(vs)
    BY <2>5, <2>7, Joined DEF ItemWritten
  <2>9. Coming(file, Range(ws \o vs), n, alloc, parts)
    <3>1. \A w \in Range(vs) : GoodWrite(w) /\ w.pos + w.len <= n
      <4> SUFFICES ASSUME NEW w \in Range(vs)
                   PROVE  GoodWrite(w) /\ w.pos + w.len <= n
        OBVIOUS
      <4>1. GoodWrite(w) /\ w.pos + w.len <= t.hi /\ t.hi <= n
        BY <2>2, <2>7 DEF GoodWrites
      <4> QED BY <1>7, <2>2, <4>1 DEF GoodWrite
    <3>2. Coming(file, Range(ws), n, alloc, parts) /\ n \in Nat
      BY <2>2, <2>5
    <3>3. Coming(file, Range(ws) \cup Range(vs), n, alloc, parts)
      BY ONLY <3>1, <3>2, ComingAfterMark
    <3> QED BY <2>8, <3>3
  <2>10. Running(S)'
    <3>1. p \in known' \ kept'
      BY <1>1
    <3> QED BY <1>1, <2>1, <2>3, <2>9, <3>1 DEF Running, parts, alloc
  <2>11. \A w \in Range(ws) \cup Range(vs) :
           Spares(S, p, w) /\ \A x \in w.holds : SizeFits(S, lastSegmentPos, n, x)
    BY <2>6, <2>7
  <2> QED BY <1>1, <1>2, <1>4, <1>6, <1>7, <1>13, <2>1, <2>2, <2>3, <2>8,
             <2>10, <2>11, LayoutBegun DEF directories
<1> QED BY <1>3, <1>11, <1>12

LEMMA LayoutReplaceAttachment ==
  ASSUME TypeInv, LayoutInv, NEW k, NEW a \in Attachments,
         ReplaceAttachment(k, a)
  PROVE  LayoutInv'
<1> DEFINE old == attachmentDirectory.entries[k]
           p == Attachment(k)
<1>1. /\ phase = "open" /\ writes = <<>> /\ op = "idle" /\ p \in known
      /\ kept' = kept \ {p}
      /\ UNCHANGED <<file, opened, directories, segments, phase, known,
                     untouched, meta>>
  BY DEF ReplaceAttachment, Callable, TypeInv, WritesTyped
<1>2. PICK S, H : Rests(S, H)
  BY <1>1, AtRest
<1>3. PICK existing \in AllocatedSize(file, old.pos) :
        \/ /\ existing >= AttachmentUsed(a)
           /\ Edit("ReplaceAttachmentInplace", a, k,
                    WriteAttachment(old.pos, a, existing))
           /\ UNCHANGED nextSegmentPos
        \/ /\ nextSegmentPos' \in EnsureNextSegmentInfo
           /\ Edit("ReplaceAttachmentAddNewAtEnd", a, k,
                    WriteAttachment(nextSegmentPos', a, AttachmentAllocated(a))
                      \o WriteDeletedSegment(old.pos))
  BY DEF ReplaceAttachment
<1>4. /\ Ground(S, H, file, Nobody, {}, lastSegmentPos, nextSegmentPos)
      /\ Arranged(S) /\ MetadataStays(S, metadataSegment)
      /\ Items(S, H, file, Nobody, known, kept, untouched,
               sbBlkDirectory.entries, attachmentDirectory.entries)
  BY <1>2 DEF Rests, Ground
<1>5. PICK t \in S : t.owner = p /\ t.lo = old.pos
  BY <1>1, <1>4 DEF Items, AttachmentsStay, HasSpan
<1>6. Items(S, H, file, p, known, kept \ {p}, untouched,
            sbBlkDirectory.entries, attachmentDirectory.entries)
  <2>1. /\ p \in {SubBlock(k), Attachment(k)} /\ known \in {known, known \ {p}}
        /\ p # SubBlock(k)
    BY KeyProperties
  <2> HIDE DEF p, old
  <2> QED BY <1>4, <2>1, ItemsLess
<1>7. /\ IsItem(t.owner) /\ p # Document
      /\ t.lo \in BehindHeader /\ t.lo \in Nat /\ t.hi \in Nat
  BY <1>1, <1>4, <1>5, KnownEntry, Owners DEF BehindHeader, Arranged
<1>13. Edited /\ Careful(p)
  BY <1>1, NotEdited, Owners DEF Careful
<1>8. existing \in AllocatedSize(file, t.lo) /\ IsItem(t.owner)
  BY <1>3, <1>5, <1>7
<1> HIDE DEF old
<1>9. /\ existing \in Nat /\ t.lo + SegmentHeaderSize + existing <= t.hi
      /\ nextSegmentPos = 0 /\ lastSegmentPos = t.lo =>
           \A s \in S : s.hi <= lastSegmentPos + SegmentHeaderSize + existing
  BY <1>2, <1>8, RoomOfItem
<1>10. lastSegmentPos \in Nat
  BY DEF TypeInv, HeaderTyped, PositionsOrNone, BehindHeader
<1>11. CASE /\ existing >= AttachmentUsed(a)
            /\ Edit("ReplaceAttachmentInplace", a, k,
                     WriteAttachment(old.pos, a, existing))
            /\ UNCHANGED nextSegmentPos
  <2> DEFINE ws == WriteAttachment(t.lo, a, existing)
             parts == AttachmentExtents(t.lo, a)
  <2>1. /\ op' = "ReplaceAttachmentInplace" /\ item' = a /\ key' = k
        /\ writes' = ws
    BY <1>5, <1>11 DEF Edit, Begin
  <2>2. AttachmentUsed(a) <= existing
    BY <1>9, <1>11, SizesAreNat DEF AttachmentUsed
  <2>3. /\ ItemWritten(ws, t.lo, existing, parts)
        /\ Coming(file, Range(ws), t.lo, existing, parts)
    BY <1>7, <1>9, <2>2, AttachmentWritten, AttachmentComes
  <2>4. \A x \in parts : x.what[1] # "allocated"
    BY PartsOfItems
  <2> HIDE DEF ws, parts
  <2>5. \A w \in Range(ws) :
          /\ Spares(S, t.owner, w)
          /\ \A x \in w.holds : SizeFits(S, lastSegmentPos, nextSegmentPos, x)
    BY <1>4, <1>7, <1>9, <1>10, <2>3, <2>4, WrittenInPlace
  <2>6. Placing(S, file, Range(ws), t.owner, parts)
    BY <1>7, <1>9, <2>3, PlacedInSpan
  <2>7. Running(S)'
    <3>1. attachmentDirectory'.entries[k].pos = t.lo
      BY <1>1, <1>5 DEF directories, old
    <3>2. p \in known' \ kept'
      BY <1>1
    <3> QED BY <1>1, <1>5, <2>1, <2>6, <3>1, <3>2 DEF Running, parts
  <2>8. Ground(S, H, file, p, {}, lastSegmentPos, nextSegmentPos)
    BY <1>4, GroundIdle
  <2> QED BY <1>1, <1>2, <1>4, <1>5, <1>6, <1>7, <1>11, <1>13, <2>1, <2>5,
             <2>7, <2>8, LayoutBegun DEF directories
<1>12. CASE /\ nextSegmentPos' \in EnsureNextSegmentInfo
            /\ Edit("ReplaceAttachmentAddNewAtEnd", a, k,
                     WriteAttachment(nextSegmentPos', a, AttachmentAllocated(a))
                       \o WriteDeletedSegment(old.pos))
  <2>1. PICK n \in EnsureNextSegmentInfo : n = nextSegmentPos'
    BY <1>12
  <2>2. /\ n \in BehindHeader /\ n \in Nat /\ n # 0
        /\ Ground(S, H, file, p, {}, lastSegmentPos, n)
        /\ \A s \in S : s.hi <= n
    BY <1>2, <2>1, NextIsBehind
  <2> DEFINE alloc == AttachmentAllocated(a)
             ws == WriteAttachment(n, a, alloc)
             vs == WriteDeletedSegment(t.lo)
  <2>3. /\ op' = "ReplaceAttachmentAddNewAtEnd" /\ item' = a /\ key' = k
        /\ writes' = ws \o vs
    BY <1>5, <1>12, <2>1 DEF Edit, Begin
  <2>4. alloc \in Nat /\ AttachmentUsed(a) <= alloc
    BY AllocatedSizes, SizesAreNat DEF AttachmentUsed
  <2>5. ItemWritten(ws, n, alloc, AttachmentExtents(n, a))
    BY <2>2, <2>4, AttachmentWritten
  <2> HIDE DEF alloc, ws, vs
  <2>6. \A w \in Range(ws) :
          Spares(S, p, w) /\ \A x \in w.holds : SizeFits(S, lastSegmentPos, n, x)
    <3>1. \A w \in Range(ws) : GoodWrite(w) /\ w.pos >= n
      BY <2>5 DEF ItemWritten, GoodWrites
    <3> QED BY <1>4, <2>2, <3>1, WriteBehind
  <2>7. /\ GoodWrites(vs)
        /\ \A w \in Range(vs) :
             /\ Spares(S, p, w)
             /\ \A x \in w.holds : SizeFits(S, lastSegmentPos, n, x)
    BY <1>4, <1>5, <1>7, MarkedInPlace DEF vs
  <2>8. Range(ws \o vs) = Range(ws) \cup Range(vs)
    BY <2>5, <2>7, Joined DEF ItemWritten
  <2>9. Running(S)'
    BY <2>3 DEF Running
  <2>10. \A w \in Range(ws) \cup Range(vs) :
           Spares(S, p, w) /\ \A x \in w.holds : SizeFits(S, lastSegmentPos, n, x)
    BY <2>6, <2>7
  <2> QED BY <1>1, <1>2, <1>4, <1>6, <1>7, <1>13, <2>1, <2>2, <2>3, <2>8,
             <2>9, <2>10, LayoutBegun DEF directories
<1> QED BY <1>3, <1>11, <1>12

LEMMA LayoutRemove ==
  ASSUME TypeInv, LayoutInv, NEW k, RemoveSubBlock(k) \/ RemoveAttachment(k)
  PROVE  LayoutInv'
<1>1. phase = "open" /\ phase' = "open" /\ writes = <<>> /\ op = "idle"
  BY DEF RemoveSubBlock, RemoveAttachment, Callable, TypeInv, WritesTyped
<1>2. PICK S, H : Rests(S, H)
  BY <1>1, AtRest
<1>3. /\ Ground(S, H, file, Nobody, {}, lastSegmentPos, nextSegmentPos)
      /\ Arranged(S) /\ MetadataStays(S, metadataSegment)
      /\ Items(S, H, file, Nobody, known, kept, untouched,
               sbBlkDirectory.entries, attachmentDirectory.entries)
  BY <1>2 DEF Rests, Ground
<1>4. \E p \in {SubBlock(k), Attachment(k)}, t \in S :
        /\ t.owner = p /\ t.lo \in BehindHeader /\ IsItem(p) /\ p # Document
        /\ op' = "Remove" /\ writes' = WriteDeletedSegment(t.lo)
        /\ UNCHANGED <<file, opened, nextSegmentPos, segments>>
        /\ Items(S, H, file, p, known', kept', untouched',
                 sbBlkDirectory'.entries, attachmentDirectory'.entries)
  <2>1. CASE RemoveSubBlock(k)
    <3> DEFINE p == SubBlock(k)
               old == sbBlkDirectory.entries[k]
    <3>1. /\ p \in known /\ sbBlkDirectory' = RemoveEntry(sbBlkDirectory, k)
          /\ op' = "Remove" /\ writes' = WriteDeletedSegment(old.pos)
          /\ known' = known \ {p} /\ kept' = kept \ {p}
          /\ untouched' = untouched \ {old}
          /\ UNCHANGED <<file, opened, nextSegmentPos, attachmentDirectory,
                         segments>>
      BY <2>1 DEF RemoveSubBlock, Edit, Begin
    <3>2. PICK t \in S : t.owner = p /\ t.lo = old.pos
      BY <1>3, <3>1 DEF Items, SubBlocksStay, HasSpan
    <3>3. t.lo \in BehindHeader /\ IsItem(p) /\ p # Document
      BY <3>1, <3>2, KnownEntry, Owners
    <3>4. Items(S, H, file, p, known \ {p}, kept \ {p}, untouched \ {old},
                sbBlkDirectory.entries, attachmentDirectory.entries)
      <4>1. /\ p \in {SubBlock(k), Attachment(k)}
            /\ known \ {p} \in {known, known \ {p}}
            /\ untouched \ {old} = untouched \ {sbBlkDirectory.entries[k]}
            /\ p # Attachment(k)
        BY KeyProperties
      <4> HIDE DEF p, old
      <4> QED BY <1>3, <4>1, ItemsLess
    <3>5. \A j : SubBlock(j) \in known \ {p} =>
                   RemoveEntry(sbBlkDirectory, k).entries[j]
                     = sbBlkDirectory.entries[j]
      <4>1. \A j : SubBlock(j) \in known \ {p} =>
                     j \in DOMAIN sbBlkDirectory.entries \ {k}
        BY DEF TypeInv, ClientTyped
      <4>2. IsDirectory(sbBlkDirectory, SubBlockEntries)
        BY DEF TypeInv, DirectoriesTyped
      <4> QED BY <4>1, <4>2, RemoveIsDirectory
    <3>6. Items(S, H, file, p, known \ {p}, kept \ {p}, untouched \ {old},
                RemoveEntry(sbBlkDirectory, k).entries,
                attachmentDirectory.entries)
      <4>1. p \notin kept \ {p}
        OBVIOUS
      <4> HIDE DEF p, old
      <4> QED BY <3>4, <3>5, <4>1, ItemsEntries
    <3> QED BY <3>1, <3>2, <3>3, <3>6
  <2>2. CASE RemoveAttachment(k)
    <3> DEFINE p == Attachment(k)
               old == attachmentDirectory.entries[k]
    <3>1. /\ p \in known
          /\ attachmentDirectory' = RemoveEntry(attachmentDirectory, k)
          /\ op' = "Remove" /\ writes' = WriteDeletedSegment(old.pos)
          /\ known' = known \ {p} /\ kept' = kept \ {p}
          /\ UNCHANGED <<file, opened, nextSegmentPos, sbBlkDirectory,
                         segments, untouched>>
      BY <2>2 DEF RemoveAttachment, Edit, Begin
    <3>2. PICK t \in S : t.owner = p /\ t.lo = old.pos
      BY <1>3, <3>1 DEF Items, AttachmentsStay, HasSpan
    <3>3. t.lo \in BehindHeader /\ IsItem(p) /\ p # Document
      BY <3>1, <3>2, KnownEntry, Owners
    <3>4. Items(S, H, file, p, known \ {p}, kept \ {p}, untouched,
                sbBlkDirectory.entries, attachmentDirectory.entries)
      <4>1. /\ p \in {SubBlock(k), Attachment(k)}
            /\ known \ {p} \in {known, known \ {p}}
            /\ p # SubBlock(k)
        BY KeyProperties
      <4> HIDE DEF p, old
      <4> QED BY <1>3, <4>1, ItemsLess
    <3>5. \A j : Attachment(j) \in known \ {p} =>
                   RemoveEntry(attachmentDirectory, k).entries[j]
                     = attachmentDirectory.entries[j]
      <4>1. \A j : Attachment(j) \in known \ {p} =>
                     j \in DOMAIN attachmentDirectory.entries \ {k}
        BY DEF TypeInv, ClientTyped
      <4>2. IsDirectory(attachmentDirectory, AttachmentEntries)
        BY DEF TypeInv, DirectoriesTyped
      <4> QED BY <4>1, <4>2, RemoveIsDirectory
    <3>6. Items(S, H, file, p, known \ {p}, kept \ {p}, untouched,
                sbBlkDirectory.entries,
                RemoveEntry(attachmentDirectory, k).entries)
      <4>1. p \notin kept \ {p}
        OBVIOUS
      <4> HIDE DEF p, old
      <4> QED BY <3>4, <3>5, <4>1, ItemsEntries
    <3> QED BY <3>1, <3>2, <3>3, <3>6
  <2> QED BY <2>1, <2>2
<1>5. PICK p \in {SubBlock(k), Attachment(k)}, t \in S :
        /\ t.owner = p /\ t.lo \in BehindHeader /\ IsItem(p) /\ p # Document
        /\ op' = "Remove" /\ writes' = WriteDeletedSegment(t.lo)
        /\ UNCHANGED <<file, opened, nextSegmentPos, segments>>
        /\ Items(S, H, file, p, known', kept', untouched',
                 sbBlkDirectory'.entries, attachmentDirectory'.entries)
  BY <1>4
<1>6. Ground(S, H, file, p, {}, lastSegmentPos, nextSegmentPos)
  BY <1>3, GroundIdle
<1>7. \A w \in Range(WriteDeletedSegment(t.lo)) :
        /\ Spares(S, p, w)
        /\ \A x \in w.holds : SizeFits(S, lastSegmentPos, nextSegmentPos, x)
  BY <1>3, <1>5, MarkedInPlace
<1>8. Running(S)'
  BY <1>5 DEF Running
<1>9. Edited
  <2>1. /\ IsDirectory(sbBlkDirectory, SubBlockEntries)
        /\ IsDirectory(attachmentDirectory, AttachmentEntries)
    BY DEF TypeInv, DirectoriesTyped
  <2> QED BY <2>1, EditMarks
          DEF Edited, EditedFrom, RemoveSubBlock, RemoveAttachment
<1>10. Careful(p)
  BY <1>5, Owners DEF Careful, RemoveSubBlock, RemoveAttachment
<1> QED BY <1>1, <1>2, <1>3, <1>5, <1>6, <1>7, <1>8, <1>9, <1>10, LayoutBegun

\* A write within a span that is no item's leaves the items' sizes alone.
LEMMA SizesElsewhere ==
  ASSUME NEW S, Arranged(S), NEW t \in S, ~IsItem(t.owner),
         NEW w, GoodWrite(w), t.lo <= w.pos, w.pos + w.len <= t.hi,
         NEW last, NEW n, n # 0
  PROVE  \A x \in w.holds : SizeFits(S, last, n, x)
<1> SUFFICES ASSUME NEW x \in w.holds, NEW s \in S, IsItem(s.owner),
                    x.lo = s.lo + 16
             PROVE  FALSE
  BY DEF SizeFits
<1>1. /\ w.pos \in Nat /\ w.len \in Nat /\ w.pos <= x.lo
      /\ x.hi <= w.pos + w.len /\ x.lo \in Nat /\ x.hi \in Nat /\ x.lo < x.hi
  BY WellFormedBounds DEF GoodWrite
<1>2. /\ s.lo \in Nat /\ s.hi \in Nat /\ t.lo \in Nat /\ t.hi \in Nat
      /\ s.lo + 32 <= s.hi
      /\ s = t \/ s.hi <= t.lo \/ t.hi <= s.lo
  BY DEF Arranged, SegmentHeaderSize
<1>3. t.lo <= x.lo /\ x.lo < t.hi
  BY <1>1, <1>2
<1> QED BY <1>2, <1>3

LEMMA LayoutSyncWriteMetadata ==
  ASSUME TypeInv, LayoutInv, NEW m \in Metadatas, SyncWriteMetadata(m)
  PROVE  LayoutInv'
<1>1. phase = "open" /\ writes = <<>> /\ op = "idle"
  BY DEF SyncWriteMetadata, Callable, TypeInv, WritesTyped
<1>2. PICK S, H : Rests(S, H)
  BY <1>1, AtRest
<1>3. PICK n \in EnsureNextSegmentInfo : n = nextSegmentPos'
  BY DEF SyncWriteMetadata
<1>4. /\ n \in BehindHeader /\ n \in Nat /\ n # 0
      /\ Ground(S, H, file, TheMetadata, {}, lastSegmentPos, n)
      /\ Arranged(S) /\ \A s \in S : s.hi <= n
  BY <1>2, NextIsBehind
<1>5. /\ MetadataStays(S, metadataSegment)
      /\ Items(S, H, file, TheMetadata, known, kept, untouched,
               sbBlkDirectory.entries, attachmentDirectory.entries)
  <2>1. /\ MetadataStays(S, metadataSegment)
        /\ Items(S, H, file, Nobody, known, kept, untouched,
                 sbBlkDirectory.entries, attachmentDirectory.entries)
    BY <1>2 DEF Rests
  <2>2. TheMetadata \notin kept
    BY <2>1 DEF Items
  <2> QED BY <2>1, <2>2, ItemsMore
<1> DEFINE ws == WriteMetadata(metadataSegment, m, n)
<1>6. /\ op' = "WriteMetadata" /\ item' = m /\ writes' = ws
      /\ UNCHANGED <<file, opened, directories, segments, client>>
  BY <1>3 DEF SyncWriteMetadata, Edit, Begin
<1>7. metadataSegment \in PlacedSegments /\ metadataSegment \in Segments
  BY PlacedTyped DEF TypeInv, SegmentsTyped
<1>8. \A w \in Range(ws) : GoodWrite(w) /\ ConfinedTo(metadataSegment, n, w)
  BY <1>4, <1>7, MetadataEdits, MetadataWrites DEF EditWrites, GoodWrites
<1>11. XmlComes(file, Range(ws), MetadataPlace(metadataSegment, m, n), m)
  <2>1. ASSUME metadataSegment.valid PROVE SegmentEnd(metadataSegment) <= n
    <3>1. PICK t \in S : SegmentEnd(metadataSegment) <= t.hi
      BY <1>5, <2>1 DEF MetadataStays
    <3>2. t.hi \in Nat /\ t.hi <= n /\ SegmentEnd(metadataSegment) \in Nat
      BY <1>4, <1>7, EndTyped DEF Arranged
    <3> QED BY <1>4, <3>1, <3>2
  <2> QED BY <1>4, <1>7, <2>1, MetadataLasts DEF XmlComes
<1> HIDE DEF ws
<1>9. ASSUME NEW w \in Range(ws)
      PROVE  /\ Spares(S, TheMetadata, w)
             /\ \A x \in w.holds : SizeFits(S, lastSegmentPos, n, x)
  <2>1. CASE w.pos >= n
    BY <1>4, <1>8, <2>1, WriteBehind
  <2>2. CASE /\ metadataSegment.valid /\ w.pos >= metadataSegment.pos
             /\ w.pos + w.len <= SegmentEnd(metadataSegment)
    <3>1. PICK t \in S : /\ t.owner = TheMetadata /\ t.lo = metadataSegment.pos
                         /\ SegmentEnd(metadataSegment) <= t.hi
      BY <1>5, <2>2 DEF MetadataStays
    <3>2. t.lo <= w.pos /\ w.pos + w.len <= t.hi
      <4>1. /\ SegmentEnd(metadataSegment) \in Nat /\ t.hi \in Nat
            /\ w.pos \in Nat /\ w.len \in Nat /\ metadataSegment.pos \in Nat
        BY <1>4, <1>7, <1>8 DEF Segments, SegmentEnd, SegmentHeaderSize,
                                Arranged, GoodWrite
      <4> QED BY <2>2, <3>1, <4>1
    <3>3. ~IsItem(t.owner)
      BY <3>1, Owners
    <3> QED BY <1>4, <1>8, <3>1, <3>2, <3>3, WriteWithin, SizesElsewhere
  <2> QED BY <1>8, <2>1, <2>2 DEF ConfinedTo
<1>10. Running(S)'
  BY <1>3, <1>6, <1>11 DEF Running, segments
<1>12. Edited /\ Careful(TheMetadata)
  BY <1>6, NotEdited DEF Careful
<1> QED BY <1>1, <1>2, <1>3, <1>4, <1>5, <1>6, <1>9, <1>10, <1>12, LayoutBegun,
           Owners DEF client, directories

\* A call has ended.
LEMMA LayoutEnds ==
  ASSUME phase' = "open", NEW S, NEW H, NEW next, nextSegmentPos' = next,
         op' = "idle", writes' = <<>>, UNCHANGED <<file, opened>>,
         Ground(S, H, file, Nobody, {}, lastSegmentPos, next),
         Items(S, H, file, Nobody, known', kept', untouched',
               sbBlkDirectory'.entries, attachmentDirectory'.entries),
         MetadataStays(S, metadataSegment'), Framed(S), Edited,
         XmlStays(S, file, metadataSegment', meta'),
         UNCHANGED <<subBlockDirectorySegment, attachmentDirectorySegment>>
  PROVE  LayoutInv'
<1>1. Range(writes') = {}
  BY NoElement
<1>2. Running(S)'
  BY DEF Running
<1>3. Framed(S)'
  <2>1. Frame(S, file, hdrSegmentData, subBlockDirectorySegment,
              attachmentDirectorySegment, sbBlkDirectory', attachmentDirectory')
    BY FrameEdited DEF Framed, Edited
  <2> QED BY <2>1 DEF Framed, opened
<1>4. MetadataKept(S, Nobody)'
  BY Owners DEF MetadataKept
<1>5. Layout(S, H, Nobody)'
  BY <1>1, <1>2, <1>3, <1>4 DEF Layout, opened
<1> QED BY <1>5, LayoutHolds, Owners

NewSpan(p, n, alloc) ==
  [owner |-> p, lo |-> n, hi |-> n + alloc + SegmentHeaderSize]

\* A segment was appended: what Close relies on stays where it is.
LEMMA AppendedKeeps ==
  ASSUME TypeInv, NEW S, NEW H, Rests(S, H), NEW n \in Nat, n # 0, NEW o,
         NEW last, Ground(S, H, file, o, {}, last, n), NEW p, NEW alloc,
         NEW T, T = S \cup {NewSpan(p, n, alloc)}
  PROVE  /\ Framed(T)
         /\ \A parts : Stays(S, file, TheMetadata, parts) =>
                        Stays(T, file, TheMetadata, parts)
<1> DEFINE t == NewSpan(p, n, alloc)
<1>1. t.lo = n
  BY DEF NewSpan
<1> HIDE DEF t
<1>2. Arranged(S) /\ t.lo \in Nat /\ (\A s \in S : s.hi <= t.lo)
  BY <1>1 DEF Ground
<1>3. T = S \cup {t} /\ S \subseteq T
  BY DEF t
<1>4. /\ subBlockDirectorySegment \in Segments
      /\ attachmentDirectorySegment \in Segments
  BY PlacedTyped DEF TypeInv, SegmentsTyped
<1>5. Framed(T)
  BY <1>2, <1>3, <1>4, FrameMore DEF Rests, Framed
<1> QED BY <1>3, <1>5, StaysMore

\* The segment of an item was appended: it becomes a span of its own.
LEMMA ItemAppended ==
  ASSUME NEW f, IsCziFile(f), NEW S, NEW H, NEW last, NEW n \in Nat, n # 0,
         Ground(S, H, f, Nobody, {}, last, n),
         NEW alloc \in Nat, NEW parts, Coming(f, {}, n, alloc, parts),
         NEW p, IsItem(p), NEW next \in Nat,
         next >= n + alloc + SegmentHeaderSize,
         NEW T, T = S \cup {NewSpan(p, n, alloc)}
  PROVE  /\ Ground(T, H, f, Nobody, {}, last, next)
         /\ HasSpan(T, p, n) /\ Stays(T, f, p, parts) /\ S \subseteq T
<1> DEFINE t == NewSpan(p, n, alloc)
           e == Extent(n + 16, 8, <<"allocated", alloc>>)
<1>1. /\ t.owner = p /\ t.lo = n /\ t.hi = n + alloc + 32
      /\ t.lo \in Nat /\ t.hi \in Nat /\ t.lo + 32 <= t.hi
  BY DEF NewSpan, SegmentHeaderSize
<1>2. e.lo = n + 16 /\ e.what[2] = alloc
  BY DEF Extent
<1> HIDE DEF t, e
<1>3. \A x \in parts \cup {e} : x \in f /\ Within(x, n, alloc)
  BY LastingDone DEF Coming, e
<1>4. ASSUME NEW x \in f, x.lo = n + 16
      PROVE  n + SegmentHeaderSize + x.what[2] <= t.hi
  <2>1. x = e
    BY <1>2, <1>3, <1>4 DEF IsCziFile
  <2> QED BY <1>1, <1>2, <2>1 DEF SegmentHeaderSize
<1>5. Ground(S \cup {t}, H, f, Nobody, {}, last, next)
  <2>1. /\ t.lo < t.hi /\ t.lo + SegmentHeaderSize <= t.hi /\ t.hi <= next
    BY <1>1 DEF SegmentHeaderSize
  <2> QED BY <1>1, <1>4, <2>1, GroundAppend
<1>6. HasSpan(T, p, n) /\ S \subseteq T /\ t \in T
  BY <1>1 DEF HasSpan, t
<1>7. Stays(T, f, p, parts)
  <2>1. \A x \in parts : x \in f /\ t.lo <= x.lo /\ x.hi <= t.hi
    BY <1>1, <1>3 DEF Within, SegmentHeaderSize
  <2> QED BY <1>1, <1>6, <2>1 DEF Stays, Inside
<1> QED BY <1>5, <1>6, <1>7 DEF t

LEMMA LayoutSubBlockAdded ==
  ASSUME FunctorsDeliver, TypeInv, LayoutInv, SubBlockAdded
  PROVE  LayoutInv'
<1> DEFINE n == nextSegmentPos
           p == SubBlock(key)
           alloc == SubBlockAllocated(item)
           parts == SubBlockExtents(n, item)
           next == n + SubBlockBytes(item, SubBlockAllocated(item))
<1>1. /\ op = "AddSubBlock" /\ writes = <<>> /\ op' = "idle" /\ writes' = <<>>
      /\ nextSegmentPos' = next /\ item \in SubBlocks
      /\ known' = known \cup {p} /\ kept' = kept \cup {p}
      /\ UNCHANGED <<file, opened, directories, segments, phase, untouched,
                     meta>>
  BY DEF SubBlockAdded, Done, ReturnToClient, TypeInv, CallTyped, SubBlockOps
<1>2. phase = "open" /\ n \in BehindHeader
  BY <1>1 DEF TypeInv, OpInPhase, NextTyped, AppendOps, CreateOps, CloseOps
<1>3. PICK S, H : Rests(S, H) /\ Running(S)
  BY <1>1, <1>2, AtRest
<1>4. /\ sbBlkDirectory.entries[key] = [id |-> item, pos |-> n]
      /\ Coming(file, {}, n, alloc, parts)
  <2>1. Range(writes) = {}
    BY <1>1, NoElement
  <2> QED BY <1>1, <1>3, <2>1 DEF Running
<1>5. /\ Ground(S, H, file, Nobody, {}, lastSegmentPos, n)
      /\ MetadataStays(S, metadataSegment) /\ IsCziFile(file)
      /\ Items(S, H, file, Nobody, known, kept, untouched,
               sbBlkDirectory.entries, attachmentDirectory.entries)
  BY <1>3 DEF Rests, TypeInv, FileTyped
<1>6. /\ n \in Nat /\ n # 0 /\ alloc \in Nat /\ next \in Nat
      /\ next >= n + alloc + SegmentHeaderSize
  <2>1. n \in Nat /\ n # 0 /\ alloc \in Nat
        /\ SubBlockBytes(item, alloc) = alloc + SegmentHeaderSize
    BY <1>1, <1>2, AllocatedSizes, BytesOfItems
       DEF BehindHeader, FileHeaderSegmentSize
  <2> QED BY <2>1 DEF SegmentHeaderSize
<1> DEFINE T == S \cup {NewSpan(p, n, alloc)}
<1>7. IsItem(p)
  BY Owners
<1> HIDE DEF n, p, alloc, parts, next
<1>8. /\ Ground(T, H, file, Nobody, {}, lastSegmentPos, next)
      /\ HasSpan(T, p, n) /\ Stays(T, file, p, parts) /\ S \subseteq T
  BY <1>4, <1>5, <1>6, <1>7, ItemAppended
<1>11. Framed(T) /\ XmlStays(T, file, metadataSegment, meta)
  <2>1. XmlStays(S, file, metadataSegment, meta)
    BY <1>1, <1>3 DEF Rests, MetadataKept
  <2>2. Rests(S, H) /\ Ground(S, H, file, Nobody, {}, lastSegmentPos, n)
    BY <1>3, <1>5
  <2>3. n \in Nat /\ n # 0
    BY <1>6
  <2>4. /\ Framed(T)
        /\ \A x : Stays(S, file, TheMetadata, x) =>
                   Stays(T, file, TheMetadata, x)
    BY <2>2, <2>3, AppendedKeeps
  <2> QED BY <2>1, <2>4 DEF XmlStays
<1> HIDE DEF T
<1>9. Items(T, H, file, Nobody, known \cup {p}, kept \cup {p}, untouched,
            sbBlkDirectory.entries, attachmentDirectory.entries)
  <2>1. Items(T, H, file, Nobody, known, kept, untouched,
              sbBlkDirectory.entries, attachmentDirectory.entries)
    <3>1. Nobody \notin kept
      BY <1>5 DEF Items
    <3> QED BY <1>5, <1>8, <3>1, ItemsMore
  <2>2. /\ HasSpan(T, SubBlock(key), sbBlkDirectory.entries[key].pos)
        /\ Stays(T, file, SubBlock(key),
                 SubBlockExtents(sbBlkDirectory.entries[key].pos,
                                 sbBlkDirectory.entries[key].id))
    BY <1>4, <1>8 DEF p, parts
  <2>3. \A j : SubBlock(j) \in known =>
          j = key \/ sbBlkDirectory.entries[j] = sbBlkDirectory.entries[j]
    OBVIOUS
  <2> QED BY <2>1, <2>2, <2>3, ItemsSubBlock DEF p
<1>10. MetadataStays(T, metadataSegment)
  BY <1>5, <1>8, MetadataMore
<1> QED BY <1>1, <1>2, <1>8, <1>9, <1>10, <1>11, LayoutEnds, NotEdited
        DEF directories, segments

LEMMA LayoutAttachmentAdded ==
  ASSUME TypeInv, LayoutInv, AttachmentAdded
  PROVE  LayoutInv'
<1> DEFINE n == nextSegmentPos
           p == Attachment(key)
           alloc == AttachmentAllocated(item)
           parts == AttachmentExtents(n, item)
           next == n + AttachmentBytes(item, AttachmentAllocated(item))
<1>1. /\ op = "AddAttachment" /\ writes = <<>> /\ op' = "idle" /\ writes' = <<>>
      /\ nextSegmentPos' = next /\ item \in Attachments
      /\ known' = known \cup {p} /\ kept' = kept \cup {p}
      /\ UNCHANGED <<file, opened, directories, segments, phase, untouched,
                     meta>>
  BY DEF AttachmentAdded, Done, ReturnToClient, TypeInv, CallTyped,
         AttachmentOps
<1>2. phase = "open" /\ n \in BehindHeader
  BY <1>1 DEF TypeInv, OpInPhase, NextTyped, AppendOps, CreateOps, CloseOps
<1>3. PICK S, H : Rests(S, H) /\ Running(S)
  BY <1>1, <1>2, AtRest
<1>4. /\ attachmentDirectory.entries[key] = [id |-> item, pos |-> n]
      /\ Coming(file, {}, n, alloc, parts)
  <2>1. Range(writes) = {}
    BY <1>1, NoElement
  <2> QED BY <1>1, <1>3, <2>1 DEF Running
<1>5. /\ Ground(S, H, file, Nobody, {}, lastSegmentPos, n)
      /\ MetadataStays(S, metadataSegment) /\ IsCziFile(file)
      /\ Items(S, H, file, Nobody, known, kept, untouched,
               sbBlkDirectory.entries, attachmentDirectory.entries)
  BY <1>3 DEF Rests, TypeInv, FileTyped
<1>6. /\ n \in Nat /\ n # 0 /\ alloc \in Nat /\ next \in Nat
      /\ next >= n + alloc + SegmentHeaderSize
  <2>1. n \in Nat /\ n # 0 /\ alloc \in Nat
        /\ AttachmentBytes(item, alloc) = alloc + SegmentHeaderSize
    BY <1>1, <1>2, AllocatedSizes, BytesOfItems
       DEF BehindHeader, FileHeaderSegmentSize
  <2> QED BY <2>1 DEF SegmentHeaderSize
<1> DEFINE T == S \cup {NewSpan(p, n, alloc)}
<1>7. IsItem(p)
  BY Owners
<1> HIDE DEF n, p, alloc, parts, next
<1>8. /\ Ground(T, H, file, Nobody, {}, lastSegmentPos, next)
      /\ HasSpan(T, p, n) /\ Stays(T, file, p, parts) /\ S \subseteq T
  BY <1>4, <1>5, <1>6, <1>7, ItemAppended
<1>11. Framed(T) /\ XmlStays(T, file, metadataSegment, meta)
  <2>1. XmlStays(S, file, metadataSegment, meta)
    BY <1>1, <1>3 DEF Rests, MetadataKept
  <2>2. Rests(S, H) /\ Ground(S, H, file, Nobody, {}, lastSegmentPos, n)
    BY <1>3, <1>5
  <2>3. n \in Nat /\ n # 0
    BY <1>6
  <2>4. /\ Framed(T)
        /\ \A x : Stays(S, file, TheMetadata, x) =>
                   Stays(T, file, TheMetadata, x)
    BY <2>2, <2>3, AppendedKeeps
  <2> QED BY <2>1, <2>4 DEF XmlStays
<1> HIDE DEF T
<1>9. Items(T, H, file, Nobody, known \cup {p}, kept \cup {p}, untouched,
            sbBlkDirectory.entries, attachmentDirectory.entries)
  <2>1. Items(T, H, file, Nobody, known, kept, untouched,
              sbBlkDirectory.entries, attachmentDirectory.entries)
    <3>1. Nobody \notin kept
      BY <1>5 DEF Items
    <3> QED BY <1>5, <1>8, <3>1, ItemsMore
  <2>2. /\ HasSpan(T, Attachment(key), attachmentDirectory.entries[key].pos)
        /\ Stays(T, file, Attachment(key),
                 AttachmentExtents(attachmentDirectory.entries[key].pos,
                                   attachmentDirectory.entries[key].id))
    BY <1>4, <1>8 DEF p, parts
  <2>3. \A j : Attachment(j) \in known =>
          j = key \/ attachmentDirectory.entries[j]
                       = attachmentDirectory.entries[j]
    OBVIOUS
  <2> QED BY <2>1, <2>2, <2>3, ItemsAttachment DEF p
<1>10. MetadataStays(T, metadataSegment)
  BY <1>5, <1>8, MetadataMore
<1> QED BY <1>1, <1>2, <1>8, <1>9, <1>10, <1>11, LayoutEnds, NotEdited
        DEF directories, segments

LEMMA LayoutSubBlockReplacedAtEnd ==
  ASSUME FunctorsDeliver, TypeInv, LayoutInv, SubBlockReplacedAtEnd
  PROVE  LayoutInv'
<1> DEFINE n == nextSegmentPos
           p == SubBlock(key)
           alloc == SubBlockAllocated(item)
           parts == SubBlockExtents(n, item)
           next == n + SubBlockBytes(item, SubBlockAllocated(item))
                     + SegmentHeaderSize
           e == [id |-> item, pos |-> n]
           d == ModifyEntry(sbBlkDirectory, key, e)
<1>1. /\ op = "ReplaceSubBlockAddNewAtEnd" /\ writes = <<>>
      /\ op' = "idle" /\ writes' = <<>>
      /\ nextSegmentPos' = next /\ item \in SubBlocks
      /\ key \in DOMAIN sbBlkDirectory.entries
      /\ kept' = kept \cup {p} /\ sbBlkDirectory' = d
      /\ UNCHANGED <<file, opened, attachmentDirectory, segments, phase, known,
                     untouched, meta>>
  BY DEF SubBlockReplacedAtEnd, Done, ReturnToClient, TypeInv, CallTyped,
         SubBlockOps
<1>2. phase = "open" /\ n \in BehindHeader
  BY <1>1 DEF TypeInv, OpInPhase, NextTyped, AppendOps, CreateOps, CloseOps
<1>3. PICK S, H : Rests(S, H) /\ Running(S)
  BY <1>1, <1>2, AtRest
<1>4. p \in known \ kept /\ Coming(file, {}, n, alloc, parts)
  <2>1. Range(writes) = {}
    BY <1>1, NoElement
  <2> QED BY <1>1, <1>3, <2>1 DEF Running
<1>5. /\ Ground(S, H, file, Nobody, {}, lastSegmentPos, n)
      /\ MetadataStays(S, metadataSegment) /\ IsCziFile(file)
      /\ Items(S, H, file, Nobody, known, kept, untouched,
               sbBlkDirectory.entries, attachmentDirectory.entries)
  BY <1>3 DEF Rests, TypeInv, FileTyped
<1>6. /\ n \in Nat /\ n # 0 /\ alloc \in Nat /\ next \in Nat
      /\ next >= n + alloc + SegmentHeaderSize
  <2>1. n \in Nat /\ n # 0 /\ alloc \in Nat
        /\ SubBlockBytes(item, alloc) = alloc + SegmentHeaderSize
    BY <1>1, <1>2, AllocatedSizes, BytesOfItems
       DEF BehindHeader, FileHeaderSegmentSize
  <2> QED BY <2>1 DEF SegmentHeaderSize
<1> DEFINE T == S \cup {NewSpan(p, n, alloc)}
<1>7. IsItem(p) /\ e.id = item /\ e.pos = n
  BY Owners
<1>8. /\ d.entries[key] = e
      /\ \A j \in DOMAIN sbBlkDirectory.entries :
           j = key \/ d.entries[j] = sbBlkDirectory.entries[j]
  <2>1. e \in SubBlockEntries /\ IsDirectory(sbBlkDirectory, SubBlockEntries)
    BY <1>1, <1>2 DEF SubBlockEntries, TypeInv, DirectoriesTyped
  <2> HIDE DEF e
  <2> QED BY <1>1, <2>1, ModifyIsDirectory
<1>13. Edited
  <2>1. IsDirectory(sbBlkDirectory, SubBlockEntries)
    BY DEF TypeInv, DirectoriesTyped
  <2> QED BY <1>1, <2>1, EditMarks DEF Edited, EditedFrom
<1> HIDE DEF n, p, alloc, parts, next, d, e
<1>9. /\ Ground(T, H, file, Nobody, {}, lastSegmentPos, next)
      /\ HasSpan(T, p, n) /\ Stays(T, file, p, parts) /\ S \subseteq T
  BY <1>4, <1>5, <1>6, <1>7, ItemAppended
<1>12. Framed(T) /\ XmlStays(T, file, metadataSegment, meta)
  <2>1. XmlStays(S, file, metadataSegment, meta)
    BY <1>1, <1>3 DEF Rests, MetadataKept
  <2>2. Rests(S, H) /\ Ground(S, H, file, Nobody, {}, lastSegmentPos, n)
    BY <1>3, <1>5
  <2>3. n \in Nat /\ n # 0
    BY <1>6
  <2>4. /\ Framed(T)
        /\ \A x : Stays(S, file, TheMetadata, x) =>
                   Stays(T, file, TheMetadata, x)
    BY <2>2, <2>3, AppendedKeeps
  <2> QED BY <2>1, <2>4 DEF XmlStays
<1> HIDE DEF T
<1>10. Items(T, H, file, Nobody, known, kept \cup {p}, untouched,
             d.entries, attachmentDirectory.entries)
  <2>1. Items(T, H, file, Nobody, known, kept, untouched,
              sbBlkDirectory.entries, attachmentDirectory.entries)
    <3>1. Nobody \notin kept
      BY <1>5 DEF Items
    <3> QED BY <1>5, <1>9, <3>1, ItemsMore
  <2>2. /\ HasSpan(T, SubBlock(key), d.entries[key].pos)
        /\ Stays(T, file, SubBlock(key),
                 SubBlockExtents(d.entries[key].pos, d.entries[key].id))
    BY <1>7, <1>8, <1>9 DEF p, parts
  <2>3. \A j : SubBlock(j) \in known =>
          j = key \/ d.entries[j] = sbBlkDirectory.entries[j]
    BY <1>8 DEF TypeInv, ClientTyped
  <2>4. SubBlock(key) \notin kept /\ known \cup {SubBlock(key)} = known
    BY <1>4 DEF p
  <2>5. Items(T, H, file, Nobody, known \cup {SubBlock(key)},
              kept \cup {SubBlock(key)}, untouched, d.entries,
              attachmentDirectory.entries)
    BY <2>1, <2>2, <2>3, <2>4, ItemsSubBlock
  <2> QED BY <2>4, <2>5 DEF p
<1>11. MetadataStays(T, metadataSegment)
  BY <1>5, <1>9, MetadataMore
<1> QED BY <1>1, <1>2, <1>9, <1>10, <1>11, <1>12, <1>13, LayoutEnds
        DEF segments

LEMMA LayoutSubBlockReplacedInplace ==
  ASSUME TypeInv, LayoutInv, SubBlockReplacedInplace
  PROVE  LayoutInv'
<1> DEFINE p == SubBlock(key)
           pos == sbBlkDirectory.entries[key].pos
           e == [id |-> item, pos |-> pos]
           d == ModifyEntry(sbBlkDirectory, key, e)
<1>1. /\ op = "ReplaceSubBlockInplace" /\ writes = <<>>
      /\ op' = "idle" /\ writes' = <<>>
      /\ item \in SubBlocks /\ key \in DOMAIN sbBlkDirectory.entries
      /\ kept' = kept \cup {p} /\ sbBlkDirectory' = d
      /\ UNCHANGED <<file, opened, nextSegmentPos, attachmentDirectory,
                     segments, phase, known, untouched, meta>>
  BY DEF SubBlockReplacedInplace, Done, ReturnToClient, TypeInv, CallTyped,
         SubBlockOps
<1>2. phase = "open"
  BY <1>1 DEF TypeInv, OpInPhase, CreateOps, CloseOps
<1>3. PICK S, H : Rests(S, H) /\ Running(S)
  BY <1>1, <1>2, AtRest
<1>4. p \in known \ kept /\ Placing(S, file, {}, p, SubBlockExtents(pos, item))
  <2>1. Range(writes) = {}
    BY <1>1, NoElement
  <2> QED BY <1>1, <1>3, <2>1 DEF Running
<1>5. /\ Ground(S, H, file, Nobody, {}, lastSegmentPos, nextSegmentPos)
      /\ MetadataStays(S, metadataSegment) /\ Framed(S)
      /\ XmlStays(S, file, metadataSegment, meta)
      /\ Items(S, H, file, Nobody, known, kept, untouched,
               sbBlkDirectory.entries, attachmentDirectory.entries)
  BY <1>1, <1>3 DEF Rests, MetadataKept
<1>6. Stays(S, file, p, SubBlockExtents(pos, item)) /\ HasSpan(S, p, pos)
  BY <1>4, <1>5, LastingDone DEF Placing, Stays, Items, SubBlocksStay
<1>7. e.id = item /\ e.pos = pos
  OBVIOUS
<1>8. /\ d.entries[key] = e
      /\ \A j \in DOMAIN sbBlkDirectory.entries :
           j = key \/ d.entries[j] = sbBlkDirectory.entries[j]
  <2>1. e \in SubBlockEntries /\ IsDirectory(sbBlkDirectory, SubBlockEntries)
    BY <1>1, <1>4, KnownEntry DEF SubBlockEntries, TypeInv, DirectoriesTyped
  <2> HIDE DEF e
  <2> QED BY <1>1, <2>1, ModifyIsDirectory
<1>10. Edited
  <2>1. IsDirectory(sbBlkDirectory, SubBlockEntries)
    BY DEF TypeInv, DirectoriesTyped
  <2> QED BY <1>1, <2>1, EditMarks DEF Edited, EditedFrom
<1> HIDE DEF p, pos, d, e
<1>9. Items(S, H, file, Nobody, known, kept \cup {p}, untouched,
            d.entries, attachmentDirectory.entries)
  <2>1. /\ HasSpan(S, SubBlock(key), d.entries[key].pos)
        /\ Stays(S, file, SubBlock(key),
                 SubBlockExtents(d.entries[key].pos, d.entries[key].id))
    BY <1>6, <1>7, <1>8 DEF p
  <2>2. \A j : SubBlock(j) \in known =>
          j = key \/ d.entries[j] = sbBlkDirectory.entries[j]
    BY <1>8 DEF TypeInv, ClientTyped
  <2>3. SubBlock(key) \notin kept /\ known \cup {SubBlock(key)} = known
    BY <1>4 DEF p
  <2>4. Items(S, H, file, Nobody, known \cup {SubBlock(key)},
              kept \cup {SubBlock(key)}, untouched, d.entries,
              attachmentDirectory.entries)
    BY <1>5, <2>1, <2>2, <2>3, ItemsSubBlock
  <2> QED BY <2>3, <2>4 DEF p
<1> QED BY <1>1, <1>2, <1>5, <1>9, <1>10, LayoutEnds DEF segments

LEMMA LayoutAttachmentReplaced ==
  ASSUME TypeInv, LayoutInv,
         AttachmentReplacedInplace \/ AttachmentReplacedAtEnd
  PROVE  LayoutInv'
<1> DEFINE p == Attachment(key)
           pos == attachmentDirectory.entries[key].pos
<1>1. /\ op \in {"ReplaceAttachmentInplace", "ReplaceAttachmentAddNewAtEnd"}
      /\ writes = <<>> /\ op' = "idle" /\ writes' = <<>>
      /\ item \in Attachments /\ key \in DOMAIN attachmentDirectory.entries
      /\ kept' = kept \cup {p}
      /\ UNCHANGED <<file, opened, nextSegmentPos, sbBlkDirectory, segments,
                     phase, untouched, meta>>
  BY DEF AttachmentReplacedInplace, AttachmentReplacedAtEnd, Done,
         ReturnToClient, TypeInv, CallTyped, AttachmentOps
<1>2. phase = "open"
  BY <1>1 DEF TypeInv, OpInPhase, CreateOps, CloseOps
<1>3. PICK S, H : Rests(S, H) /\ Running(S)
  BY <1>1, <1>2, AtRest
<1>4. /\ Ground(S, H, file, Nobody, {}, lastSegmentPos, nextSegmentPos)
      /\ MetadataStays(S, metadataSegment) /\ Framed(S)
      /\ XmlStays(S, file, metadataSegment, meta)
      /\ Items(S, H, file, Nobody, known, kept, untouched,
               sbBlkDirectory.entries, attachmentDirectory.entries)
  BY <1>1, <1>3 DEF Rests, MetadataKept
<1>5. Items(S, H, file, Nobody, known', kept \cup {p}, untouched,
            sbBlkDirectory.entries, attachmentDirectory'.entries)
  <2>1. CASE AttachmentReplacedInplace
    <3> DEFINE e == [id |-> item, pos |-> pos]
               d == ModifyEntry(attachmentDirectory, key, e)
    <3>1. /\ op = "ReplaceAttachmentInplace" /\ attachmentDirectory' = d
          /\ known' = known
      BY <2>1 DEF AttachmentReplacedInplace, Done
    <3>2. /\ p \in known \ kept
          /\ Placing(S, file, {}, p, AttachmentExtents(pos, item))
      <4>1. Range(writes) = {}
        BY <1>1, NoElement
      <4> QED BY <1>3, <3>1, <4>1 DEF Running
    <3>3. Stays(S, file, p, AttachmentExtents(pos, item)) /\ HasSpan(S, p, pos)
      BY <1>4, <3>2, LastingDone DEF Placing, Stays, Items, AttachmentsStay
    <3>4. e.id = item /\ e.pos = pos
      OBVIOUS
    <3>5. /\ d.entries[key] = e
          /\ \A j \in DOMAIN attachmentDirectory.entries :
               j = key \/ d.entries[j] = attachmentDirectory.entries[j]
      <4>1. /\ e \in AttachmentEntries
            /\ IsDirectory(attachmentDirectory, AttachmentEntries)
        BY <1>1, <3>2, KnownEntry
           DEF AttachmentEntries, TypeInv, DirectoriesTyped
      <4> HIDE DEF e
      <4> QED BY <1>1, <4>1, ModifyIsDirectory
    <3> HIDE DEF p, pos, d, e
    <3>6. /\ HasSpan(S, Attachment(key), d.entries[key].pos)
          /\ Stays(S, file, Attachment(key),
                   AttachmentExtents(d.entries[key].pos, d.entries[key].id))
      BY <3>3, <3>4, <3>5 DEF p
    <3>7. \A j : Attachment(j) \in known =>
            j = key \/ d.entries[j] = attachmentDirectory.entries[j]
      BY <3>5 DEF TypeInv, ClientTyped
    <3>8. known \cup {Attachment(key)} = known
      BY <3>2 DEF p
    <3>9. Items(S, H, file, Nobody, known \cup {Attachment(key)},
                kept \cup {Attachment(key)}, untouched, sbBlkDirectory.entries,
                d.entries)
      BY <1>4, <3>6, <3>7, ItemsAttachment
    <3> QED BY <3>1, <3>8, <3>9 DEF p
  <2>2. CASE AttachmentReplacedAtEnd
    <3> DEFINE e == [id |-> item, pos |-> nextSegmentPos]
               d == ModifyEntry(attachmentDirectory, key, e)
    <3>1. /\ op = "ReplaceAttachmentAddNewAtEnd" /\ attachmentDirectory' = d
          /\ known' = known \ {p}
      BY <2>2 DEF AttachmentReplacedAtEnd, Done
    <3>2. \A j \in DOMAIN attachmentDirectory.entries :
            j = key \/ d.entries[j] = attachmentDirectory.entries[j]
      <4>1. /\ e \in AttachmentEntries
            /\ IsDirectory(attachmentDirectory, AttachmentEntries)
        BY <1>1, <3>1 DEF AttachmentEntries, TypeInv, DirectoriesTyped,
                          NextTyped, AppendOps
      <4> HIDE DEF e
      <4> QED BY <1>1, <4>1, ModifyIsDirectory
    <3> HIDE DEF d, e
    <3>3. \A j : Attachment(j) \in known =>
            j = key \/ d.entries[j] = attachmentDirectory.entries[j]
      BY <3>2 DEF TypeInv, ClientTyped
    <3>4. Items(S, H, file, Nobody, known \ {Attachment(key)},
                kept \cup {Attachment(key)}, untouched, sbBlkDirectory.entries,
                d.entries)
      BY <1>4, <3>3, ItemsAttachmentMoved
    <3> QED BY <3>1, <3>4
  <2> QED BY <2>1, <2>2
<1>6. Edited
  <2>1. IsDirectory(attachmentDirectory, AttachmentEntries)
    BY DEF TypeInv, DirectoriesTyped
  <2> QED BY <1>1, <2>1, EditMarks DEF Edited, EditedFrom,
                     AttachmentReplacedInplace, AttachmentReplacedAtEnd
<1> QED BY <1>1, <1>2, <1>4, <1>5, <1>6, LayoutEnds DEF segments

LEMMA LayoutRemoved ==
  ASSUME TypeInv, LayoutInv, Removed
  PROVE  LayoutInv'
<1>1. /\ op = "Remove" /\ writes = <<>> /\ op' = "idle" /\ writes' = <<>>
      /\ UNCHANGED <<file, opened, nextSegmentPos, directories, segments,
                     client>>
  BY DEF Removed, Done, ReturnToClient
<1>2. phase = "open"
  BY <1>1 DEF TypeInv, OpInPhase, CreateOps, CloseOps
<1>3. PICK S, H : Rests(S, H)
  BY <1>1, <1>2, AtRest
<1>4. Framed(S) /\ XmlStays(S, file, metadataSegment, meta)
  BY <1>1, <1>3 DEF Rests, MetadataKept
<1> QED BY <1>1, <1>2, <1>3, <1>4, LayoutEnds, NotEdited
        DEF Rests, segments, directories, client

LEMMA LayoutMetadataWritten ==
  ASSUME TypeInv, LayoutInv, MetadataWritten
  PROVE  LayoutInv'
<1> DEFINE n == nextSegmentPos
           at == MetadataPlace(metadataSegment, item, n)
           alloc == at.allocated
           next == n + alloc + SegmentHeaderSize
<1>1. /\ op = "WriteMetadata" /\ writes = <<>> /\ op' = "idle" /\ writes' = <<>>
      /\ item \in Metadatas /\ meta' = item
      /\ \/ /\ at.pos = n
            /\ metadataSegment' = SegmentAt(n, alloc, FALSE)
            /\ nextSegmentPos' = next
         \/ at.pos # n /\ UNCHANGED <<metadataSegment, nextSegmentPos>>
      /\ UNCHANGED <<file, opened, directories, phase, known, kept, untouched,
                     subBlockDirectorySegment, attachmentDirectorySegment>>
  BY DEF MetadataWritten, Done, ReturnToClient, TypeInv, CallTyped
<1>2. phase = "open" /\ n \in BehindHeader
  BY <1>1 DEF TypeInv, OpInPhase, NextTyped, AppendOps, CreateOps, CloseOps
<1>3. PICK S, H : Rests(S, H) /\ Running(S)
  BY <1>1, <1>2, AtRest
<1>4. /\ Ground(S, H, file, Nobody, {}, lastSegmentPos, n)
      /\ MetadataStays(S, metadataSegment) /\ Framed(S)
      /\ Items(S, H, file, Nobody, known, kept, untouched,
               sbBlkDirectory.entries, attachmentDirectory.entries)
  BY <1>3 DEF Rests
<1>5. alloc \in Nat
  BY <1>1, <1>2, MetadataEdits DEF TypeInv, SegmentsTyped
<1>6. n \in Nat /\ n # 0
  BY <1>2 DEF BehindHeader, FileHeaderSegmentSize
<1>9. \A x \in MetadataExtents(at.pos, item) :
        x \in file /\ at.pos <= x.lo /\ x.hi <= at.pos + alloc + SegmentHeaderSize
  <2>1. Range(writes) = {}
    BY <1>1, NoElement
  <2>2. XmlComes(file, {}, at, item)
    BY <1>1, <1>3, <2>1 DEF Running
  <2> QED BY <2>2, LastingDone DEF XmlComes, Within
<1>10. Placed(metadataSegment, n, at)
  BY <1>1, <1>6, PlacedTyped, Places DEF TypeInv, SegmentsTyped
<1>11. Edited
  BY <1>1, NotEdited
<1> HIDE DEF at, n
<1>7. CASE at.pos # n /\ UNCHANGED <<metadataSegment, nextSegmentPos>>
  <2>1. /\ metadataSegment.valid /\ at.pos = metadataSegment.pos
        /\ SegmentEnd(metadataSegment) = at.pos + alloc + SegmentHeaderSize
    BY <1>7, <1>10 DEF Placed, SegmentEnd
  <2>2. PICK t \in S : /\ t.owner = TheMetadata /\ t.lo = metadataSegment.pos
                       /\ SegmentEnd(metadataSegment) <= t.hi
    BY <1>4, <2>1 DEF MetadataStays
  <2>3. ASSUME NEW x \in MetadataExtents(metadataSegment.pos, item)
        PROVE  x \in file /\ t.lo <= x.lo /\ x.hi <= t.hi
    <3>1. /\ x \in file /\ at.pos <= x.lo
          /\ x.hi <= at.pos + alloc + SegmentHeaderSize
      BY <1>9, <2>1
    <3>2. x.hi \in Nat /\ t.hi \in Nat /\ SegmentEnd(metadataSegment) \in Nat
      BY <1>4, <1>5, <1>10, <2>1, <3>1, WellFormedBounds
         DEF TypeInv, FileTyped, IsCziFile, Ground, Arranged, Placed,
             SegmentHeaderSize
    <3> QED BY <2>1, <2>2, <3>1, <3>2
  <2>4. XmlStays(S, file, metadataSegment, item)
    BY <2>1, <2>2, <2>3 DEF XmlStays, Stays, Inside
  <2> QED BY <1>1, <1>2, <1>4, <1>7, <1>11, <2>4, LayoutEnds DEF directories, n
<1> HIDE DEF next
<1>8. CASE /\ at.pos = n
           /\ metadataSegment' = SegmentAt(n, alloc, FALSE)
           /\ nextSegmentPos' = next
  <2> DEFINE t == NewSpan(TheMetadata, n, alloc)
             T == S \cup {t}
  <2>1. /\ t.owner = TheMetadata /\ t.lo = n /\ t.hi = next
        /\ next \in Nat /\ n < next /\ t.hi \in Nat /\ t.lo < t.hi
    BY <1>5, <1>6 DEF NewSpan, next, SegmentHeaderSize
  <2>6. Framed(T)
    BY <1>3, <1>4, <1>6, AppendedKeeps
  <2>2. t \in T /\ S \subseteq T
    OBVIOUS
  <2> HIDE DEF t
  <2>3. Ground(T, H, file, Nobody, {}, lastSegmentPos, next)
    <3>1. ~IsItem(t.owner) /\ t.hi <= next
      BY <2>1, Owners
    <3> QED BY <1>4, <1>6, <2>1, <3>1, GroundAppend
  <2> HIDE DEF T
  <2>4. Items(T, H, file, Nobody, known, kept, untouched,
              sbBlkDirectory.entries, attachmentDirectory.entries)
    <3>1. Nobody \notin kept
      BY <1>4 DEF Items
    <3> QED BY <1>4, <2>2, <3>1, ItemsMore
  <2>5. MetadataStays(T, SegmentAt(n, alloc, FALSE))
    <3>1. SegmentEnd(SegmentAt(n, alloc, FALSE)) <= t.hi
          /\ SegmentAt(n, alloc, FALSE).pos = n
      BY <1>5, <1>6, <2>1
         DEF SegmentEnd, SegmentAt, next, SegmentHeaderSize
    <3> QED BY <2>1, <2>2, <3>1 DEF MetadataStays
  <2>7. XmlStays(T, file, metadataSegment', item)
    <3>1. metadataSegment'.valid /\ metadataSegment'.pos = n
      BY <1>8 DEF SegmentAt
    <3>2. \A x \in MetadataExtents(n, item) :
            x \in file /\ t.lo <= x.lo /\ x.hi <= t.hi
      BY <1>8, <1>9, <2>1 DEF next
    <3> QED BY <2>1, <2>2, <3>1, <3>2 DEF XmlStays, Stays, Inside
  <2> QED BY <1>1, <1>2, <1>8, <1>11, <2>3, <2>4, <2>5, <2>6, <2>7, LayoutEnds
          DEF directories
<1> QED BY <1>1, <1>7, <1>8 DEF n

\* The file header that has been written is the only segment.
LEMMA HeaderOnly ==
  ASSUME NEW f, IsCziFile(f), FileHeader(0, 0, 0) \subseteq f,
         NEW hdr, hdr.subBlockDirectory = 0, hdr.metadata = 0,
         hdr.attachmentDirectory = 0, NEW sb
  PROVE  /\ Ground({HeaderSpan}, {}, f, Nobody, {}, 0, 0)
         /\ Frame({HeaderSpan}, f, hdr, NoSegment, NoSegment, sb,
                  EmptyDirectory)
<1> DEFINE S == {HeaderSpan}
           P == Parts(f, 0, FileHeaderSegmentSize)
<1>1. \A s \in S : s = HeaderSpan /\ s.owner = Document /\ ~IsItem(s.owner)
                   /\ s.lo = 0 /\ s.hi = 544
  BY Owners DEF HeaderSpan, FileHeaderSegmentSize
<1>2. Ground(S, {}, f, Nobody, {}, 0, 0)
  <2>1. Arranged(S)
    BY <1>1 DEF Arranged
  <2>2. ASSUME NEW x \in f PROVE SizeFits(S, 0, 0, x)
    <3>1. x.what[1] = "allocated" /\ x.lo = 16 =>
            x.what[2] \in Nat /\ x.what[2] >= 512
      BY DEF IsCziFile, WellFormed, FileHeaderSegmentSize, SegmentHeaderSize
    <3> HIDE DEF S
    <3> QED BY <1>1, <3>1 DEF SizeFits, SegmentHeaderSize
  <2> QED BY <2>1, <2>2 DEF Ground, Inside
<1>3. Names(P, 0, 0, 0)
  <2> DEFINE a == Magic(0, "ZISRAWFILE")
             b == Extent(84, 8, <<"SubBlockDirectoryPosition", 0>>)
             c == Extent(92, 8, <<"MetadataPosition", 0>>)
             d == Extent(104, 8, <<"AttachmentDirectoryPosition", 0>>)
  <2>1. {a, b, c, d} \subseteq f
    BY DEF FileHeader, SegmentHeader
  <2>2. /\ a.lo = 0 /\ a.hi = 16 /\ b.lo = 84 /\ b.hi = 92
        /\ c.lo = 92 /\ c.hi = 100 /\ d.lo = 104 /\ d.hi = 112
    BY DEF Magic, Extent
  <2>3. /\ b.what[1] = "SubBlockDirectoryPosition" /\ b.what[2] = 0
        /\ c.what[1] = "MetadataPosition" /\ c.what[2] = 0
        /\ d.what[1] = "AttachmentDirectoryPosition" /\ d.what[2] = 0
    BY DEF Extent
  <2>4. HasMagic(P, 0, "ZISRAWFILE")
    BY <2>1, <2>2 DEF HasMagic, Parts, FileHeaderSegmentSize
  <2> HIDE DEF a, b, c, d
  <2>5. b \in P /\ c \in P /\ d \in P
    BY <2>1, <2>2 DEF Parts, FileHeaderSegmentSize
  <2> HIDE DEF P
  <2> QED BY <2>2, <2>3, <2>4, <2>5 DEF Names, HeaderField
<1>4. HeaderKept(S, f, hdr)
  BY <1>1, <1>3 DEF HeaderKept, Held, FileHeaderSegmentSize
<1>5. EntriesOf(EmptyDirectory) = {}
  BY DEF EntriesOf, EmptyDirectory
<1>6. ~NoSegment.valid /\ NoSegment.pos = 0
  BY DEF NoSegment
<1> HIDE DEF S
<1>7. Frame(S, f, hdr, NoSegment, NoSegment, sb, EmptyDirectory)
  BY <1>4, <1>5, <1>6
     DEF Frame, DirectoryRoom, Pair, SubBlkDirKept, AttachmentDirKept
<1> QED BY <1>2, <1>7 DEF S

LEMMA LayoutCreatedNew ==
  ASSUME TypeInv, LayoutInv, CreatedNew
  PROVE  LayoutInv'
<1> DEFINE S == {HeaderSpan}
<1>1. /\ op = "WriteHeader" /\ op' = "idle" /\ writes = <<>> /\ writes' = <<>>
      /\ phase' = "open" /\ lastSegmentPos' = 0
      /\ hdrSegmentData' = [NoHeader EXCEPT !.guid = item]
      /\ UNCHANGED <<file, nextSegmentPos, directories, segments, known, kept,
                     untouched, meta>>
  BY DEF CreatedNew, Done, ReturnToClient
<1>2. phase = "creating"
  BY <1>1 DEF TypeInv, OpInPhase, CreateOps
<1>3. /\ known' = {} /\ kept' = {} /\ untouched' = {}
      /\ ~metadataSegment'.valid /\ nextSegmentPos' = 0
      /\ subBlockDirectorySegment' = NoSegment
      /\ attachmentDirectorySegment' = NoSegment
      /\ attachmentDirectory' = EmptyDirectory /\ meta' = NoMeta
  BY <1>1, <1>2 DEF LayoutInv, Fresh, segments, directories
<1>4. Range(writes') = {} /\ Range(writes) = {}
  BY <1>1, NoElement
<1>5. FileHeader(0, 0, 0) \subseteq file
  <2>1. \A x \in FileHeader(0, 0, 0) : Lasting(file, {}, x)
    BY <1>1, <1>2, <1>4 DEF LayoutInv, Fresh
  <2> QED BY <2>1, LastingDone
<1>6. /\ hdrSegmentData'.subBlockDirectory = 0
      /\ hdrSegmentData'.metadata = 0
      /\ hdrSegmentData'.attachmentDirectory = 0
  BY <1>1 DEF NoHeader
<1>7. IsCziFile(file)
  BY DEF TypeInv, FileTyped
<1>8. PICK hdr, sb : hdr = hdrSegmentData' /\ sb = sbBlkDirectory'
  OBVIOUS
<1>9. /\ Ground(S, {}, file, Nobody, {}, 0, 0)
      /\ Frame(S, file, hdr, NoSegment, NoSegment, sb, EmptyDirectory)
  BY <1>5, <1>6, <1>7, <1>8, HeaderOnly
<1>10. Items(S, {}, file', Nobody, {}, {}, {}, sbBlkDirectory'.entries,
             attachmentDirectory'.entries)
  BY DEF Items, SubBlocksStay, AttachmentsStay, UntouchedStay
<1>11. MetadataStays(S, metadataSegment')
  BY <1>3 DEF MetadataStays
<1>12. Running(S)'
  BY <1>1 DEF Running
<1>13. Framed(S)'
  BY <1>1, <1>3, <1>8, <1>9 DEF Framed
<1>14. MetadataKept(S, Nobody)'
  BY <1>3, Owners, MetadataAssumption DEF MetadataKept, XmlStays
<1>15. Ground(S, {}, file', Nobody, Range(writes'), lastSegmentPos',
              nextSegmentPos')
  BY <1>1, <1>3, <1>4, <1>9
<1>16. Layout(S, {}, Nobody)'
  BY <1>3, <1>10, <1>11, <1>12, <1>13, <1>14, <1>15 DEF Layout
<1> QED BY <1>1, <1>16, LayoutHolds, Owners

\* While no document is open
LEMMA HeaderComes ==
  ASSUME NEW f, NEW g, NEW p, NEW r, NEW q,
         NEW ws, ws = WriteHeaderSegment(g, p, r, q)
  PROVE  /\ \A x \in FileHeader(p, r, q) : Lasting(f, Range(ws), x)
         /\ \A w \in Range(ws) : w.pos = 0 /\ w.len = FileHeaderSegmentSize
<1> DEFINE h == FileHeader(p, r, q) \cup {PrimaryFileGuid(g), FileGuid(g)}
           w == Write(0, FileHeaderSegmentSize, h)
<1>1. ws = <<w>> /\ w.holds = h /\ w.pos = 0 /\ w.len = FileHeaderSegmentSize
  BY DEF WriteHeaderSegment, Write
<1> HIDE DEF w, h
<1>2. Range(<<w>>) = {w}
  BY OneElement
<1>3. \A x \in FileHeader(p, r, q) : Lasting(f, {w}, x)
  BY <1>1 DEF Lasting, h
<1> QED BY <1>1, <1>2, <1>3

LEMMA LayoutElsewhere ==
  ASSUME TypeInv, LayoutInv,
         \/ CreateNew \/ OpenDocument \/ CreateThrows \/ Close
         \/ SubBlkDirFinished \/ AttachmentDirBegun \/ AttachmentDirFinished
         \/ Closed \/ Discard
  PROVE  LayoutInv'
<1>1. CASE CreateNew \/ OpenDocument
  <2>1. /\ phase = "none" /\ phase' = "creating"
        /\ UNCHANGED <<file, nextSegmentPos, directories, segments, known,
                       kept, untouched, meta>>
    BY <1>1 DEF CreateNew, OpenDocument, Create
  <2>2. op' = "WriteHeader" =>
          \A x \in FileHeader(0, 0, 0) : Lasting(file', Range(writes'), x)
    <3>1. CASE CreateNew
      <4>1. \E g : writes' = WriteHeaderSegment(g, 0, 0, 0)
        BY <3>1 DEF CreateNew, Begin
      <4> QED BY <4>1, HeaderComes, Zenon
    <3>2. CASE OpenDocument
      BY <3>2 DEF OpenDocument, Begin
    <3> QED BY <1>1, <3>1, <3>2
  <2>3. Fresh'
    BY <2>1, <2>2 DEF LayoutInv, Fresh, segments, directories
  <2> QED BY <2>1, <2>3, LayoutNotYet
<1>2. CASE CreateThrows
  <2>1. /\ phase = "creating" /\ phase' = "none" /\ op' = "idle"
        /\ UNCHANGED <<nextSegmentPos, directories, segments, known, kept,
                       untouched, meta>>
    BY <1>2 DEF CreateThrows, Done, TypeInv, OpInPhase, CreateOps,
                ReturnToClient
  <2>2. Fresh'
    BY <2>1 DEF LayoutInv, Fresh, segments, directories
  <2> QED BY <2>1, <2>2, LayoutNotYet
<1>3. CASE Close \/ SubBlkDirFinished \/ AttachmentDirBegun
           \/ AttachmentDirFinished \/ Closed
  <2>1. phase' \in {"closing", "closed"}
    BY <1>3 DEF Close, SubBlkDirFinished, AttachmentDirBegun, Closed, client,
                AttachmentDirFinished, Done, TypeInv, OpInPhase, CloseOps
  <2>2. Fresh'
    BY <2>1 DEF Fresh
  <2> QED BY <2>1, <2>2, LayoutNotYet
<1>4. CASE Discard
  <2>1. /\ phase' = "none" /\ nextSegmentPos' = 0 /\ op' = "idle"
        /\ metadataSegment' = NoSegment
        /\ subBlockDirectorySegment' = NoSegment
        /\ attachmentDirectorySegment' = NoSegment
        /\ attachmentDirectory' = EmptyDirectory
        /\ known' = {} /\ kept' = {} /\ untouched' = {} /\ meta' = NoMeta
    BY <1>4 DEF Discard, NewObject
  <2>2. Fresh'
    BY <2>1 DEF Fresh, NoSegment
  <2> QED BY <2>1, <2>2, LayoutNotYet
<1> QED BY <1>1, <1>2, <1>3, <1>4

-----------------------------------------------------------------------------
(* A document that is opened: the spans of the segments that are found.    *)

\* A span begins where the document names a position, and no other one named is
\* within it.  Its segment, if its size can be read, is at least as large; that
\* of an item is no larger either.
IsSpan(f, s) ==
  /\ s.lo \in Nat /\ s.hi \in Nat /\ s.lo < s.hi
  /\ s.lo \in NamedPositions(f)
  /\ \A y \in NamedPositions(f) : y \in Nat /\ (y <= s.lo \/ s.hi <= y)
  /\ \A end \in Room(f, s.lo) : s.hi <= end
  /\ IsItem(s.owner) =>
       /\ s.lo + SegmentHeaderSize <= s.hi
       /\ \A end \in Room(f, s.lo) : end <= s.hi

\* One span for each segment, which opens with one of these magics
Apart(f, S, ids) ==
  /\ \A s \in S : IsSpan(f, s) /\ \E id \in ids : HasMagic(f, s.lo, id)
  /\ \A s, t \in S : s.lo = t.lo => s = t

LEMMA ApartUnion ==
  ASSUME NEW f, IsCziFile(f), NEW S, NEW T, NEW ids, NEW jds,
         Apart(f, S, ids), Apart(f, T, jds), ids \cap jds = {}
  PROVE  Apart(f, S \cup T, ids \cup jds)
<1>1. ASSUME NEW s \in S, NEW t \in T PROVE s.lo # t.lo
  <2>1. PICK id \in ids : HasMagic(f, s.lo, id)
    BY DEF Apart
  <2>2. PICK jd \in jds : HasMagic(f, t.lo, jd)
    BY DEF Apart
  <2> QED BY <2>1, <2>2, OneMagic
<1> QED BY <1>1 DEF Apart

LEMMA ApartOne ==
  ASSUME NEW f, NEW s, IsSpan(f, s), NEW id, HasMagic(f, s.lo, id)
  PROVE  Apart(f, {s}, {id})
BY DEF Apart

LEMMA ApartNone ==
  ASSUME NEW f, NEW id
  PROVE  Apart(f, {}, {id})
BY DEF Apart

LEMMA ApartArranged ==
  ASSUME NEW f, NEW S, NEW ids, Apart(f, S, ids)
  PROVE  Arranged(S)
<1>1. ASSUME NEW s \in S, NEW t \in S
      PROVE  s = t \/ s.hi <= t.lo \/ t.hi <= s.lo
  <2>1. /\ s.lo \in Nat /\ s.hi \in Nat /\ t.lo \in Nat /\ t.hi \in Nat
        /\ t.lo <= s.lo \/ s.hi <= t.lo
        /\ s.lo <= t.lo \/ t.hi <= s.lo
    BY DEF Apart, IsSpan
  <2>2. s.lo = t.lo => s = t
    BY DEF Apart
  <2> QED BY <2>1, <2>2
<1> QED BY <1>1 DEF Apart, IsSpan, Arranged

LEMMA ApartGround ==
  ASSUME NEW f, IsCziFile(f), NEW S, NEW ids, Apart(f, S, ids),
         NEW last \in NamedPositions(f), last \in Nat,
         \A s \in S : s.lo <= last,
         NEW H, H \subseteq f, Inside(S, Document, H)
  PROVE  Ground(S, H, f, Nobody, {}, last, 0)
<1>1. Arranged(S)
  BY ApartArranged
<1>2. ASSUME NEW x \in f, x.what[1] = "allocated"
      PROVE  /\ \A s \in S : IsItem(s.owner) /\ x.lo = s.lo + 16 =>
                  s.lo + SegmentHeaderSize + x.what[2] <= s.hi
             /\ x.lo = last + 16 =>
                  \A s \in S : s.hi <= last + SegmentHeaderSize + x.what[2]
  <2>1. WellFormed(x) /\ x.what[2] \in Nat
    BY <1>2 DEF IsCziFile, WellFormed
  <2>2. \A pos : x.lo = pos + 16 =>
                   pos + SegmentHeaderSize + x.what[2] \in Room(f, pos)
    BY <1>2 DEF Room, AllocatedSize
  <2>3. \A s \in S : IsItem(s.owner) /\ x.lo = s.lo + 16 =>
                       s.lo + SegmentHeaderSize + x.what[2] <= s.hi
    BY <2>2 DEF Apart, IsSpan
  <2>4. ASSUME x.lo = last + 16, NEW s \in S
        PROVE  s.hi <= last + SegmentHeaderSize + x.what[2]
    <3>1. /\ s.lo \in Nat /\ s.hi \in Nat /\ s.lo <= last
          /\ last <= s.lo \/ s.hi <= last
      BY DEF Apart, IsSpan
    <3>2. CASE s.hi <= last
      BY <2>1, <3>1, <3>2 DEF SegmentHeaderSize
    <3>3. CASE last <= s.lo
      <4>1. s.lo = last
        BY <3>1, <3>3
      <4> QED BY <2>2, <2>4, <4>1 DEF Apart, IsSpan
    <3> QED BY <3>1, <3>2, <3>3
  <2> QED BY <2>3, <2>4
<1>3. \A x \in f : SizeFits(S, last, 0, x)
  BY <1>2 DEF SizeFits
<1> QED BY <1>1, <1>3 DEF Ground

\* From its first byte to where its parts, or `ends`, end
SegmentSpan(o, pos, parts, ends) ==
  LET all == {x.hi : x \in parts} \cup ends
  IN  [owner |-> o, lo |-> pos,
       hi |-> CHOOSE m \in all : \A n \in all : n <= m]

LEMMA RoomFinite ==
  ASSUME NEW f, IsCziFile(f), NEW pos \in Nat
  PROVE  /\ IsFiniteSet(Room(f, pos)) /\ Room(f, pos) \subseteq Nat
         /\ \A m, n \in Room(f, pos) : m = n
<1>1. \A a, b \in AllocatedSize(f, pos) : a = b /\ a \in Nat
  <2>1. \A a, b \in AllocatedSize(f, pos) : a = b
    BY DEF AllocatedSize, IsCziFile
  <2> QED BY <2>1, AllocatedTyped
<1>2. Room(f, pos) \subseteq Nat /\ \A m, n \in Room(f, pos) : m = n
  BY <1>1 DEF Room, SegmentHeaderSize
<1>3. CASE Room(f, pos) = {}
  BY <1>2, <1>3, FS_EmptySet
<1>4. CASE Room(f, pos) # {}
  <2>1. PICK m : m \in Room(f, pos)
    BY <1>4
  <2>2. Room(f, pos) = {m}
    BY <1>2, <2>1
  <2> QED BY <1>2, <2>2, FS_Singleton
<1> QED BY <1>3, <1>4

LEMMA SpanThere ==
  ASSUME NEW f, IsCziFile(f), NamedPositions(f) \subseteq Nat,
         NEW pos \in NamedPositions(f),
         NEW parts, IsFiniteSet(parts), parts # {},
         \A x \in parts : x.lo \in Nat /\ x.hi \in Nat /\ pos <= x.lo
                          /\ x.lo < x.hi,
         NEW ends, ends \subseteq Room(f, pos), LaidOutAt(f, pos, parts, ends),
         NEW o,
         IsItem(o) => /\ ends = Room(f, pos)
                      /\ \E x \in parts : pos + SegmentHeaderSize <= x.hi,
         NEW s, s = SegmentSpan(o, pos, parts, ends)
  PROVE  /\ IsSpan(f, s) /\ s.owner = o /\ s.lo = pos
         /\ \A x \in parts : s.lo <= x.lo /\ x.hi <= s.hi
         /\ \A end \in ends : end <= s.hi
<1> DEFINE his == {x.hi : x \in parts}
           all == his \cup ends
<1>1. pos \in Nat
  OBVIOUS
<1>2. IsFiniteSet(all) /\ all \subseteq Nat /\ all # {}
  <2>1. IsFiniteSet(his)
    <3> DEFINE g == [x \in parts |-> x.hi]
    <3>1. g \in Surjection(parts, his)
      BY DEF Surjection
    <3> HIDE DEF g, his
    <3> QED BY <3>1, FS_Surjection
  <2>2. IsFiniteSet(ends) /\ ends \subseteq Nat
    BY <1>1, RoomFinite, FS_Subset
  <2> HIDE DEF his
  <2>3. IsFiniteSet(all)
    BY <2>1, <2>2, FS_Union
  <2> QED BY <2>2, <2>3 DEF his
<1>3. /\ s.owner = o /\ s.lo = pos
      /\ s.hi = CHOOSE m \in all : \A n \in all : n <= m
  BY DEF SegmentSpan
<1> HIDE DEF all
<1>4. s.hi \in all /\ \A n \in all : n <= s.hi
  BY <1>2, <1>3, Greatest
<1>5. /\ \A x \in parts : x.hi <= s.hi /\ s.lo <= x.lo
      /\ \A end \in ends : end <= s.hi
  BY <1>3, <1>4 DEF all
<1>6. s.lo < s.hi /\ s.hi \in Nat
  <2>1. PICK x \in parts : TRUE
    OBVIOUS
  <2>2. /\ x.hi <= s.hi /\ pos <= x.lo /\ x.lo < x.hi /\ x.lo \in Nat
        /\ x.hi \in Nat /\ s.hi \in Nat
    BY <1>2, <1>4, <1>5
  <2> QED BY <1>1, <1>3, <2>2
<1>7. \A y \in NamedPositions(f) : y <= pos \/ s.hi <= y
  BY <1>4 DEF all, LaidOutAt
<1>8. \A end \in Room(f, pos) : s.hi <= end
  <2> SUFFICES ASSUME NEW end \in Room(f, pos) PROVE s.hi <= end
    OBVIOUS
  <2>1. \A x \in parts : x.hi <= end
    BY DEF LaidOutAt
  <2>2. \A m \in ends : m = end
    BY <1>1, RoomFinite
  <2>3. end \in Nat
    BY <1>1, RoomFinite
  <2> QED BY <1>4, <1>6, <2>1, <2>2, <2>3 DEF all
<1>9. IsItem(o) => pos + SegmentHeaderSize <= s.hi
  <2> SUFFICES ASSUME IsItem(o) PROVE pos + SegmentHeaderSize <= s.hi
    OBVIOUS
  <2>1. PICK x \in parts : pos + SegmentHeaderSize <= x.hi
    OBVIOUS
  <2> QED BY <1>1, <1>5, <1>6, <2>1 DEF SegmentHeaderSize
<1> QED BY <1>1, <1>3, <1>5, <1>6, <1>7, <1>8, <1>9 DEF IsSpan

\* The segments that are found
SubBlockSpan(f, k, e) ==
  SegmentSpan(SubBlock(k), e.pos, SubBlockExtents(e.pos, e.id), Room(f, e.pos))

AttachmentSpan(f, k, e) ==
  SegmentSpan(Attachment(k), e.pos, AttachmentExtents(e.pos, e.id),
              Room(f, e.pos))

\* What is found in the segment of the metadata
MetadataParts(f, r) ==
  {Magic(r, "ZISRAWMETADATA")}
    \cup UNION {MetadataExtents(r, m) :
                  m \in {n \in Metadatas : MetadataAt(f, r, n)}}

MetadataSpan(f, r) ==
  SegmentSpan(TheMetadata, r, MetadataParts(f, r), Room(f, r))


\* The room of the sub-block directory, unless the other directory lies over its
\* end
FreeRoom(f, p) == {end \in Room(f, p) : LaidOutAt(f, p, {}, Room(f, p))}

SubBlkDirSpan(f, p, dir) ==
  SegmentSpan(Document, p, SubBlkDirExtents(p, dir), FreeRoom(f, p))

AttachmentDirParts(f, q) == {Magic(q, "ZISRAWATTDIR")} \cup Slots(f, q)

AttachmentDirSpan(f, q) ==
  SegmentSpan(Document, q, AttachmentDirParts(f, q), Room(f, q))

LEMMA EntriesRead ==
  ASSUME NEW f, IsCziFile(f)
  PROVE  /\ SubBlkDirRead(f) \subseteq SubBlockEntries
         /\ AttachmentDirRead(f) \subseteq AttachmentEntries
<1>1. ASSUME NEW e \in SubBlkDirRead(f) PROVE e \in SubBlockEntries
  <2>1. \E p : \E dir \in SubBlkDirAt(f, p) : \E k \in DOMAIN dir : e = dir[k]
    BY DEF SubBlkDirRead
  <2>2. PICK p, dir : /\ dir \in SubBlkDirAt(f, p)
                      /\ \E k \in DOMAIN dir : e = dir[k]
    BY <2>1
  <2>3. dir \in Seq(SubBlockEntries)
    BY <2>2, SubBlkDirTyped
  <2> QED BY <2>2, <2>3
<1>2. ASSUME NEW e \in AttachmentDirRead(f) PROVE e \in AttachmentEntries
  <2>1. PICK x \in f : x.what[1] = "entryA1" /\ e = x.what[2]
    BY DEF AttachmentDirRead, AttachmentDirSlots
  <2> QED BY <2>1 DEF IsCziFile, WellFormed, AttachmentEntries
<1> QED BY <1>1, <1>2

LEMMA NamedTyped ==
  ASSUME NEW f, IsCziFile(f)
  PROVE  /\ NamedPositions(f) \subseteq Nat
         /\ \A y \in NamedPositions(f) : y = 0 \/ y >= FileHeaderSegmentSize
<1> SUFFICES ASSUME NEW y \in NamedPositions(f)
             PROVE  y \in BehindHeader \cup {0}
  BY DEF BehindHeader
<1>1. CASE y \in HeaderField(f, "SubBlockDirectoryPosition")
                   \cup HeaderField(f, "AttachmentDirectoryPosition")
                   \cup HeaderField(f, "MetadataPosition") \cup {0}
  BY <1>1, HeaderFieldsTyped DEF PositionsOrNone
<1>2. CASE \E e \in SubBlkDirRead(f) \cup AttachmentDirRead(f) : y = e.pos
  BY <1>2, EntriesRead DEF SubBlockEntries, AttachmentEntries
<1> QED BY <1>1, <1>2 DEF NamedPositions

LEMMA HeaderSpanThere ==
  ASSUME NEW f, IsCziFile(f)
  PROVE  /\ IsSpan(f, HeaderSpan) /\ HeaderSpan.owner = Document
         /\ HeaderSpan.lo = 0 /\ HeaderSpan.hi = FileHeaderSegmentSize
<1> DEFINE s == HeaderSpan
<1>1. s.owner = Document /\ s.lo = 0 /\ s.hi = 544
  BY DEF HeaderSpan, FileHeaderSegmentSize
<1>2. 0 \in NamedPositions(f)
  BY DEF NamedPositions
<1>3. \A y \in NamedPositions(f) : y \in Nat /\ (y <= 0 \/ 544 <= y)
  BY NamedTyped DEF FileHeaderSegmentSize
<1>4. ASSUME NEW end \in Room(f, 0) PROVE 544 <= end
  <2>1. PICK a \in AllocatedSize(f, 0) : end = 0 + 32 + a
    BY DEF Room, SegmentHeaderSize
  <2>2. 0 \in PositionsOrNone
    BY DEF PositionsOrNone
  <2>3. 0 + SegmentHeaderSize + a \in BehindHeader
    BY <2>1, <2>2, AllocatedTyped
  <2> QED BY <2>1, <2>3 DEF BehindHeader, FileHeaderSegmentSize,
                            SegmentHeaderSize
<1> HIDE DEF s
<1>5. IsSpan(f, s)
  BY <1>1, <1>2, <1>3, <1>4, Owners DEF IsSpan
<1> QED BY <1>1, <1>5 DEF s, FileHeaderSegmentSize

LEMMA SubBlockSpanThere ==
  ASSUME NEW f, IsCziFile(f), LaidOut(f), NEW e \in SubBlkDirRead(f),
         SubBlockAt(f, e.pos, e.id), NEW k, NEW s, s = SubBlockSpan(f, k, e)
  PROVE  /\ IsSpan(f, s) /\ s.owner = SubBlock(k) /\ s.lo = e.pos
         /\ HasMagic(f, e.pos, "ZISRAWSUBBLOCK")
         /\ \A x \in SubBlockExtents(e.pos, e.id) : s.lo <= x.lo /\ x.hi <= s.hi
<1> DEFINE pos == e.pos
           parts == SubBlockExtents(e.pos, e.id)
           ends == Room(f, e.pos)
           m == Magic(pos, "ZISRAWSUBBLOCK")
           h == SubBlockHead(pos, e.id)
           d == SubBlockPayload(pos, e.id)
           r == SubBlockRest(pos, e.id)
<1>1. pos \in Nat /\ e.id \in SubBlocks /\ pos \in NamedPositions(f)
  BY EntriesRead DEF SubBlockEntries, BehindHeader, NamedPositions
<1>2. /\ SubBlockHeadSize \in Nat /\ SubBlockHeadSize >= 288
      /\ PayloadBytes(e.id) \in Nat
  BY <1>1, HeadSizes, PayloadProperties
<1>3. /\ m.lo = pos /\ m.hi = pos + 16
      /\ h.lo = pos + 32 /\ h.hi = pos + SubBlockHeadSize
      /\ d.lo = pos + SubBlockHeadSize
      /\ r.lo = pos + SubBlockHeadSize + PayloadBytes(e.id)
  BY <1>1, <1>2 DEF Magic, SubBlockHead, SubBlockPayload, SubBlockRest, Extent,
                    SegmentHeaderSize
<1>4. parts = NotEmpty({m, h, d, r}) /\ parts \subseteq f
  BY DEF SubBlockExtents, SubBlockAt
<1>5. LaidOutAt(f, pos, parts, ends)
  BY DEF LaidOut
<1> HIDE DEF pos, parts, m, h, d, r
<1>6. m \in parts /\ h \in parts
  BY <1>1, <1>2, <1>3, <1>4 DEF NotEmpty
<1>7. IsFiniteSet(parts)
  BY <1>4, FS_Subset DEF IsCziFile
<1>8. \A x \in parts : x.lo \in Nat /\ x.hi \in Nat /\ pos <= x.lo /\ x.lo < x.hi
  <2> SUFFICES ASSUME NEW x \in parts
               PROVE  x.lo \in Nat /\ x.hi \in Nat /\ pos <= x.lo /\ x.lo < x.hi
    OBVIOUS
  <2>1. x \in f /\ WellFormed(x) /\ x \in {m, h, d, r}
    BY <1>4 DEF IsCziFile, NotEmpty
  <2>2. pos <= x.lo
    BY <1>1, <1>2, <1>3, <2>1
  <2> QED BY <2>1, <2>2, WellFormedBounds
<1>9. pos + SegmentHeaderSize <= h.hi
  BY <1>1, <1>2, <1>3 DEF SegmentHeaderSize
<1>10. s = SegmentSpan(SubBlock(k), pos, parts, ends)
  BY DEF SubBlockSpan, pos, parts
<1> HIDE DEF ends
<1>11. ends = Room(f, pos)
  BY DEF ends, pos
<1>12. NamedPositions(f) \subseteq Nat
  BY NamedTyped
<1>13. /\ IsSpan(f, s) /\ s.owner = SubBlock(k) /\ s.lo = pos
       /\ \A x \in parts : s.lo <= x.lo /\ x.hi <= s.hi
  BY <1>1, <1>5, <1>6, <1>7, <1>8, <1>9, <1>10, <1>11, <1>12, SpanThere
<1>14. HasMagic(f, pos, "ZISRAWSUBBLOCK")
  BY <1>4, <1>6 DEF HasMagic, m
<1> QED BY <1>13, <1>14 DEF pos, parts

LEMMA AttachmentSpanThere ==
  ASSUME NEW f, IsCziFile(f), LaidOut(f), NEW e \in AttachmentDirRead(f),
         AttachmentAt(f, e.pos, e.id), NEW k, NEW s, s = AttachmentSpan(f, k, e)
  PROVE  /\ IsSpan(f, s) /\ s.owner = Attachment(k) /\ s.lo = e.pos
         /\ HasMagic(f, e.pos, "ZISRAWATTACH")
         /\ \A x \in AttachmentExtents(e.pos, e.id) :
              s.lo <= x.lo /\ x.hi <= s.hi
<1> DEFINE pos == e.pos
           parts == AttachmentExtents(e.pos, e.id)
           ends == Room(f, e.pos)
           m == Magic(pos, "ZISRAWATTACH")
           h == AttachmentHead(pos, e.id)
           d == AttachmentPayload(pos, e.id)
<1>1. pos \in Nat /\ e.id \in Attachments /\ pos \in NamedPositions(f)
  BY EntriesRead DEF AttachmentEntries, BehindHeader, NamedPositions
<1>2. /\ m.lo = pos /\ m.hi = pos + 16
      /\ h.lo = pos + 32 /\ h.hi = pos + 288
      /\ d.lo = pos + 288
  BY <1>1 DEF Magic, AttachmentHead, AttachmentPayload, Extent,
              SegmentHeaderSize, FixedHeaderSize
<1>3. parts = NotEmpty({m, h, d}) /\ parts \subseteq f
  BY DEF AttachmentExtents, AttachmentAt
<1>4. LaidOutAt(f, pos, parts, ends)
  BY DEF LaidOut
<1> HIDE DEF pos, parts, m, h, d
<1>5. m \in parts /\ h \in parts
  BY <1>1, <1>2, <1>3 DEF NotEmpty
<1>6. IsFiniteSet(parts)
  BY <1>3, FS_Subset DEF IsCziFile
<1>7. \A x \in parts : x.lo \in Nat /\ x.hi \in Nat /\ pos <= x.lo /\ x.lo < x.hi
  <2> SUFFICES ASSUME NEW x \in parts
               PROVE  x.lo \in Nat /\ x.hi \in Nat /\ pos <= x.lo /\ x.lo < x.hi
    OBVIOUS
  <2>1. x \in f /\ WellFormed(x) /\ x \in {m, h, d}
    BY <1>3 DEF IsCziFile, NotEmpty
  <2>2. pos <= x.lo
    BY <1>1, <1>2, <2>1
  <2> QED BY <2>1, <2>2, WellFormedBounds
<1>8. pos + SegmentHeaderSize <= h.hi
  BY <1>1, <1>2 DEF SegmentHeaderSize
<1>9. s = SegmentSpan(Attachment(k), pos, parts, ends)
  BY DEF AttachmentSpan, pos, parts
<1> HIDE DEF ends
<1>10. ends = Room(f, pos)
  BY DEF ends, pos
<1>11. NamedPositions(f) \subseteq Nat
  BY NamedTyped
<1>12. /\ IsSpan(f, s) /\ s.owner = Attachment(k) /\ s.lo = pos
       /\ \A x \in parts : s.lo <= x.lo /\ x.hi <= s.hi
  BY <1>1, <1>4, <1>5, <1>6, <1>7, <1>8, <1>9, <1>10, <1>11, SpanThere
<1>13. HasMagic(f, pos, "ZISRAWATTACH")
  BY <1>3, <1>5 DEF HasMagic, m
<1> QED BY <1>12, <1>13 DEF pos, parts

LEMMA SubBlkDirSpanThere ==
  ASSUME NEW f, IsCziFile(f), LaidOut(f),
         NEW p \in HeaderField(f, "SubBlockDirectoryPosition"),
         NEW dir \in SubBlkDirAt(f, p), NEW s, s = SubBlkDirSpan(f, p, dir)
  PROVE  /\ IsSpan(f, s) /\ s.owner = Document /\ s.lo = p /\ p + 32 <= s.hi
         /\ \A x \in SubBlkDirExtents(p, dir) : s.lo <= x.lo /\ x.hi <= s.hi
         /\ LaidOutAt(f, p, SubBlkDirExtents(p, dir), {})
         /\ \A end \in FreeRoom(f, p) : end <= s.hi
<1> DEFINE parts == SubBlkDirExtents(p, dir)
           ends == FreeRoom(f, p)
           c == SubBlkDirCount(p, Len(dir))
           b == SubBlkDirEntries(p, dir)
<1>1. NamedPositions(f) \subseteq Nat /\ p \in NamedPositions(f) /\ p \in Nat
  BY NamedTyped DEF NamedPositions
<1>2. Len(dir) \in Nat /\ EntryDVSize \in Nat /\ Len(dir) * EntryDVSize \in Nat
  <2>1. Len(dir) \in Nat /\ EntryDVSize \in Nat
    BY SubBlkDirTyped, HeadSizes
  <2> QED BY <2>1
<1>3. /\ c.lo = p + 32 /\ c.hi = p + 36
      /\ b.lo = p + 160 /\ b.hi \in Nat
  BY <1>1, <1>2 DEF SubBlkDirCount, SubBlkDirEntries, Extent,
                    SegmentHeaderSize, SubBlkDirHeaderSize
<1>4. parts = NotEmpty({c, b})
  BY DEF SubBlkDirExtents
<1>5. LaidOutAt(f, p, parts, {})
  BY DEF LaidOut
<1>6. s = SegmentSpan(Document, p, parts, ends)
  BY DEF SubBlkDirSpan
<1>7. ends \subseteq Room(f, p) /\ LaidOutAt(f, p, parts, ends)
  <2>1. \A end \in ends : end \in Room(f, p) /\ LaidOutAt(f, p, {}, Room(f, p))
    BY DEF FreeRoom
  <2> HIDE DEF ends, parts
  <2>2. ASSUME NEW y \in NamedPositions(f), NEW end \in ends
        PROVE  y <= p \/ end <= y
    BY <2>1 DEF LaidOutAt
  <2> QED BY <1>5, <2>1, <2>2 DEF LaidOutAt
<1> HIDE DEF parts, c, b, ends
<1>8. c \in parts
  BY <1>1, <1>3, <1>4 DEF NotEmpty
<1>9. IsFiniteSet(parts)
  <2>1. IsFiniteSet({c, b, b, b}) /\ parts \subseteq {c, b, b, b}
    BY <1>4, FourParts DEF NotEmpty
  <2> QED BY <2>1, FS_Subset
<1>10. \A x \in parts : x.lo \in Nat /\ x.hi \in Nat /\ p <= x.lo /\ x.lo < x.hi
  BY <1>1, <1>3, <1>4 DEF NotEmpty
<1>11. ~IsItem(Document)
  BY Owners
<1>12. /\ IsSpan(f, s) /\ s.owner = Document /\ s.lo = p
       /\ \A x \in parts : s.lo <= x.lo /\ x.hi <= s.hi
       /\ \A end \in ends : end <= s.hi
  BY <1>1, <1>6, <1>7, <1>8, <1>9, <1>10, <1>11, SpanThere
<1>13. p + 32 <= s.hi
  BY <1>1, <1>3, <1>8, <1>12 DEF IsSpan
<1> QED BY <1>5, <1>12, <1>13 DEF parts, ends

SubBlockSpans(f, dir, F) == {SubBlockSpan(f, k, dir[k + 1]) : k \in F}
AttachmentSpans(f, dir, F) == {AttachmentSpan(f, k, dir[k + 1]) : k \in F}

LEMMA SubBlocksApart ==
  ASSUME NEW f, IsCziFile(f), LaidOut(f), NEW dir, NEW F,
         \A k \in F : /\ dir[k + 1] \in SubBlkDirRead(f)
                      /\ SubBlockAt(f, dir[k + 1].pos, dir[k + 1].id)
                      /\ \A j \in F : dir[j + 1].pos = dir[k + 1].pos => j = k,
         NEW S, S = SubBlockSpans(f, dir, F)
  PROVE  /\ Apart(f, S, {"ZISRAWSUBBLOCK"})
         /\ \A s \in S : \E k \in F : s.lo = dir[k + 1].pos
         /\ \A k \in F :
              /\ HasSpan(S, SubBlock(k), dir[k + 1].pos)
              /\ Inside(S, SubBlock(k),
                        SubBlockExtents(dir[k + 1].pos, dir[k + 1].id))
<1>1. ASSUME NEW k \in F, NEW s, s = SubBlockSpan(f, k, dir[k + 1])
      PROVE  /\ IsSpan(f, s) /\ s.owner = SubBlock(k) /\ s.lo = dir[k + 1].pos
             /\ HasMagic(f, s.lo, "ZISRAWSUBBLOCK")
             /\ \A x \in SubBlockExtents(dir[k + 1].pos, dir[k + 1].id) :
                  s.lo <= x.lo /\ x.hi <= s.hi
  <2>1. PICK e : e = dir[k + 1]
    OBVIOUS
  <2>2. e \in SubBlkDirRead(f) /\ SubBlockAt(f, e.pos, e.id)
    BY <2>1
  <2>3. s = SubBlockSpan(f, k, e)
    BY <1>1, <2>1
  <2>4. /\ IsSpan(f, s) /\ s.owner = SubBlock(k) /\ s.lo = e.pos
        /\ HasMagic(f, e.pos, "ZISRAWSUBBLOCK")
        /\ \A x \in SubBlockExtents(e.pos, e.id) : s.lo <= x.lo /\ x.hi <= s.hi
    BY <2>2, <2>3, SubBlockSpanThere
  <2> QED BY <2>1, <2>4
<1>2. ASSUME NEW s \in S
      PROVE  \E k \in F : s = SubBlockSpan(f, k, dir[k + 1])
  BY DEF SubBlockSpans
<1>3. ASSUME NEW k \in F PROVE \E s \in S : s = SubBlockSpan(f, k, dir[k + 1])
  BY DEF SubBlockSpans
<1>4. \A s \in S : IsSpan(f, s) /\ HasMagic(f, s.lo, "ZISRAWSUBBLOCK")
                   /\ \E k \in F : s.lo = dir[k + 1].pos
  BY <1>1, <1>2, Zenon
<1>5. ASSUME NEW s \in S, NEW t \in S, s.lo = t.lo PROVE s = t
  <2>1. PICK j \in F : s = SubBlockSpan(f, j, dir[j + 1])
    BY <1>2
  <2>2. PICK k \in F : t = SubBlockSpan(f, k, dir[k + 1])
    BY <1>2
  <2>3. dir[j + 1].pos = dir[k + 1].pos
    BY <1>1, <1>5, <2>1, <2>2, Zenon
  <2>4. j = k
    BY <2>3, Zenon
  <2> QED BY <2>1, <2>2, <2>4
<1>6. Apart(f, S, {"ZISRAWSUBBLOCK"})
  BY <1>4, <1>5 DEF Apart
<1>7. ASSUME NEW k \in F
      PROVE  /\ HasSpan(S, SubBlock(k), dir[k + 1].pos)
             /\ Inside(S, SubBlock(k),
                       SubBlockExtents(dir[k + 1].pos, dir[k + 1].id))
  <2>1. PICK s \in S : s = SubBlockSpan(f, k, dir[k + 1])
    BY <1>3
  <2>2. /\ s.owner = SubBlock(k) /\ s.lo = dir[k + 1].pos
        /\ \A x \in SubBlockExtents(dir[k + 1].pos, dir[k + 1].id) :
             s.lo <= x.lo /\ x.hi <= s.hi
    BY <1>1, <2>1, Zenon
  <2> QED BY <2>2, Zenon DEF HasSpan, Inside
<1> QED BY <1>4, <1>6, <1>7

LEMMA AttachmentsApart ==
  ASSUME NEW f, IsCziFile(f), LaidOut(f), NEW dir, NEW F,
         \A k \in F : /\ dir[k + 1] \in AttachmentDirRead(f)
                      /\ AttachmentAt(f, dir[k + 1].pos, dir[k + 1].id)
                      /\ \A j \in F : dir[j + 1].pos = dir[k + 1].pos => j = k,
         NEW S, S = AttachmentSpans(f, dir, F)
  PROVE  /\ Apart(f, S, {"ZISRAWATTACH"})
         /\ \A s \in S : \E k \in F : s.lo = dir[k + 1].pos
         /\ \A k \in F :
              /\ HasSpan(S, Attachment(k), dir[k + 1].pos)
              /\ Inside(S, Attachment(k),
                        AttachmentExtents(dir[k + 1].pos, dir[k + 1].id))
<1>1. ASSUME NEW k \in F, NEW s, s = AttachmentSpan(f, k, dir[k + 1])
      PROVE  /\ IsSpan(f, s) /\ s.owner = Attachment(k)
             /\ s.lo = dir[k + 1].pos
             /\ HasMagic(f, s.lo, "ZISRAWATTACH")
             /\ \A x \in AttachmentExtents(dir[k + 1].pos, dir[k + 1].id) :
                  s.lo <= x.lo /\ x.hi <= s.hi
  <2>1. PICK e : e = dir[k + 1]
    OBVIOUS
  <2>2. e \in AttachmentDirRead(f) /\ AttachmentAt(f, e.pos, e.id)
    BY <2>1
  <2>3. s = AttachmentSpan(f, k, e)
    BY <1>1, <2>1
  <2>4. /\ IsSpan(f, s) /\ s.owner = Attachment(k) /\ s.lo = e.pos
        /\ HasMagic(f, e.pos, "ZISRAWATTACH")
        /\ \A x \in AttachmentExtents(e.pos, e.id) :
             s.lo <= x.lo /\ x.hi <= s.hi
    BY <2>2, <2>3, AttachmentSpanThere
  <2> QED BY <2>1, <2>4
<1>2. ASSUME NEW s \in S
      PROVE  \E k \in F : s = AttachmentSpan(f, k, dir[k + 1])
  BY DEF AttachmentSpans
<1>3. ASSUME NEW k \in F
      PROVE  \E s \in S : s = AttachmentSpan(f, k, dir[k + 1])
  BY DEF AttachmentSpans
<1>4. \A s \in S : IsSpan(f, s) /\ HasMagic(f, s.lo, "ZISRAWATTACH")
                   /\ \E k \in F : s.lo = dir[k + 1].pos
  BY <1>1, <1>2, Zenon
<1>5. ASSUME NEW s \in S, NEW t \in S, s.lo = t.lo PROVE s = t
  <2>1. PICK j \in F : s = AttachmentSpan(f, j, dir[j + 1])
    BY <1>2
  <2>2. PICK k \in F : t = AttachmentSpan(f, k, dir[k + 1])
    BY <1>2
  <2>3. dir[j + 1].pos = dir[k + 1].pos
    BY <1>1, <1>5, <2>1, <2>2, Zenon
  <2>4. j = k
    BY <2>3, Zenon
  <2> QED BY <2>1, <2>2, <2>4
<1>6. Apart(f, S, {"ZISRAWATTACH"})
  BY <1>4, <1>5 DEF Apart
<1>7. ASSUME NEW k \in F
      PROVE  /\ HasSpan(S, Attachment(k), dir[k + 1].pos)
             /\ Inside(S, Attachment(k),
                       AttachmentExtents(dir[k + 1].pos, dir[k + 1].id))
  <2>1. PICK s \in S : s = AttachmentSpan(f, k, dir[k + 1])
    BY <1>3
  <2>2. /\ s.owner = Attachment(k) /\ s.lo = dir[k + 1].pos
        /\ \A x \in AttachmentExtents(dir[k + 1].pos, dir[k + 1].id) :
             s.lo <= x.lo /\ x.hi <= s.hi
    BY <1>1, <2>1, Zenon
  <2> QED BY <2>2, Zenon DEF HasSpan, Inside
<1> QED BY <1>4, <1>6, <1>7

\* The segment of the metadata, and the attachment directory, if there is one
MetadataSpans(f, r, N) == IF N = {} THEN {} ELSE {MetadataSpan(f, r)}

LEMMA MetadataApart ==
  ASSUME NEW f, IsCziFile(f), LaidOut(f),
         NEW r \in HeaderField(f, "MetadataPosition"),
         NEW N, N \subseteq {r}, \A n \in N : HasMagic(f, n, "ZISRAWMETADATA"),
         NEW S, S = MetadataSpans(f, r, N)
  PROVE  /\ Apart(f, S, {"ZISRAWMETADATA"})
         /\ \A s \in S : s.lo = r /\ s.owner # Document
         /\ \A n \in N : \E s \in S :
              /\ s.owner = TheMetadata /\ s.lo = n
              /\ \A end \in Room(f, n) : end <= s.hi
              /\ \A x \in MetadataParts(f, n) : s.lo <= x.lo /\ x.hi <= s.hi
<1>1. CASE N = {}
  BY <1>1, ApartNone DEF MetadataSpans
<1>2. CASE N # {}
  <2>1. PICK s, parts, ends : /\ s = MetadataSpan(f, r)
                              /\ parts = MetadataParts(f, r)
                              /\ ends = Room(f, r)
    OBVIOUS
  <2>2. HasMagic(f, r, "ZISRAWMETADATA") /\ S = {s} /\ N = {r}
    BY <1>2, <2>1 DEF MetadataSpans
  <2>3. parts \subseteq f /\ Magic(r, "ZISRAWMETADATA") \in parts
    BY <2>1, <2>2 DEF MetadataParts, HasMagic, MetadataAt
  <2>4. LaidOutAt(f, r, parts, ends)
    <3>1. /\ LaidOutAt(f, r, {Magic(r, "ZISRAWMETADATA")}, ends)
          /\ \A m \in Metadatas : MetadataAt(f, r, m) =>
               LaidOutAt(f, r, MetadataExtents(r, m), {})
      BY <2>1, <2>2 DEF LaidOut
    <3>2. ASSUME NEW x \in parts
          PROVE  /\ \A y \in NamedPositions(f) : y <= r \/ x.hi <= y
                 /\ \A end \in Room(f, r) : x.hi <= end
      <4>1. CASE x = Magic(r, "ZISRAWMETADATA")
        BY <3>1, <4>1 DEF LaidOutAt
      <4>2. CASE \E m \in Metadatas :
                   MetadataAt(f, r, m) /\ x \in MetadataExtents(r, m)
        BY <3>1, <4>2 DEF LaidOutAt
      <4> QED BY <2>1, <4>1, <4>2 DEF MetadataParts
    <3>3. \A y \in NamedPositions(f), end \in ends : y <= r \/ end <= y
      BY <3>1 DEF LaidOutAt
    <3> QED BY <3>2, <3>3 DEF LaidOutAt
  <2>5. s = SegmentSpan(TheMetadata, r, parts, ends)
    BY <2>1 DEF MetadataSpan
  <2>6. r \in NamedPositions(f) /\ ends \subseteq Room(f, r) /\ r \in Nat
        /\ ~IsItem(TheMetadata) /\ NamedPositions(f) \subseteq Nat
    BY <2>1, Owners, NamedTyped DEF NamedPositions
  <2>7. IsFiniteSet(parts) /\ parts # {}
    BY <2>3, FS_Subset DEF IsCziFile
  <2>8. \A x \in parts : x.lo \in Nat /\ x.hi \in Nat /\ r <= x.lo /\ x.lo < x.hi
    <3> SUFFICES ASSUME NEW x \in parts
                 PROVE  /\ x.lo \in Nat /\ x.hi \in Nat /\ r <= x.lo
                        /\ x.lo < x.hi
      OBVIOUS
    <3>1. WellFormed(x)
      BY <2>3 DEF IsCziFile
    <3>2. x.lo \in {r, r + SegmentHeaderSize, r + FixedHeaderSize}
      BY <2>1 DEF MetadataParts, MetadataExtents, NotEmpty, Magic, MetadataHead,
                  MetadataPayload, Extent
    <3> QED BY <2>6, <3>1, <3>2, WellFormedBounds
            DEF SegmentHeaderSize, FixedHeaderSize
  <2>9. /\ IsSpan(f, s) /\ s.owner = TheMetadata /\ s.lo = r
        /\ \A end \in ends : end <= s.hi
        /\ \A x \in parts : s.lo <= x.lo /\ x.hi <= s.hi
    BY ONLY IsCziFile(f), <2>4, <2>5, <2>6, <2>7, <2>8, SpanThere
  <2>10. Apart(f, {s}, {"ZISRAWMETADATA"})
    BY <2>2, <2>9, ApartOne
  <2> QED BY <2>1, <2>2, <2>9, <2>10, Owners
<1> QED BY <1>1, <1>2

LEMMA AttachmentDirSpanThere ==
  ASSUME NEW f, IsCziFile(f), LaidOut(f),
         NEW q \in HeaderField(f, "AttachmentDirectoryPosition"),
         HasMagic(f, q, "ZISRAWATTDIR"),
         NEW s, s = AttachmentDirSpan(f, q)
  PROVE  /\ IsSpan(f, s) /\ s.owner = Document /\ s.lo = q
         /\ LaidOutAt(f, q, AttachmentDirParts(f, q), Room(f, q))
         /\ \A x \in AttachmentDirParts(f, q) : s.lo <= x.lo /\ x.hi <= s.hi
         /\ \A end \in Room(f, q) : end <= s.hi
<1>1. PICK parts, ends : /\ parts = AttachmentDirParts(f, q)
                         /\ ends = Room(f, q)
  OBVIOUS
<1>2. q \in NamedPositions(f) /\ ends \subseteq Room(f, q) /\ q \in Nat
      /\ ~IsItem(Document) /\ NamedPositions(f) \subseteq Nat
  BY <1>1, Owners, NamedTyped DEF NamedPositions
<1>3. LaidOutAt(f, q, parts, ends)
  BY <1>1 DEF LaidOut, AttachmentDirParts
<1>4. s = SegmentSpan(Document, q, parts, ends)
  BY <1>1 DEF AttachmentDirSpan
<1> DEFINE Z == {z \in f : z.lo = q + SegmentHeaderSize /\ z.what[1] = "count"}
           slots(z) == Extent(q, SegmentHeaderSize
                                   + AttachmentDirUsed(z.what[2]), <<"slots">>)
           m == Magic(q, "ZISRAWATTDIR")
<1>5. parts = {m} \cup {slots(z) : z \in Z}
  BY <1>1 DEF AttachmentDirParts, Slots
<1>6. \A x, z \in Z : x = z
  BY DEF IsCziFile
<1>7. \A z \in Z : slots(z).lo = q /\ slots(z).hi \in Nat /\ q < slots(z).hi
  <2> SUFFICES ASSUME NEW z \in Z
               PROVE  /\ slots(z).lo = q /\ slots(z).hi \in Nat
                      /\ q < slots(z).hi
    OBVIOUS
  <2>1. z.what[2] \in Nat
    BY DEF IsCziFile, WellFormed
  <2>2. PICK n : n = z.what[2]
    OBVIOUS
  <2>3. slots(z) = Extent(q, 288 + n * 128, <<"slots">>)
    BY <2>1, <2>2 DEF AttachmentDirUsed, SegmentHeaderSize, AttachmentEntrySize
  <2> HIDE DEF slots
  <2> QED BY <1>2, <2>1, <2>2, <2>3 DEF Extent
<1>8. m.lo = q /\ m.hi = q + 16
  BY DEF Magic, Extent
<1> HIDE DEF slots, m, Z
<1>9. parts # {} /\ IsFiniteSet(parts)
  <2>1. CASE Z = {}
    <3>1. parts = {m}
      BY <1>5, <2>1
    <3> QED BY <3>1, FS_Singleton
  <2>2. CASE Z # {}
    <3>1. PICK z \in Z : TRUE
      BY <2>2
    <3>2. parts = {m, slots(z), slots(z), slots(z)}
      BY <1>5, <1>6, <3>1
    <3> QED BY <3>2, FourParts
  <2> QED BY <2>1, <2>2
<1>10. \A x \in parts : x.lo \in Nat /\ x.hi \in Nat /\ q <= x.lo /\ x.lo < x.hi
  BY <1>2, <1>5, <1>7, <1>8
<1>11. /\ IsSpan(f, s) /\ s.owner = Document /\ s.lo = q
       /\ \A end \in ends : end <= s.hi
       /\ \A x \in parts : s.lo <= x.lo /\ x.hi <= s.hi
  BY ONLY IsCziFile(f), <1>2, <1>3, <1>4, <1>9, <1>10, SpanThere
<1> QED BY <1>1, <1>3, <1>11

AttachmentDirSpans(f, q) == IF q # 0 THEN {AttachmentDirSpan(f, q)} ELSE {}

LEMMA AttachmentDirApart ==
  ASSUME NEW f, IsCziFile(f), LaidOut(f),
         NEW q \in HeaderField(f, "AttachmentDirectoryPosition"),
         q # 0 => HasMagic(f, q, "ZISRAWATTDIR"),
         NEW S, S = AttachmentDirSpans(f, q)
  PROVE  /\ Apart(f, S, {"ZISRAWATTDIR"}) /\ \A s \in S : s.lo = q
         /\ q # 0 => Inside(S, Document, {Magic(q, "ZISRAWATTDIR")})
<1>1. CASE q = 0
  BY <1>1, ApartNone DEF AttachmentDirSpans
<1>2. CASE q # 0
  <2>1. PICK s : s = AttachmentDirSpan(f, q)
    OBVIOUS
  <2>2. HasMagic(f, q, "ZISRAWATTDIR") /\ S = {s}
    BY <1>2, <2>1 DEF AttachmentDirSpans
  <2>3. /\ IsSpan(f, s) /\ s.owner = Document /\ s.lo = q
        /\ \A x \in AttachmentDirParts(f, q) : s.lo <= x.lo /\ x.hi <= s.hi
    BY <2>1, <2>2, AttachmentDirSpanThere
  <2>4. Apart(f, {s}, {"ZISRAWATTDIR"})
    BY <2>2, <2>3, ApartOne
  <2>5. Inside({s}, Document, {Magic(q, "ZISRAWATTDIR")})
    BY <2>3 DEF Inside, AttachmentDirParts
  <2> QED BY <2>2, <2>3, <2>4, <2>5
<1> QED BY <1>1, <1>2

LEMMA OneAttachmentDirectory ==
  ASSUME NEW f, IsCziFile(f),
         NEW p \in HeaderField(f, "AttachmentDirectoryPosition"),
         NEW q \in HeaderField(f, "AttachmentDirectoryPosition")
  PROVE  p = q
<1>1. PICK x \in f : x.what[1] = "AttachmentDirectoryPosition" /\ x.what[2] = p
  BY DEF HeaderField
<1>2. PICK y \in f : y.what[1] = "AttachmentDirectoryPosition" /\ y.what[2] = q
  BY DEF HeaderField
<1>3. x.lo = 104 /\ y.lo = 104
  BY <1>1, <1>2 DEF IsCziFile, WellFormed
<1> QED BY <1>1, <1>2, <1>3 DEF IsCziFile

\* The parts of a document that lie in its own spans are all that a reader
\* needs to find its directories.
DocumentParts(f, S) == {x \in f : Inside(S, Document, {x})}

LEMMA DocumentStillRead ==
  ASSUME NEW f, IsCziFile(f), HasMagic(f, 0, "ZISRAWFILE"), LaidOut(f),
         NEW p \in HeaderField(f, "SubBlockDirectoryPosition"),
         NEW dir \in SubBlkDirAt(f, p),
         NEW q \in HeaderField(f, "AttachmentDirectoryPosition"),
         q # 0 => HasMagic(f, q, "ZISRAWATTDIR"),
         NEW S, HeaderSpan \in S, SubBlkDirSpan(f, p, dir) \in S,
         q # 0 => Inside(S, Document, {Magic(q, "ZISRAWATTDIR")}),
         NEW H, H = DocumentParts(f, S)
  PROVE  /\ H \subseteq f /\ Inside(S, Document, H)
         /\ \A k \in DOMAIN dir : StillRead(H, dir[k])
<1>1. H \subseteq f /\ Inside(S, Document, H)
  BY DEF Inside, DocumentParts
<1>2. ASSUME NEW x \in f, x.hi <= 112 PROVE x \in H
  <2>1. PICK s \in S : /\ s.owner = Document /\ s.lo = 0 /\ s.hi = 544
    BY HeaderSpanThere DEF FileHeaderSegmentSize
  <2>2. x.lo \in Nat /\ x.hi \in Nat
    BY WellFormedBounds DEF IsCziFile
  <2>3. s.lo <= x.lo /\ x.hi <= s.hi
    BY <1>2, <2>1, <2>2
  <2>4. Inside(S, Document, {x})
    BY <2>1, <2>3 DEF Inside
  <2> QED BY <2>4 DEF DocumentParts
<1>3. HasMagic(H, 0, "ZISRAWFILE")
  <2>1. Magic(0, "ZISRAWFILE").hi = 16
    BY DEF Magic, Extent
  <2> QED BY <1>2, <2>1 DEF HasMagic
<1>4. \A n : HeaderField(H, n) = HeaderField(f, n)
  BY <1>1, <1>2 DEF HeaderField
<1>5. dir \in SubBlkDirAt(H, p)
  <2>1. PICK s : s = SubBlkDirSpan(f, p, dir)
    OBVIOUS
  <2>2. /\ s \in S /\ s.owner = Document /\ s.lo = p /\ p + 32 <= s.hi
        /\ \A x \in SubBlkDirExtents(p, dir) : s.lo <= x.lo /\ x.hi <= s.hi
        /\ s.hi \in Nat
    BY <2>1, SubBlkDirSpanThere DEF IsSpan
  <2>3. \A x \in f : s.lo <= x.lo /\ x.hi <= s.hi => x \in H
    BY <2>2 DEF Inside, DocumentParts
  <2>4. p \in Nat
    BY HeaderFieldsTyped DEF PositionsOrNone, BehindHeader
  <2>5. Len(dir) \in Nat /\ EntryDVSize \in Nat
    BY SubBlkDirTyped, HeadSizes
  <2>6. HasMagic(f, p, "ZISRAWDIRECTORY")
    BY SubBlkDirTyped
  <2>7. HasMagic(H, p, "ZISRAWDIRECTORY")
    <3> DEFINE m == Magic(p, "ZISRAWDIRECTORY")
    <3>1. m.lo = p /\ m.hi = p + 16 /\ m \in f
      BY <2>4, <2>6 DEF Magic, Extent, HasMagic
    <3> HIDE DEF m
    <3>2. m \in H
      BY <2>2, <2>3, <2>4, <3>1
    <3> QED BY <3>2 DEF HasMagic, m
  <2>8. ASSUME SubBlkDirCount(p, Len(dir)) \in f
        PROVE  SubBlkDirCount(p, Len(dir)) \in H
    <3> DEFINE c == SubBlkDirCount(p, Len(dir))
    <3>1. c.lo = p + 32 /\ c.hi = p + 36
      BY <2>4 DEF SubBlkDirCount, Extent, SegmentHeaderSize
    <3>2. c \in SubBlkDirExtents(p, dir)
      BY <2>4, <3>1 DEF SubBlkDirExtents, NotEmpty
    <3>3. s.lo <= c.lo /\ c.hi <= s.hi
      BY <2>2, <3>2
    <3> QED BY <2>3, <2>8, <3>3
  <2>9. CASE dir = <<>> /\ SubBlkDirCount(p, 0) \in f
    <3>1. SubBlkDirCount(p, 0) \in H
      BY <2>8, <2>9
    <3> QED BY <2>7, <2>9, <3>1 DEF SubBlkDirAt
  <2>10. CASE \E x \in f : /\ x.what[1] = "entries" /\ x.what[2] = dir
                           /\ x.lo = p + SubBlkDirHeaderSize
                           /\ SubBlkDirCount(p, Len(dir)) \in f
    <3>1. PICK x \in f : /\ x.what[1] = "entries" /\ x.what[2] = dir
                         /\ x.lo = p + SubBlkDirHeaderSize
                         /\ SubBlkDirCount(p, Len(dir)) \in f
      BY <2>10
    <3>2. x = Extent(x.lo, Len(dir) * EntryDVSize, x.what) /\ x.lo < x.hi
      BY <3>1 DEF IsCziFile, WellFormed
    <3> DEFINE b == SubBlkDirEntries(p, dir)
               len == Len(dir) * EntryDVSize
    <3>3. b.lo = p + SubBlkDirHeaderSize /\ b.hi = p + SubBlkDirHeaderSize + len
      BY DEF SubBlkDirEntries, Extent
    <3>4. x.hi = x.lo + len
      BY <3>2 DEF Extent
    <3> HIDE DEF b, len
    <3>5. b.lo = x.lo /\ b.hi = x.hi /\ b.lo < b.hi
      BY <3>1, <3>2, <3>3, <3>4
    <3>6. b \in SubBlkDirExtents(p, dir)
      BY <3>5 DEF SubBlkDirExtents, NotEmpty, b
    <3>7. x \in H
      BY <2>2, <2>3, <3>5, <3>6
    <3>8. SubBlkDirCount(p, Len(x.what[2])) \in H
      BY <2>8, <3>1
    <3> QED BY <2>7, <3>1, <3>7, <3>8 DEF SubBlkDirAt
  <2>11. \/ dir = <<>> /\ SubBlkDirCount(p, 0) \in f
         \/ \E x \in f : /\ x.what[1] = "entries" /\ x.what[2] = dir
                         /\ x.lo = p + SubBlkDirHeaderSize
                         /\ SubBlkDirCount(p, Len(dir)) \in f
    BY <2>6 DEF SubBlkDirAt
  <2> QED BY <2>9, <2>10, <2>11
<1>6. CanOpen(H)
  <2>1. \A y \in HeaderField(H, "AttachmentDirectoryPosition") : y = q
    BY <1>4, OneAttachmentDirectory
  <2>2. q # 0 => HasMagic(H, q, "ZISRAWATTDIR")
    BY DEF HasMagic, DocumentParts
  <2> QED BY <1>3, <1>4, <1>5, <2>1, <2>2 DEF CanOpen
<1>7. ASSUME NEW k \in DOMAIN dir PROVE dir[k] \in SubBlkDirRead(H)
  <2>1. p \in HeaderField(H, "SubBlockDirectoryPosition")
    BY <1>4
  <2>2. dir[k] \in {dir[j] : j \in DOMAIN dir}
    OBVIOUS
  <2> QED BY ONLY <1>5, <2>1, <2>2 DEF SubBlkDirRead
<1> QED BY <1>1, <1>4, <1>6, <1>7 DEF StillRead

\* One span for each segment that was found
OneEach(S, f, p, dir, q, N) ==
  /\ \A s \in S : IsSpan(f, s) /\ \A t \in S : s.lo = t.lo => s = t
  /\ HeaderSpan \in S /\ SubBlkDirSpan(f, p, dir) \in S
  /\ q # 0 => AttachmentDirSpan(f, q) \in S
  /\ \A n \in N : \E s \in S :
       /\ s.owner = TheMetadata /\ s.lo = n
       /\ \A x \in MetadataParts(f, n) : s.lo <= x.lo /\ x.hi <= s.hi

\* Spans as the invariant has them: A and B are those of the items, N is where
\* the metadata are.
Opened(S, H, f, last, A, B, N, dir) ==
  /\ Ground(S, H, f, Nobody, {}, last, 0)
  /\ A \subseteq S /\ B \subseteq S
  /\ \A n \in N : \E s \in S :
       /\ s.owner = TheMetadata /\ s.lo = n
       /\ \A end \in Room(f, n) : end <= s.hi
  /\ \A k \in DOMAIN dir : StillRead(H, dir[k])

\* What was found, and that nothing of it is behind the last segment
Finds(f, p, dir, q, r, N) ==
  /\ IsCziFile(f) /\ HasMagic(f, 0, "ZISRAWFILE") /\ LaidOut(f)
  /\ p \in HeaderField(f, "SubBlockDirectoryPosition")
  /\ dir \in SubBlkDirAt(f, p)
  /\ q \in HeaderField(f, "AttachmentDirectoryPosition")
  /\ q # 0 => HasMagic(f, q, "ZISRAWATTDIR")
  /\ r \in HeaderField(f, "MetadataPosition")
  /\ N \subseteq {r} /\ \A n \in N : HasMagic(f, n, "ZISRAWMETADATA")

UpToLast(f, last, p, q, r, A, B) ==
  /\ Apart(f, A, {"ZISRAWSUBBLOCK"}) /\ Apart(f, B, {"ZISRAWATTACH"})
  /\ last \in NamedPositions(f) /\ p <= last /\ q <= last /\ r <= last
  /\ \A s \in A \cup B : s.lo <= last

LEMMA OpenedDocument ==
  ASSUME NEW f, NEW p, NEW dir, NEW q, NEW r, NEW N, Finds(f, p, dir, q, r, N),
         NEW A, NEW B, NEW last, UpToLast(f, last, p, q, r, A, B)
  PROVE  \E S, H : Opened(S, H, f, last, A, B, N, dir)
                   /\ OneEach(S, f, p, dir, q, N)
<1> USE DEF Finds, UpToLast
<1>1. PICK C : C = MetadataSpans(f, r, N)
  OBVIOUS
<1>2. PICK D : D = AttachmentDirSpans(f, q)
  OBVIOUS
<1>3. PICK h, d : h = HeaderSpan /\ d = SubBlkDirSpan(f, p, dir)
  OBVIOUS
<1>4. /\ Apart(f, C, {"ZISRAWMETADATA"}) /\ \A s \in C : s.lo = r
      /\ \A n \in N : \E s \in C :
           /\ s.owner = TheMetadata /\ s.lo = n
           /\ \A end \in Room(f, n) : end <= s.hi
           /\ \A x \in MetadataParts(f, n) : s.lo <= x.lo /\ x.hi <= s.hi
  BY <1>1, MetadataApart
<1>5. /\ Apart(f, D, {"ZISRAWATTDIR"}) /\ \A s \in D : s.lo = q
      /\ q # 0 => Inside(D, Document, {Magic(q, "ZISRAWATTDIR")})
  BY <1>2, AttachmentDirApart
<1>6. Apart(f, {h}, {"ZISRAWFILE"}) /\ h.lo = 0
  BY <1>3, HeaderSpanThere, ApartOne
<1>7. Apart(f, {d}, {"ZISRAWDIRECTORY"}) /\ d.lo = p
  <2>1. IsSpan(f, d) /\ d.lo = p
    BY <1>3, SubBlkDirSpanThere
  <2>2. HasMagic(f, d.lo, "ZISRAWDIRECTORY")
    BY <2>1, SubBlkDirTyped
  <2> QED BY <2>1, <2>2, ApartOne
<1> DEFINE S == ((((A \cup B) \cup C) \cup D) \cup {h}) \cup {d}
           ids == (((({"ZISRAWSUBBLOCK"} \cup {"ZISRAWATTACH"})
                       \cup {"ZISRAWMETADATA"}) \cup {"ZISRAWATTDIR"})
                     \cup {"ZISRAWFILE"}) \cup {"ZISRAWDIRECTORY"}
<1>8. Apart(f, S, ids)
  <2> DEFINE S1 == A \cup B
             i1 == {"ZISRAWSUBBLOCK"} \cup {"ZISRAWATTACH"}
             S2 == S1 \cup C
             i2 == i1 \cup {"ZISRAWMETADATA"}
             S3 == S2 \cup D
             i3 == i2 \cup {"ZISRAWATTDIR"}
             S4 == S3 \cup {h}
             i4 == i3 \cup {"ZISRAWFILE"}
  <2>1. /\ {"ZISRAWSUBBLOCK"} \cap {"ZISRAWATTACH"} = {}
        /\ i1 \cap {"ZISRAWMETADATA"} = {} /\ i2 \cap {"ZISRAWATTDIR"} = {}
        /\ i3 \cap {"ZISRAWFILE"} = {} /\ i4 \cap {"ZISRAWDIRECTORY"} = {}
    OBVIOUS
  <2>2. Apart(f, S1, i1)
    BY <2>1, ApartUnion
  <2>3. Apart(f, S2, i2)
    <3> HIDE DEF S1, i1
    <3> QED BY ONLY IsCziFile(f), <1>4, <2>1, <2>2, ApartUnion
  <2>4. Apart(f, S3, i3)
    <3> HIDE DEF S2, i2
    <3> QED BY ONLY IsCziFile(f), <1>5, <2>1, <2>3, ApartUnion
  <2>5. Apart(f, S4, i4)
    <3> HIDE DEF S3, i3
    <3> QED BY ONLY IsCziFile(f), <1>6, <2>1, <2>4, ApartUnion
  <2>6. Apart(f, S4 \cup {d}, i4 \cup {"ZISRAWDIRECTORY"})
    <3> HIDE DEF S4, i4
    <3> QED BY ONLY IsCziFile(f), <1>7, <2>1, <2>5, ApartUnion
  <2> QED BY <2>6
<1>9. PICK H : H = DocumentParts(f, S)
  OBVIOUS
<1>10. /\ A \subseteq S /\ B \subseteq S /\ C \subseteq S /\ D \subseteq S
       /\ HeaderSpan \in S /\ SubBlkDirSpan(f, p, dir) \in S
       /\ q # 0 => AttachmentDirSpan(f, q) \in S
  BY <1>2, <1>3 DEF AttachmentDirSpans
<1>11. \A s \in S : s \in A \cup B \/ s \in C \/ s \in D \/ s = h \/ s = d
  OBVIOUS
<1> HIDE DEF S, ids
<1>12. last \in Nat /\ 0 <= last
  BY NamedTyped
<1>13. \A s \in S : s.lo <= last
  BY <1>4, <1>5, <1>6, <1>7, <1>11, <1>12
<1>14. q # 0 => Inside(S, Document, {Magic(q, "ZISRAWATTDIR")})
  BY <1>5, <1>10 DEF Inside
<1>15. /\ H \subseteq f /\ Inside(S, Document, H)
       /\ \A k \in DOMAIN dir : StillRead(H, dir[k])
  BY <1>9, <1>10, <1>14, DocumentStillRead
<1>16. Ground(S, H, f, Nobody, {}, last, 0)
  BY <1>8, <1>12, <1>13, <1>15, ApartGround
<1>17. OneEach(S, f, p, dir, q, N)
  BY <1>4, <1>8, <1>10 DEF OneEach, Apart
<1>18. Opened(S, H, f, last, A, B, N, dir)
  BY <1>4, <1>10, <1>15, <1>16 DEF Opened
<1> QED BY <1>17, <1>18

\* The directory that was read, and its segment
ReadFrom(f, q, list, segment) ==
  /\ q = 0 => list = <<>> /\ segment = NoSegment
  /\ q # 0 =>
       /\ {list[i] : i \in DOMAIN list}
            = {x.what[2] : x \in AttachmentDirSlots(f, q)}
       /\ \E a \in AllocatedSize(f, q) : segment = SegmentAt(q, a, FALSE)
       /\ \E x \in f : x.lo = q + SegmentHeaderSize /\ x.what[1] = "count"

LEMMA AttachmentsListed ==
  ASSUME IsCziFile(file),
         NEW q \in HeaderField(file, "AttachmentDirectoryPosition"),
         NEW att \in AttachmentDirectories(q)
  PROVE  /\ q # 0 => HasMagic(file, q, "ZISRAWATTDIR")
         /\ att[1] \in Seq(AttachmentEntries)
         /\ \A i \in DOMAIN att[1] : att[1][i] \in AttachmentDirRead(file)
         /\ ReadFrom(file, q, att[1], att[2])
<1>1. q \in PositionsOrNone
  BY HeaderFieldsTyped
<1>2. att[1] \in Seq(AttachmentEntries)
  BY <1>1, AttachmentDirectoriesTyped
<1>3. CASE q = 0
  <2>1. att[1] = <<>> /\ att[2] = NoSegment
    BY <1>3 DEF AttachmentDirectories
  <2> QED BY <1>2, <1>3, <2>1 DEF ReadFrom
<1>4. CASE q # 0
  <2> DEFINE S == AttachmentDirSlots(file, q)
             slots == SetToSeq(S)
             n == Cardinality(S)
             dir == [i \in DOMAIN slots |-> slots[i].what[2]]
  <2>1. /\ HasMagic(file, q, "ZISRAWATTDIR") /\ att[1] = dir
        /\ \E a \in AllocatedSize(file, q) : att[2] = SegmentAt(q, a, FALSE)
        /\ \E x \in file : x.lo = q + SegmentHeaderSize /\ x.what[1] = "count"
    <3>1. PICK a \in AllocatedSize(file, q) :
            att = <<dir, SegmentAt(q, a, FALSE)>>
      BY <1>4 DEF AttachmentDirectories
    <3>2. AttachmentDirectories(q) # {}
      OBVIOUS
    <3>3. /\ HasMagic(file, q, "ZISRAWATTDIR")
          /\ \E x \in file : x.lo = q + SegmentHeaderSize /\ x.what[1] = "count"
      BY <1>4, <3>2 DEF AttachmentDirectories
    <3> QED BY <3>1, <3>3
  <2>2. \A x \in S : x.what[2] \in AttachmentDirRead(file)
    BY <1>4 DEF AttachmentDirRead
  <2>3. IsFiniteSet(S)
    BY FS_Subset DEF AttachmentDirSlots, IsCziFile
  <2> HIDE DEF S
  <2>4. /\ slots \in [1..n -> S]
        /\ \A x \in S : \E i \in DOMAIN slots : slots[i] = x
    BY <2>3, Listed
  <2> HIDE DEF slots, n
  <2>5. \A i \in DOMAIN dir : dir[i] \in AttachmentDirRead(file)
    BY <2>2, <2>4
  <2>6. {dir[i] : i \in DOMAIN dir} = {x.what[2] : x \in S}
    <3>1. \A i \in DOMAIN dir : slots[i] \in S /\ dir[i] = slots[i].what[2]
      BY <2>4
    <3>2. \A x \in S : \E i \in DOMAIN dir : dir[i] = x.what[2]
      BY <2>4
    <3> HIDE DEF dir
    <3> QED BY <3>1, <3>2
  <2> HIDE DEF dir
  <2>7. PICK list, segment : list = att[1] /\ segment = att[2]
    OBVIOUS
  <2>8. {list[i] : i \in DOMAIN list} = {x.what[2] : x \in S}
    BY <2>1, <2>6, <2>7, Zenon
  <2>9. ReadFrom(file, q, list, segment)
    BY <1>4, <2>1, <2>7, <2>8, Zenon DEF ReadFrom, S
  <2> QED BY <1>2, <2>1, <2>5, <2>7, <2>9
<1> QED BY <1>3, <1>4

LEMMA MetadataThere ==
  ASSUME IsCziFile(file), NEW r \in Nat, NEW md \in MetadataSegments(r)
  PROVE  md.valid => /\ md.pos = r /\ HasMagic(file, r, "ZISRAWMETADATA")
                     /\ SegmentEnd(md) \in Room(file, r)
<1> SUFFICES ASSUME md.valid
             PROVE  /\ md.pos = r /\ HasMagic(file, r, "ZISRAWMETADATA")
                    /\ SegmentEnd(md) \in Room(file, r)
  OBVIOUS
<1>1. ~NoSegment.valid
  BY DEF NoSegment
<1>2. PICK a \in AllocatedSize(file, r) :
        md = SegmentAt(r, a, FALSE) /\ HasMagic(file, r, "ZISRAWMETADATA")
  BY <1>1 DEF MetadataSegments
<1>3. md.pos = r /\ md.allocated = a
  BY <1>2 DEF SegmentAt
<1>4. r + SegmentHeaderSize + a \in Room(file, r)
  BY DEF Room
<1>5. a \in Nat
  BY AllocatedTyped
<1>6. SegmentEnd(md) = r + SegmentHeaderSize + a
  BY <1>3, <1>5 DEF SegmentEnd, SegmentHeaderSize
<1> QED BY <1>2, <1>3, <1>4, <1>6

\* What can be read of the metadata lies in their span.
LEMMA MetadataFound ==
  ASSUME NEW S, NEW segment, NEW m, m = MetadataRead(segment),
         segment.valid =>
           \E s \in S : /\ s.owner = TheMetadata
                        /\ \A x \in MetadataParts(file, segment.pos) :
                             s.lo <= x.lo /\ x.hi <= s.hi
  PROVE  XmlStays(S, file, segment, m)
<1> SUFFICES ASSUME m \in Metadatas
             PROVE  /\ segment.valid
                    /\ Stays(S, file, TheMetadata,
                             MetadataExtents(segment.pos, m))
  BY DEF XmlStays
<1> DEFINE found == {n \in Metadatas : MetadataAt(file, segment.pos, n)}
<1>1. segment.valid
  BY MetadataAssumption DEF MetadataRead
<1>2. m = IF found = {} THEN UnknownMeta ELSE CHOOSE n \in found : TRUE
  BY <1>1 DEF MetadataRead
<1>3. m \in found
  <2> HIDE DEF found
  <2> QED BY <1>2, MetadataAssumption
<1>4. PICK parts : parts = MetadataExtents(segment.pos, m)
  OBVIOUS
<1>5. parts \subseteq file /\ parts \subseteq MetadataParts(file, segment.pos)
  BY <1>3, <1>4 DEF MetadataAt, MetadataParts
<1>6. Stays(S, file, TheMetadata, parts)
  BY <1>1, <1>5 DEF Stays, Inside
<1> QED BY <1>1, <1>4, <1>6

\* The rooms of the two directories
LEMMA RoomsApart ==
  ASSUME NEW f, IsCziFile(f), LaidOut(f),
         NEW p \in HeaderField(f, "SubBlockDirectoryPosition"),
         NEW dir \in SubBlkDirAt(f, p),
         NEW q \in HeaderField(f, "AttachmentDirectoryPosition"),
         NEW pe \in Room(f, p)
  PROVE  /\ p \in Nat /\ q \in Nat /\ pe \in Nat
         /\ \A x \in SubBlkDirExtents(p, dir) :
              x.hi <= pe /\ (q <= p \/ x.hi <= q)
         /\ \/ /\ \A y \in NamedPositions(f) : y <= p \/ pe <= y
               /\ pe \in FreeRoom(f, p)
            \/ /\ p < q /\ pe < p + SegmentHeaderSize + SubBlkDirAllocated(1)
               /\ \A y \in NamedPositions(f) \ {q} : y <= p \/ pe <= y
               /\ \A qe \in Room(f, q) : pe <= qe
<1>1. p \in NamedPositions(f) /\ q \in NamedPositions(f)
      /\ NamedPositions(f) \subseteq Nat
  BY NamedTyped DEF NamedPositions
<1>2. pe \in Nat /\ p \in Nat
  BY <1>1, RoomFinite
<1>3. /\ LaidOutAt(f, p, SubBlkDirExtents(p, dir), {})
      /\ \/ LaidOutAt(f, p, {}, Room(f, p))
         \/ \E other \in HeaderField(f, "AttachmentDirectoryPosition") :
              LiesOver(f, p, other)
  BY DEF LaidOut
<1>4. \A x \in SubBlkDirExtents(p, dir) : x.hi <= pe /\ (q <= p \/ x.hi <= q)
  BY <1>1, <1>3 DEF LaidOutAt
<1>5. CASE LaidOutAt(f, p, {}, Room(f, p))
  BY <1>1, <1>2, <1>4, <1>5 DEF LaidOutAt, FreeRoom
<1>6. CASE \E other \in HeaderField(f, "AttachmentDirectoryPosition") :
             LiesOver(f, p, other)
  <2>1. LiesOver(f, p, q)
    BY <1>6, OneAttachmentDirectory
  <2> QED BY <1>1, <1>2, <1>4, <2>1 DEF LiesOver
<1> QED BY <1>3, <1>5, <1>6

LEMMA HeaderFound ==
  ASSUME NEW f, IsCziFile(f), HasMagic(f, 0, "ZISRAWFILE"),
         NEW p \in HeaderField(f, "SubBlockDirectoryPosition"),
         NEW q \in HeaderField(f, "AttachmentDirectoryPosition"),
         NEW r \in HeaderField(f, "MetadataPosition"),
         NEW S, HeaderSpan \in S, NEW hdr,
         hdr.subBlockDirectory = p, hdr.attachmentDirectory = q,
         hdr.metadata = r
  PROVE  HeaderKept(S, f, hdr)
<1> DEFINE P == Parts(f, 0, FileHeaderSegmentSize)
<1>1. Held(S, 0, FileHeaderSegmentSize)
  BY HeaderSpanThere DEF Held, FileHeaderSegmentSize
<1>2. ASSUME NEW x \in f, x.hi <= 112 PROVE x \in P
  <2>1. x.lo \in Nat /\ x.hi \in Nat
    BY WellFormedBounds DEF IsCziFile
  <2> QED BY <1>2, <2>1 DEF Parts, FileHeaderSegmentSize
<1>3. P \subseteq f
  BY DEF Parts
<1> HIDE DEF P
<1>4. \A n : HeaderField(f, n) \subseteq HeaderField(P, n)
  BY <1>2 DEF HeaderField
<1>5. HasMagic(P, 0, "ZISRAWFILE")
  <2>1. Magic(0, "ZISRAWFILE").hi = 16
    BY DEF Magic, Extent
  <2> QED BY <1>2, <2>1 DEF HasMagic
<1> QED BY <1>1, <1>4, <1>5 DEF HeaderKept, Names, P

\* Only segments of the document, at p and others, begin before the end of the
\* room at p.
RoomTo(f, S, p, end, others) ==
  /\ \A s \in S : IsSpan(f, s) /\ \A t \in S : s.lo = t.lo => s = t
  /\ p \in NamedPositions(f)
  /\ \A y \in NamedPositions(f) \ others : y <= p \/ end <= y
  /\ \A y \in {p} \cup others : \E s \in S : s.owner = Document /\ s.lo = y
  /\ \E t \in S : end <= t.hi

LEMMA DirectoryRoomFound ==
  ASSUME NEW f, NEW S, NEW segment \in Segments, NEW p, p = segment.pos,
         NEW end, end = SegmentEnd(segment),
         NEW others, RoomTo(f, S, p, end, others)
  PROVE  DirectoryRoom(S, segment)
<1> USE DEF RoomTo
<1> SUFFICES ASSUME NEW s \in S, s.owner # Document
             PROVE  s.hi <= p \/ end <= s.lo
  BY DEF DirectoryRoom
<1>1. /\ s.lo \in NamedPositions(f) /\ s.lo \in Nat /\ s.hi \in Nat
      /\ p <= s.lo \/ s.hi <= p
  BY DEF IsSpan
<1>2. s.lo \notin {p} \cup others
  OBVIOUS
<1>3. p \in Nat
  BY EndTyped
<1> QED BY <1>1, <1>2, <1>3

\* What a reader takes from the sub-block directory ends with its entries.
LEMMA DirectoryRead ==
  ASSUME NEW f, IsCziFile(f), NEW p \in Nat, NEW dir \in SubBlkDirAt(f, p),
         NEW end, end = DirectoryEnd(p, Len(dir))
  PROVE  /\ Reads(f, p, dir) /\ end \in Nat
         /\ \E x \in SubBlkDirExtents(p, dir) : x.hi = end
<1> DEFINE n == Len(dir)
           len == n * EntryDVSize
           c == SubBlkDirCount(p, n)
           b == SubBlkDirEntries(p, dir)
           P == Parts(f, p, end)
<1>1. n \in Nat /\ EntryDVSize \in Nat /\ EntryDVSize >= 32
  BY SubBlkDirTyped, SizesAreNat DEF EntryDVSize
<1>2. len \in Nat /\ (n # 0 => len > 0)
  BY <1>1
<1>3. HasMagic(f, p, "ZISRAWDIRECTORY")
  BY SubBlkDirTyped
<1>4. /\ c.lo = p + 32 /\ c.hi = p + 36
      /\ b.lo = p + 160 /\ b.hi = p + 160 + len
      /\ c \in SubBlkDirExtents(p, dir)
      /\ n # 0 => b \in SubBlkDirExtents(p, dir)
  BY <1>1, <1>2 DEF SubBlkDirExtents, NotEmpty, SubBlkDirCount,
     SubBlkDirEntries, Extent, SegmentHeaderSize, SubBlkDirHeaderSize
<1>5. end = IF n = 0 THEN p + 36 ELSE p + 160 + len
  BY DEF DirectoryEnd, SegmentHeaderSize, SubBlkDirHeaderSize
<1> HIDE DEF len
<1>6. end \in Nat /\ p + 36 <= end
  BY <1>1, <1>2, <1>5
<1>7. \E x \in SubBlkDirExtents(p, dir) : x.hi = end
  <2> HIDE DEF c, b, n
  <2>1. CASE n = 0
    BY <1>4, <1>5, <2>1
  <2>2. CASE n # 0
    BY <1>4, <1>5, <2>2
  <2> QED BY <2>1, <2>2
<1>8. HasMagic(P, p, "ZISRAWDIRECTORY")
  <2> DEFINE m == Magic(p, "ZISRAWDIRECTORY")
  <2>1. m \in f /\ m.lo = p /\ m.hi = p + 16
    BY <1>3 DEF HasMagic, Magic, Extent
  <2> HIDE DEF m
  <2>2. m \in P
    BY <1>6, <2>1 DEF Parts
  <2> QED BY <2>2 DEF HasMagic, m
<1>9. c \in f => c \in P
  BY <1>4, <1>6 DEF Parts
<1>10. CASE dir = <<>> /\ SubBlkDirCount(p, 0) \in f
  <2>1. SubBlkDirCount(p, 0) \in P
    BY <1>9, <1>10
  <2> HIDE DEF P
  <2>2. dir \in SubBlkDirAt(P, p)
    BY <1>8, <1>10, <2>1 DEF SubBlkDirAt
  <2> QED BY <1>6, <1>7, <2>2 DEF Reads, P
<1>11. CASE \E x \in f : /\ x.what[1] = "entries" /\ x.what[2] = dir
                         /\ x.lo = p + SubBlkDirHeaderSize
                         /\ SubBlkDirCount(p, Len(dir)) \in f
  <2>1. PICK x \in f : /\ x.what[1] = "entries" /\ x.what[2] = dir
                       /\ x.lo = p + SubBlkDirHeaderSize
                       /\ SubBlkDirCount(p, Len(dir)) \in f
    BY <1>11
  <2>2. x = Extent(x.lo, Len(dir) * EntryDVSize, x.what) /\ x.lo < x.hi
        /\ x.lo \in Nat
    BY <2>1 DEF IsCziFile, WellFormed
  <2>3. x.hi = p + 160 + len
    BY <2>1, <2>2 DEF Extent, SubBlkDirHeaderSize, SegmentHeaderSize, len
  <2>4. x.lo = p + 160
    BY <2>1 DEF SubBlkDirHeaderSize, SegmentHeaderSize
  <2>5. n # 0
    <3>1. len > 0
      BY <1>2, <2>2, <2>3, <2>4
    <3> QED BY <1>1, <3>1 DEF len
  <2>6. x \in P
    BY <1>5, <2>3, <2>4, <2>5 DEF Parts
  <2>7. SubBlkDirCount(p, Len(x.what[2])) \in P
    BY <1>9, <2>1
  <2> HIDE DEF P
  <2>8. dir \in SubBlkDirAt(P, p)
    BY <1>8, <2>1, <2>6, <2>7 DEF SubBlkDirAt
  <2> QED BY <1>6, <1>7, <2>8 DEF Reads, P
<1> QED BY <1>3, <1>10, <1>11 DEF SubBlkDirAt

LEMMA SubBlkDirFound ==
  ASSUME NEW f, IsCziFile(f), LaidOut(f),
         NEW p \in HeaderField(f, "SubBlockDirectoryPosition"),
         NEW dir \in SubBlkDirAt(f, p),
         NEW q \in HeaderField(f, "AttachmentDirectoryPosition"),
         NEW S, SubBlkDirSpan(f, p, dir) \in S,
         NEW sub \in Segments, sub.pos = p, SegmentEnd(sub) \in Room(f, p),
         NEW att \in Segments,
         att.valid => /\ att.pos = q /\ HasMagic(f, q, "ZISRAWATTDIR")
                      /\ SegmentEnd(att) \in Room(f, q),
         NEW sb, IsListOf(dir, sb)
  PROVE  Pair(sub, att) /\ SubBlkDirKept(S, f, sub, att, sb)
<1>1. PICK pe, qe, end : /\ pe = SegmentEnd(sub) /\ qe = SegmentEnd(att)
                         /\ end = DirectoryEnd(p, Len(dir))
  OBVIOUS
<1>2. /\ p \in Nat /\ q \in Nat /\ pe \in Nat
      /\ \A x \in SubBlkDirExtents(p, dir) : x.hi <= pe /\ (q <= p \/ x.hi <= q)
      /\ \/ \A y \in NamedPositions(f) : y <= p \/ pe <= y
         \/ p < q /\ pe < p + SegmentHeaderSize + SubBlkDirAllocated(1)
  BY <1>1, RoomsApart
<1>3. /\ Reads(f, p, dir) /\ end \in Nat
      /\ \E x \in SubBlkDirExtents(p, dir) : x.hi = end
  BY <1>1, <1>2, DirectoryRead
<1>4. end <= pe /\ (q <= p \/ end <= q) /\ p + 36 <= end
  <2>1. end <= pe /\ (q <= p \/ end <= q)
    BY <1>2, <1>3
  <2>2. p + 36 <= end
    <3>1. Len(dir) \in Nat /\ EntryDVSize \in Nat
      BY SubBlkDirTyped, HeadSizes
    <3>2. Len(dir) * EntryDVSize \in Nat
      BY <3>1
    <3> QED BY <1>1, <1>2, <3>2
            DEF DirectoryEnd, SegmentHeaderSize, SubBlkDirHeaderSize
  <2> QED BY <2>1, <2>2
<1>5. p \in NamedPositions(f) /\ q \in NamedPositions(f)
  BY DEF NamedPositions
<1>6. ASSUME att.valid PROVE qe <= p \/ p < q
  <2>1. HasMagic(f, q, "ZISRAWATTDIR") /\ HasMagic(f, p, "ZISRAWDIRECTORY")
    BY <1>6, SubBlkDirTyped
  <2>2. p # q
    BY <2>1, OneMagic
  <2>3. LaidOutAt(f, q, AttachmentDirParts(f, q), Room(f, q))
    BY <1>6, AttachmentDirSpanThere
  <2>4. p <= q \/ qe <= p
    BY <1>1, <1>5, <1>6, <2>3 DEF LaidOutAt
  <2> QED BY <1>2, <2>2, <2>4
<1>7. Pair(sub, att)
  <2> SUFFICES ASSUME att.valid, ~ (qe <= p), ~ (pe <= q)
               PROVE  /\ p + SegmentHeaderSize + 4 <= q /\ q < pe
                      /\ sub.allocated < SubBlkDirAllocated(1)
    BY <1>1 DEF Pair
  <2>1. p < q
    BY <1>6
  <2>2. /\ pe < p + SegmentHeaderSize + SubBlkDirAllocated(1) /\ end <= q
    BY <1>2, <1>4, <1>5, <2>1
  <2>3. SubBlkDirAllocated(1) \in Int /\ sub.allocated \in Nat
    <3>1. EntryDVSize \in Nat
      BY HeadSizes
    <3> QED BY <3>1 DEF SubBlkDirAllocated, AlignSegmentSize, SegmentAlign,
                        Segments
  <2>4. pe = p + sub.allocated + 32
    BY <1>1 DEF SegmentEnd, SegmentHeaderSize
  <2> QED BY <1>2, <1>3, <1>4, <2>2, <2>3, <2>4 DEF SegmentHeaderSize
<1>8. Held(S, p, end)
  <2>1. PICK s : s = SubBlkDirSpan(f, p, dir)
    OBVIOUS
  <2>2. /\ s \in S /\ s.owner = Document /\ s.lo = p
        /\ \A x \in SubBlkDirExtents(p, dir) : x.hi <= s.hi
    BY <2>1, SubBlkDirSpanThere
  <2> QED BY <1>2, <1>3, <2>2 DEF Held
<1>9. att.valid => end <= att.pos \/ SegmentEnd(att) <= sub.pos
  BY <1>1, <1>2, <1>4, <1>6
<1>10. Keeps(S, f, sub, att, dir, end)
  BY <1>1, <1>3, <1>4, <1>8, <1>9 DEF Keeps
<1> QED BY <1>1, <1>7, <1>10 DEF SubBlkDirKept

LEMMA AttachmentDirFound ==
  ASSUME NEW f, IsCziFile(f), LaidOut(f),
         NEW q \in HeaderField(f, "AttachmentDirectoryPosition"),
         HasMagic(f, q, "ZISRAWATTDIR"),
         \E x \in f : x.lo = q + SegmentHeaderSize /\ x.what[1] = "count",
         NEW att \in Segments, att.pos = q, SegmentEnd(att) \in Room(f, q),
         NEW S, AttachmentDirSpan(f, q) \in S,
         NEW entries, entries = {x.what[2] : x \in AttachmentDirSlots(f, q)}
  PROVE  Held(S, q, SegmentEnd(att)) /\ ReadsAttachments(f, att, entries)
<1>1. PICK s, qe : s = AttachmentDirSpan(f, q) /\ qe = SegmentEnd(att)
  OBVIOUS
<1>2. /\ s.owner = Document /\ s.lo = q /\ qe <= s.hi
      /\ LaidOutAt(f, q, AttachmentDirParts(f, q), Room(f, q))
  BY <1>1, AttachmentDirSpanThere
<1>3. q \in Nat /\ qe \in Nat
  BY <1>1, EndTyped
<1>4. Held(S, q, qe)
  BY <1>1, <1>2, <1>3 DEF Held
<1>5. PICK P : P = Parts(f, q, qe)
  OBVIOUS
<1>6. \A x \in AttachmentDirParts(f, q) : x.hi <= qe
  BY <1>1, <1>2 DEF LaidOutAt
<1>7. HasMagic(P, q, "ZISRAWATTDIR")
  <2> DEFINE m == Magic(q, "ZISRAWATTDIR")
  <2>1. m \in f /\ m.lo = q /\ m \in AttachmentDirParts(f, q)
    BY DEF HasMagic, Magic, Extent, AttachmentDirParts
  <2> HIDE DEF m
  <2>2. m \in P
    BY <1>3, <1>5, <1>6, <2>1 DEF Parts
  <2> QED BY <2>2 DEF HasMagic, m
<1>8. PICK z \in f : z.lo = q + SegmentHeaderSize /\ z.what[1] = "count"
  OBVIOUS
<1>9. PICK n : n = z.what[2]
  OBVIOUS
<1>10. n \in Nat /\ z.hi = q + 36 /\ q + 288 + n * 128 <= qe
  <2>1. n \in Nat /\ z = Extent(z.lo, 4, z.what)
    BY <1>8, <1>9 DEF IsCziFile, WellFormed
  <2>2. z.hi = q + 36
    BY <1>3, <1>8, <2>1 DEF Extent, SegmentHeaderSize
  <2> DEFINE x == Extent(q, SegmentHeaderSize + AttachmentDirUsed(z.what[2]),
                         <<"slots">>)
  <2>3. x \in AttachmentDirParts(f, q)
    BY <1>8 DEF AttachmentDirParts, Slots
  <2>4. x.hi = q + (288 + n * 128)
    BY <1>9, <2>1
       DEF Extent, AttachmentDirUsed, SegmentHeaderSize, AttachmentEntrySize
  <2> HIDE DEF x
  <2>5. x.hi <= qe
    BY <1>6, <2>3
  <2>6. n * 128 \in Nat
    BY <2>1
  <2> QED BY <1>3, <2>1, <2>2, <2>4, <2>5, <2>6
<1>11. z \in P
  <2>1. q <= z.lo /\ z.hi <= qe
    <3>1. n * 128 \in Nat
      BY <1>10
    <3> QED BY <1>3, <1>8, <1>10, <3>1 DEF SegmentHeaderSize
  <2> QED BY <1>5, <2>1 DEF Parts
<1>12. P \subseteq f
  BY <1>5 DEF Parts
<1>13. AttachmentDirSlots(P, q) = AttachmentDirSlots(f, q)
  <2>1. ASSUME NEW x \in AttachmentDirSlots(f, q)
        PROVE  x \in AttachmentDirSlots(P, q)
    <3>1. PICK y \in f : /\ y.lo = q + SegmentHeaderSize
                         /\ y.what[1] = "count"
                         /\ \E k \in 1..y.what[2] :
                              x.lo = q + FixedHeaderSize
                                       + (k - 1) * AttachmentEntrySize
      BY DEF AttachmentDirSlots
    <3>2. y = z
      BY <1>8, <3>1 DEF IsCziFile
    <3>3. PICK k \in 1..n :
            x.lo = q + FixedHeaderSize + (k - 1) * AttachmentEntrySize
      BY <1>9, <3>1, <3>2
    <3>4. x \in f /\ x.what[1] = "entryA1" /\ x = Extent(x.lo, 128, x.what)
          /\ x.lo \in Nat
      BY DEF AttachmentDirSlots, IsCziFile, WellFormed, AttachmentEntrySize
    <3>5. x.lo = q + 288 + (k - 1) * 128 /\ x.hi = x.lo + 128
      BY <1>3, <3>3, <3>4
         DEF FixedHeaderSize, SegmentHeaderSize, AttachmentEntrySize, Extent
    <3>6. q <= x.lo /\ x.hi <= qe
      <4>1. k \in Nat /\ k >= 1 /\ k <= n
        BY <1>10
      <4>2. 0 <= (k - 1) * 128 /\ (k - 1) * 128 + 128 <= n * 128
            /\ (k - 1) * 128 \in Nat /\ n * 128 \in Nat
        BY <1>10, <4>1
      <4> QED BY <1>3, <1>10, <3>5, <4>2
    <3>7. x \in P
      BY <1>5, <3>4, <3>6 DEF Parts
    <3>8. \E w \in P : /\ w.lo = q + SegmentHeaderSize
                       /\ w.what[1] = "count"
                       /\ \E j \in 1..w.what[2] :
                            x.lo = q + FixedHeaderSize
                                     + (j - 1) * AttachmentEntrySize
      BY <1>8, <1>9, <1>11, <3>3
    <3> QED BY <1>7, <3>4, <3>7, <3>8 DEF AttachmentDirSlots
  <2>2. ASSUME NEW x \in AttachmentDirSlots(P, q)
        PROVE  x \in AttachmentDirSlots(f, q)
    BY <1>12, Zenon DEF AttachmentDirSlots, HasMagic
  <2> QED BY <2>1, <2>2
<1>14. q + SegmentHeaderSize + AttachmentDirUsed(z.what[2]) <= qe
  BY <1>3, <1>9, <1>10
     DEF AttachmentDirUsed, SegmentHeaderSize, AttachmentEntrySize
<1>15. ListsAttachments(P, att, entries)
  BY <1>1, <1>7, <1>8, <1>11, <1>13, <1>14 DEF ListsAttachments
<1> QED BY <1>1, <1>4, <1>5, <1>15 DEF ReadsAttachments

LEMMA FrameOpened ==
  ASSUME NEW f, NEW p, NEW dir, NEW q, NEW r, NEW N, Finds(f, p, dir, q, r, N),
         NEW S, OneEach(S, f, p, dir, q, N),
         NEW a \in AllocatedSize(f, p), NEW sub, sub = SegmentAt(p, a, FALSE),
         NEW list, NEW att, att \in Segments, ReadFrom(f, q, list, att),
         NEW sb, IsListOf(dir, sb),
         NEW ad, IsListOf(list, ad), NEW hdr, hdr.subBlockDirectory = p, hdr.attachmentDirectory = q,
         hdr.metadata = r
  PROVE  Frame(S, f, hdr, sub, att, sb, ad)
<1>0. /\ IsCziFile(f) /\ HasMagic(f, 0, "ZISRAWFILE") /\ LaidOut(f)
      /\ p \in HeaderField(f, "SubBlockDirectoryPosition")
      /\ dir \in SubBlkDirAt(f, p)
      /\ q \in HeaderField(f, "AttachmentDirectoryPosition")
      /\ q # 0 => HasMagic(f, q, "ZISRAWATTDIR")
      /\ r \in HeaderField(f, "MetadataPosition")
  BY DEF Finds
<1>1. /\ p \in NamedPositions(f) /\ q \in NamedPositions(f)
      /\ NamedPositions(f) \subseteq Nat /\ p \in Nat /\ q \in Nat
  BY <1>0, NamedTyped DEF NamedPositions
<1>2. /\ \A s \in S : IsSpan(f, s) /\ \A t \in S : s.lo = t.lo => s = t
      /\ HeaderSpan \in S /\ SubBlkDirSpan(f, p, dir) \in S
      /\ q # 0 => AttachmentDirSpan(f, q) \in S
  BY DEF OneEach
<1>3. a \in Nat
  BY <1>0, <1>1, AllocatedTyped
<1>4. sub.pos = p /\ sub.valid /\ sub \in Segments
      /\ SegmentEnd(sub) \in Room(f, p)
  <2>1. sub.pos = p /\ sub.valid /\ sub.allocated = a /\ sub \in Segments
    BY <1>1, <1>3 DEF SegmentAt, Segments
  <2>2. SegmentEnd(sub) = p + SegmentHeaderSize + a
    BY ONLY <1>1, <1>3, <2>1, p \in Nat, a \in Nat DEF SegmentEnd, SegmentHeaderSize
  <2> QED BY <2>1, <2>2 DEF Room
<1>5. /\ q = 0 => ~att.valid /\ att.pos = 0 /\ EntriesOf(ad) = {}
      /\ q # 0 => att.valid /\ att.pos = q /\ SegmentEnd(att) \in Room(f, q)
  <2>1. CASE q = 0
    <3>1. DOMAIN list = {}
      BY <2>1 DEF ReadFrom
    <3> QED BY <2>1, <3>1 DEF ReadFrom, NoSegment, IsListOf
  <2>2. CASE q # 0
    <3>1. PICK b \in AllocatedSize(f, q) : att = SegmentAt(q, b, FALSE)
      BY <2>2 DEF ReadFrom
    <3>2. b \in Nat
      BY <1>0, <1>1, AllocatedTyped
    <3>3. att.pos = q /\ att.valid /\ att.allocated = b
      BY <3>1 DEF SegmentAt
    <3>4. SegmentEnd(att) = q + SegmentHeaderSize + b
      BY <1>1, <3>2, <3>3 DEF SegmentEnd, SegmentHeaderSize
    <3> QED BY <2>2, <3>3, <3>4 DEF Room
  <2> QED BY <2>1, <2>2
<1>6. HeaderKept(S, f, hdr)
  BY <1>0, <1>2, HeaderFound
<1>7. Pair(sub, att) /\ SubBlkDirKept(S, f, sub, att, sb)
  BY <1>0, <1>2, <1>4, <1>5, SubBlkDirFound
<1>8. PICK d, g : d = SubBlkDirSpan(f, p, dir) /\ g = AttachmentDirSpan(f, q)
  OBVIOUS
<1>9. /\ d \in S /\ d.owner = Document /\ d.lo = p
      /\ \A end \in FreeRoom(f, p) : end <= d.hi
  BY <1>0, <1>2, <1>8, SubBlkDirSpanThere
<1>10. q # 0 => /\ g \in S /\ g.owner = Document /\ g.lo = q
                /\ LaidOutAt(f, q, AttachmentDirParts(f, q), Room(f, q))
                /\ \A end \in Room(f, q) : end <= g.hi
  BY <1>0, <1>2, <1>8, AttachmentDirSpanThere
<1>11. DirectoryRoom(S, sub)
  <2>1. PICK pe : pe = SegmentEnd(sub) /\ pe \in Room(f, p)
    BY <1>4
  <2>2. \/ /\ \A y \in NamedPositions(f) : y <= p \/ pe <= y
           /\ pe \in FreeRoom(f, p)
        \/ /\ p < q
           /\ \A y \in NamedPositions(f) \ {q} : y <= p \/ pe <= y
           /\ \A qe \in Room(f, q) : pe <= qe
    BY ONLY <1>0, <2>1, RoomsApart
  <2>3. CASE /\ \A y \in NamedPositions(f) : y <= p \/ pe <= y
             /\ pe \in FreeRoom(f, p)
    <3>1. PICK others : others = {}
      OBVIOUS
    <3>2. \E t \in S : pe <= t.hi
      BY <1>9, <2>3
    <3>3. \A y \in {p} \cup others : \E s \in S : s.owner = Document /\ s.lo = y
      BY <1>9, <3>1
    <3>4. RoomTo(f, S, p, pe, others)
      BY <1>1, <1>2, <2>3, <3>2, <3>3 DEF RoomTo
    <3> QED BY <1>4, <2>1, <3>4, DirectoryRoomFound
  <2>4. CASE /\ p < q
             /\ \A y \in NamedPositions(f) \ {q} : y <= p \/ pe <= y
             /\ \A qe \in Room(f, q) : pe <= qe
    <3>1. q # 0
      BY <1>1, <2>4
    <3>2. \E t \in S : pe <= t.hi
      <4>1. PICK qe : qe = SegmentEnd(att) /\ qe \in Room(f, q)
        BY <1>5, <3>1
      <4>2. pe <= qe /\ qe <= g.hi
        BY <1>10, <2>4, <3>1, <4>1
      <4>3. pe \in Nat /\ qe \in Nat /\ g.hi \in Nat
        BY <1>0, <1>1, <1>2, <1>10, <2>1, <3>1, <4>1, RoomFinite DEF IsSpan
      <4> QED BY <1>10, <3>1, <4>2, <4>3
    <3>3. PICK others : others = {q}
      OBVIOUS
    <3>4. \A y \in {p} \cup others : \E s \in S : s.owner = Document /\ s.lo = y
      BY <1>9, <1>10, <3>1, <3>3
    <3>5. RoomTo(f, S, p, pe, others)
      BY <1>1, <1>2, <2>4, <3>2, <3>3, <3>4 DEF RoomTo
    <3> QED BY <1>4, <2>1, <3>5, DirectoryRoomFound
  <2> QED BY <2>2, <2>3, <2>4
<1>12. DirectoryRoom(S, att)
  <2>1. CASE q = 0
    BY <1>5, <2>1 DEF DirectoryRoom
  <2>2. CASE q # 0
    <3>1. PICK qe : qe = SegmentEnd(att) /\ qe \in Room(f, q)
      BY <1>5, <2>2
    <3>2. \A y \in NamedPositions(f) : y <= q \/ qe <= y
      BY <1>10, <2>2, <3>1 DEF LaidOutAt
    <3>3. PICK others : others = {}
      OBVIOUS
    <3>4. /\ \E t \in S : qe <= t.hi
          /\ \A y \in {q} \cup others : \E s \in S : s.owner = Document /\ s.lo = y
      BY <1>10, <2>2, <3>1, <3>3
    <3>5. RoomTo(f, S, q, qe, others)
      BY <1>1, <1>2, <3>2, <3>4 DEF RoomTo
    <3> QED BY <1>5, <2>2, <3>1, <3>5, DirectoryRoomFound
  <2> QED BY <2>1, <2>2
<1>13. AttachmentDirKept(S, f, att, ad)
  <2>1. CASE q = 0
    BY <1>5, <2>1 DEF AttachmentDirKept
  <2>2. CASE q # 0
    <3>1. /\ EntriesOf(ad) = {x.what[2] : x \in AttachmentDirSlots(f, q)}
          /\ \E x \in f : x.lo = q + SegmentHeaderSize /\ x.what[1] = "count"
      BY <2>2 DEF ReadFrom, IsListOf
    <3>2. Held(S, q, SegmentEnd(att))
          /\ ReadsAttachments(f, att, EntriesOf(ad))
      BY <1>0, <1>2, <1>5, <2>2, <3>1, AttachmentDirFound
    <3> QED BY <1>5, <2>2, <3>2 DEF AttachmentDirKept
  <2> QED BY <2>1, <2>2
<1>14. sub.pos = hdr.subBlockDirectory /\ att.pos = hdr.attachmentDirectory
  BY <1>4, <1>5
<1> QED BY <1>6, <1>7, <1>11, <1>12, <1>13, <1>14 DEF Frame

LEMMA EntriesFound ==
  ASSUME NEW E, NEW dir \in Seq(E), NEW d, d = DirectoryOf(dir)
  PROVE  IsListOf(dir, d)
<1>1. /\ DOMAIN d.entries = 0 .. Len(dir) - 1
      /\ \A k \in 0 .. Len(dir) - 1 : d.entries[k] = dir[k + 1]
  BY ReadIsDirectory
<1>2. Len(dir) \in Nat /\ DOMAIN dir = 1 .. Len(dir)
  OBVIOUS
<1>3. ASSUME NEW e \in EntriesOf(d) PROVE e \in {dir[i] : i \in DOMAIN dir}
  <2>1. PICK k \in 0 .. Len(dir) - 1 : e = dir[k + 1]
    BY <1>1 DEF EntriesOf
  <2>2. k + 1 \in DOMAIN dir
    BY <1>2
  <2> QED BY <2>1, <2>2
<1>4. ASSUME NEW i \in DOMAIN dir PROVE dir[i] \in EntriesOf(d)
  <2>1. i - 1 \in 0 .. Len(dir) - 1 /\ (i - 1) + 1 = i
    BY <1>2
  <2>2. d.entries[i - 1] = dir[i]
    BY <1>1, <2>1
  <2> QED BY <1>1, <2>1, <2>2 DEF EntriesOf
<1>5. EntriesOf(d) = {dir[i] : i \in DOMAIN dir}
  BY <1>3, <1>4
<1> QED BY <1>2, <1>5 DEF IsListOf

SubBlockKeys(dir) == Found(dir, SubBlockAt)
AttachmentKeys(dir) == Found(dir, AttachmentAt)

LEMMA SubBlocksFound ==
  ASSUME NEW dir, Len(dir) \in Nat, DOMAIN dir = 1 .. Len(dir),
         NEW F, F = SubBlockKeys(dir)
  PROVE  \A k \in F :
           /\ k \in 0 .. Len(dir) - 1 /\ k + 1 \in DOMAIN dir
           /\ SubBlockAt(file, dir[k + 1].pos, dir[k + 1].id)
           /\ \A j \in F : dir[j + 1].pos = dir[k + 1].pos => j = k
<1>1. \A k \in F : /\ k \in 0 .. Len(dir) - 1
                   /\ SubBlockAt(file, dir[k + 1].pos, dir[k + 1].id)
                   /\ \A j \in DOMAIN dir \ {k + 1} : dir[j].pos # dir[k + 1].pos
  BY DEF Found, SubBlockKeys
<1>2. ASSUME NEW k \in F PROVE k \in Int /\ k + 1 \in DOMAIN dir
  <2>1. k \in 0 .. Len(dir) - 1
    BY <1>1
  <2>2. k + 1 \in 1 .. Len(dir)
    BY ONLY Len(dir) \in Nat, <2>1
  <2> QED BY <2>1, <2>2
<1>3. ASSUME NEW k \in F, NEW j \in F, dir[j + 1].pos = dir[k + 1].pos
      PROVE  j = k
  <2>1. j + 1 = k + 1
    BY <1>1, <1>2, <1>3
  <2> QED BY <1>2, <2>1
<1> QED BY <1>1, <1>2, <1>3

LEMMA AttachmentsFound ==
  ASSUME NEW dir, Len(dir) \in Nat, DOMAIN dir = 1 .. Len(dir),
         NEW F, F = AttachmentKeys(dir)
  PROVE  \A k \in F :
           /\ k \in 0 .. Len(dir) - 1 /\ k + 1 \in DOMAIN dir
           /\ AttachmentAt(file, dir[k + 1].pos, dir[k + 1].id)
           /\ \A j \in F : dir[j + 1].pos = dir[k + 1].pos => j = k
<1>1. \A k \in F : /\ k \in 0 .. Len(dir) - 1
                   /\ AttachmentAt(file, dir[k + 1].pos, dir[k + 1].id)
                   /\ \A j \in DOMAIN dir \ {k + 1} : dir[j].pos # dir[k + 1].pos
  BY DEF Found, AttachmentKeys
<1>2. ASSUME NEW k \in F PROVE k \in Int /\ k + 1 \in DOMAIN dir
  <2>1. k \in 0 .. Len(dir) - 1
    BY <1>1
  <2>2. k + 1 \in 1 .. Len(dir)
    BY ONLY Len(dir) \in Nat, <2>1
  <2> QED BY <2>1, <2>2
<1>3. ASSUME NEW k \in F, NEW j \in F, dir[j + 1].pos = dir[k + 1].pos
      PROVE  j = k
  <2>1. j + 1 = k + 1
    BY <1>1, <1>2, <1>3
  <2> QED BY <1>2, <2>1
<1> QED BY <1>1, <1>2, <1>3

LEMMA LastIsNamed ==
  ASSUME NEW f, IsCziFile(f), NEW sb, NEW ad, NEW hdr,
         IsDirectory(sb, SubBlockEntries), IsDirectory(ad, AttachmentEntries),
         EntriesOf(sb) \subseteq SubBlkDirRead(f),
         EntriesOf(ad) \subseteq AttachmentDirRead(f),
         hdr.subBlockDirectory \in HeaderField(f, "SubBlockDirectoryPosition"),
         hdr.attachmentDirectory
           \in HeaderField(f, "AttachmentDirectoryPosition"),
         hdr.metadata \in HeaderField(f, "MetadataPosition"),
         NEW last, last = DetermineNextSubBlockOffset(sb, ad, hdr)
  PROVE  /\ last \in NamedPositions(f)
         /\ hdr.subBlockDirectory <= last /\ hdr.attachmentDirectory <= last
         /\ hdr.metadata <= last
         /\ \A e \in EntriesOf(sb) \cup EntriesOf(ad) : e.pos <= last
<1> DEFINE P == {e.pos : e \in EntriesOf(sb)}
           Q == {e.pos : e \in EntriesOf(ad)}
           R == {hdr.subBlockDirectory, hdr.attachmentDirectory, hdr.metadata, 0}
           all == {e.pos : e \in EntriesOf(sb) \cup EntriesOf(ad)} \cup R
<1>1. all = (P \cup Q) \cup R /\ 0 \in all
  OBVIOUS
<1>2. IsFiniteSet(P) /\ IsFiniteSet(Q)
  BY PositionsFinite
<1>3. IsFiniteSet(R)
  BY FourParts
<1>4. all \subseteq NamedPositions(f)
  BY DEF NamedPositions
<1>5. last = CHOOSE n \in all : \A m \in all : m <= n
  BY DEF DetermineNextSubBlockOffset
<1>6. \A e \in EntriesOf(sb) \cup EntriesOf(ad) : e.pos \in all
  OBVIOUS
<1>7. hdr.subBlockDirectory \in all /\ hdr.attachmentDirectory \in all
      /\ hdr.metadata \in all
  OBVIOUS
<1> HIDE DEF P, Q, R, all
<1>8. IsFiniteSet(all) /\ all \subseteq Nat
  BY <1>1, <1>2, <1>3, <1>4, FS_Union, NamedTyped
<1>9. \E n \in all : \A m \in all : m <= n
  BY <1>1, <1>8, Greatest
<1>10. last \in all /\ \A m \in all : m <= last
  BY <1>5, <1>9
<1> QED BY <1>4, <1>6, <1>7, <1>10

LEMMA OpenedItems ==
  ASSUME NEW f, NEW S, NEW H, NEW dir, NEW att, NEW F, NEW G, NEW se, NEW ae,
         NEW keeps, NEW left,
         keeps = {SubBlock(k) : k \in F} \cup {Attachment(k) : k \in G},
         left = {dir[k + 1] : k \in F},
         \A k \in F :
           /\ se[k] = dir[k + 1] /\ StillRead(H, dir[k + 1])
           /\ SubBlockAt(f, dir[k + 1].pos, dir[k + 1].id)
           /\ HasSpan(S, SubBlock(k), dir[k + 1].pos)
           /\ Inside(S, SubBlock(k),
                     SubBlockExtents(dir[k + 1].pos, dir[k + 1].id)),
         \A k \in G :
           /\ ae[k] = att[k + 1]
           /\ AttachmentAt(f, att[k + 1].pos, att[k + 1].id)
           /\ HasSpan(S, Attachment(k), att[k + 1].pos)
           /\ Inside(S, Attachment(k),
                     AttachmentExtents(att[k + 1].pos, att[k + 1].id))
  PROVE  Items(S, H, f, Nobody, keeps, keeps, left, se, ae)
<1>1. \A k : SubBlock(k) \in keeps => k \in F
  BY KeyProperties
<1>2. \A k : Attachment(k) \in keeps => k \in G
  BY KeyProperties
<1>3. Document \notin keeps /\ TheMetadata \notin keeps /\ Nobody \notin keeps
  BY Owners
<1>4. SubBlocksStay(S, f, keeps, keeps, se)
  BY <1>1 DEF SubBlocksStay, Stays, SubBlockAt
<1>5. AttachmentsStay(S, f, keeps, keeps, ae)
  BY <1>2 DEF AttachmentsStay, Stays, AttachmentAt
<1>6. UntouchedStay(H, keeps, left, se)
  <2> SUFFICES ASSUME NEW e \in left
               PROVE  StillRead(H, e) /\ \E k : SubBlock(k) \in keeps /\ e = se[k]
    BY DEF UntouchedStay
  <2>1. PICK k \in F : e = dir[k + 1]
    OBVIOUS
  <2>2. SubBlock(k) \in keeps /\ e = se[k] /\ StillRead(H, e)
    BY <2>1
  <2> QED BY <2>2
<1> QED BY <1>3, <1>4, <1>5, <1>6 DEF Items

LEMMA LayoutReadCziStructure ==
  ASSUME TypeInv, LayoutInv, DocumentIsLaidOut, ReadCziStructure
  PROVE  LayoutInv'
<1>1. /\ op = "ReadCziStructure" /\ writes = <<>>
      /\ op' = "idle" /\ writes' = <<>> /\ phase' = "open" /\ file' = file
      /\ nextSegmentPos' = nextSegmentPos /\ known' = kept'
      /\ lastSegmentPos' =
           DetermineNextSubBlockOffset(sbBlkDirectory', attachmentDirectory',
                                       hdrSegmentData')
  BY DEF ReadCziStructure, Done, ReturnToClient
<1>2. nextSegmentPos = 0
  BY <1>1 DEF LayoutInv, Fresh, TypeInv, OpInPhase, CreateOps
<1>3. IsCziFile(file) /\ HasMagic(file, 0, "ZISRAWFILE")
  BY <1>1 DEF TypeInv, FileTyped, WritesTyped
<1>4. PICK p \in HeaderField(file, "SubBlockDirectoryPosition"),
           q \in HeaderField(file, "AttachmentDirectoryPosition"),
           r \in HeaderField(file, "MetadataPosition") :
        \E dir \in SubBlkDirAt(file, p), a \in AllocatedSize(file, p),
           att \in AttachmentDirectories(q), md \in MetadataSegments(r) :
          /\ hdrSegmentData' = [guid |-> GuidKept(file, item),
                                subBlockDirectory |-> p,
                                attachmentDirectory |-> q, metadata |-> r]
          /\ sbBlkDirectory' = DirectoryOf(dir)
          /\ subBlockDirectorySegment' = SegmentAt(p, a, FALSE)
          /\ attachmentDirectory' = DirectoryOf(att[1])
          /\ attachmentDirectorySegment' = att[2]
          /\ metadataSegment' = md
          /\ meta' = MetadataRead(md)
          /\ kept' = {SubBlock(k) : k \in Found(dir, SubBlockAt)}
                       \cup {Attachment(k) : k \in Found(att[1], AttachmentAt)}
          /\ untouched' = {dir[k + 1] : k \in Found(dir, SubBlockAt)}
  BY Zenon DEF ReadCziStructure
<1>5. PICK dir \in SubBlkDirAt(file, p), a \in AllocatedSize(file, p),
           att \in AttachmentDirectories(q), md \in MetadataSegments(r) :
        /\ hdrSegmentData' = [guid |-> GuidKept(file, item),
                              subBlockDirectory |-> p,
                              attachmentDirectory |-> q, metadata |-> r]
        /\ sbBlkDirectory' = DirectoryOf(dir)
        /\ subBlockDirectorySegment' = SegmentAt(p, a, FALSE)
        /\ attachmentDirectory' = DirectoryOf(att[1])
        /\ attachmentDirectorySegment' = att[2]
        /\ metadataSegment' = md
        /\ meta' = MetadataRead(md)
        /\ kept' = {SubBlock(k) : k \in Found(dir, SubBlockAt)}
                     \cup {Attachment(k) : k \in Found(att[1], AttachmentAt)}
        /\ untouched' = {dir[k + 1] : k \in Found(dir, SubBlockAt)}
  BY <1>4, Zenon
<1>6. PICK list, F, G : /\ list = att[1] /\ F = SubBlockKeys(dir)
                        /\ G = AttachmentKeys(list)
  OBVIOUS
<1>7. PICK sb, ad, hdr, last : /\ sb = sbBlkDirectory'
                               /\ ad = attachmentDirectory'
                               /\ hdr = hdrSegmentData'
                               /\ last = lastSegmentPos'
  OBVIOUS
<1>8. PICK keeps, left : keeps = kept' /\ left = untouched'
  OBVIOUS
<1>9. /\ sb = DirectoryOf(dir) /\ ad = DirectoryOf(list)
      /\ hdr.subBlockDirectory = p /\ hdr.attachmentDirectory = q
      /\ hdr.metadata = r
      /\ last = DetermineNextSubBlockOffset(sb, ad, hdr)
  BY <1>1, <1>5, <1>6, <1>7
<1>10. /\ keeps = {SubBlock(k) : k \in F} \cup {Attachment(k) : k \in G}
       /\ left = {dir[k + 1] : k \in F}
  BY <1>5, <1>6, <1>8 DEF SubBlockKeys, AttachmentKeys
<1>11. p \in Nat /\ r \in Nat
  BY <1>3, HeaderFieldsTyped DEF PositionsOrNone, BehindHeader
<1>12. dir \in Seq(SubBlockEntries)
  BY <1>3, SubBlkDirTyped
<1>13. /\ q # 0 => HasMagic(file, q, "ZISRAWATTDIR")
       /\ list \in Seq(AttachmentEntries)
       /\ \A i \in DOMAIN list : list[i] \in AttachmentDirRead(file)
       /\ ReadFrom(file, q, list, att[2])
  BY <1>3, <1>6, AttachmentsListed
<1>14. md.valid => /\ md.pos = r /\ HasMagic(file, r, "ZISRAWMETADATA")
                   /\ SegmentEnd(md) \in Room(file, r)
  BY <1>3, <1>11, MetadataThere
<1>15. \A i \in DOMAIN dir : dir[i] \in SubBlkDirRead(file)
  <2> SUFFICES ASSUME NEW i \in DOMAIN dir PROVE dir[i] \in SubBlkDirRead(file)
    OBVIOUS
  <2>1. dir[i] \in {dir[j] : j \in DOMAIN dir}
    OBVIOUS
  <2>2. p \in HeaderField(file, "SubBlockDirectoryPosition")
        /\ dir \in SubBlkDirAt(file, p)
    OBVIOUS
  <2> QED BY ONLY <2>1, <2>2 DEF SubBlkDirRead
<1>16. LaidOut(file)
  <2>1. CanOpen(file)
    BY <1>3, <1>13, OneAttachmentDirectory DEF CanOpen
  <2> QED BY <1>1, <2>1 DEF DocumentIsLaidOut
<1>17. \A k \in F :
         /\ k \in 0 .. Len(dir) - 1 /\ k + 1 \in DOMAIN dir
         /\ SubBlockAt(file, dir[k + 1].pos, dir[k + 1].id)
         /\ \A j \in F : dir[j + 1].pos = dir[k + 1].pos => j = k
  <2>1. Len(dir) \in Nat /\ DOMAIN dir = 1 .. Len(dir)
    BY <1>12
  <2> QED BY <1>6, <2>1, SubBlocksFound
<1>18. \A k \in G :
         /\ k \in 0 .. Len(list) - 1 /\ k + 1 \in DOMAIN list
         /\ AttachmentAt(file, list[k + 1].pos, list[k + 1].id)
         /\ \A j \in G : list[j + 1].pos = list[k + 1].pos => j = k
  <2>1. Len(list) \in Nat /\ DOMAIN list = 1 .. Len(list)
    BY <1>13
  <2> QED BY <1>6, <2>1, AttachmentsFound
<1>19. /\ IsDirectory(sb, SubBlockEntries)
       /\ \A k \in 0 .. Len(dir) - 1 : sb.entries[k] = dir[k + 1]
       /\ DOMAIN sb.entries = 0 .. Len(dir) - 1
  BY <1>9, <1>12, ReadIsDirectory
<1>20. /\ IsDirectory(ad, AttachmentEntries)
       /\ \A k \in 0 .. Len(list) - 1 : ad.entries[k] = list[k + 1]
       /\ DOMAIN ad.entries = 0 .. Len(list) - 1
  BY <1>9, <1>13, ReadIsDirectory
<1>21. EntriesOf(sb) \subseteq SubBlkDirRead(file)
  <2> SUFFICES ASSUME NEW k \in 0 .. Len(dir) - 1
               PROVE  sb.entries[k] \in SubBlkDirRead(file)
    BY <1>19 DEF EntriesOf
  <2>1. k + 1 \in DOMAIN dir
    BY <1>12
  <2> QED BY <1>15, <1>19, <2>1
<1>22. EntriesOf(ad) \subseteq AttachmentDirRead(file)
  <2> SUFFICES ASSUME NEW k \in 0 .. Len(list) - 1
               PROVE  ad.entries[k] \in AttachmentDirRead(file)
    BY <1>20 DEF EntriesOf
  <2>1. k + 1 \in DOMAIN list
    BY <1>13
  <2> QED BY <1>13, <1>20, <2>1
<1>23. /\ last \in NamedPositions(file) /\ p <= last /\ q <= last /\ r <= last
       /\ \A e \in EntriesOf(sb) \cup EntriesOf(ad) : e.pos <= last
  BY <1>3, <1>9, <1>19, <1>20, <1>21, <1>22, LastIsNamed
<1>24. PICK A, B : /\ A = SubBlockSpans(file, dir, F)
                   /\ B = AttachmentSpans(file, list, G)
  OBVIOUS
<1>25. /\ Apart(file, A, {"ZISRAWSUBBLOCK"})
       /\ \A s \in A : \E k \in F : s.lo = dir[k + 1].pos
       /\ \A k \in F :
            /\ HasSpan(A, SubBlock(k), dir[k + 1].pos)
            /\ Inside(A, SubBlock(k),
                      SubBlockExtents(dir[k + 1].pos, dir[k + 1].id))
  BY <1>3, <1>15, <1>16, <1>17, <1>24, SubBlocksApart
<1>26. /\ Apart(file, B, {"ZISRAWATTACH"})
       /\ \A s \in B : \E k \in G : s.lo = list[k + 1].pos
       /\ \A k \in G :
            /\ HasSpan(B, Attachment(k), list[k + 1].pos)
            /\ Inside(B, Attachment(k),
                      AttachmentExtents(list[k + 1].pos, list[k + 1].id))
  BY <1>3, <1>13, <1>16, <1>18, <1>24, AttachmentsApart
<1>27. \A s \in A \cup B : s.lo <= last
  <2>1. \A k \in F : dir[k + 1] \in EntriesOf(sb)
    BY <1>17, <1>19 DEF EntriesOf
  <2>2. \A k \in G : list[k + 1] \in EntriesOf(ad)
    BY <1>18, <1>20 DEF EntriesOf
  <2> QED BY <1>23, <1>25, <1>26, <2>1, <2>2
<1>28. PICK N : N = IF md.valid THEN {r} ELSE {}
  OBVIOUS
<1>29. N \subseteq {r} /\ \A n \in N : HasMagic(file, n, "ZISRAWMETADATA")
  BY <1>14, <1>28
<1>30. PICK S, H : Opened(S, H, file, last, A, B, N, dir)
                   /\ OneEach(S, file, p, dir, q, N)
  <2>1. Finds(file, p, dir, q, r, N)
    BY <1>3, <1>13, <1>16, <1>29 DEF Finds
  <2>2. UpToLast(file, last, p, q, r, A, B)
    BY <1>23, <1>25, <1>26, <1>27 DEF UpToLast
  <2> QED BY <2>1, <2>2, OpenedDocument
<1>31. /\ Ground(S, H, file, Nobody, {}, last, 0)
       /\ A \subseteq S /\ B \subseteq S
       /\ \A x \in N : \E s \in S :
            /\ s.owner = TheMetadata /\ s.lo = x
            /\ \A end \in Room(file, x) : end <= s.hi
       /\ \A k \in DOMAIN dir : StillRead(H, dir[k])
  BY <1>30 DEF Opened
<1>32. Items(S, H, file, Nobody, keeps, keeps, left, sb.entries,
             ad.entries)
  <2>1. \A k \in F :
          /\ sb.entries[k] = dir[k + 1] /\ StillRead(H, dir[k + 1])
          /\ SubBlockAt(file, dir[k + 1].pos, dir[k + 1].id)
          /\ HasSpan(S, SubBlock(k), dir[k + 1].pos)
          /\ Inside(S, SubBlock(k),
                    SubBlockExtents(dir[k + 1].pos, dir[k + 1].id))
    <3> SUFFICES ASSUME NEW k \in F
                 PROVE  /\ HasSpan(S, SubBlock(k), dir[k + 1].pos)
                        /\ Inside(S, SubBlock(k),
                                  SubBlockExtents(dir[k + 1].pos, dir[k + 1].id))
      BY <1>17, <1>19, <1>31
    <3> QED BY <1>25, <1>31, Zenon DEF HasSpan, Inside
  <2>2. \A k \in G :
          /\ ad.entries[k] = list[k + 1]
          /\ AttachmentAt(file, list[k + 1].pos, list[k + 1].id)
          /\ HasSpan(S, Attachment(k), list[k + 1].pos)
          /\ Inside(S, Attachment(k),
                    AttachmentExtents(list[k + 1].pos, list[k + 1].id))
    <3> SUFFICES ASSUME NEW k \in G
                 PROVE  /\ HasSpan(S, Attachment(k), list[k + 1].pos)
                        /\ Inside(S, Attachment(k),
                                  AttachmentExtents(list[k + 1].pos,
                                                    list[k + 1].id))
      BY <1>18, <1>20
    <3> QED BY <1>26, <1>31, Zenon DEF HasSpan, Inside
  <2> QED BY <1>10, <2>1, <2>2, OpenedItems
<1>33. MetadataStays(S, md)
  <2> SUFFICES ASSUME md.valid
               PROVE  \E s \in S : /\ s.owner = TheMetadata /\ s.lo = md.pos
                                   /\ SegmentEnd(md) <= s.hi
    BY DEF MetadataStays
  <2>1. r \in N /\ md.pos = r /\ SegmentEnd(md) \in Room(file, r)
    BY <1>14, <1>28
  <2> QED BY <1>31, <2>1
<1>34. Range(writes') = {}
  BY <1>1, NoElement
<1>35. Running(S)'
  BY <1>1 DEF Running
<1>36. Framed(S)'
  <2>1. Finds(file, p, dir, q, r, N)
    BY <1>3, <1>13, <1>16, <1>29 DEF Finds
  <2>2. PICK sub, at : sub = SegmentAt(p, a, FALSE) /\ at = att[2]
    OBVIOUS
  <2>3. IsListOf(dir, sb) /\ IsListOf(list, ad)
    BY <1>9, <1>12, <1>13, EntriesFound
  <2>4. at \in Segments
    <3>1. q \in PositionsOrNone
      BY <1>3, HeaderFieldsTyped
    <3> QED BY <1>3, <2>2, <3>1, AttachmentDirectoriesTyped, PlacedTyped
  <2>5. ReadFrom(file, q, list, at) /\ OneEach(S, file, p, dir, q, N)
    BY <1>13, <1>30, <2>2
  <2>6. Frame(S, file, hdr, sub, at, sb, ad)
    BY <1>9, <2>1, <2>2, <2>3, <2>4, <2>5, FrameOpened
  <2> QED BY <1>1, <1>5, <1>7, <2>2, <2>6 DEF Framed
<1>37. MetadataKept(S, Nobody)'
  <2>1. PICK m : m = MetadataRead(md)
    OBVIOUS
  <2>2. md.valid => \E s \in S : /\ s.owner = TheMetadata
                                 /\ \A x \in MetadataParts(file, md.pos) :
                                      s.lo <= x.lo /\ x.hi <= s.hi
    <3>1. \A n \in N : \E s \in S :
            /\ s.owner = TheMetadata /\ s.lo = n
            /\ \A x \in MetadataParts(file, n) : s.lo <= x.lo /\ x.hi <= s.hi
      BY <1>30 DEF OneEach
    <3>2. md.valid => md.pos \in N
      BY <1>14, <1>28
    <3> QED BY <3>1, <3>2
  <2>3. XmlStays(S, file, md, m)
    BY <2>1, <2>2, MetadataFound
  <2> QED BY <1>1, <1>5, <2>1, <2>3, Owners DEF MetadataKept
<1>38. Layout(S, H, Nobody)'
  <2>1. Ground(S, H, file', Nobody, Range(writes'), lastSegmentPos',
               nextSegmentPos')
    BY <1>1, <1>2, <1>7, <1>31, <1>34
  <2>2. Items(S, H, file', Nobody, known', kept', untouched',
              sbBlkDirectory'.entries, attachmentDirectory'.entries)
    BY <1>1, <1>7, <1>8, <1>32
  <2>3. MetadataStays(S, metadataSegment')
    BY <1>5, <1>33
  <2> QED BY <1>35, <1>36, <1>37, <2>1, <2>2, <2>3 DEF Layout
<1> QED BY <1>1, <1>38, Owners, LayoutHolds

LEMMA LayoutUnchanged ==
  ASSUME LayoutInv, UNCHANGED vars
  PROVE  LayoutInv'
<1>1. CASE phase = "open"
  <2>1. PICK S, H, o : o # Document /\ Layout(S, H, o)
    BY <1>1 DEF LayoutInv, LaidOutWhileOpen
  <2>2. Layout(S, H, o)'
    <3>1. Running(S)'
      <4>1. Running(S)
        BY <2>1 DEF Layout
      <4> QED BY <4>1, Zenon DEF Running, vars, directories, segments, call,
                                 client
    <3>2. Framed(S)' /\ MetadataKept(S, o)'
      BY <2>1 DEF Layout, Framed, MetadataKept, vars, opened, directories,
                  segments, call, client
    <3> QED BY <2>1, <3>1, <3>2
            DEF Layout, vars, opened, directories, segments, call, client
  <2> QED BY <1>1, <2>1, <2>2, LayoutHolds DEF vars, client
<1>2. CASE phase # "open"
  <2>1. Fresh'
    BY DEF LayoutInv, Fresh, vars, directories, segments, call, client
  <2> QED BY <1>2, <2>1, LayoutNotYet DEF vars, client
<1> QED BY <1>1, <1>2

LEMMA LayoutStep ==
  ASSUME FunctorsDeliver, TypeInv, DocumentIsLaidOut, LayoutInv, [Next]_vars
  PROVE  LayoutInv'
<1>1. CASE \/ CreateNew \/ OpenDocument \/ CreateThrows \/ Close
           \/ SubBlkDirFinished \/ AttachmentDirBegun \/ AttachmentDirFinished
           \/ Closed \/ Discard
  BY <1>1, LayoutElsewhere
<1>2. CASE CreatedNew \/ ReadCziStructure
  BY <1>2, LayoutCreatedNew, LayoutReadCziStructure
<1>3. CASE \E c \in SubBlocks : SyncAddSubBlock(c) \/ AddSubBlockRejected(c)
  BY <1>3, LayoutSyncAddSubBlock, LayoutAddRejected DEF AddSubBlockRejected
<1>4. CASE \E a \in Attachments :
             SyncAddAttachment(a) \/ AddAttachmentRejected(a)
  BY <1>4, LayoutSyncAddAttachment, LayoutAddRejected DEF AddAttachmentRejected
<1>5. CASE SubBlockAdded \/ AttachmentAdded
  BY <1>5, LayoutSubBlockAdded, LayoutAttachmentAdded
<1>6. CASE \E k \in Keys, c \in SubBlocks : ReplaceSubBlock(k, c)
  BY <1>6, LayoutReplaceSubBlock
<1>7. CASE SubBlockReplacedInplace \/ SubBlockReplacedAtEnd
  BY <1>7, LayoutSubBlockReplacedInplace, LayoutSubBlockReplacedAtEnd
<1>8. CASE \E k \in Keys, a \in Attachments : ReplaceAttachment(k, a)
  BY <1>8, LayoutReplaceAttachment
<1>9. CASE AttachmentReplacedInplace \/ AttachmentReplacedAtEnd
  BY <1>9, LayoutAttachmentReplaced
<1>10. CASE \E k \in Keys : RemoveSubBlock(k) \/ RemoveAttachment(k)
  BY <1>10, LayoutRemove
<1>11. CASE Removed
  BY <1>11, LayoutRemoved
<1>12. CASE \E m \in Metadatas : SyncWriteMetadata(m)
  BY <1>12, LayoutSyncWriteMetadata
<1>13. CASE MetadataWritten
  BY <1>13, LayoutMetadataWritten
<1>14. CASE WriteOk \/ WriteFails
  BY <1>14, LayoutWriteOk, LayoutWriteFails
<1>15. CASE UNCHANGED vars
  BY <1>15, LayoutUnchanged
<1> QED BY <1>1, <1>2, <1>3, <1>4, <1>5, <1>6, <1>7, <1>8, <1>9, <1>10,
           <1>11, <1>12, <1>13, <1>14, <1>15 DEF Next

\* In every reachable state, if the documents that were opened so far were laid
\* out, the segments of the items that the client relies on lie apart from all
\* that the call that runs may still write to.
LEMMA LayoutInvariance ==
  ASSUME FunctorsDeliver
  PROVE  Spec /\ []DocumentIsLaidOut => []LayoutInv
<1>1. Init => LayoutInv
  BY DEF Init, LayoutInv, LaidOutWhileOpen, Fresh, NoSegment
<1>2. TypeInv /\ DocumentIsLaidOut /\ LayoutInv /\ [Next]_vars => LayoutInv'
  BY LayoutStep
<1> QED BY <1>1, <1>2, TypeInvariance, PTL DEF Spec

\* As long as every document that is opened is laid out, a sub-block that was
\* found in it, added or replaced, and was not replaced or removed since, can be
\* read by its key until Close, whatever else is added, replaced, removed or
\* fails (CCziReaderWriter::ReadSubBlock against every method that writes): as
\* long as the functions of the client deliver what they announce, for else the
\* next item goes over the end of the segment.
THEOREM SubBlocksStayIntact ==
  ASSUME FunctorsDeliver
  PROVE  Spec /\ []DocumentIsLaidOut => []SubBlocksIntact
<1>1. TypeInv /\ LayoutInv => SubBlocksIntact
  BY LayoutSays
<1> QED BY <1>1, TypeInvariance, LayoutInvariance, PTL

\* The same, under the same two conditions, of the attachments that were not
\* replaced by larger ones (CCziReaderWriter::ReadAttachment).
THEOREM AttachmentsStayIntact ==
  ASSUME FunctorsDeliver
  PROVE  Spec /\ []DocumentIsLaidOut => []AttachmentsIntact
<1>1. TypeInv /\ LayoutInv => AttachmentsIntact
  BY LayoutSays
<1> QED BY <1>1, TypeInvariance, LayoutInvariance, PTL

\* As long as every document that is opened is laid out, and the functions of
\* the client deliver what they announce, a crash or a failed call before Close
\* leaves a file that still opens, and from which every sub-block that was there,
\* and was left alone, can be read: no edit reaches the file header and the
\* directories that were read, nor the segments of other items
\* (DetermineNextSubBlockOffset, EnsureNextSegmentInfo, SyncWriteMetadata).
THEOREM UntouchedIsReadable ==
  ASSUME FunctorsDeliver
  PROVE  Spec /\ []DocumentIsLaidOut => []UntouchedStayReadable
<1>1. TypeInv /\ LayoutInv => UntouchedStayReadable
  BY LayoutSays
<1> QED BY <1>1, TypeInvariance, LayoutInvariance, PTL

=============================================================================
