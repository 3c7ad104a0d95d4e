----------------------- MODULE CziWriterUtilsProofs -----------------------
(***************************************************************************)
(* What the write calls of CziWriterUtils leave in a file: where they go,  *)
(* and which extents are there when all of them have been made.            *)
(***************************************************************************)
EXTENDS CziWriterUtils, SequenceTheorems, TLAPS

IsExtent(x) == x.lo \in Nat /\ x.hi \in Nat

IsWrite(w) ==
  /\ w.pos \in Nat /\ w.len \in Nat
  /\ \A x \in w.holds : IsExtent(x)

SegmentEnd(s) == s.pos + s.allocated + SegmentHeaderSize

\* The extent will be in the file when all of `ws` have been written.
Lasting(f, ws, x) ==
  \/ x \in f /\ \A w \in ws : Survives(x, w)
  \/ \E w \in ws : /\ x \in w.holds
                   /\ \A v \in ws : v = w \/ Survives(x, v)

-----------------------------------------------------------------------------
(* Lemmas about sizes. *)

\* Aligning a size does not make it smaller.
LEMMA AlignProperties ==
  ASSUME NEW n \in Nat
  PROVE  AlignSegmentSize(n) \in Nat /\ AlignSegmentSize(n) >= n
BY DEF AlignSegmentSize, SegmentAlign

\* WriteZeroes never writes more than it is asked to, though it may be less.
LEMMA ZeroFillProperties ==
  ASSUME NEW n \in Nat
  PROVE  ZeroFillLength(n) \in Nat /\ ZeroFillLength(n) <= n
<1>1. CASE n <= ZeroChunk
  BY <1>1 DEF ZeroFillLength
<1>2. CASE n > ZeroChunk
  <2> DEFINE q == (n + 4095) \div 4096
             r == (q + 1) \div 2
  <2>1. q \in Nat /\ q >= 2 /\ 4096 * q <= n + 4095
    BY <1>2 DEF ZeroChunk
  <2>2. r \in Nat /\ 2 * r <= q + 1
    BY <2>1
  <2>3. 4096 * r \in Nat /\ 4096 * r <= n
    <3> HIDE DEF q, r
    <3>1. r <= q - 1
      BY <2>1, <2>2
    <3> QED BY <2>1, <2>2, <3>1
  <2>4. ZeroFillLength(n) = 4096 * r
    BY <1>2 DEF ZeroFillLength, ZeroChunk
  <2> QED BY <2>3, <2>4
<1> QED BY <1>1, <1>2 DEF ZeroChunk

LEMMA ProductIsNat ==
  ASSUME NEW m \in Nat, NEW n \in Nat
  PROVE  m * n \in Nat
OBVIOUS

LEMMA HeadSizes ==
  /\ EntryDVSize \in Nat
  /\ SubBlockHeadSize \in Nat /\ SubBlockHeadSize >= 288
BY SizesAreNat DEF EntryDVSize, SubBlockHeadSize, FixedHeaderSize,
                   SegmentHeaderSize

\* What is written of a part is no more than was announced.
LEMMA PartProperties ==
  ASSUME NEW c \in SubBlocks, NEW i \in 1..3
  PROVE  /\ SubBlockParts[c][i].size \in Nat
         /\ PartBytes(SubBlockParts[c][i]) \in Nat
         /\ PartBytes(SubBlockParts[c][i]) <= SubBlockParts[c][i].size
<1> DEFINE part == SubBlockParts[c][i]
<1>1. part.size \in Nat /\ part.delivered \in Nat /\ part.delivered <= part.size
  BY PartsAssumption
<1> HIDE DEF part
<1>2. part.size - part.delivered \in Nat
  BY <1>1
<1>3. /\ ZeroFillLength(part.size - part.delivered) \in Nat
      /\ ZeroFillLength(part.size - part.delivered)
           <= part.size - part.delivered
  BY <1>2, ZeroFillProperties
<1>4. PartBytes(part) \in Nat /\ PartBytes(part) <= part.size
  BY <1>1, <1>3 DEF PartBytes
<1> QED BY <1>1, <1>4 DEF part

\* The payload of a sub-block is as announced, or shorter; if it is not shorter
\* its parts are where they should be.
LEMMA PayloadProperties ==
  ASSUME NEW c \in SubBlocks
  PROVE  /\ SubBlockSize[c] \in Nat
         /\ PayloadBytes(c) \in Nat /\ PayloadBytes(c) <= SubBlockSize[c]
         /\ WrittenInFull(c) => PartsInPlace(c)
<1> DEFINE size(i) == SubBlockParts[c][i].size
           bytes(i) == PartBytes(SubBlockParts[c][i])
<1>1. \A i \in 1..3 : size(i) \in Nat /\ bytes(i) \in Nat /\ bytes(i) <= size(i)
  BY PartProperties
<1>2. /\ SubBlockSize[c] = size(1) + size(2) + size(3)
      /\ PayloadBytes(c) = bytes(1) + bytes(2) + bytes(3)
  BY DEF SubBlockSize, PayloadBytes
<1>3. PartsInPlace(c)
        <=> \A i, j \in 1..3 : i < j /\ bytes(i) < size(i) => size(j) = 0
  BY DEF PartsInPlace
<1> HIDE DEF size, bytes
<1>4. /\ 1 \in 1..3 /\ 2 \in 1..3 /\ 3 \in 1..3
      /\ \A i \in 1..3 : i = 1 \/ i = 2 \/ i = 3
  OBVIOUS
<1>5. /\ SubBlockSize[c] \in Nat
      /\ PayloadBytes(c) \in Nat /\ PayloadBytes(c) <= SubBlockSize[c]
  BY <1>1, <1>2, <1>4
<1>6. ASSUME WrittenInFull(c) PROVE PartsInPlace(c)
  <2>1. bytes(1) = size(1) /\ bytes(2) = size(2) /\ bytes(3) = size(3)
    BY <1>1, <1>2, <1>4, <1>6 DEF WrittenInFull
  <2>2. ASSUME NEW i \in 1..3 PROVE bytes(i) = size(i)
    BY <1>4, <2>1
  <2>3. ASSUME NEW i \in 1..3, NEW j \in 1..3, i < j, bytes(i) < size(i)
        PROVE  size(j) = 0
    BY <1>1, <2>2, <2>3
  <2> QED BY <1>3, <2>3
<1> QED BY <1>5, <1>6

\* Nothing is missing of a payload that is written in full.
LEMMA NoRest ==
  ASSUME NEW pos \in Nat, NEW c \in SubBlocks, WrittenInFull(c)
  PROVE  NotEmpty({SubBlockRest(pos, c)}) = {}
<1>1. SubBlockHeadSize \in Nat /\ PayloadBytes(c) \in Nat
      /\ PayloadBytes(c) = SubBlockSize[c]
  BY HeadSizes, PayloadProperties DEF WrittenInFull
<1>2. ~(SubBlockRest(pos, c).lo < SubBlockRest(pos, c).hi)
  BY <1>1 DEF SubBlockRest, Extent
<1> QED BY <1>2 DEF NotEmpty

\* The allocated sizes hold what is put into the segments.
LEMMA AllocatedSizes ==
  /\ \A c \in SubBlocks :
       /\ SubBlockAllocated(c) \in Nat
       /\ SubBlockAllocated(c) + 32 >= SubBlockHeadSize + SubBlockSize[c]
  /\ \A a \in Attachments :
       /\ AttachmentAllocated(a) \in Nat
       /\ AttachmentAllocated(a) >= 256 + AttachmentSize[a]
  /\ \A m \in Metadatas :
       /\ MetadataAllocated(m) \in Nat
       /\ MetadataAllocated(m) >= 256 + MetadataSize[m]
  /\ \A n \in Nat :
       /\ SubBlkDirAllocated(n) \in Nat
       /\ SubBlkDirAllocated(n) >= 128 + n * EntryDVSize
       /\ AttachmentDirUsed(n) \in Nat
       /\ AlignSegmentSize(AttachmentDirUsed(n)) \in Nat
       /\ AlignSegmentSize(AttachmentDirUsed(n)) >= AttachmentDirUsed(n)
<1>1. ASSUME NEW c \in SubBlocks
      PROVE  /\ SubBlockAllocated(c) \in Nat
             /\ SubBlockAllocated(c) + 32 >= SubBlockHeadSize + SubBlockSize[c]
  <2>1. SubBlockHeadSize + SubBlockSize[c] \in Nat
    BY HeadSizes, PayloadProperties
  <2> QED BY <2>1, HeadSizes, PayloadProperties, AlignProperties
          DEF SubBlockAllocated, SegmentHeaderSize
<1>2. ASSUME NEW a \in Attachments
      PROVE  /\ AttachmentAllocated(a) \in Nat
             /\ AttachmentAllocated(a) >= 256 + AttachmentSize[a]
  BY SizesAreNat, AlignProperties DEF AttachmentAllocated, AttachmentUsed
<1>3. ASSUME NEW m \in Metadatas
      PROVE  /\ MetadataAllocated(m) \in Nat
             /\ MetadataAllocated(m) >= 256 + MetadataSize[m]
  BY SizesAreNat, AlignProperties DEF MetadataAllocated
<1>4. ASSUME NEW n \in Nat
      PROVE  /\ SubBlkDirAllocated(n) \in Nat
             /\ SubBlkDirAllocated(n) >= 128 + n * EntryDVSize
             /\ AttachmentDirUsed(n) \in Nat
             /\ AlignSegmentSize(AttachmentDirUsed(n)) \in Nat
             /\ AlignSegmentSize(AttachmentDirUsed(n)) >= AttachmentDirUsed(n)
  <2>1. n * EntryDVSize \in Nat
    BY HeadSizes, ProductIsNat
  <2>2. 128 + n * EntryDVSize \in Nat
    BY <2>1
  <2>3. AttachmentDirUsed(n) \in Nat
    BY DEF AttachmentDirUsed, AttachmentEntrySize
  <2> QED BY <2>2, <2>3, AlignProperties DEF SubBlkDirAllocated
<1> QED BY <1>1, <1>2, <1>3, <1>4

-----------------------------------------------------------------------------
(* Lemmas about sequences of writes. *)

LEMMA OneElement ==
  ASSUME NEW w
  PROVE  <<w>> \in Seq(Range(<<w>>)) /\ Range(<<w>>) = {w}
<1>1. <<w>> \in Seq({w}) /\ Len(<<w>>) = 1 /\ <<w>>[1] = w
  OBVIOUS
<1>2. Range(<<w>>) = {<<w>>[i] : i \in 1..Len(<<w>>)}
  BY <1>1, RangeEquality
<1> QED BY <1>1, <1>2

LEMMA NoElement ==
  <<>> \in Seq(Range(<<>>)) /\ Range(<<>>) = {}
BY EmptySeq DEF Range

LEMMA Concatenated ==
  ASSUME NEW s, s \in Seq(Range(s)), NEW t, t \in Seq(Range(t))
  PROVE  /\ s \o t \in Seq(Range(s \o t))
         /\ Range(s \o t) = Range(s) \cup Range(t)
<1> DEFINE S == Range(s) \cup Range(t)
<1>1. s \in Seq(S) /\ t \in Seq(S)
  BY SeqMonotonic
<1>2. s \o t \in Seq(S)
  BY <1>1, ConcatProperties
<1> HIDE DEF S
<1>3. s \o t \in Seq(Range(s \o t))
  BY <1>2, SeqOfRange
<1>4. Range(s \o t) = Range(s) \cup Range(t)
  BY <1>1, RangeConcatenation
<1> QED BY <1>3, <1>4

LEMMA HeadAndTail ==
  ASSUME NEW s, s \in Seq(Range(s)), s # <<>>
  PROVE  /\ Head(s) \in Range(s)
         /\ Tail(s) \in Seq(Range(Tail(s)))
         /\ Range(Tail(s)) \subseteq Range(s)
         /\ Range(s) = {Head(s)} \cup Range(Tail(s))
<1>1. /\ Head(s) \in Range(s) /\ Tail(s) \in Seq(Range(s))
      /\ Len(Tail(s)) = Len(s) - 1
      /\ \A i \in 1..Len(Tail(s)) : Tail(s)[i] = s[i + 1]
  BY HeadTailProperties
<1>2. Tail(s) \in Seq(Range(Tail(s))) /\ Range(Tail(s)) \subseteq Range(s)
  BY <1>1, SeqOfRange, RangeOfSeq
<1>3. /\ Len(s) \in Nat \ {0} /\ Head(s) = s[1]
      /\ Range(s) = {s[i] : i \in 1..Len(s)}
      /\ Range(Tail(s)) = {Tail(s)[i] : i \in 1..Len(Tail(s))}
  <2>1. Len(s) \in Nat \ {0}
    BY EmptySeq
  <2>2. Head(s) = s[1]
    BY <2>1
  <2>3. Range(s) = {s[i] : i \in 1..Len(s)}
    BY RangeEquality
  <2>4. Range(Tail(s)) = {Tail(s)[i] : i \in 1..Len(Tail(s))}
    BY <1>1, RangeEquality
  <2> QED BY <2>1, <2>2, <2>3, <2>4
<1>4. ASSUME NEW i \in 1..Len(s)
      PROVE  s[i] \in {Head(s)} \cup Range(Tail(s))
  <2>1. CASE i = 1
    BY <1>3, <2>1
  <2>2. CASE i # 1
    <3>1. i - 1 \in 1..Len(Tail(s))
      BY <1>1, <1>3, <2>2
    <3>2. Tail(s)[i - 1] = s[(i - 1) + 1]
      BY <1>1, <3>1
    <3>3. s[i] = Tail(s)[i - 1]
      <4>1. (i - 1) + 1 = i
        OBVIOUS
      <4> QED BY <3>2, <4>1, Zenon
    <3>4. Tail(s)[i - 1] \in Range(Tail(s))
      BY <1>3, <3>1
    <3> QED BY <3>3, <3>4
  <2> QED BY <2>1, <2>2
<1> QED BY <1>1, <1>2, <1>3, <1>4

-----------------------------------------------------------------------------
(* Lemmas about the writes of a segment. *)

LEMMA ExtentTyped ==
  ASSUME NEW lo \in Nat, NEW len \in Nat, NEW what
  PROVE  IsExtent(Extent(lo, len, what))
BY DEF IsExtent, Extent

LEMMA SegmentHeaderTyped ==
  ASSUME NEW pos \in Nat, NEW id, NEW allocated
  PROVE  \A x \in SegmentHeader(pos, id, allocated) : IsExtent(x)
BY ExtentTyped DEF SegmentHeader, Magic

LEMMA PartWrites ==
  ASSUME NEW pos, NEW len, NEW holds
  PROVE  /\ WritePart(pos, len, holds) \in Seq(Range(WritePart(pos, len, holds)))
         /\ Range(WritePart(pos, len, holds)) =
              IF len > 0 THEN {Write(pos, len, holds)} ELSE {}
<1>1. CASE len > 0
  BY <1>1, OneElement DEF WritePart
<1>2. CASE ~(len > 0)
  BY <1>2, NoElement DEF WritePart
<1> QED BY <1>1, <1>2

\* What of `rest` is held by the zeroes written for it
Reached(rest, pos, count) ==
  {x \in rest : x.hi <= pos + ZeroFillLength(count)}

LEMMA RestWrites ==
  ASSUME NEW rest, NEW pos, NEW count
  PROVE  LET ws == WriteZeroesFor(rest, pos, count)
         IN  /\ ws \in Seq(Range(ws))
             /\ Range(ws) =
                  IF count > 0
                  THEN {Write(pos, ZeroFillLength(count),
                              Reached(rest, pos, count))}
                  ELSE {}
<1>1. CASE count > 0
  BY <1>1, OneElement DEF WriteZeroesFor, Reached
<1>2. CASE ~(count > 0)
  BY <1>2, NoElement DEF WriteZeroesFor
<1> QED BY <1>1, <1>2

LEMMA ZeroesFor ==
  ASSUME NEW pos, NEW count
  PROVE  WriteZeroes(pos, count) =
           IF count > 0 THEN <<Write(pos, ZeroFillLength(count), {})>> ELSE <<>>
<1>1. {x \in {} : x.hi <= pos + ZeroFillLength(count)} = {}
  OBVIOUS
<1> QED BY <1>1 DEF WriteZeroes, WriteZeroesFor

LEMMA ZeroWrites ==
  ASSUME NEW pos, NEW count
  PROVE  /\ WriteZeroes(pos, count) \in Seq(Range(WriteZeroes(pos, count)))
         /\ Range(WriteZeroes(pos, count)) =
              IF count > 0 THEN {Write(pos, ZeroFillLength(count), {})} ELSE {}
<1>1. CASE count > 0
  BY <1>1, OneElement, ZeroesFor
<1>2. CASE ~(count > 0)
  BY <1>2, NoElement, ZeroesFor
<1> QED BY <1>1, <1>2

LEMMA SegmentWrites ==
  ASSUME NEW pos \in Nat, NEW headSize \in Nat, NEW size \in Nat,
         NEW alloc \in Nat, NEW head, NEW payload, NEW rest,
         headSize + size <= alloc + SegmentHeaderSize,
         \A x \in head : IsExtent(x), \A x \in payload : IsExtent(x),
         \A x \in rest : IsExtent(x)
  PROVE  LET ws == WriteSegment(pos, headSize, head, size, payload, rest, alloc)
         IN  /\ ws \in Seq(Range(ws))
             /\ \A w \in Range(ws) :
                  /\ IsWrite(w) /\ w.pos >= pos
                  /\ w.pos + w.len <= pos + alloc + SegmentHeaderSize
<1> DEFINE w1 == Write(pos, headSize, head)
           w2 == Write(pos + headSize, size, payload)
           p  == pos + (headSize + size)
           n  == (alloc + SegmentHeaderSize) - (headSize + size)
           w3 == Write(p, ZeroFillLength(n), Reached(rest, p, n))
           s2 == WritePart(pos + headSize, size, payload)
           s3 == WriteZeroesFor(rest, p, n)
           ws == <<w1>> \o s2 \o s3
<1>1. n \in Nat /\ ZeroFillLength(n) \in Nat /\ ZeroFillLength(n) <= n
  BY ZeroFillProperties DEF SegmentHeaderSize
<1>2. <<w1>> \in Seq(Range(<<w1>>)) /\ Range(<<w1>>) = {w1}
  BY OneElement
<1>3. s2 \in Seq(Range(s2)) /\ Range(s2) \subseteq {w2}
  BY PartWrites
<1>4. s3 \in Seq(Range(s3)) /\ Range(s3) \subseteq {w3}
  BY RestWrites
<1>5. IsWrite(w1) /\ w1.pos >= pos /\ w1.pos + w1.len <= pos + alloc + SegmentHeaderSize
  BY DEF IsWrite, Write, SegmentHeaderSize
<1>6. IsWrite(w2) /\ w2.pos >= pos /\ w2.pos + w2.len <= pos + alloc + SegmentHeaderSize
  BY DEF IsWrite, Write, SegmentHeaderSize
<1>7. IsWrite(w3) /\ w3.pos >= pos /\ w3.pos + w3.len <= pos + alloc + SegmentHeaderSize
  <2> HIDE DEF n
  <2>1. n = (alloc + SegmentHeaderSize) - (headSize + size)
    BY DEF n
  <2> QED BY <1>1, <2>1 DEF IsWrite, SegmentHeaderSize, Write, Reached
<1> HIDE DEF w1, w2, w3, s2, s3
<1>8. ws \in Seq(Range(ws)) /\ Range(ws) \subseteq {w1, w2, w3}
  <2>1. /\ <<w1>> \o s2 \in Seq(Range(<<w1>> \o s2))
        /\ Range(<<w1>> \o s2) = Range(<<w1>>) \cup Range(s2)
    BY <1>2, <1>3, Concatenated
  <2>2. /\ ws \in Seq(Range(ws))
        /\ Range(ws) = Range(<<w1>> \o s2) \cup Range(s3)
    BY <2>1, <1>4, Concatenated
  <2> QED BY <2>1, <2>2, <1>2, <1>3, <1>4
<1>9. WriteSegment(pos, headSize, head, size, payload, rest, alloc) = ws
  BY DEF WriteSegment, w1, s2, s3
<1> QED BY <1>5, <1>6, <1>7, <1>8, <1>9

\* What the head and the payload hold is there when all is written.
LEMMA SegmentWritesLast ==
  ASSUME NEW pos \in Nat, NEW headSize \in Nat, NEW size \in Nat,
         NEW alloc \in Nat, NEW head, NEW payload, NEW rest,
         headSize + size <= alloc + SegmentHeaderSize,
         NEW f, NEW x, x.lo \in Nat, x.hi \in Nat,
         \/ x \in head /\ x.hi <= pos + headSize
         \/ /\ x \in payload /\ size > 0
            /\ x.lo = pos + headSize /\ x.hi = x.lo + size
  PROVE  Lasting(f, Range(WriteSegment(pos, headSize, head, size, payload,
                                       rest, alloc)), x)
<1> DEFINE w1 == Write(pos, headSize, head)
           w2 == Write(pos + headSize, size, payload)
           p  == pos + (headSize + size)
           n  == (alloc + SegmentHeaderSize) - (headSize + size)
           w3 == Write(p, ZeroFillLength(n), Reached(rest, p, n))
           s2 == WritePart(pos + headSize, size, payload)
           s3 == WriteZeroesFor(rest, p, n)
           ws == WriteSegment(pos, headSize, head, size, payload, rest, alloc)
<1>1. Range(ws) = {w1} \cup Range(s2) \cup Range(s3)
  <2>1. <<w1>> \in Seq(Range(<<w1>>)) /\ Range(<<w1>>) = {w1}
    BY OneElement
  <2>2. s2 \in Seq(Range(s2)) /\ s3 \in Seq(Range(s3))
    BY PartWrites, RestWrites
  <2>3. ws = <<w1>> \o s2 \o s3
    BY DEF WriteSegment
  <2> HIDE DEF w1, s2, s3, ws
  <2>4. /\ <<w1>> \o s2 \in Seq(Range(<<w1>> \o s2))
        /\ Range(<<w1>> \o s2) = Range(<<w1>>) \cup Range(s2)
    BY <2>1, <2>2, Concatenated
  <2>5. Range(ws) = Range(<<w1>> \o s2) \cup Range(s3)
    BY <2>2, <2>3, <2>4, Concatenated
  <2> QED BY <2>1, <2>4, <2>5
<1>2. Range(s2) = IF size > 0 THEN {w2} ELSE {}
  BY PartWrites
<1>3. Range(s3) \subseteq {w3}
  BY RestWrites
<1>4. n \in Nat /\ ZeroFillLength(n) \in Nat
  BY ZeroFillProperties DEF SegmentHeaderSize
<1>5. /\ w1.pos = pos /\ w1.len = headSize /\ w1.holds = head
      /\ w2.pos = pos + headSize /\ w2.len = size /\ w2.holds = payload
      /\ w3.pos = p /\ w3.len = ZeroFillLength(n)
  BY DEF Write
<1>6. CASE x \in head /\ x.hi <= pos + headSize
  <2>1. Survives(x, w2) /\ Survives(x, w3)
    BY <1>4, <1>5, <1>6 DEF Survives
  <2>2. x \in w1.holds
    BY <1>5, <1>6
  <2>3. w1 \in Range(ws) /\ \A v \in Range(ws) : v = w1 \/ v = w2 \/ v = w3
    BY <1>1, <1>2, <1>3
  <2> HIDE DEF w1, w2, w3, s2, s3, ws
  <2>4. Lasting(f, Range(ws), x)
    BY <2>1, <2>2, <2>3, Zenon DEF Lasting
  <2> QED BY <2>4 DEF ws
<1>7. CASE /\ x \in payload /\ size > 0
           /\ x.lo = pos + headSize /\ x.hi = x.lo + size
  <2>1. Survives(x, w1) /\ Survives(x, w3)
    BY <1>4, <1>5, <1>7 DEF Survives
  <2>2. x \in w2.holds
    BY <1>5, <1>7
  <2>3. w2 \in Range(ws) /\ \A v \in Range(ws) : v = w1 \/ v = w2 \/ v = w3
    BY <1>1, <1>2, <1>3, <1>7
  <2> HIDE DEF w1, w2, w3, s2, s3, ws
  <2>4. Lasting(f, Range(ws), x)
    BY <2>1, <2>2, <2>3, Zenon DEF Lasting
  <2> QED BY <2>4 DEF ws
<1> QED BY <1>6, <1>7

\* WriteSubBlock writes at `pos` and behind it; if it is written in full, the
\* extents a reader needs of the sub-block will be in the file, within the bytes
\* it says it has written.
LEMMA SubBlockWrites ==
  ASSUME NEW pos \in Nat, NEW c \in SubBlocks, NEW f
  PROVE  LET ws == WriteSubBlock(pos, c, SubBlockAllocated(c))
         IN  /\ ws \in Seq(Range(ws))
             /\ \A w \in Range(ws) : IsWrite(w) /\ w.pos >= pos
             /\ SubBlockBytes(c, SubBlockAllocated(c)) \in Nat
             /\ WrittenInFull(c) =>
                  \A x \in SubBlockExtents(pos, c) :
                    /\ Lasting(f, Range(ws), x)
                    /\ x.lo \in Nat /\ x.hi \in Nat /\ x.lo >= pos
                    /\ x.hi <= pos + SubBlockBytes(c, SubBlockAllocated(c))
<1> DEFINE alloc == SubBlockAllocated(c)
           head == SegmentHeader(pos, "ZISRAWSUBBLOCK", alloc)
                     \cup {SubBlockHead(pos, c)}
           pixels == SubBlockPayload(pos, c)
           payload == {x \in {pixels} : PartsInPlace(c)}
           rest == NotEmpty({SubBlockRest(pos, c)})
           size == PayloadBytes(c)
           ws == WriteSubBlock(pos, c, alloc)
           n == (alloc + SegmentHeaderSize) - (SubBlockHeadSize + size)
<1>1. /\ SubBlockHeadSize \in Nat /\ SubBlockHeadSize >= 288 /\ size \in Nat
      /\ SubBlockSize[c] \in Nat /\ size <= SubBlockSize[c]
      /\ alloc \in Nat /\ SubBlockHeadSize + size <= alloc + SegmentHeaderSize
  <2>1. /\ SubBlockHeadSize \in Nat /\ SubBlockHeadSize >= 288
        /\ size \in Nat /\ SubBlockSize[c] \in Nat /\ size <= SubBlockSize[c]
        /\ alloc \in Nat /\ alloc + 32 >= SubBlockHeadSize + SubBlockSize[c]
    BY HeadSizes, AllocatedSizes, PayloadProperties
  <2> HIDE DEF alloc, size
  <2> QED BY <2>1 DEF SegmentHeaderSize
<1>2. /\ \A x \in head : IsExtent(x) /\ x.lo >= pos
                         /\ x.hi <= pos + SubBlockHeadSize
      /\ IsExtent(pixels)
      /\ pixels.lo = pos + SubBlockHeadSize /\ pixels.hi = pixels.lo + size
  BY <1>1 DEF IsExtent, SegmentHeader, Magic, Extent, SubBlockHead,
              SubBlockPayload, SegmentHeaderSize
<1>3. \A x \in rest : IsExtent(x)
  <2>1. IsExtent(SubBlockRest(pos, c))
    BY <1>1 DEF IsExtent, SubBlockRest, Extent
  <2> QED BY <2>1 DEF NotEmpty
<1>4. ws = WriteSegment(pos, SubBlockHeadSize, head, size, payload, rest, alloc)
  BY DEF WriteSubBlock
<1>5. /\ SubBlockBytes(c, alloc) \in Nat
      /\ SubBlockBytes(c, alloc) >= SubBlockHeadSize + size
  <2>1. n \in Nat /\ ZeroFillLength(n) \in Nat
    BY <1>1, ZeroFillProperties DEF SegmentHeaderSize
  <2>2. SubBlockBytes(c, alloc) = SubBlockHeadSize + size + ZeroFillLength(n)
    BY DEF SubBlockBytes, SegmentBytes
  <2> HIDE DEF n
  <2> QED BY <1>1, <2>1, <2>2
<1>6. \A x \in payload : x = pixels
  OBVIOUS
<1>7. WrittenInFull(c) => /\ payload = {pixels}
                         /\ SubBlockExtents(pos, c) \subseteq head \cup {pixels}
                         /\ \A x \in SubBlockExtents(pos, c) : x.lo < x.hi
  <2>1. ASSUME WrittenInFull(c)
        PROVE  PartsInPlace(c) /\ rest = {}
    BY <2>1, PayloadProperties, NoRest
  <2>2. /\ \A x \in SubBlockExtents(pos, c) :
             x \in head \cup {pixels} \cup rest
      /\ \A x \in SubBlockExtents(pos, c) : x.lo < x.hi
    BY DEF SubBlockExtents, NotEmpty, SegmentHeader
  <2> QED BY <2>1, <2>2
<1> HIDE DEF ws, alloc, head, payload, pixels, rest, size
<1>8. /\ ws \in Seq(Range(ws))
      /\ \A w \in Range(ws) : IsWrite(w) /\ w.pos >= pos
  <2>1. \A x \in payload : IsExtent(x)
    BY <1>2, <1>6
  <2> QED BY <1>1, <1>2, <1>3, <1>4, <2>1, SegmentWrites
<1>9. ASSUME WrittenInFull(c), NEW x \in SubBlockExtents(pos, c)
      PROVE  /\ Lasting(f, Range(ws), x)
             /\ x.lo \in Nat /\ x.hi \in Nat /\ x.lo >= pos
             /\ x.hi <= pos + SubBlockBytes(c, alloc)
  <2>1. x.lo < x.hi /\ (x \in head \/ x = pixels) /\ payload = {pixels}
    BY <1>7, <1>9
  <2>2. CASE x \in head
    <3>1. /\ x.lo \in Nat /\ x.hi \in Nat /\ x.lo >= pos
          /\ x.hi <= pos + SubBlockHeadSize
      BY <1>2, <2>2 DEF IsExtent
    <3>2. Lasting(f, Range(ws), x)
      BY <1>1, <1>4, <2>2, <3>1, SegmentWritesLast
    <3> QED BY <1>1, <1>5, <3>1, <3>2
  <2>3. CASE x = pixels
    <3>1. /\ x.lo \in Nat /\ x.hi \in Nat /\ x.lo = pos + SubBlockHeadSize
          /\ x.hi = x.lo + size /\ size > 0 /\ x \in payload
      BY <1>1, <1>2, <2>1, <2>3 DEF IsExtent
    <3>2. Lasting(f, Range(ws), x)
      BY <1>1, <1>4, <3>1, SegmentWritesLast
    <3> QED BY <1>1, <1>5, <3>1, <3>2
  <2> QED BY <2>1, <2>2, <2>3
<1> QED BY <1>5, <1>8, <1>9 DEF ws, alloc

\* The same of WriteAttachment
LEMMA AttachmentWrites ==
  ASSUME NEW pos \in Nat, NEW a \in Attachments, NEW f
  PROVE  LET ws == WriteAttachment(pos, a, AttachmentAllocated(a))
         IN  /\ ws \in Seq(Range(ws))
             /\ \A w \in Range(ws) : IsWrite(w) /\ w.pos >= pos
             /\ AttachmentBytes(a, AttachmentAllocated(a)) \in Nat
             /\ \A x \in AttachmentExtents(pos, a) :
                  /\ Lasting(f, Range(ws), x)
                  /\ x.lo \in Nat /\ x.hi \in Nat /\ x.lo >= pos
                  /\ x.hi <= pos + AttachmentBytes(a, AttachmentAllocated(a))
<1> DEFINE alloc == AttachmentAllocated(a)
           head == SegmentHeader(pos, "ZISRAWATTACH", alloc)
                     \cup {AttachmentHead(pos, a)}
           payload == AttachmentPayload(pos, a)
           size == AttachmentSize[a]
           ws == WriteAttachment(pos, a, alloc)
           n == (alloc + SegmentHeaderSize) - (FixedHeaderSize + size)
<1>1. /\ FixedHeaderSize = 288 /\ size \in Nat
      /\ alloc \in Nat /\ FixedHeaderSize + size <= alloc + SegmentHeaderSize
  BY AllocatedSizes, SizesAreNat DEF SegmentHeaderSize, FixedHeaderSize
<1>2. /\ \A x \in head : IsExtent(x) /\ x.lo >= pos
                         /\ x.hi <= pos + FixedHeaderSize
      /\ IsExtent(payload)
      /\ payload.lo = pos + FixedHeaderSize /\ payload.hi = payload.lo + size
  BY <1>1 DEF IsExtent, SegmentHeader, Magic, Extent, AttachmentHead,
              AttachmentPayload, SegmentHeaderSize
<1>3. ws = WriteSegment(pos, FixedHeaderSize, head, size, {payload}, {}, alloc)
  BY DEF WriteAttachment
<1>4. /\ AttachmentBytes(a, alloc) \in Nat
      /\ AttachmentBytes(a, alloc) >= FixedHeaderSize + size
  <2>1. n \in Nat /\ ZeroFillLength(n) \in Nat
    BY <1>1, ZeroFillProperties DEF SegmentHeaderSize
  <2>2. AttachmentBytes(a, alloc) = FixedHeaderSize + size + ZeroFillLength(n)
    BY DEF AttachmentBytes, SegmentBytes
  <2> HIDE DEF n
  <2> QED BY <1>1, <2>1, <2>2
<1> HIDE DEF ws, alloc, head, payload, size
<1>5. /\ ws \in Seq(Range(ws))
      /\ \A w \in Range(ws) : IsWrite(w) /\ w.pos >= pos
  BY <1>1, <1>2, <1>3, SegmentWrites
<1>6. ASSUME NEW x \in AttachmentExtents(pos, a)
      PROVE  /\ Lasting(f, Range(ws), x)
             /\ x.lo \in Nat /\ x.hi \in Nat /\ x.lo >= pos
             /\ x.hi <= pos + AttachmentBytes(a, alloc)
  <2>1. x.lo < x.hi /\ (x \in head \/ x = payload)
    BY DEF AttachmentExtents, NotEmpty, head, payload, SegmentHeader
  <2>2. CASE x \in head
    <3>1. /\ x.lo \in Nat /\ x.hi \in Nat /\ x.lo >= pos
          /\ x.hi <= pos + FixedHeaderSize
      BY <1>2, <2>2 DEF IsExtent
    <3>2. Lasting(f, Range(ws), x)
      BY <1>1, <1>3, <2>2, <3>1, SegmentWritesLast
    <3> QED BY <1>1, <1>4, <3>1, <3>2
  <2>3. CASE x = payload
    <3>1. /\ x.lo \in Nat /\ x.hi \in Nat /\ x.lo = pos + FixedHeaderSize
          /\ x.hi = x.lo + size /\ size > 0
      BY <1>1, <1>2, <2>1, <2>3 DEF IsExtent
    <3>2. FixedHeaderSize \in Nat
      BY <1>1
    <3>3. Lasting(f, Range(WriteSegment(pos, FixedHeaderSize, head, size,
                                        {payload}, {}, alloc)), x)
      BY <1>1, <2>3, <3>1, <3>2, SegmentWritesLast
    <3> QED BY <1>1, <1>3, <1>4, <3>1, <3>3
  <2> QED BY <2>1, <2>2, <2>3
<1> QED BY <1>4, <1>5, <1>6 DEF ws, alloc

\* A segment that is written again, or moved to the end of the file: its
\* writes stay in the area of the existing segment, or go to `newPos`.
ConfinedTo(existing, newPos, w) ==
  \/ w.pos >= newPos
  \/ /\ existing.valid
     /\ w.pos >= existing.pos /\ w.pos + w.len <= SegmentEnd(existing)

LEMMA ReplacedWrites ==
  ASSUME NEW existing \in Segments, NEW needed \in Nat, NEW newPos
  PROVE  LET ws == MarkReplaced(existing, needed)
         IN  /\ ws \in Seq(Range(ws))
             /\ \A w \in Range(ws) :
                  IsWrite(w) /\ ConfinedTo(existing, newPos, w)
<1> DEFINE w == Write(existing.pos, 16, {Magic(existing.pos, "DELETED")})
           ws == MarkReplaced(existing, needed)
<1>1. CASE ~FitsInto(existing, needed) /\ existing.valid /\ ~existing.deleted
  <2>1. ws = <<w>>
    BY <1>1 DEF MarkReplaced, WriteDeletedSegment
  <2>2. IsWrite(w) /\ w.pos = existing.pos /\ w.len = 16
    BY DEF IsWrite, Write, Magic, Extent, IsExtent, Segments
  <2>3. ConfinedTo(existing, newPos, w)
    BY <1>1, <2>2 DEF ConfinedTo, SegmentEnd, SegmentHeaderSize, Segments
  <2> HIDE DEF w, ws
  <2>4. ws \in Seq(Range(ws)) /\ Range(ws) = {w}
    BY <2>1, OneElement
  <2> QED BY <2>2, <2>3, <2>4 DEF ws
<1>2. CASE ~(~FitsInto(existing, needed) /\ existing.valid /\ ~existing.deleted)
  <2>1. ws = <<>>
    BY <1>2 DEF MarkReplaced
  <2> QED BY <2>1, NoElement
<1> QED BY <1>1, <1>2

LEMMA PlacementProperties ==
  ASSUME NEW existing \in Segments, NEW needed \in Nat, NEW allocated \in Nat,
         NEW newPos \in Nat, allocated >= needed
  PROVE  LET at == Placement(existing, needed, allocated, newPos)
         IN  /\ at.pos \in Nat /\ at.allocated \in Nat
             /\ at.allocated >= needed
             /\ \/ at.pos = newPos
                \/ /\ existing.valid /\ at.pos = existing.pos
                   /\ at.allocated = existing.allocated
BY DEF Placement, FitsInto, Segments

\* What is written within the place chosen for a segment is confined.
LEMMA WithinPlace ==
  ASSUME NEW existing \in Segments, NEW newPos \in Nat, NEW at, NEW w,
         \/ at.pos = newPos
         \/ /\ existing.valid /\ at.pos = existing.pos
            /\ at.allocated = existing.allocated,
         w.pos >= at.pos,
         w.pos + w.len <= at.pos + at.allocated + SegmentHeaderSize
  PROVE  ConfinedTo(existing, newPos, w)
BY DEF ConfinedTo, SegmentEnd

InPlace(existing, newPos, pos, allocated) ==
  \/ pos = newPos
  \/ existing.valid /\ pos = existing.pos /\ allocated = existing.allocated

LEMMA PlacedWrite ==
  ASSUME NEW existing \in Segments, NEW newPos \in Nat,
         NEW pos \in Nat, NEW allocated \in Nat,
         InPlace(existing, newPos, pos, allocated),
         NEW start \in Nat, NEW len \in Nat, NEW holds,
         \A x \in holds : IsExtent(x),
         start >= pos, start + len <= pos + allocated + SegmentHeaderSize
  PROVE  /\ IsWrite(Write(start, len, holds))
         /\ ConfinedTo(existing, newPos, Write(start, len, holds))
BY DEF Write, IsWrite, InPlace, ConfinedTo, SegmentEnd

LEMMA MetadataWrites ==
  ASSUME NEW existing \in Segments, NEW m \in Metadatas, NEW newPos \in Nat
  PROVE  LET ws == WriteMetadata(existing, m, newPos)
         IN  /\ ws \in Seq(Range(ws))
             /\ \A w \in Range(ws) :
                  IsWrite(w) /\ ConfinedTo(existing, newPos, w)
<1> DEFINE needed == MetadataAllocated(m)
           at == MetadataPlace(existing, m, newPos)
           head == SegmentHeader(at.pos, "ZISRAWMETADATA", at.allocated)
                     \cup {MetadataHead(at.pos, m)}
           payload == MetadataPayload(at.pos, m)
           size == MetadataSize[m]
           ws1 == MarkReplaced(existing, needed)
           ws2 == WriteSegment(at.pos, FixedHeaderSize, head, size, {payload},
                               {}, at.allocated)
<1>1. /\ needed \in Nat /\ needed >= 256 + size /\ size \in Nat
      /\ FixedHeaderSize = 288 /\ SegmentHeaderSize = 32
  BY AllocatedSizes, SizesAreNat DEF FixedHeaderSize, SegmentHeaderSize
<1>2. /\ at.pos \in Nat /\ at.allocated \in Nat /\ at.allocated >= needed
      /\ \/ at.pos = newPos
         \/ /\ existing.valid /\ at.pos = existing.pos
            /\ at.allocated = existing.allocated
  BY <1>1, PlacementProperties DEF MetadataPlace
<1>3. (\A x \in head : IsExtent(x)) /\ IsExtent(payload)
  BY <1>1, <1>2 DEF IsExtent, SegmentHeader, Magic, Extent, MetadataHead,
                    MetadataPayload
<1>4. WriteMetadata(existing, m, newPos) = ws1 \o ws2
  BY DEF WriteMetadata
<1>5. /\ ws1 \in Seq(Range(ws1))
      /\ \A w \in Range(ws1) : IsWrite(w) /\ ConfinedTo(existing, newPos, w)
  BY <1>1, ReplacedWrites
<1> HIDE DEF needed, at, head, payload, size, ws1, ws2
<1>6. /\ ws2 \in Seq(Range(ws2))
      /\ \A w \in Range(ws2) :
           /\ IsWrite(w) /\ w.pos >= at.pos
           /\ w.pos + w.len <= at.pos + at.allocated + SegmentHeaderSize
  <2> DEFINE pos == at.pos
             alloc == at.allocated
  <2>1. /\ pos \in Nat /\ alloc \in Nat /\ alloc >= needed
        /\ FixedHeaderSize \in Nat
    BY <1>1, <1>2
  <2>2. ws2 = WriteSegment(pos, FixedHeaderSize, head, size, {payload}, {},
                           alloc)
    BY DEF ws2
  <2> HIDE DEF pos, alloc
  <2>3. FixedHeaderSize + size <= alloc + SegmentHeaderSize
    BY <1>1, <2>1
  <2>4. /\ ws2 \in Seq(Range(ws2))
        /\ \A w \in Range(ws2) :
             /\ IsWrite(w) /\ w.pos >= pos
             /\ w.pos + w.len <= pos + alloc + SegmentHeaderSize
    BY <1>1, <1>3, <2>1, <2>2, <2>3, SegmentWrites
  <2> QED BY <2>4 DEF pos, alloc
<1>7. ASSUME NEW w \in Range(ws2)
      PROVE  IsWrite(w) /\ ConfinedTo(existing, newPos, w)
  BY <1>2, <1>6, <1>7, WithinPlace
<1>8. /\ ws1 \o ws2 \in Seq(Range(ws1 \o ws2))
      /\ Range(ws1 \o ws2) = Range(ws1) \cup Range(ws2)
  BY <1>5, <1>6, Concatenated
<1> QED BY <1>4, <1>5, <1>7, <1>8

LEMMA SubBlkDirWrites ==
  ASSUME NEW existing \in Segments, NEW newPos \in Nat,
         NEW dir, Len(dir) \in Nat
  PROVE  LET ws == WriteSubBlkDirectory(existing, dir, newPos)
         IN  /\ ws \in Seq(Range(ws))
             /\ \A w \in Range(ws) :
                  IsWrite(w) /\ ConfinedTo(existing, newPos, w)
<1> DEFINE needed == SubBlkDirAllocated(Len(dir))
           at == SubBlkDirPlace(existing, dir, newPos)
           written == SubBlkDirHeaderSize + Len(dir) * EntryDVSize
           segment == SegmentHeader(at.pos, "ZISRAWDIRECTORY", at.allocated)
                        \cup SubBlkDirExtents(at.pos, dir)
           w2 == Write(at.pos, written, segment)
           n == (at.allocated + SegmentHeaderSize) - written
           w3 == Write(at.pos + written, ZeroFillLength(n), {})
           ws1 == MarkReplaced(existing, needed)
           ws3 == WriteZeroes(at.pos + written, n)
<1>1. /\ needed \in Nat /\ Len(dir) * EntryDVSize \in Nat
      /\ needed >= 128 + Len(dir) * EntryDVSize
      /\ SubBlkDirHeaderSize = 160 /\ SegmentHeaderSize = 32
  BY AllocatedSizes, HeadSizes, ProductIsNat
     DEF SubBlkDirHeaderSize, SegmentHeaderSize
<1>2. /\ at.pos \in Nat /\ at.allocated \in Nat /\ at.allocated >= needed
      /\ \/ at.pos = newPos
         \/ /\ existing.valid /\ at.pos = existing.pos
            /\ at.allocated = existing.allocated
  <2>1. at = Placement(existing, needed, needed, newPos)
    BY DEF SubBlkDirPlace
  <2> HIDE DEF at, needed
  <2>2. needed \in Nat
    BY <1>1
  <2> QED BY <2>1, <2>2 DEF Placement, FitsInto, Segments
<1>3. WriteSubBlkDirectory(existing, dir, newPos) = ws1 \o (<<w2>> \o ws3)
  BY DEF WriteSubBlkDirectory
<1>4. /\ ws1 \in Seq(Range(ws1))
      /\ \A w \in Range(ws1) : IsWrite(w) /\ ConfinedTo(existing, newPos, w)
  BY <1>1, ReplacedWrites
<1>5. \A x \in segment : IsExtent(x)
  <2> HIDE DEF at
  <2>1. at.pos + SubBlkDirHeaderSize \in Nat
    BY <1>1, <1>2
  <2>2. IsExtent(SubBlkDirEntries(at.pos, dir))
    BY <1>1, <2>1, ExtentTyped DEF SubBlkDirEntries
  <2>3. IsExtent(SubBlkDirCount(at.pos, Len(dir)))
    BY <1>1, <1>2, ExtentTyped DEF SubBlkDirCount, SegmentHeaderSize
  <2>4. \A x \in SubBlkDirExtents(at.pos, dir) : IsExtent(x)
    BY <2>2, <2>3 DEF SubBlkDirExtents, NotEmpty
  <2> QED BY <1>2, <2>4, SegmentHeaderTyped
<1>6. <<w2>> \in Seq(Range(<<w2>>)) /\ Range(<<w2>>) = {w2}
  BY OneElement
<1>7. ws3 \in Seq(Range(ws3)) /\ Range(ws3) \subseteq {w3}
  BY ZeroWrites
<1>8. written = 160 + Len(dir) * EntryDVSize /\ n = (at.allocated + 32) - written
  <2> HIDE DEF at
  <2>1. written = 160 + Len(dir) * EntryDVSize
    BY <1>1
  <2> HIDE DEF written
  <2> QED BY <1>1, <2>1
<1> DEFINE pos == at.pos
           alloc == at.allocated
           z == ZeroFillLength(n)
<1> HIDE DEF needed, at, written, segment, n, ws1, ws3
<1>9. /\ pos \in Nat /\ alloc \in Nat /\ alloc >= needed
      /\ InPlace(existing, newPos, pos, alloc)
      /\ w2 = Write(pos, written, segment)
      /\ w3 = Write(pos + written, z, {})
      /\ n = (alloc + 32) - written
  BY <1>2, <1>8 DEF InPlace
<1> HIDE DEF pos, alloc, w2, w3
<1>10. /\ written \in Nat /\ written <= alloc + 32
       /\ n \in Nat /\ written + n = alloc + 32
  <2> DEFINE used == Len(dir) * EntryDVSize
  <2>1. /\ used \in Nat /\ written = 160 + used
        /\ needed \in Nat /\ needed >= 128 + used
    BY <1>1, <1>8
  <2> HIDE DEF used
  <2>2. written \in Nat /\ written <= alloc + 32
    BY <1>9, <2>1
  <2> QED BY <1>9, <2>2
<1>11. /\ IsWrite(w2) /\ ConfinedTo(existing, newPos, w2)
       /\ IsWrite(w3) /\ ConfinedTo(existing, newPos, w3)
  <2>1. z \in Nat /\ z <= n
    BY <1>10, ZeroFillProperties
  <2> HIDE DEF z
  <2>2. pos >= pos /\ pos + written <= pos + alloc + SegmentHeaderSize
    BY <1>1, <1>9, <1>10
  <2>3. IsWrite(w2) /\ ConfinedTo(existing, newPos, w2)
    BY <1>5, <1>9, <1>10, <2>2, PlacedWrite
  <2> DEFINE start == pos + written
  <2>4. start \in Nat /\ start >= pos /\ w3 = Write(start, z, {})
    BY <1>9, <1>10
  <2>5. start + z <= pos + alloc + SegmentHeaderSize
    BY <1>1, <1>9, <1>10, <2>1
  <2> HIDE DEF start
  <2>6. IsWrite(w3) /\ ConfinedTo(existing, newPos, w3)
    BY <1>9, <2>1, <2>4, <2>5, PlacedWrite
  <2> QED BY <2>3, <2>6
<1>12. /\ <<w2>> \o ws3 \in Seq(Range(<<w2>> \o ws3))
       /\ Range(<<w2>> \o ws3) = Range(<<w2>>) \cup Range(ws3)
  BY <1>6, <1>7, Concatenated
<1>13. /\ ws1 \o (<<w2>> \o ws3) \in Seq(Range(ws1 \o (<<w2>> \o ws3)))
       /\ Range(ws1 \o (<<w2>> \o ws3)) = Range(ws1) \cup Range(<<w2>> \o ws3)
  BY <1>4, <1>12, Concatenated
<1> QED BY <1>3, <1>4, <1>6, <1>7, <1>11, <1>12, <1>13

\* In particular, the zeroes that are written at the wrong place stay within
\* the directory's own segment.
LEMMA AttachmentDirWrites ==
  ASSUME NEW existing \in Segments, NEW newPos \in Nat,
         NEW dir, Len(dir) \in Nat, DOMAIN dir = 1..Len(dir)
  PROVE  LET ws == WriteAttachmentDirectory(existing, dir, newPos)
         IN  /\ ws \in Seq(Range(ws))
             /\ \A w \in Range(ws) :
                  IsWrite(w) /\ ConfinedTo(existing, newPos, w)
<1> DEFINE needed == AttachmentDirUsed(Len(dir))
           at == AttachmentDirPlace(existing, dir, newPos)
           entries == Len(dir) * AttachmentEntrySize
           segment == at.allocated + SegmentHeaderSize
           h2 == SegmentHeader(at.pos, "ZISRAWATTDIR", at.allocated)
                   \cup {AttachmentDirCount(at.pos, Len(dir))}
           h3 == {AttachmentDirEntry(at.pos, k, dir[k]) : k \in DOMAIN dir}
           w2 == Write(at.pos, FixedHeaderSize, h2)
           w3 == Write(at.pos + FixedHeaderSize, entries, h3)
           n == segment - entries
           w4 == Write(at.pos + entries, ZeroFillLength(n), {})
           ws1 == MarkReplaced(existing, needed)
           ws4 == IF FixedHeaderSize + entries < segment
                  THEN WriteZeroes(at.pos + entries, n)
                  ELSE <<>>
<1>1. /\ needed \in Nat /\ needed = 256 + entries /\ entries \in Nat
      /\ AlignSegmentSize(needed) \in Nat /\ AlignSegmentSize(needed) >= needed
      /\ FixedHeaderSize = 288 /\ SegmentHeaderSize = 32
  <2>1. /\ needed \in Nat
        /\ AlignSegmentSize(needed) \in Nat /\ AlignSegmentSize(needed) >= needed
    BY AllocatedSizes
  <2>2. needed = 256 + entries
    BY DEF AttachmentDirUsed
  <2>3. entries \in Nat
    BY DEF AttachmentEntrySize
  <2> QED BY <2>1, <2>2, <2>3 DEF FixedHeaderSize, SegmentHeaderSize
<1>2. /\ at.pos \in Nat /\ at.allocated \in Nat /\ at.allocated >= needed
      /\ \/ at.pos = newPos
         \/ /\ existing.valid /\ at.pos = existing.pos
            /\ at.allocated = existing.allocated
  BY <1>1, PlacementProperties DEF AttachmentDirPlace
<1>3. WriteAttachmentDirectory(existing, dir, newPos) =
        ws1 \o <<w2>> \o <<w3>> \o ws4
  BY DEF WriteAttachmentDirectory
<1>4. /\ ws1 \in Seq(Range(ws1))
      /\ \A w \in Range(ws1) : IsWrite(w) /\ ConfinedTo(existing, newPos, w)
  BY <1>1, ReplacedWrites
<1>5. \A x \in h2 : IsExtent(x)
  <2> HIDE DEF at
  <2>1. at.pos + SegmentHeaderSize \in Nat
    BY <1>1, <1>2
  <2>2. IsExtent(AttachmentDirCount(at.pos, Len(dir)))
    BY <2>1, ExtentTyped DEF AttachmentDirCount
  <2> QED BY <1>2, <2>2, SegmentHeaderTyped
<1>6. \A x \in h3 : IsExtent(x)
  <2> HIDE DEF at
  <2>1. ASSUME NEW k \in 1..Len(dir)
        PROVE  IsExtent(AttachmentDirEntry(at.pos, k, dir[k]))
    <3>1. at.pos + FixedHeaderSize + (k - 1) * AttachmentEntrySize \in Nat
      BY <1>1, <1>2 DEF AttachmentEntrySize
    <3> QED BY <3>1, ExtentTyped DEF AttachmentDirEntry, AttachmentEntrySize
  <2> QED BY <2>1
<1>8. /\ <<w2>> \in Seq(Range(<<w2>>)) /\ Range(<<w2>>) = {w2}
      /\ <<w3>> \in Seq(Range(<<w3>>)) /\ Range(<<w3>>) = {w3}
  BY OneElement
<1>9. ws4 \in Seq(Range(ws4)) /\ Range(ws4) \subseteq {w4}
  BY ZeroWrites, NoElement
<1>10. n = (at.allocated + 32) - entries
  BY <1>1
<1> DEFINE pos == at.pos
           alloc == at.allocated
           z == ZeroFillLength(n)
<1> HIDE DEF needed, at, entries, segment, h2, h3, n, ws1, ws4
<1>11. /\ pos \in Nat /\ alloc \in Nat /\ alloc >= needed
       /\ InPlace(existing, newPos, pos, alloc)
       /\ w2 = Write(pos, FixedHeaderSize, h2)
       /\ w3 = Write(pos + FixedHeaderSize, entries, h3)
       /\ w4 = Write(pos + entries, z, {})
       /\ n = (alloc + 32) - entries
  BY <1>2, <1>10 DEF InPlace
<1> HIDE DEF pos, alloc, w2, w3, w4
<1>12. n \in Nat /\ entries + n = alloc + 32
  BY <1>1, <1>11
<1>13. IsWrite(w2) /\ ConfinedTo(existing, newPos, w2)
  <2>1. /\ FixedHeaderSize \in Nat /\ pos >= pos
        /\ pos + FixedHeaderSize <= pos + alloc + SegmentHeaderSize
    BY <1>1, <1>11
  <2> QED BY <1>5, <1>11, <2>1, PlacedWrite
<1>14. IsWrite(w3) /\ ConfinedTo(existing, newPos, w3)
  <2> DEFINE start == pos + FixedHeaderSize
  <2>1. start \in Nat /\ start >= pos /\ w3 = Write(start, entries, h3)
    BY <1>1, <1>11
  <2>2. start + entries <= pos + alloc + SegmentHeaderSize
    BY <1>1, <1>11
  <2> HIDE DEF start
  <2> QED BY <1>1, <1>6, <1>11, <2>1, <2>2, PlacedWrite
<1>15. IsWrite(w4) /\ ConfinedTo(existing, newPos, w4)
  <2> DEFINE start == pos + entries
  <2>1. z \in Nat /\ z <= n
    BY <1>12, ZeroFillProperties
  <2> HIDE DEF z
  <2>2. start \in Nat /\ start >= pos /\ w4 = Write(start, z, {})
    BY <1>1, <1>11
  <2>3. start + z <= pos + alloc + SegmentHeaderSize
    BY <1>1, <1>11, <1>12, <2>1
  <2> HIDE DEF start
  <2>4. \A x \in {} : IsExtent(x)
    OBVIOUS
  <2>5. /\ IsWrite(Write(start, z, {}))
        /\ ConfinedTo(existing, newPos, Write(start, z, {}))
    BY <1>11, <2>1, <2>2, <2>3, <2>4, PlacedWrite
  <2> QED BY <2>2, <2>5
<1> DEFINE ws12 == ws1 \o <<w2>>
           ws13 == ws12 \o <<w3>>
<1>16. ws12 \in Seq(Range(ws12)) /\ Range(ws12) = Range(ws1) \cup {w2}
  BY <1>4, <1>8, Concatenated
<1> HIDE DEF ws12
<1>17. ws13 \in Seq(Range(ws13)) /\ Range(ws13) = Range(ws12) \cup {w3}
  <2>1. /\ ws12 \in Seq(Range(ws12)) /\ <<w3>> \in Seq(Range(<<w3>>))
        /\ Range(<<w3>>) = {w3}
    BY <1>8, <1>16
  <2>2. /\ ws12 \o <<w3>> \in Seq(Range(ws12 \o <<w3>>))
        /\ Range(ws12 \o <<w3>>) = Range(ws12) \cup Range(<<w3>>)
    BY <2>1, Concatenated
  <2> QED BY <2>1, <2>2, Zenon
<1> HIDE DEF ws13
<1>18. /\ ws13 \o ws4 \in Seq(Range(ws13 \o ws4))
       /\ Range(ws13 \o ws4) = Range(ws13) \cup Range(ws4)
  BY <1>9, <1>17, Concatenated
<1>19. WriteAttachmentDirectory(existing, dir, newPos) = ws13 \o ws4
  BY <1>3 DEF ws12, ws13
<1> QED BY <1>4, <1>9, <1>13, <1>14, <1>15, <1>16, <1>17, <1>18, <1>19

\* Where a segment goes that is written by Close or SyncWriteMetadata
Placed(existing, newPos, at) ==
  /\ at.pos \in Nat /\ at.allocated \in Nat
  /\ \/ at.pos = newPos
     \/ /\ existing.valid /\ at.pos = existing.pos
        /\ at.allocated = existing.allocated

LEMMA Places ==
  ASSUME NEW existing \in Segments, NEW newPos \in Nat
  PROVE  /\ \A m \in Metadatas :
              Placed(existing, newPos, MetadataPlace(existing, m, newPos))
         /\ \A dir : Len(dir) \in Nat =>
              /\ Placed(existing, newPos, SubBlkDirPlace(existing, dir, newPos))
              /\ Placed(existing, newPos,
                        AttachmentDirPlace(existing, dir, newPos))
<1>1. ASSUME NEW m \in Metadatas
      PROVE  Placed(existing, newPos, MetadataPlace(existing, m, newPos))
  <2> DEFINE n == MetadataAllocated(m)
  <2>1. n \in Nat /\ n >= n
    BY AllocatedSizes
  <2> HIDE DEF n
  <2>2. Placed(existing, newPos, Placement(existing, n, n, newPos))
    BY <2>1, PlacementProperties DEF Placed
  <2> QED BY <2>2 DEF MetadataPlace, n
<1>2. ASSUME NEW dir, Len(dir) \in Nat
      PROVE  /\ Placed(existing, newPos, SubBlkDirPlace(existing, dir, newPos))
             /\ Placed(existing, newPos,
                       AttachmentDirPlace(existing, dir, newPos))
  <2>1. Placed(existing, newPos, SubBlkDirPlace(existing, dir, newPos))
    <3> DEFINE n == SubBlkDirAllocated(Len(dir))
    <3>1. n \in Nat /\ n >= n
      BY <1>2, AllocatedSizes
    <3> HIDE DEF n
    <3>2. Placed(existing, newPos, Placement(existing, n, n, newPos))
      BY <3>1, PlacementProperties DEF Placed
    <3> QED BY <3>2 DEF SubBlkDirPlace, n
  <2>2. Placed(existing, newPos, AttachmentDirPlace(existing, dir, newPos))
    BY <1>2, AllocatedSizes, PlacementProperties DEF AttachmentDirPlace, Placed
  <2> QED BY <2>1, <2>2
<1> QED BY <1>1, <1>2

LEMMA HeaderWrites ==
  ASSUME NEW sbDir, NEW md, NEW attDir
  PROVE  LET ws == WriteFileHeader(sbDir, md, attDir)
         IN  /\ ws \in Seq(Range(ws))
             /\ \A w \in Range(ws) :
                  /\ IsWrite(w)
                  /\ w.pos = 0 /\ w.len = FileHeaderSegmentSize
<1> DEFINE h == FileHeader(sbDir, md, attDir)
           w == Write(0, FileHeaderSegmentSize, h)
<1>1. \A x \in h : IsExtent(x)
  BY ExtentTyped, SegmentHeaderTyped DEF FileHeader
<1> HIDE DEF h
<1>2. IsWrite(w) /\ w.pos = 0 /\ w.len = FileHeaderSegmentSize
  BY <1>1 DEF IsWrite, Write, FileHeaderSegmentSize
<1> HIDE DEF w
<1>3. <<w>> \in Seq(Range(<<w>>)) /\ Range(<<w>>) = {w}
  BY OneElement
<1>4. WriteFileHeader(sbDir, md, attDir) = <<w>>
  BY DEF WriteFileHeader, w, h
<1> QED BY <1>2, <1>3, <1>4

LEMMA NoSegmentTyped == NoSegment \in Segments /\ ~NoSegment.valid
BY DEF NoSegment, Segments

\* Lasting extents are there when all is written, and last while it is.
LEMMA LastingDone ==
  ASSUME NEW f, NEW x, Lasting(f, {}, x)
  PROVE  x \in f
BY DEF Lasting

-----------------------------------------------------------------------------
(* What the writes hold. *)

\* The extent lies in a segment at `pos` of `allocated` bytes.
Within(x, pos, allocated) ==
  /\ x.lo \in Nat /\ x.hi \in Nat
  /\ pos <= x.lo /\ x.hi <= pos + allocated + SegmentHeaderSize

\* A write stores its extents among its bytes, none on top of another.
Tidy(w) ==
  \A x \in w.holds :
    /\ w.pos <= x.lo /\ x.lo < x.hi /\ x.hi <= w.pos + w.len
    /\ \A y \in w.holds : x.lo = y.lo => x = y

\* No two extents of a file begin at the same byte, and none is empty.
TidyFile(f) ==
  \A x \in f : x.lo < x.hi /\ \A y \in f : x.lo = y.lo => x = y

\* The extent is no part of a directory that names an item.
NamesNoItem(x) == x.what[1] \notin {"entries", "entryA1"}

Plain(w) == Tidy(w) /\ \A x \in w.holds : NamesNoItem(x)

\* A write keeps a file tidy, whether it succeeds or is cut short.
LEMMA TidyStep ==
  ASSUME NEW f, TidyFile(f), \A x \in f : IsExtent(x),
         NEW w, IsWrite(w), Tidy(w),
         NEW g, g \in {f, Smash(f, w), Apply(f, w)}
  PROVE  TidyFile(g)
<1>1. ASSUME NEW x \in f, Survives(x, w), NEW y \in w.holds
      PROVE  x.lo # y.lo
  <2>1. /\ x.lo \in Nat /\ x.hi \in Nat /\ x.lo < x.hi
        /\ y.lo \in Nat /\ y.hi \in Nat /\ y.lo < y.hi
        /\ w.pos \in Nat /\ w.len \in Nat
        /\ w.pos <= y.lo /\ y.hi <= w.pos + w.len
    BY DEF TidyFile, IsExtent, IsWrite, Tidy
  <2> QED BY <1>1, <2>1 DEF Survives
<1>2. \A x \in w.holds : x.lo < x.hi /\ \A y \in w.holds : x.lo = y.lo => x = y
  BY DEF Tidy
<1>3. CASE g \subseteq f
  BY <1>3 DEF TidyFile
<1>4. CASE g = Apply(f, w)
  <2>1. \A x \in g : (x \in f /\ Survives(x, w)) \/ x \in w.holds
    BY <1>4 DEF Apply
  <2>2. ASSUME NEW x \in g, NEW y \in g, x.lo = y.lo
        PROVE  x = y
    <3>1. CASE x \in w.holds /\ y \in w.holds
      BY <1>2, <2>2, <3>1
    <3>2. CASE x \in f /\ y \in f
      BY <2>2, <3>2 DEF TidyFile
    <3>3. CASE x \notin w.holds /\ y \in w.holds
      BY <1>1, <2>1, <2>2, <3>3
    <3>4. CASE y \notin w.holds /\ x \in w.holds
      BY <1>1, <2>1, <2>2, <3>4
    <3> QED BY <2>1, <2>2, <3>1, <3>2, <3>3, <3>4
  <2>3. ASSUME NEW x \in g PROVE x.lo < x.hi
    BY <1>2, <2>1 DEF TidyFile
  <2> QED BY <2>2, <2>3 DEF TidyFile
<1> QED BY <1>3, <1>4 DEF Smash

LEMMA NothingHeld ==
  ASSUME NEW pos, NEW len
  PROVE  Plain(Write(pos, len, {}))
BY DEF Plain, Tidy, Write

LEMMA SegmentPlain ==
  ASSUME NEW pos \in Nat, NEW headSize \in Nat, NEW size \in Nat,
         NEW alloc \in Nat, NEW head, NEW payload, NEW rest,
         Plain(Write(pos, headSize, head)),
         size > 0 => Plain(Write(pos + headSize, size, payload)),
         LET p == pos + (headSize + size)
             n == (alloc + SegmentHeaderSize) - (headSize + size)
         IN  Plain(Write(p, ZeroFillLength(n), Reached(rest, p, n)))
  PROVE  \A w \in Range(WriteSegment(pos, headSize, head, size, payload, rest,
                                     alloc)) : Plain(w)
<1> DEFINE w1 == Write(pos, headSize, head)
           w2 == Write(pos + headSize, size, payload)
           p  == pos + (headSize + size)
           n  == (alloc + SegmentHeaderSize) - (headSize + size)
           w3 == Write(p, ZeroFillLength(n), Reached(rest, p, n))
           s2 == WritePart(pos + headSize, size, payload)
           s3 == WriteZeroesFor(rest, p, n)
           ws == WriteSegment(pos, headSize, head, size, payload, rest, alloc)
<1>1. <<w1>> \in Seq(Range(<<w1>>)) /\ Range(<<w1>>) = {w1}
  BY OneElement
<1>2. /\ s2 \in Seq(Range(s2)) /\ s3 \in Seq(Range(s3))
      /\ Range(s2) = IF size > 0 THEN {w2} ELSE {}
      /\ Range(s3) \subseteq {w3}
  BY PartWrites, RestWrites
<1>3. ws = <<w1>> \o s2 \o s3
  BY DEF WriteSegment
<1>4. Plain(w1) /\ (size > 0 => Plain(w2)) /\ Plain(w3)
  OBVIOUS
<1> HIDE DEF w1, w2, w3, s2, s3, ws
<1>5. /\ <<w1>> \o s2 \in Seq(Range(<<w1>> \o s2))
      /\ Range(<<w1>> \o s2) = Range(<<w1>>) \cup Range(s2)
  BY <1>1, <1>2, Concatenated
<1>6. Range(ws) = Range(<<w1>> \o s2) \cup Range(s3)
  BY <1>2, <1>3, <1>5, Concatenated
<1>7. \A w \in Range(ws) : Plain(w)
  BY <1>1, <1>2, <1>4, <1>5, <1>6
<1> QED BY <1>7 DEF ws

\* A segment that has no rest.
LEMMA WholeSegmentPlain ==
  ASSUME NEW pos \in Nat, NEW headSize \in Nat, NEW size \in Nat,
         NEW alloc \in Nat, NEW head, NEW payload,
         Plain(Write(pos, headSize, head)),
         size > 0 => Plain(Write(pos + headSize, size, {payload}))
  PROVE  \A w \in Range(WriteSegment(pos, headSize, head, size, {payload}, {},
                                     alloc)) : Plain(w)
<1> DEFINE p == pos + (headSize + size)
           n == (alloc + SegmentHeaderSize) - (headSize + size)
<1>1. Reached({}, p, n) = {}
  BY DEF Reached
<1>2. Plain(Write(p, ZeroFillLength(n), Reached({}, p, n)))
  BY <1>1, NothingHeld
<1> QED BY <1>2, SegmentPlain

\* The head of a segment: magic, allocated size, and what follows.
LEMMA HeadPlain ==
  ASSUME NEW pos \in Nat, NEW headSize \in Nat, NEW id, NEW allocated,
         NEW len \in Nat, NEW what, len > 0, 32 + len <= headSize,
         what[1] \notin {"entries", "entryA1"}
  PROVE  Plain(Write(pos, headSize,
                     SegmentHeader(pos, id, allocated)
                       \cup {Extent(pos + SegmentHeaderSize, len, what)}))
<1> DEFINE e1 == Magic(pos, id)
           e2 == Extent(pos + 16, 8, <<"allocated", allocated>>)
           e3 == Extent(pos + SegmentHeaderSize, len, what)
           h == SegmentHeader(pos, id, allocated) \cup {e3}
           w == Write(pos, headSize, h)
<1>1. h = {e1, e2, e3}
  BY DEF SegmentHeader
<1>2. /\ e1.lo = pos /\ e1.hi = pos + 16 /\ e1.what = <<"magic", id>>
      /\ e2.lo = pos + 16 /\ e2.hi = pos + 24
      /\ e2.what = <<"allocated", allocated>>
      /\ e3.lo = pos + 32 /\ e3.hi = pos + 32 + len /\ e3.what = what
  BY DEF Magic, Extent, SegmentHeaderSize
<1>3. w.pos = pos /\ w.len = headSize /\ w.holds = h
  BY DEF Write
<1> HIDE DEF e1, e2, e3, h, w
<1>4. Tidy(w)
  BY <1>1, <1>2, <1>3 DEF Tidy
<1>5. NamesNoItem(e1) /\ NamesNoItem(e2) /\ NamesNoItem(e3)
  BY <1>2 DEF NamesNoItem
<1>6. Plain(w)
  BY <1>1, <1>3, <1>4, <1>5 DEF Plain
<1> QED BY <1>6 DEF w, h, e3

LEMMA PayloadPlain ==
  ASSUME NEW pos \in Nat, NEW size \in Nat, size > 0, NEW what,
         what[1] \notin {"entries", "entryA1"},
         NEW holds, holds \subseteq {Extent(pos, size, what)}
  PROVE  Plain(Write(pos, size, holds))
BY DEF Plain, Tidy, NamesNoItem, Write, Extent

\* The writes of sub-blocks, attachments, metadata, the file header and of
\* deleted segments are tidy and name no item.
LEMMA ItemWritesPlain ==
  ASSUME NEW pos \in Nat
  PROVE  /\ \A c \in SubBlocks :
              \A w \in Range(WriteSubBlock(pos, c, SubBlockAllocated(c))) :
                Plain(w)
         /\ \A a \in Attachments :
              \A w \in Range(WriteAttachment(pos, a, AttachmentAllocated(a))) :
                Plain(w)
<1>1. ASSUME NEW c \in SubBlocks
      PROVE  \A w \in Range(WriteSubBlock(pos, c, SubBlockAllocated(c))) :
               Plain(w)
  <2> DEFINE alloc == SubBlockAllocated(c)
             size == PayloadBytes(c)
             payload == {x \in {SubBlockPayload(pos, c)} : PartsInPlace(c)}
             rest == NotEmpty({SubBlockRest(pos, c)})
             head == SegmentHeader(pos, "ZISRAWSUBBLOCK", alloc)
                       \cup {SubBlockHead(pos, c)}
             n == SubBlockHeadSize - SegmentHeaderSize
             what == <<"subblock", c>>
  <2>1. /\ SubBlockHeadSize \in Nat /\ SubBlockHeadSize >= 288
        /\ size \in Nat /\ alloc \in Nat
    BY HeadSizes, AllocatedSizes, PayloadProperties
  <2>2. Plain(Write(pos, SubBlockHeadSize, head))
    <3>1. n \in Nat /\ n > 0 /\ 32 + n <= SubBlockHeadSize
      BY <2>1 DEF SegmentHeaderSize
    <3>2. what[1] \notin {"entries", "entryA1"}
      OBVIOUS
    <3>3. SubBlockHead(pos, c) = Extent(pos + SegmentHeaderSize, n, what)
      BY DEF SubBlockHead
    <3> HIDE DEF n, what
    <3> QED BY <2>1, <3>1, <3>2, <3>3, HeadPlain
  <2>3. ASSUME size > 0
        PROVE  Plain(Write(pos + SubBlockHeadSize, size, payload))
    <3> DEFINE p == pos + SubBlockHeadSize
               pixels == <<"pixels", c>>
    <3>1. p \in Nat /\ pixels[1] \notin {"entries", "entryA1"}
      BY <2>1
    <3>2. payload \subseteq {Extent(p, size, pixels)}
      BY DEF SubBlockPayload
    <3> HIDE DEF p, pixels, size, payload
    <3>3. Plain(Write(p, size, payload))
      BY <2>1, <2>3, <3>1, <3>2, PayloadPlain
    <3> QED BY <3>3 DEF p
  <2>4. WriteSubBlock(pos, c, alloc) =
          WriteSegment(pos, SubBlockHeadSize, head, size, payload, rest, alloc)
    BY DEF WriteSubBlock
  <2> DEFINE p == pos + (SubBlockHeadSize + size)
             count == (alloc + SegmentHeaderSize) - (SubBlockHeadSize + size)
  <2>5. Plain(Write(p, ZeroFillLength(count), Reached(rest, p, count)))
    <3>1. \A x \in rest : x.lo = p /\ x.lo < x.hi /\ x.what = <<"zeroes">>
      <4>1. SubBlockRest(pos, c).lo = p /\ SubBlockRest(pos, c).what = <<"zeroes">>
        BY <2>1 DEF SubBlockRest, Extent
      <4> HIDE DEF p
      <4> QED BY <4>1 DEF NotEmpty
    <3>2. \A x \in rest, y \in rest : x = y
      BY DEF NotEmpty
    <3>3. p \in Nat
      BY <2>1
    <3> HIDE DEF p, count, rest
    <3>4. \A x \in Reached(rest, p, count) :
            x \in rest /\ x.hi <= p + ZeroFillLength(count)
      BY DEF Reached
    <3> QED BY <3>1, <3>2, <3>3, <3>4 DEF Plain, Tidy, NamesNoItem, Write
  <2> HIDE DEF alloc, size, head, payload, rest
  <2>6. \A w \in Range(WriteSubBlock(pos, c, alloc)) : Plain(w)
    BY <2>1, <2>2, <2>3, <2>4, <2>5, SegmentPlain
  <2> QED BY <2>6 DEF alloc
<1>2. ASSUME NEW a \in Attachments
      PROVE  \A w \in Range(WriteAttachment(pos, a, AttachmentAllocated(a))) :
               Plain(w)
  <2> DEFINE alloc == AttachmentAllocated(a)
             size == AttachmentSize[a]
             head == SegmentHeader(pos, "ZISRAWATTACH", alloc)
                       \cup {AttachmentHead(pos, a)}
             what == <<"attachment", a>>
  <2>1. /\ FixedHeaderSize = 288 /\ FixedHeaderSize \in Nat
        /\ size \in Nat /\ alloc \in Nat
    BY AllocatedSizes, SizesAreNat DEF FixedHeaderSize, SegmentHeaderSize
  <2>2. Plain(Write(pos, FixedHeaderSize, head))
    <3>1. 256 \in Nat /\ 256 > 0 /\ 32 + 256 <= FixedHeaderSize
      BY <2>1
    <3>2. what[1] \notin {"entries", "entryA1"}
      OBVIOUS
    <3>3. AttachmentHead(pos, a) = Extent(pos + SegmentHeaderSize, 256, what)
      BY DEF AttachmentHead
    <3> HIDE DEF what
    <3> QED BY <2>1, <3>1, <3>2, <3>3, HeadPlain
  <2>3. ASSUME size > 0
        PROVE  Plain(Write(pos + FixedHeaderSize, size,
                           {AttachmentPayload(pos, a)}))
    <3> DEFINE p == pos + FixedHeaderSize
               blob == <<"blob", a>>
    <3>1. p \in Nat /\ blob[1] \notin {"entries", "entryA1"}
      BY <2>1
    <3>2. AttachmentPayload(pos, a) = Extent(p, size, blob)
      BY DEF AttachmentPayload
    <3> HIDE DEF p, blob, size
    <3>3. Plain(Write(p, size, {Extent(p, size, blob)}))
      BY <2>1, <2>3, <3>1, PayloadPlain
    <3> QED BY <3>2, <3>3 DEF p
  <2>4. WriteAttachment(pos, a, alloc) =
          WriteSegment(pos, FixedHeaderSize, head, size,
                       {AttachmentPayload(pos, a)}, {}, alloc)
    BY DEF WriteAttachment
  <2> HIDE DEF alloc, size, head
  <2> DEFINE payload == AttachmentPayload(pos, a)
             headSize == FixedHeaderSize
  <2>5. /\ headSize \in Nat /\ Plain(Write(pos, headSize, head))
        /\ size > 0 => Plain(Write(pos + headSize, size, {payload}))
        /\ WriteAttachment(pos, a, alloc) =
             WriteSegment(pos, headSize, head, size, {payload}, {}, alloc)
    BY <2>1, <2>2, <2>3, <2>4
  <2> HIDE DEF payload, headSize
  <2>6. \A w \in Range(WriteAttachment(pos, a, alloc)) : Plain(w)
    BY <2>1, <2>5, WholeSegmentPlain
  <2> QED BY <2>6 DEF alloc
<1> QED BY <1>1, <1>2

LEMMA ReplacedPlain ==
  ASSUME NEW existing \in Segments, NEW needed
  PROVE  \A w \in Range(MarkReplaced(existing, needed)) : Plain(w)
<1> DEFINE x == Magic(existing.pos, "DELETED")
           w == Write(existing.pos, 16, {x})
<1>1. CASE ~FitsInto(existing, needed) /\ existing.valid /\ ~existing.deleted
  <2>1. MarkReplaced(existing, needed) = <<w>>
    BY <1>1 DEF MarkReplaced, WriteDeletedSegment
  <2>2. Plain(w)
    BY DEF Plain, Tidy, NamesNoItem, Write, Magic, Extent, Segments
  <2> HIDE DEF w
  <2> QED BY <2>1, <2>2, OneElement
<1>2. CASE ~(~FitsInto(existing, needed) /\ existing.valid /\ ~existing.deleted)
  BY <1>2, NoElement DEF MarkReplaced
<1> QED BY <1>1, <1>2

LEMMA HeaderPlain ==
  ASSUME NEW sbDir, NEW md, NEW attDir
  PROVE  Plain(Write(0, FileHeaderSegmentSize, FileHeader(sbDir, md, attDir)))
BY DEF Plain, Tidy, NamesNoItem, Write, FileHeader, SegmentHeader, Magic,
       Extent, FileHeaderSegmentSize

\* Marking the segment that is replaced as deleted spares what is put in its
\* place: that goes elsewhere.
LEMMA ReplacedSpares ==
  ASSUME NEW existing \in Segments, NEW needed \in Nat, NEW allocated,
         NEW newPos \in Nat, existing.valid => SegmentEnd(existing) <= newPos,
         NEW x, x.lo \in Nat,
         x.lo >= Placement(existing, needed, allocated, newPos).pos
  PROVE  \A w \in Range(MarkReplaced(existing, needed)) : Survives(x, w)
<1> DEFINE w == Write(existing.pos, 16, {Magic(existing.pos, "DELETED")})
<1>1. CASE ~FitsInto(existing, needed) /\ existing.valid /\ ~existing.deleted
  <2>1. MarkReplaced(existing, needed) = <<w>>
    BY <1>1 DEF MarkReplaced, WriteDeletedSegment
  <2>2. x.lo >= newPos
    BY <1>1 DEF Placement
  <2>3. Survives(x, w)
    BY <1>1, <2>2 DEF Survives, Write, SegmentEnd, SegmentHeaderSize, Segments
  <2> HIDE DEF w
  <2> QED BY <2>1, <2>3, OneElement
<1>2. CASE ~(~FitsInto(existing, needed) /\ existing.valid /\ ~existing.deleted)
  BY <1>2, NoElement DEF MarkReplaced
<1> QED BY <1>1, <1>2

\* What will last of later writes lasts also when earlier ones spare it.
LEMMA LastingAfter ==
  ASSUME NEW f, NEW x, NEW ws, NEW vs, Lasting(f, ws, x),
         \A v \in vs : Survives(x, v)
  PROVE  Lasting(f, vs \cup ws, x)
<1>1. CASE x \in f /\ \A w \in ws : Survives(x, w)
  BY <1>1 DEF Lasting
<1>2. ASSUME NEW w \in ws, x \in w.holds, \A v \in ws : v = w \/ Survives(x, v)
      PROVE  Lasting(f, vs \cup ws, x)
  BY <1>2 DEF Lasting
<1> QED BY <1>1, <1>2 DEF Lasting

\* The metadata a call writes will be in the file, in the segment chosen.
LEMMA MetadataLasts ==
  ASSUME NEW existing \in Segments, NEW m \in Metadatas, NEW newPos \in Nat,
         existing.valid => SegmentEnd(existing) <= newPos, NEW f
  PROVE  LET at == MetadataPlace(existing, m, newPos)
             ws == WriteMetadata(existing, m, newPos)
         IN  /\ \A x \in MetadataExtents(at.pos, m) :
                  /\ Lasting(f, Range(ws), x)
                  /\ Within(x, at.pos, at.allocated)
             /\ \A w \in Range(ws) : Plain(w)
<1> DEFINE needed == MetadataAllocated(m)
           at == MetadataPlace(existing, m, newPos)
           pos == at.pos
           alloc == at.allocated
           head == SegmentHeader(pos, "ZISRAWMETADATA", alloc)
                     \cup {MetadataHead(pos, m)}
           payload == MetadataPayload(pos, m)
           size == MetadataSize[m]
           headSize == FixedHeaderSize
           ws1 == MarkReplaced(existing, needed)
           ws2 == WriteSegment(pos, headSize, head, size, {payload}, {}, alloc)
           what == <<"xmlsize", m>>
           xml == <<"xml", m>>
<1>1. /\ needed \in Nat /\ needed >= 256 + size /\ size \in Nat
      /\ headSize = 288 /\ headSize \in Nat
  BY AllocatedSizes, SizesAreNat DEF FixedHeaderSize, SegmentHeaderSize
<1>2. /\ pos \in Nat /\ alloc \in Nat /\ alloc >= needed
      /\ at = Placement(existing, needed, needed, newPos)
  BY <1>1, PlacementProperties DEF MetadataPlace
<1>3. /\ \A x \in head : IsExtent(x) /\ x.lo >= pos /\ x.hi <= pos + headSize
      /\ IsExtent(payload)
      /\ payload.lo = pos + headSize /\ payload.hi = payload.lo + size
      /\ \A x \in MetadataExtents(pos, m) :
           x.lo < x.hi /\ (x \in head \/ x = payload)
  <2> HIDE DEF at, pos
  <2> QED BY <1>1, <1>2 DEF IsExtent, SegmentHeader, Magic, Extent,
        MetadataHead, MetadataPayload, FixedHeaderSize, SegmentHeaderSize,
        MetadataExtents, NotEmpty
<1>4. /\ MetadataHead(pos, m) = Extent(pos + SegmentHeaderSize, 8, what)
      /\ payload = Extent(pos + headSize, size, xml)
      /\ what[1] \notin {"entries", "entryA1"}
      /\ xml[1] \notin {"entries", "entryA1"}
  BY DEF MetadataHead, MetadataPayload
<1>5. WriteMetadata(existing, m, newPos) = ws1 \o ws2
  BY DEF WriteMetadata
<1>6. ws1 \in Seq(Range(ws1)) /\ \A w \in Range(ws1) : Plain(w)
  BY <1>1, ReplacedWrites, ReplacedPlain
<1> HIDE DEF needed, at, pos, alloc, head, payload, size, ws1, ws2, headSize,
             what, xml
<1>7. headSize + size <= alloc + SegmentHeaderSize
  BY <1>1, <1>2 DEF SegmentHeaderSize
<1>8. /\ ws2 \in Seq(Range(ws2))
      /\ \A w \in Range(ws2) : Plain(w)
  <2>1. ws2 \in Seq(Range(ws2))
    BY <1>1, <1>2, <1>3, <1>7, SegmentWrites DEF ws2
  <2>2. Plain(Write(pos, headSize, head))
    BY <1>1, <1>2, <1>4, HeadPlain DEF head
  <2>3. size > 0 => Plain(Write(pos + headSize, size, {payload}))
    <3> DEFINE p == pos + headSize
    <3>1. p \in Nat /\ payload = Extent(p, size, xml)
      BY <1>1, <1>2, <1>4
    <3> HIDE DEF p
    <3>2. size > 0 => Plain(Write(p, size, {payload}))
      BY <1>1, <1>4, <3>1, PayloadPlain
    <3> QED BY <3>2 DEF p
  <2>4. headSize \in Nat /\ size \in Nat /\ pos \in Nat /\ alloc \in Nat
    BY <1>1, <1>2
  <2>5. \A w \in Range(ws2) : Plain(w)
    BY <2>2, <2>3, <2>4, WholeSegmentPlain DEF ws2
  <2> QED BY <2>1, <2>5
<1>9. Range(ws1 \o ws2) = Range(ws1) \cup Range(ws2)
  BY <1>6, <1>8, Concatenated
<1>10. ASSUME NEW x \in MetadataExtents(pos, m)
       PROVE  /\ Lasting(f, Range(ws1 \o ws2), x)
              /\ Within(x, pos, alloc)
  <2>1. /\ x.lo \in Nat /\ x.hi \in Nat /\ x.lo >= pos /\ x.lo < x.hi
        /\ x.hi <= pos + headSize + size
        /\ \/ x \in head /\ x.hi <= pos + headSize
           \/ /\ x = payload /\ size > 0
              /\ x.lo = pos + headSize /\ x.hi = x.lo + size
    BY <1>1, <1>2, <1>3 DEF IsExtent
  <2>2. Lasting(f, Range(ws2), x)
    BY <1>1, <1>2, <1>7, <2>1, SegmentWritesLast DEF ws2
  <2>3. \A w \in Range(ws1) : Survives(x, w)
    BY <1>1, <1>2, <2>1, ReplacedSpares DEF ws1, pos
  <2>4. Lasting(f, Range(ws1 \o ws2), x)
    BY <1>9, <2>2, <2>3, LastingAfter
  <2>5. Within(x, pos, alloc)
    BY <1>1, <1>2, <1>7, <2>1 DEF Within, SegmentHeaderSize
  <2> QED BY <2>4, <2>5
<1> QED BY <1>5, <1>6, <1>8, <1>9, <1>10 DEF at, pos, alloc

\* What a reader needs of a sub-block directory to get its entries
DirectoryExtents(pos, dir) ==
  {Magic(pos, "ZISRAWDIRECTORY")} \cup SubBlkDirExtents(pos, dir)

\* The extents a write of a sub-block directory names items with: its own
ListsOnly(w, dir) ==
  \A x \in w.holds : NamesNoItem(x) \/ x.what = <<"entries", dir>>

LEMMA SubBlkDirLasts ==
  ASSUME NEW existing \in Segments, NEW newPos \in Nat,
         existing.valid => SegmentEnd(existing) <= newPos,
         NEW dir, Len(dir) \in Nat, NEW f
  PROVE  LET at == SubBlkDirPlace(existing, dir, newPos)
             ws == WriteSubBlkDirectory(existing, dir, newPos)
         IN  /\ \A x \in DirectoryExtents(at.pos, dir) :
                  /\ Lasting(f, Range(ws), x)
                  /\ Within(x, at.pos, at.allocated)
             /\ \A w \in Range(ws) : Tidy(w) /\ ListsOnly(w, dir)
<1> DEFINE needed == SubBlkDirAllocated(Len(dir))
           used == Len(dir) * EntryDVSize
           at == SubBlkDirPlace(existing, dir, newPos)
           pos == at.pos
           alloc == at.allocated
           written == SubBlkDirHeaderSize + used
           e1 == Magic(pos, "ZISRAWDIRECTORY")
           e2 == Extent(pos + 16, 8, <<"allocated", alloc>>)
           e3 == SubBlkDirCount(pos, Len(dir))
           e4 == SubBlkDirEntries(pos, dir)
           segment == SegmentHeader(pos, "ZISRAWDIRECTORY", alloc)
                        \cup SubBlkDirExtents(pos, dir)
           w2 == Write(pos, written, segment)
           n == (alloc + SegmentHeaderSize) - written
           w3 == Write(pos + written, ZeroFillLength(n), {})
           ws1 == MarkReplaced(existing, needed)
           ws3 == WriteZeroes(pos + written, n)
<1>1. /\ needed \in Nat /\ used \in Nat /\ needed >= 128 + used
      /\ SubBlkDirHeaderSize = 160 /\ SegmentHeaderSize = 32
  BY AllocatedSizes, HeadSizes, ProductIsNat
     DEF SubBlkDirHeaderSize, SegmentHeaderSize
<1>2. /\ at = Placement(existing, needed, needed, newPos)
      /\ WriteSubBlkDirectory(existing, dir, newPos) = ws1 \o (<<w2>> \o ws3)
  BY DEF SubBlkDirPlace, WriteSubBlkDirectory
<1>3. pos \in Nat /\ alloc \in Nat /\ alloc >= needed
  <2>1. needed \in Nat /\ needed >= needed
    BY <1>1
  <2> HIDE DEF needed, at
  <2>2. /\ at.pos \in Nat /\ at.allocated \in Nat /\ at.allocated >= needed
    BY <1>2, <2>1, PlacementProperties
  <2> QED BY <2>2
<1>4. /\ e1.lo = pos /\ e1.hi = pos + 16
      /\ e1.what = <<"magic", "ZISRAWDIRECTORY">>
      /\ e2.lo = pos + 16 /\ e2.hi = pos + 24
      /\ e2.what = <<"allocated", alloc>>
      /\ e3.lo = pos + 32 /\ e3.hi = pos + 36
      /\ e3.what = <<"EntryCount", Len(dir)>>
      /\ e4.lo = pos + 160 /\ e4.hi = pos + 160 + used
      /\ e4.what = <<"entries", dir>>
      /\ segment \subseteq {e1, e2, e3, e4}
      /\ e1 \in segment /\ e2 \in segment
      /\ SubBlkDirExtents(pos, dir) \subseteq segment \cap {e3, e4}
      /\ \A x \in segment : x = e4 => x.lo < x.hi
  <2> HIDE DEF pos, alloc, used
  <2>1. segment = {e1, e2} \cup NotEmpty({e3, e4})
    BY DEF SegmentHeader, SubBlkDirExtents
  <2>2. /\ e1.lo = pos /\ e1.hi = pos + 16
        /\ e1.what = <<"magic", "ZISRAWDIRECTORY">>
        /\ e2.lo = pos + 16 /\ e2.hi = pos + 24
        /\ e2.what = <<"allocated", alloc>>
        /\ e3.lo = pos + 32 /\ e3.hi = pos + 36
        /\ e3.what = <<"EntryCount", Len(dir)>>
    BY <1>1, <1>3 DEF Magic, Extent, SubBlkDirCount
  <2>3. /\ e4.lo = pos + 160 /\ e4.hi = pos + 160 + used
        /\ e4.what = <<"entries", dir>>
    BY <1>1, <1>3 DEF Extent, SubBlkDirEntries, used
  <2>4. SubBlkDirExtents(pos, dir) = NotEmpty({e3, e4})
    BY DEF SubBlkDirExtents
  <2> HIDE DEF e1, e2, e3, e4, segment
  <2>5. \A x \in segment : x = e4 => x.lo < x.hi
    <3>1. e4 # e1 /\ e4 # e2
      BY <1>3, <2>2, <2>3
    <3> QED BY <2>1, <3>1 DEF NotEmpty
  <2> QED BY <2>1, <2>2, <2>3, <2>4, <2>5 DEF NotEmpty
<1>5. /\ ws1 \in Seq(Range(ws1))
      /\ \A w \in Range(ws1) : Plain(w)
  BY <1>1, ReplacedWrites, ReplacedPlain
<1>6. /\ <<w2>> \in Seq(Range(<<w2>>)) /\ Range(<<w2>>) = {w2}
      /\ ws3 \in Seq(Range(ws3)) /\ Range(ws3) \subseteq {w3}
  BY OneElement, ZeroWrites
<1>7. w2.pos = pos /\ w2.len = written /\ w2.holds = segment
  BY DEF Write
<1>8. /\ written = 160 + used
      /\ w3.pos = pos + written /\ w3.len = ZeroFillLength(n) /\ Plain(w3)
      /\ n = (alloc + 32) - written
  <2> HIDE DEF used, at
  <2>1. written = 160 + used
    BY <1>1
  <2>2. w3.pos = pos + written /\ w3.len = ZeroFillLength(n) /\ Plain(w3)
    BY NothingHeld DEF Write
  <2>3. n = (alloc + 32) - written
    BY <1>1
  <2> QED BY <2>1, <2>2, <2>3
<1>9. Range(ws1 \o (<<w2>> \o ws3)) = Range(ws1) \cup ({w2} \cup Range(ws3))
  <2> HIDE DEF ws1, w2, ws3
  <2>1. /\ <<w2>> \o ws3 \in Seq(Range(<<w2>> \o ws3))
        /\ Range(<<w2>> \o ws3) = Range(<<w2>>) \cup Range(ws3)
    BY <1>6, Concatenated
  <2>2. Range(ws1 \o (<<w2>> \o ws3)) = Range(ws1) \cup Range(<<w2>> \o ws3)
    BY <1>5, <2>1, Concatenated
  <2> QED BY <1>6, <2>1, <2>2
<1> HIDE DEF needed, used, at, pos, alloc, written, e1, e2, e3, e4, segment, w2,
             n, w3, ws1, ws3
<1>10. n \in Nat /\ ZeroFillLength(n) \in Nat
  BY <1>1, <1>3, <1>8, ZeroFillProperties
<1>11. \A w \in Range(ws1 \o (<<w2>> \o ws3)) : Tidy(w) /\ ListsOnly(w, dir)
  <2>1. Tidy(w2)
    BY <1>1, <1>4, <1>3, <1>7, <1>8 DEF Tidy
  <2>2. ListsOnly(w2, dir)
    BY <1>4, <1>7 DEF ListsOnly, NamesNoItem
  <2>3. \A w \in Range(ws1) \cup {w3} : Tidy(w) /\ ListsOnly(w, dir)
    BY <1>5, <1>8 DEF Plain, ListsOnly
  <2> QED BY <1>6, <1>9, <2>1, <2>2, <2>3
<1>12. ASSUME NEW x \in DirectoryExtents(pos, dir)
       PROVE  /\ Lasting(f, Range(ws1 \o (<<w2>> \o ws3)), x)
              /\ Within(x, pos, alloc)
  <2>1. x \in segment /\ x \in {e1, e3, e4}
    BY <1>4 DEF DirectoryExtents, e1
  <2>2. /\ x.lo \in Nat /\ x.hi \in Nat /\ x.lo >= pos /\ x.lo < x.hi
        /\ x.hi <= pos + written
    BY <1>1, <1>4, <1>3, <1>8, <2>1
  <2>3. Survives(x, w3)
    BY <1>1, <1>3, <1>8, <1>10, <2>2 DEF Survives
  <2>4. Lasting(f, {w2} \cup Range(ws3), x)
    BY <1>6, <1>7, <2>1, <2>3 DEF Lasting
  <2>5. \A w \in Range(ws1) : Survives(x, w)
    BY <1>1, <1>2, <2>2, ReplacedSpares DEF ws1, pos
  <2>6. Lasting(f, Range(ws1 \o (<<w2>> \o ws3)), x)
    <3> DEFINE S == {w2} \cup Range(ws3)
    <3>1. Lasting(f, S, x) /\ Range(ws1 \o (<<w2>> \o ws3)) = Range(ws1) \cup S
      BY <1>9, <2>4
    <3> HIDE DEF S
    <3>2. Lasting(f, Range(ws1) \cup S, x)
      BY <2>5, <3>1, LastingAfter
    <3> QED BY <3>1, <3>2, Zenon
  <2>7. Within(x, pos, alloc)
    BY <1>1, <1>3, <1>8, <2>2 DEF Within
  <2> QED BY <2>6, <2>7
<1> QED BY <1>2, <1>11, <1>12 DEF at, pos, alloc

\* The used size of an attachment directory needs no alignment.
LEMMA AttachmentDirAligned ==
  ASSUME NEW n \in Nat
  PROVE  AlignSegmentSize(AttachmentDirUsed(n)) = AttachmentDirUsed(n)
<1> DEFINE u == 256 + n * 128
           q == (u + 31) \div 32
<1>1. u \in Nat /\ u = 32 * (4 * n + 8)
  OBVIOUS
<1> HIDE DEF u
<1>2. q \in Int /\ 32 * q <= u + 31 /\ u + 31 < 32 * q + 32
  BY <1>1
<1> HIDE DEF q
<1>3. q = 4 * n + 8
  BY <1>1, <1>2
<1>4. AlignSegmentSize(u) = q * 32
  BY DEF AlignSegmentSize, SegmentAlign, q
<1>5. AlignSegmentSize(u) = u
  BY <1>1, <1>3, <1>4
<1> QED BY <1>5 DEF AttachmentDirUsed, AttachmentEntrySize, u

\* What a reader needs of an attachment directory to get its entries
AttachmentDirExtents(pos, dir) ==
  {Magic(pos, "ZISRAWATTDIR"), AttachmentDirCount(pos, Len(dir))}
    \cup {AttachmentDirEntry(pos, k, dir[k]) : k \in DOMAIN dir}

\* The extents a write of an attachment directory names items with: its own
NamesOnly(w, dir) ==
  \A x \in w.holds :
    NamesNoItem(x) \/ \E k \in DOMAIN dir : x.what = <<"entryA1", dir[k]>>

\* The entries last when the segment has no more room than they need: then
\* no zeroes are written on top of them.
LEMMA AttachmentDirLasts ==
  ASSUME NEW existing \in Segments, NEW newPos \in Nat,
         existing.valid => SegmentEnd(existing) <= newPos,
         NEW dir, Len(dir) \in Nat, DOMAIN dir = 1..Len(dir), NEW f
  PROVE  LET at == AttachmentDirPlace(existing, dir, newPos)
             ws == WriteAttachmentDirectory(existing, dir, newPos)
         IN  /\ \A w \in Range(ws) : Tidy(w) /\ NamesOnly(w, dir)
             /\ (existing.valid =>
                   existing.allocated <= AttachmentDirUsed(Len(dir))) =>
                  /\ at.allocated <= AttachmentDirUsed(Len(dir))
                  /\ \A x \in AttachmentDirExtents(at.pos, dir) :
                       /\ Lasting(f, Range(ws), x)
                       /\ Within(x, at.pos, at.allocated)
<1> DEFINE needed == AttachmentDirUsed(Len(dir))
           entries == Len(dir) * AttachmentEntrySize
           at == AttachmentDirPlace(existing, dir, newPos)
           pos == at.pos
           alloc == at.allocated
           e1 == Magic(pos, "ZISRAWATTDIR")
           e2 == Extent(pos + 16, 8, <<"allocated", alloc>>)
           e3 == AttachmentDirCount(pos, Len(dir))
           h2 == SegmentHeader(pos, "ZISRAWATTDIR", alloc)
                   \cup {AttachmentDirCount(pos, Len(dir))}
           h3 == {AttachmentDirEntry(pos, k, dir[k]) : k \in DOMAIN dir}
           w2 == Write(pos, FixedHeaderSize, h2)
           w3 == Write(pos + FixedHeaderSize, entries, h3)
           segment == alloc + SegmentHeaderSize
           n == segment - entries
           w4 == Write(pos + entries, ZeroFillLength(n), {})
           ws1 == MarkReplaced(existing, needed)
           ws4 == IF FixedHeaderSize + entries < segment
                  THEN WriteZeroes(pos + entries, n)
                  ELSE <<>>
           ws == WriteAttachmentDirectory(existing, dir, newPos)
           exact == existing.valid => existing.allocated <= needed
<1>1. /\ needed \in Nat /\ needed = 256 + entries /\ entries \in Nat
      /\ entries = Len(dir) * 128
      /\ AlignSegmentSize(needed) = needed
      /\ FixedHeaderSize = 288 /\ SegmentHeaderSize = 32
  BY AllocatedSizes, AttachmentDirAligned
     DEF FixedHeaderSize, SegmentHeaderSize, AttachmentDirUsed,
         AttachmentEntrySize
<1>2. /\ at = Placement(existing, needed, AlignSegmentSize(needed), newPos)
      /\ ws = ws1 \o <<w2>> \o <<w3>> \o ws4
  BY DEF AttachmentDirPlace, WriteAttachmentDirectory
<1>3. /\ pos \in Nat /\ alloc \in Nat /\ alloc >= needed
      /\ exact => alloc <= needed
  <2>1. needed \in Nat /\ needed >= needed
    BY <1>1
  <2>2. at = Placement(existing, needed, needed, newPos)
    BY <1>1, <1>2
  <2> HIDE DEF needed, at
  <2>3. /\ at.pos \in Nat /\ at.allocated \in Nat /\ at.allocated >= needed
        /\ exact => at.allocated <= needed
    BY <2>1, <2>2 DEF Placement, FitsInto, Segments
  <2> QED BY <2>3
<1>4. /\ e1.lo = pos /\ e1.hi = pos + 16
      /\ e1.what = <<"magic", "ZISRAWATTDIR">>
      /\ e2.lo = pos + 16 /\ e2.hi = pos + 24
      /\ e2.what = <<"allocated", alloc>>
      /\ e3.lo = pos + 32 /\ e3.hi = pos + 36
      /\ e3.what = <<"count", Len(dir)>>
      /\ h2 = {e1, e2, e3}
  <2> HIDE DEF pos, alloc
  <2> QED BY <1>1, <1>3 DEF Magic, Extent, AttachmentDirCount, SegmentHeader
<1>5. \A k \in 1..Len(dir) :
        LET x == AttachmentDirEntry(pos, k, dir[k])
        IN  /\ x.lo = pos + 288 + (k - 1) * 128 /\ x.hi = x.lo + 128
            /\ x.what = <<"entryA1", dir[k]>>
  <2> HIDE DEF pos
  <2> QED BY <1>1, <1>3 DEF AttachmentDirEntry, Extent, AttachmentEntrySize
<1>6. /\ ws1 \in Seq(Range(ws1))
      /\ \A w \in Range(ws1) : Plain(w)
  BY <1>1, ReplacedWrites, ReplacedPlain
<1>7. /\ <<w2>> \in Seq(Range(<<w2>>)) /\ Range(<<w2>>) = {w2}
      /\ <<w3>> \in Seq(Range(<<w3>>)) /\ Range(<<w3>>) = {w3}
      /\ ws4 \in Seq(Range(ws4)) /\ Range(ws4) \subseteq {w4}
  BY OneElement, ZeroWrites, NoElement
<1>8. exact => Range(ws4) = {}
  <2>1. segment = alloc + 32
    BY <1>1
  <2> HIDE DEF pos, alloc, segment, entries, needed
  <2>2. exact => ~(FixedHeaderSize + entries < segment)
    BY <1>1, <1>3, <2>1
  <2> QED BY <2>2, NoElement
<1>9. /\ w2.pos = pos /\ w2.len = 288 /\ w2.holds = h2
      /\ w3.pos = pos + 288 /\ w3.len = entries /\ w3.holds = h3
      /\ Plain(w4)
  BY <1>1, NothingHeld DEF Write
<1>10. Range(ws) = Range(ws1) \cup {w2, w3} \cup Range(ws4)
  <2> HIDE DEF ws1, w2, w3, ws4, ws
  <2>1. /\ ws1 \o <<w2>> \in Seq(Range(ws1 \o <<w2>>))
        /\ Range(ws1 \o <<w2>>) = Range(ws1) \cup Range(<<w2>>)
    BY <1>6, <1>7, Concatenated
  <2> DEFINE ws12 == ws1 \o <<w2>>
  <2>2. ws12 \in Seq(Range(ws12)) /\ ws = ws12 \o <<w3>> \o ws4
    BY <1>2, <2>1
  <2> HIDE DEF ws12
  <2>3. /\ ws12 \o <<w3>> \in Seq(Range(ws12 \o <<w3>>))
        /\ Range(ws12 \o <<w3>>) = Range(ws12) \cup Range(<<w3>>)
    BY <1>7, <2>2, Concatenated
  <2>4. Range(ws) = Range(ws12 \o <<w3>>) \cup Range(ws4)
    BY <1>7, <2>2, <2>3, Concatenated
  <2>5. Range(ws12) = Range(ws1) \cup {w2}
    BY <1>7, <2>1 DEF ws12
  <2> QED BY <1>7, <2>3, <2>4, <2>5
<1>11. h3 = {AttachmentDirEntry(pos, k, dir[k]) : k \in 1..Len(dir)}
  OBVIOUS
<1> HIDE DEF needed, entries, at, pos, alloc, e1, e2, e3, h2, h3, w2, w3,
             segment, n, w4, ws1, ws4, ws, exact
<1>12. \A w \in Range(ws) : Tidy(w) /\ NamesOnly(w, dir)
  <2>1. Tidy(w2) /\ NamesOnly(w2, dir)
    BY <1>3, <1>4, <1>9 DEF Tidy, NamesOnly, NamesNoItem
  <2>2. Tidy(w3)
    <3>1. ASSUME NEW x \in h3
          PROVE  \E k \in 1..Len(dir) :
                   /\ x = AttachmentDirEntry(pos, k, dir[k])
                   /\ x.lo = pos + 288 + (k - 1) * 128 /\ x.hi = x.lo + 128
      BY <1>5, <1>11
    <3>2. ASSUME NEW x \in h3
          PROVE  /\ pos + 288 <= x.lo /\ x.lo < x.hi
                 /\ x.hi <= pos + 288 + entries
      <4>1. PICK k \in 1..Len(dir) :
              x.lo = pos + 288 + (k - 1) * 128 /\ x.hi = x.lo + 128
        BY <3>1
      <4> QED BY <1>1, <1>3, <4>1
    <3>3. ASSUME NEW x \in h3, NEW y \in h3, x.lo = y.lo
          PROVE  x = y
      <4>1. PICK k \in 1..Len(dir) :
              /\ x = AttachmentDirEntry(pos, k, dir[k])
              /\ x.lo = pos + 288 + (k - 1) * 128
        BY <3>1
      <4>2. PICK j \in 1..Len(dir) :
              /\ y = AttachmentDirEntry(pos, j, dir[j])
              /\ y.lo = pos + 288 + (j - 1) * 128
        BY <3>1
      <4>3. k = j
        BY <1>3, <3>3, <4>1, <4>2
      <4> QED BY <4>1, <4>2, <4>3
    <3> QED BY <1>9, <3>2, <3>3 DEF Tidy
  <2>3. NamesOnly(w3, dir)
    BY <1>5, <1>9, <1>11 DEF NamesOnly
  <2>4. \A w \in Range(ws1) \cup {w4} : Tidy(w) /\ NamesOnly(w, dir)
    BY <1>6, <1>9 DEF Plain, NamesOnly
  <2> QED BY <1>7, <1>10, <2>1, <2>2, <2>3, <2>4
<1>13. ASSUME exact, NEW x \in AttachmentDirExtents(pos, dir)
       PROVE  Lasting(f, Range(ws), x) /\ Within(x, pos, alloc)
  <2>1. (x \in h2 /\ x \in {e1, e3}) \/ x \in h3
    BY <1>4, <1>11 DEF AttachmentDirExtents, e1, e3
  <2> DEFINE S == {w2, w3} \cup Range(ws4)
  <2>2. S = {w2, w3}
    BY <1>8, <1>13
  <2>3. /\ x.lo \in Nat /\ x.hi \in Nat /\ x.lo >= pos
        /\ x.hi <= pos + 288 + entries
        /\ x \in h2 => x.hi <= pos + 288
        /\ x \in h3 => x.lo >= pos + 288
    <3>1. CASE x \in h3
      <4>1. PICK k \in 1..Len(dir) :
              x.lo = pos + 288 + (k - 1) * 128 /\ x.hi = x.lo + 128
        BY <1>5, <1>11, <3>1
      <4>2. x.lo \in Nat /\ x.lo >= pos + 288
        BY <1>3, <4>1
      <4>3. \A y \in h2 : y.lo < pos + 288
        BY <1>3, <1>4
      <4>4. x \notin h2
        BY <1>3, <4>2, <4>3
      <4> QED BY <1>1, <1>3, <4>1, <4>2, <4>4
    <3>2. CASE x \in {e1, e3} /\ x \notin h3
      <4>1. /\ e1.lo \in Nat /\ e1.hi \in Nat /\ e1.lo >= pos
            /\ e1.hi <= pos + 288
            /\ e3.lo \in Nat /\ e3.hi \in Nat /\ e3.lo >= pos
            /\ e3.hi <= pos + 288
        BY <1>3, <1>4
      <4>2. /\ x.lo \in Nat /\ x.hi \in Nat /\ x.lo >= pos
            /\ x.hi <= pos + 288
        BY <3>2, <4>1
      <4>3. x.hi <= pos + 288 + entries
        BY <1>1, <1>3, <4>2
      <4> QED BY <3>2, <4>2, <4>3
    <3> QED BY <2>1, <3>1, <3>2
  <2>4. Lasting(f, S, x)
    <3>1. CASE x \in h2
      <4>1. Survives(x, w3)
        BY <1>9, <2>3, <3>1 DEF Survives
      <4> QED BY <1>9, <2>2, <3>1, <4>1 DEF Lasting
    <3>2. CASE x \in h3
      <4>1. Survives(x, w2)
        BY <1>9, <2>3, <3>2 DEF Survives
      <4> QED BY <1>9, <2>2, <3>2, <4>1 DEF Lasting
    <3> QED BY <2>1, <3>1, <3>2
  <2>5. \A w \in Range(ws1) : Survives(x, w)
    BY <1>1, <1>2, <2>3, ReplacedSpares DEF ws1, pos
  <2>6. Range(ws) = Range(ws1) \cup S
    BY <1>10
  <2> HIDE DEF S
  <2>7. Lasting(f, Range(ws1) \cup S, x)
    BY <2>4, <2>5, LastingAfter
  <2>8. Lasting(f, Range(ws), x)
    BY <2>6, <2>7, Zenon
  <2>9. Within(x, pos, alloc)
    BY <1>1, <1>3, <2>3 DEF Within
  <2> QED BY <2>8, <2>9
<1> QED BY <1>3, <1>12, <1>13 DEF at, pos, alloc, ws, exact, needed

-----------------------------------------------------------------------------
(* Reading back what was written. *)

LEMMA DirectoryReadBack ==
  ASSUME NEW f, NEW pos \in Nat, NEW dir, Len(dir) \in Nat,
         dir = <<>> <=> Len(dir) = 0, DirectoryExtents(pos, dir) \subseteq f
  PROVE  dir \in SubBlkDirAt(f, pos)
<1> DEFINE n == Len(dir)
           count == SubBlkDirCount(pos, n)
           entries == SubBlkDirEntries(pos, dir)
<1>1. Magic(pos, "ZISRAWDIRECTORY") \in f
  BY DEF DirectoryExtents
<1>2. count \in f
  <2>1. count.lo < count.hi
    BY DEF SubBlkDirCount, Extent, SegmentHeaderSize
  <2> HIDE DEF count
  <2>2. count \in SubBlkDirExtents(pos, dir)
    BY <2>1 DEF SubBlkDirExtents, NotEmpty, count
  <2> QED BY <2>2 DEF DirectoryExtents
<1>3. CASE n = 0
  <2>1. dir = <<>> /\ SubBlkDirCount(pos, 0) \in f
    BY <1>2, <1>3
  <2> QED BY <1>1, <2>1 DEF SubBlkDirAt, HasMagic
<1>4. CASE n # 0
  <2> DEFINE size == EntryDVSize
  <2>1. size \in Nat /\ size >= 32
    BY SizesAreNat DEF EntryDVSize
  <2> HIDE DEF size
  <2>2. n - 1 \in Nat
    BY <1>4
  <2>3. (n - 1) * size \in Nat
    BY <2>1, <2>2, ProductIsNat
  <2>4. n * size = (n - 1) * size + size
    BY <2>1, <2>2
  <2>5. n * size \in Nat /\ n * size > 0
    BY <2>1, <2>3, <2>4
  <2> DEFINE len == n * size
  <2>6. /\ entries = Extent(pos + SubBlkDirHeaderSize, len, <<"entries", dir>>)
    BY DEF SubBlkDirEntries, size
  <2> HIDE DEF len
  <2>7. len \in Nat /\ len > 0
    BY <2>5 DEF len
  <2> HIDE DEF entries, n
  <2>8. /\ entries.lo = pos + SubBlkDirHeaderSize /\ entries.lo < entries.hi
        /\ entries.what[1] = "entries" /\ entries.what[2] = dir
    BY <2>6, <2>7 DEF Extent, SubBlkDirHeaderSize, SegmentHeaderSize
  <2>9. entries \in f
    BY <2>8 DEF DirectoryExtents, SubBlkDirExtents, NotEmpty, entries
  <2>10. SubBlkDirCount(pos, Len(entries.what[2])) \in f
    BY <1>2, <2>8 DEF n
  <2> QED BY <1>1, <2>8, <2>9, <2>10 DEF SubBlkDirAt, HasMagic
<1> QED BY <1>3, <1>4

LEMMA AttachmentsReadBack ==
  ASSUME NEW f, NEW pos, NEW dir, NEW k \in 1..Len(dir), Len(dir) \in Nat,
         AttachmentDirEntry(pos, k, dir[k]) \in f,
         AttachmentDirCount(pos, Len(dir)) \in f,
         HasMagic(f, pos, "ZISRAWATTDIR")
  PROVE  \E x \in AttachmentDirSlots(f, pos) : x.what[2] = dir[k]
<1> DEFINE x == AttachmentDirEntry(pos, k, dir[k])
           z == AttachmentDirCount(pos, Len(dir))
<1>1. x \in f /\ z \in f /\ HasMagic(f, pos, "ZISRAWATTDIR")
  OBVIOUS
<1>2. /\ x.what[1] = "entryA1" /\ x.what[2] = dir[k]
      /\ x.lo = pos + FixedHeaderSize + (k - 1) * AttachmentEntrySize
      /\ z.lo = pos + SegmentHeaderSize
      /\ z.what[1] = "count" /\ z.what[2] = Len(dir)
  BY DEF AttachmentDirEntry, AttachmentDirCount, Extent
<1> HIDE DEF x, z
<1>3. x \in AttachmentDirSlots(f, pos)
  BY <1>1, <1>2 DEF AttachmentDirSlots
<1> QED BY <1>2, <1>3

\* There is one XML document in a metadata segment.
LEMMA OneMetadata ==
  ASSUME NEW f, TidyFile(f), NEW pos \in Nat, NEW m, NEW n,
         MetadataAt(f, pos, m), MetadataAt(f, pos, n)
  PROVE  m = n
<1>1. ASSUME NEW l, MetadataAt(f, pos, l)
      PROVE  MetadataHead(pos, l) \in f
  <2>1. MetadataHead(pos, l).lo < MetadataHead(pos, l).hi
    BY DEF MetadataHead, Extent, SegmentHeaderSize
  <2> QED BY <1>1, <2>1 DEF MetadataAt, MetadataExtents, NotEmpty
<1>2. /\ MetadataHead(pos, m).lo = MetadataHead(pos, n).lo
      /\ MetadataHead(pos, m).what[2] = m
      /\ MetadataHead(pos, n).what[2] = n
  BY DEF MetadataHead, Extent
<1>3. MetadataHead(pos, m) \in f /\ MetadataHead(pos, n) \in f
  BY <1>1
<1> QED BY <1>2, <1>3 DEF TidyFile
=============================================================================
