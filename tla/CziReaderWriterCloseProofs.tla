--------------------- MODULE CziReaderWriterCloseProofs ---------------------
(***************************************************************************)
(* Theorems about Close of CziReaderWriter, and about a session.           *)
(*                                                                         *)
(* Where the two directories will be is settled before Close begins, and   *)
(* stays so if it fails and is called again: a directory stays in its      *)
(* segment or goes behind all others.  So it is settled what the writes of *)
(* a directory reach, and what a reader needs lies beside that, or is what *)
(* they leave (ClosingInv).                                                *)
(***************************************************************************)
EXTENDS CziReaderWriterProofs

(* What the writes of a directory reach. *)

\* A write of a directory that goes from `old` to `at`, or stays there
Reaches(w, old, at) ==
  \/ at.pos <= w.pos /\ w.pos + w.len <= SegmentEnd(at)
  \/ /\ old.valid
     /\ old.pos <= w.pos /\ w.pos + w.len <= old.pos + 16

Away(w, lo, hi) == hi <= w.pos \/ w.pos + w.len <= lo

\* The bytes are out of reach of such a write.
Clear(lo, hi, old, at) ==
  /\ hi <= at.pos \/ SegmentEnd(at) <= lo
  /\ old.valid => hi <= old.pos \/ old.pos + 16 <= lo

LEMMA OutOfReach ==
  ASSUME NEW w, GoodWrite(w), NEW old \in Segments, NEW at \in Segments,
         Reaches(w, old, at), NEW lo \in Nat, NEW hi \in Nat,
         Clear(lo, hi, old, at)
  PROVE  Away(w, lo, hi)
<1>1. w.pos \in Nat /\ w.len \in Nat
  BY DEF GoodWrite
<1>2. PICK end : end = SegmentEnd(at)
  OBVIOUS
<1>3. end \in Nat /\ at.pos \in Nat /\ old.pos \in Nat
  BY <1>2, EndTyped
<1> QED BY <1>1, <1>2, <1>3 DEF Reaches, Clear, Away

\* What follows a segment marked as deleted is that segment written at its new
\* place.
LEMMA DirectoryPieces ==
  ASSUME NEW old \in PlacedSegments, NEW dir, Len(dir) \in Nat, NEW n \in Nat,
         NEW at \in PlacedSegments, at.valid, NEW m \in Nat
  PROVE  /\ at.allocated >= SubBlkDirAllocated(Len(dir)) =>
              LET place == SubBlkDirPlace(old, dir, n)
              IN  place.pos = at.pos /\ place.allocated = at.allocated =>
                    Range(WriteSubBlkDirectory(old, dir, n))
                      = Range(MarkReplaced(old, SubBlkDirAllocated(Len(dir))))
                          \cup Range(WriteSubBlkDirectory(at, dir, m))
         /\ at.allocated >= AttachmentDirUsed(Len(dir)) /\ DOMAIN dir = 1..Len(dir) =>
              LET place == AttachmentDirPlace(old, dir, n)
              IN  place.pos = at.pos /\ place.allocated = at.allocated =>
                    Range(WriteAttachmentDirectory(old, dir, n))
                      = Range(MarkReplaced(old, AttachmentDirUsed(Len(dir))))
                          \cup Range(WriteAttachmentDirectory(at, dir, m))
<1>1. ASSUME NEW needed PROVE MarkReplaced(old, needed) \in Seq(Range(MarkReplaced(old, needed)))
  BY <1>1, ReplacedWritten DEF GoodWrites
<1>2. ASSUME NEW needed, at.allocated >= needed
      PROVE  MarkReplaced(at, needed) = <<>> /\ FitsInto(at, needed)
  BY <1>2 DEF MarkReplaced, FitsInto
<1>3. ASSUME at.allocated >= SubBlkDirAllocated(Len(dir)),
             SubBlkDirPlace(old, dir, n).pos = at.pos,
             SubBlkDirPlace(old, dir, n).allocated = at.allocated
      PROVE  Range(WriteSubBlkDirectory(old, dir, n))
               = Range(MarkReplaced(old, SubBlkDirAllocated(Len(dir))))
                   \cup Range(WriteSubBlkDirectory(at, dir, m))
  <2> DEFINE needed == SubBlkDirAllocated(Len(dir))
             written == SubBlkDirHeaderSize + Len(dir) * EntryDVSize
             w == Write(at.pos, written,
                        SegmentHeader(at.pos, "ZISRAWDIRECTORY", at.allocated)
                          \cup SubBlkDirExtents(at.pos, dir))
             zeroes == WriteZeroes(at.pos + written,
                                   (at.allocated + SegmentHeaderSize) - written)
             rest == <<w>> \o zeroes
             mark == MarkReplaced(old, needed)
  <2>1. WriteSubBlkDirectory(old, dir, n) = mark \o rest
    BY <1>3 DEF WriteSubBlkDirectory
  <2>2. SubBlkDirPlace(at, dir, m).pos = at.pos
        /\ SubBlkDirPlace(at, dir, m).allocated = at.allocated
    BY <1>2, <1>3 DEF SubBlkDirPlace, Placement
  <2>3. WriteSubBlkDirectory(at, dir, m) = MarkReplaced(at, needed) \o rest
    BY <2>2 DEF WriteSubBlkDirectory
  <2>4. MarkReplaced(at, needed) = <<>>
    BY <1>2, <1>3
  <2>5. rest \in Seq(Range(rest))
    <3>1. <<w>> \in Seq(Range(<<w>>))
      BY OneElement
    <3>2. zeroes \in Seq(Range(zeroes))
      BY ZeroWrites
    <3> HIDE DEF w, zeroes
    <3> QED BY <3>1, <3>2, Concatenated
  <2> HIDE DEF rest
  <2>6. Range(<<>> \o rest) = Range(rest)
    BY <2>5, NoElement, Concatenated
  <2>7. mark \in Seq(Range(mark))
    BY <1>1
  <2> HIDE DEF mark
  <2>8. Range(mark \o rest) = Range(mark) \cup Range(rest)
    BY <2>5, <2>7, Concatenated
  <2> QED BY <2>1, <2>3, <2>4, <2>6, <2>8 DEF mark
<1>4. ASSUME at.allocated >= AttachmentDirUsed(Len(dir)),
             DOMAIN dir = 1..Len(dir),
             AttachmentDirPlace(old, dir, n).pos = at.pos,
             AttachmentDirPlace(old, dir, n).allocated = at.allocated
      PROVE  Range(WriteAttachmentDirectory(old, dir, n))
               = Range(MarkReplaced(old, AttachmentDirUsed(Len(dir))))
                   \cup Range(WriteAttachmentDirectory(at, dir, m))
  <2> DEFINE needed == AttachmentDirUsed(Len(dir))
             entries == Len(dir) * AttachmentEntrySize
             segment == at.allocated + SegmentHeaderSize
             u == Write(at.pos, FixedHeaderSize,
                        SegmentHeader(at.pos, "ZISRAWATTDIR", at.allocated)
                          \cup {AttachmentDirCount(at.pos, Len(dir))})
             v == Write(at.pos + FixedHeaderSize, entries,
                        {AttachmentDirEntry(at.pos, k, dir[k]) :
                           k \in DOMAIN dir})
             zeroes == IF FixedHeaderSize + entries < segment
                       THEN WriteZeroes(at.pos + entries, segment - entries)
                       ELSE <<>>
             mark == MarkReplaced(old, needed)
  <2>1. WriteAttachmentDirectory(old, dir, n) = mark \o <<u>> \o <<v>> \o zeroes
    BY <1>4 DEF WriteAttachmentDirectory
  <2>2. AttachmentDirPlace(at, dir, m).pos = at.pos
        /\ AttachmentDirPlace(at, dir, m).allocated = at.allocated
    BY <1>2, <1>4 DEF AttachmentDirPlace, Placement
  <2>3. WriteAttachmentDirectory(at, dir, m)
          = MarkReplaced(at, needed) \o <<u>> \o <<v>> \o zeroes
    BY <2>2 DEF WriteAttachmentDirectory
  <2>4. MarkReplaced(at, needed) = <<>>
    BY <1>2, <1>4
  <2>5. zeroes \in Seq(Range(zeroes))
    BY ZeroWrites, NoElement
  <2>6. mark \in Seq(Range(mark))
    BY <1>1
  <2> HIDE DEF u, v, zeroes, mark, needed
  <2>7. ASSUME NEW s, s \in Seq(Range(s))
        PROVE  Range(s \o <<u>> \o <<v>> \o zeroes)
                 = Range(s) \cup {u, v} \cup Range(zeroes)
    <3>1. /\ <<u>> \in Seq(Range(<<u>>)) /\ Range(<<u>>) = {u}
          /\ <<v>> \in Seq(Range(<<v>>)) /\ Range(<<v>>) = {v}
      BY OneElement
    <3>2. PICK s1 : s1 = s \o <<u>>
      OBVIOUS
    <3>3. s1 \in Seq(Range(s1)) /\ Range(s1) = Range(s) \cup {u}
      BY <2>7, <3>1, <3>2, Concatenated
    <3>4. PICK s2 : s2 = s1 \o <<v>>
      OBVIOUS
    <3>5. s2 \in Seq(Range(s2)) /\ Range(s2) = Range(s1) \cup {v}
      <4>1. /\ s1 \o <<v>> \in Seq(Range(s1 \o <<v>>))
            /\ Range(s1 \o <<v>>) = Range(s1) \cup Range(<<v>>)
        BY ONLY <3>1, <3>3, Concatenated
      <4> QED BY <3>1, <3>4, <4>1, Zenon
    <3>6. Range(s2 \o zeroes) = Range(s2) \cup Range(zeroes)
      BY <2>5, <3>5, Concatenated
    <3> QED BY <3>2, <3>3, <3>4, <3>5, <3>6
  <2>8. Range(mark \o <<u>> \o <<v>> \o zeroes)
          = Range(mark) \cup {u, v} \cup Range(zeroes)
    BY <2>6, <2>7
  <2>9. Range(<<>> \o <<u>> \o <<v>> \o zeroes) = {u, v} \cup Range(zeroes)
    BY <2>7, NoElement
  <2>10. WriteAttachmentDirectory(at, dir, m) = <<>> \o <<u>> \o <<v>> \o zeroes
    BY <2>3, <2>4
  <2> QED BY <2>1, <2>8, <2>9, <2>10 DEF mark, needed
<1> QED BY <1>3, <1>4

\* A directory that needs `needed` bytes goes from `old` to `at`: it stays, or
\* is given `allocated` bytes behind all that is there, where `ns` says.
Goes(old, at, needed, allocated, ns) ==
  /\ at \in PlacedSegments /\ FitsInto(at, needed)
  /\ \/ old = at
     \/ /\ ~FitsInto(old, needed) /\ at.allocated = allocated
        /\ \A n \in ns : at.pos = n /\ (old.valid => SegmentEnd(old) <= n)

\* It arrives at the place chosen for it.
Arrives(place, old, at, needed, n) ==
  /\ place = [pos |-> at.pos, allocated |-> at.allocated]
  /\ at = SegmentAt(at.pos, at.allocated, FALSE)
  /\ at \in PlacedSegments /\ at.valid /\ at.allocated >= needed
  /\ \/ FitsInto(old, needed) /\ old = at
     \/ /\ ~FitsInto(old, needed)
        /\ at.pos = n /\ (old.valid => SegmentEnd(old) <= n)

LEMMA GoesThere ==
  ASSUME NEW old, NEW at, NEW needed, NEW allocated, NEW n, NEW ns, n \in ns,
         Goes(old, at, needed, allocated, ns)
  PROVE  Arrives(Placement(old, needed, allocated, n), old, at, needed, n)
<1>1. at \in PlacedSegments /\ at.valid /\ at.allocated >= needed
  BY DEF Goes, FitsInto
<1>2. at = SegmentAt(at.pos, at.allocated, FALSE)
  <2>1. at \in [valid : BOOLEAN, deleted : {FALSE}, pos : Nat, allocated : Nat]
    BY <1>1 DEF PlacedSegments, LiveSegments
  <2> QED BY <1>1, <2>1 DEF SegmentAt
<1>3. \/ FitsInto(old, needed) /\ old = at
      \/ /\ ~FitsInto(old, needed) /\ at.allocated = allocated
         /\ at.pos = n /\ (old.valid => SegmentEnd(old) <= n)
  BY DEF Goes
<1> QED BY <1>1, <1>2, <1>3 DEF Placement, Arrives

\* The mark of a segment that is replaced reaches only its header.
LEMMA MarkReaches ==
  ASSUME NEW old \in PlacedSegments, NEW at, NEW needed,
         NEW w \in Range(MarkReplaced(old, needed))
  PROVE  Reaches(w, old, at)
<1>1. old.valid /\ w = Write(old.pos, 16, {Magic(old.pos, "DELETED")})
  BY ReplacedWritten
<1>2. w.pos = old.pos /\ w.len = 16 /\ old.pos \in Nat
  BY <1>1, PlacedTyped, EndTyped DEF Write
<1> QED BY <1>1, <1>2 DEF Reaches

\* Writes that reach behind any m only if they are in the segment are in it.
LEMMA ConfinedReaches ==
  ASSUME NEW old, NEW at, NEW w, IsWrite(w), ConfinedTo(at, w.pos + 1, w)
  PROVE  Reaches(w, old, at)
BY DEF ConfinedTo, IsWrite, Reaches

LEMMA SubBlkDirGoes ==
  ASSUME NEW old \in PlacedSegments, NEW at, NEW n \in Nat,
         NEW dir, Len(dir) \in Nat,
         NEW needed, needed = SubBlkDirAllocated(Len(dir)),
         NEW ns, n \in ns, Goes(old, at, needed, needed, ns), NEW f
  PROVE  LET ws == WriteSubBlkDirectory(old, dir, n)
         IN  /\ SubBlkDirPlace(old, dir, n)
                  = [pos |-> at.pos, allocated |-> at.allocated]
             /\ \A w \in Range(ws) : Reaches(w, old, at)
             /\ \A x \in DirectoryExtents(at.pos, dir) : Lasting(f, Range(ws), x)
<1> DEFINE place == SubBlkDirPlace(old, dir, n)
           ws == WriteSubBlkDirectory(old, dir, n)
<1>1. /\ place = [pos |-> at.pos, allocated |-> at.allocated]
      /\ at \in PlacedSegments /\ at.valid
      /\ at.allocated >= SubBlkDirAllocated(Len(dir))
      /\ \/ FitsInto(old, needed) /\ old = at
         \/ /\ ~FitsInto(old, needed)
            /\ at.pos = n /\ (old.valid => SegmentEnd(old) <= n)
  <2>1. place = Placement(old, needed, needed, n)
    BY DEF SubBlkDirPlace
  <2> HIDE DEF place
  <2>2. Arrives(Placement(old, needed, needed, n), old, at, needed, n)
    BY GoesThere
  <2> QED BY <2>1, <2>2 DEF Arrives
<1>2. at \in Segments /\ old \in Segments
  BY <1>1, PlacedTyped
<1>3. place.pos = at.pos /\ place.allocated = at.allocated
  BY <1>1
<1> HIDE DEF place, ws
<1>4. ASSUME NEW w \in Range(ws) PROVE Reaches(w, old, at)
  <2>1. ASSUME NEW m \in Nat
        PROVE  Range(ws) = Range(MarkReplaced(old, needed))
                             \cup Range(WriteSubBlkDirectory(at, dir, m))
    BY <1>1, <1>3, <2>1, DirectoryPieces DEF place, ws
  <2>2. ASSUME NEW m \in Nat, NEW v \in Range(WriteSubBlkDirectory(at, dir, m))
        PROVE  IsWrite(v) /\ ConfinedTo(at, m, v)
    BY <1>2, <2>2, SubBlkDirWrites
  <2>3. CASE w \in Range(MarkReplaced(old, needed))
    BY <2>3, MarkReaches
  <2>4. CASE w \notin Range(MarkReplaced(old, needed))
    <3>1. \A m \in Nat : w \in Range(WriteSubBlkDirectory(at, dir, m))
      BY <2>1, <2>4
    <3>2. 0 \in Nat
      OBVIOUS
    <3>3. IsWrite(w)
      BY <2>2, <3>1, <3>2
    <3>4. w.pos + 1 \in Nat
      BY <3>3 DEF IsWrite
    <3>5. ConfinedTo(at, w.pos + 1, w)
      BY <2>2, <3>1, <3>4
    <3> QED BY <3>3, <3>5, ConfinedReaches
  <2> QED BY <2>3, <2>4
<1>5. ASSUME NEW x \in DirectoryExtents(at.pos, dir)
      PROVE  Lasting(f, Range(ws), x)
  <2>1. CASE ~FitsInto(old, needed) /\ (old.valid => SegmentEnd(old) <= n)
    BY <1>2, <1>3, <2>1, SubBlkDirLasts DEF place, ws
  <2>2. CASE FitsInto(old, needed) /\ old = at
    <3>1. PICK m : m = SegmentEnd(old)
      OBVIOUS
    <3>2. m \in Nat
      BY <1>2, <3>1, EndTyped
    <3>3. SubBlkDirPlace(old, dir, m) = place
      BY <2>2 DEF SubBlkDirPlace, Placement, place
    <3>4. WriteSubBlkDirectory(old, dir, m) = ws
      BY <3>3 DEF WriteSubBlkDirectory, place, ws
    <3>5. SegmentEnd(old) <= m
      BY <3>1, <3>2
    <3>6. \A y \in DirectoryExtents(SubBlkDirPlace(old, dir, m).pos, dir) :
            Lasting(f, Range(WriteSubBlkDirectory(old, dir, m)), y)
      BY <1>2, <3>2, <3>5, SubBlkDirLasts
    <3> QED BY <1>3, <3>3, <3>4, <3>6
  <2> QED BY <1>1, <2>1, <2>2
<1> QED BY <1>1, <1>4, <1>5 DEF place, ws

LEMMA AttachmentDirGoes ==
  ASSUME NEW old \in PlacedSegments, NEW at, NEW n \in Nat,
         NEW dir, Len(dir) \in Nat, DOMAIN dir = 1..Len(dir),
         NEW needed, needed = AttachmentDirUsed(Len(dir)),
         NEW ns, n \in ns, Goes(old, at, needed, AlignSegmentSize(needed), ns)
  PROVE  /\ AttachmentDirPlace(old, dir, n)
              = [pos |-> at.pos, allocated |-> at.allocated]
         /\ \A w \in Range(WriteAttachmentDirectory(old, dir, n)) :
              Reaches(w, old, at)
<1> DEFINE place == AttachmentDirPlace(old, dir, n)
           ws == WriteAttachmentDirectory(old, dir, n)
<1>1. /\ place = [pos |-> at.pos, allocated |-> at.allocated]
      /\ at \in PlacedSegments /\ at.valid
      /\ at.allocated >= AttachmentDirUsed(Len(dir))
  <2> DEFINE allocated == AlignSegmentSize(needed)
  <2>1. place = Placement(old, needed, allocated, n)
    BY DEF AttachmentDirPlace
  <2> HIDE DEF place
  <2>2. Arrives(Placement(old, needed, allocated, n), old, at, needed, n)
    BY GoesThere
  <2> QED BY <2>1, <2>2 DEF Arrives
<1>2. at \in Segments /\ old \in Segments
  BY <1>1, PlacedTyped
<1>3. place.pos = at.pos /\ place.allocated = at.allocated
  BY <1>1
<1> HIDE DEF place, ws
<1>4. ASSUME NEW w \in Range(ws) PROVE Reaches(w, old, at)
  <2>1. ASSUME NEW m \in Nat
        PROVE  Range(ws) = Range(MarkReplaced(old, needed))
                             \cup Range(WriteAttachmentDirectory(at, dir, m))
    BY <1>1, <1>3, <2>1, DirectoryPieces DEF place, ws
  <2>2. ASSUME NEW m \in Nat,
               NEW v \in Range(WriteAttachmentDirectory(at, dir, m))
        PROVE  IsWrite(v) /\ ConfinedTo(at, m, v)
    BY <1>2, <2>2, AttachmentDirWrites
  <2>3. CASE w \in Range(MarkReplaced(old, needed))
    BY <2>3, MarkReaches
  <2>4. CASE w \notin Range(MarkReplaced(old, needed))
    <3>1. \A m \in Nat : w \in Range(WriteAttachmentDirectory(at, dir, m))
      BY <2>1, <2>4
    <3>2. 0 \in Nat
      OBVIOUS
    <3>3. IsWrite(w)
      BY <2>2, <3>1, <3>2
    <3>4. w.pos + 1 \in Nat
      BY <3>3 DEF IsWrite
    <3>5. ConfinedTo(at, w.pos + 1, w)
      BY <2>2, <3>1, <3>4
    <3> QED BY <3>3, <3>5, ConfinedReaches
  <2> QED BY <2>3, <2>4
<1> QED BY <1>1, <1>4 DEF place, ws

-----------------------------------------------------------------------------
(* What Close saves. *)

SubNeeds == SubBlkDirAllocated(Len(Enumerated(sbBlkDirectory)))
AttNeeds == AttachmentDirUsed(Len(Enumerated(attachmentDirectory)))

\* When Close is over, the sub-block directory is in s.
SubGoes(s) ==
  IF sbBlkDirectory.modified
  THEN /\ Goes(subBlockDirectorySegment, s, SubNeeds, SubNeeds,
               EnsureNextSegmentInfo)
       /\ subBlockDirectorySegment = s =>
            \A n \in EnsureNextSegmentInfo : s.pos < n
  ELSE s = subBlockDirectorySegment

\* The append position when the sub-block directory is in s
NextThen(s) ==
  IF sbBlkDirectory.modified /\ subBlockDirectorySegment # s
  THEN {n + s.allocated : n \in EnsureNextSegmentInfo}
  ELSE EnsureNextSegmentInfo

\* The attachment directory is in a then.
AttGoes(s, a) ==
  IF attachmentDirectory.modified
  THEN Goes(attachmentDirectorySegment, a, AttNeeds, AlignSegmentSize(AttNeeds),
            NextThen(s))
  ELSE a = attachmentDirectorySegment

\* Close has put one directory over the other.
Excused(s, a) == a.valid /\ s.pos < a.pos /\ a.pos < SegmentEnd(s)

\* Behind all spans
Beyond(S, at) == \A t \in S : t.hi <= at.pos

LEMMA OneNext ==
  ASSUME TypeInv, NEW m \in EnsureNextSegmentInfo, NEW n \in EnsureNextSegmentInfo
  PROVE  m = n
<1>1. CASE nextSegmentPos # 0
  BY <1>1 DEF EnsureNextSegmentInfo
<1>2. CASE nextSegmentPos = 0
  <2>1. PICK x \in file : /\ x.lo = lastSegmentPos + 16
                          /\ m = lastSegmentPos + SegmentHeaderSize + x.what[2]
    BY <1>2 DEF EnsureNextSegmentInfo, AllocatedSize
  <2>2. PICK y \in file : /\ y.lo = lastSegmentPos + 16
                          /\ n = lastSegmentPos + SegmentHeaderSize + y.what[2]
    BY <1>2 DEF EnsureNextSegmentInfo, AllocatedSize
  <2>3. x = y
    BY <2>1, <2>2 DEF TypeInv, FileTyped, IsCziFile
  <2> QED BY <2>1, <2>2, <2>3
<1> QED BY <1>1, <1>2

LEMMA RoomBefore ==
  ASSUME NEW S, Arranged(S), NEW old \in PlacedSegments, DirectoryRoom(S, old),
         old.valid, NEW n \in Nat, \A s \in S : s.hi <= n
  PROVE  SegmentEnd(old) <= n /\ old.pos < n /\ old.pos + 16 <= n
<1>1. PICK t \in S : SegmentEnd(old) <= t.hi
  BY DEF DirectoryRoom
<1>2. SegmentEnd(old) \in Nat /\ t.hi \in Nat /\ t.hi <= n
  BY PlacedTyped, EndTyped DEF Arranged
<1>3. old.pos \in Nat /\ old.allocated \in Nat
  BY PlacedTyped DEF Segments
<1>4. SegmentEnd(old) <= n
  BY <1>1, <1>2
<1> QED BY <1>3, <1>4 DEF SegmentEnd, SegmentHeaderSize

LEMMA NeedsTyped ==
  ASSUME TypeInv
  PROVE  /\ SubNeeds \in Nat /\ SubNeeds >= 128
         /\ AttNeeds \in Nat /\ AttNeeds >= 256
         /\ AlignSegmentSize(AttNeeds) \in Nat
         /\ AlignSegmentSize(AttNeeds) >= AttNeeds
         /\ Len(Enumerated(sbBlkDirectory)) \in Nat
         /\ Len(Enumerated(attachmentDirectory)) \in Nat
<1>1. /\ Enumerated(sbBlkDirectory) \in Seq(SubBlockEntries)
      /\ Enumerated(attachmentDirectory) \in Seq(AttachmentEntries)
  BY EnumeratedIsList DEF TypeInv, DirectoriesTyped
<1>2. PICK m, n : /\ m = Len(Enumerated(sbBlkDirectory))
                  /\ n = Len(Enumerated(attachmentDirectory))
  OBVIOUS
<1>3. m \in Nat /\ n \in Nat
  BY <1>1, <1>2
<1>4. m * EntryDVSize \in Nat
  BY <1>3, HeadSizes
<1>5. SubBlkDirAllocated(m) \in Nat /\ SubBlkDirAllocated(m) >= 128
  BY <1>3, <1>4, AllocatedSizes
<1>6. /\ AttachmentDirUsed(n) \in Nat /\ AttachmentDirUsed(n) >= 256
      /\ AlignSegmentSize(AttachmentDirUsed(n)) \in Nat
      /\ AlignSegmentSize(AttachmentDirUsed(n)) >= AttachmentDirUsed(n)
  <2>1. n * AttachmentEntrySize \in Nat
    BY <1>3 DEF AttachmentEntrySize
  <2> QED BY <1>3, <2>1, AllocatedSizes DEF AttachmentDirUsed
<1> QED BY <1>2, <1>3, <1>5, <1>6 DEF SubNeeds, AttNeeds

LEMMA SubReady ==
  ASSUME TypeInv, NEW S, NEW H, Rests(S, H),
         sbBlkDirectory.modified => EnsureNextSegmentInfo # {}
  PROVE  \E s \in PlacedSegments :
           /\ SubGoes(s)
           /\ \/ s = subBlockDirectorySegment
              \/ /\ sbBlkDirectory.modified /\ s # subBlockDirectorySegment
                 /\ Beyond(S, s)
           /\ sbBlkDirectory.modified => s.valid /\ s.allocated >= SubNeeds
<1> DEFINE sub == subBlockDirectorySegment
<1>1. sub \in PlacedSegments /\ DirectoryRoom(S, sub)
  BY DEF TypeInv, SegmentsTyped, Rests, Framed, Frame
<1>2. CASE ~sbBlkDirectory.modified
  BY <1>1, <1>2 DEF SubGoes
<1>3. CASE sbBlkDirectory.modified
  <2>1. PICK n : n \in EnsureNextSegmentInfo
    BY <1>3
  <2>2. /\ n \in BehindHeader /\ n \in Nat /\ Arranged(S)
        /\ \A s \in S : s.hi <= n
    BY <2>1, NextIsBehind
  <2>3. \A m \in EnsureNextSegmentInfo : m = n
    BY <2>1, OneNext
  <2> HIDE DEF sub
  <2>4. sub.valid => SegmentEnd(sub) <= n /\ sub.pos < n
    BY <1>1, <2>2, RoomBefore
  <2>5. CASE FitsInto(sub, SubNeeds)
    <3>1. sub.valid /\ sub.allocated >= SubNeeds
      BY <2>5 DEF FitsInto
    <3>2. SubGoes(sub)
      BY <1>1, <1>3, <2>3, <2>4, <2>5, <3>1 DEF SubGoes, Goes, sub
    <3> QED BY <1>1, <3>1, <3>2 DEF sub
  <2>6. CASE ~FitsInto(sub, SubNeeds)
    <3> DEFINE s == SegmentAt(n, SubNeeds, FALSE)
    <3>1. /\ s \in PlacedSegments /\ s.valid /\ s.pos = n
          /\ s.allocated = SubNeeds
      BY <2>2, NeedsTyped, PlacedTyped DEF SegmentAt
    <3> HIDE DEF s
    <3>2. s.allocated >= SubNeeds
      <4>1. SubNeeds \in Nat
        BY NeedsTyped
      <4> QED BY <3>1, <4>1
    <3>3. FitsInto(s, SubNeeds)
      BY <3>1, <3>2 DEF FitsInto
    <3>4. s # sub
      BY <2>6, <3>3
    <3>5. SubGoes(s)
      BY <1>3, <2>3, <2>4, <2>6, <3>1, <3>3, <3>4 DEF SubGoes, Goes, sub
    <3>6. Beyond(S, s)
      BY <2>2, <3>1 DEF Beyond
    <3> QED BY <1>3, <3>1, <3>2, <3>4, <3>5, <3>6 DEF sub
  <2> QED BY <2>5, <2>6
<1> QED BY <1>2, <1>3

LEMMA AttReady ==
  ASSUME TypeInv, NEW S, NEW H, Rests(S, H),
         NEW s \in PlacedSegments, SubGoes(s),
         \/ s = subBlockDirectorySegment
         \/ sbBlkDirectory.modified /\ s # subBlockDirectorySegment,
         sbBlkDirectory.modified => s.valid /\ s.allocated >= SubNeeds,
         s.valid \/ NextThen(s) # {}
  PROVE  \E a \in PlacedSegments :
           /\ AttGoes(s, a)
           /\ \/ a = attachmentDirectorySegment
              \/ Excused(s, a)
              \/ s = subBlockDirectorySegment /\ Beyond(S, a)
           /\ attachmentDirectory.modified => a.valid
<1> DEFINE att == attachmentDirectorySegment
           moves == sbBlkDirectory.modified /\ subBlockDirectorySegment # s
           needed == AttNeeds
           allocated == AlignSegmentSize(AttNeeds)
<1>1. /\ att \in PlacedSegments /\ DirectoryRoom(S, att)
      /\ needed \in Nat /\ allocated \in Nat /\ allocated >= needed
  BY NeedsTyped DEF TypeInv, SegmentsTyped, Rests, Framed, Frame
<1>2. s \in Segments /\ s.pos \in Nat /\ s.allocated \in Nat
      /\ (s.valid => s.pos \in BehindHeader)
  BY PlacedTyped DEF Segments
<1>3. CASE ~attachmentDirectory.modified
  BY <1>1, <1>3 DEF AttGoes
<1>4. CASE attachmentDirectory.modified /\ FitsInto(att, AttNeeds)
  <2>1. att.valid /\ AttGoes(s, att)
    BY <1>1, <1>4 DEF AttGoes, Goes, FitsInto
  <2> QED BY <1>1, <2>1
<1>5. CASE attachmentDirectory.modified /\ ~FitsInto(att, AttNeeds)
  <2>1. ASSUME NEW q \in BehindHeader,
               \A n \in NextThen(s) : n = q /\ (att.valid => SegmentEnd(att) <= n)
        PROVE  \E a \in PlacedSegments :
                 AttGoes(s, a) /\ a.valid /\ a.pos = q
    <3> DEFINE a == SegmentAt(q, allocated, FALSE)
    <3>1. a \in PlacedSegments /\ a.valid /\ a.pos = q /\ a.allocated = allocated
      BY <1>1, <2>1, PlacedTyped DEF SegmentAt
    <3> HIDE DEF a, allocated, needed
    <3>2. a.allocated >= needed
      BY <1>1, <3>1
    <3>3. Goes(att, a, needed, allocated, NextThen(s))
      BY <1>5, <2>1, <3>1, <3>2 DEF Goes, FitsInto, needed
    <3>4. AttGoes(s, a)
      BY <1>5, <3>3 DEF AttGoes, needed, allocated
    <3> QED BY <3>1, <3>4
  <2>2. CASE NextThen(s) = {}
    <3>1. PICK q \in BehindHeader : q = s.pos + 1
      <4>1. s.pos + 1 \in BehindHeader
        BY <1>2, <2>2, Behind
      <4> QED BY <4>1
    <3>2. PICK a \in PlacedSegments : AttGoes(s, a) /\ a.valid /\ a.pos = q
      BY <2>1, <2>2
    <3>3. Excused(s, a)
      BY <1>2, <3>1, <3>2 DEF Excused, SegmentEnd, SegmentHeaderSize
    <3> QED BY <3>2, <3>3
  <2>3. CASE NextThen(s) # {}
    <3>1. PICK n \in EnsureNextSegmentInfo : TRUE
      BY <2>3 DEF NextThen
    <3>2. /\ n \in BehindHeader /\ n \in Nat /\ Arranged(S)
          /\ \A t \in S : t.hi <= n
      BY <3>1, NextIsBehind
    <3>3. att.valid => SegmentEnd(att) <= n
      BY <1>1, <3>2, RoomBefore
    <3>4. \A m \in EnsureNextSegmentInfo : m = n
      BY <3>1, OneNext
    <3> HIDE DEF att
    <3>5. SegmentEnd(att) \in Nat
      BY <1>1, PlacedTyped, EndTyped
    <3>6. CASE moves
      <4>1. \A m \in NextThen(s) : m = n + s.allocated
        BY <3>4, <3>6 DEF NextThen
      <4>2. n + s.allocated \in BehindHeader
        BY <1>2, <3>2, Behind
      <4>3. att.valid => SegmentEnd(att) <= n + s.allocated
        BY <1>2, <3>2, <3>3, <3>5
      <4>4. PICK a \in PlacedSegments :
              AttGoes(s, a) /\ a.valid /\ a.pos = n + s.allocated
        BY <2>1, <4>1, <4>2, <4>3
      <4>5. s.pos = n
        BY <3>1, <3>6 DEF SubGoes, Goes
      <4>6. s.allocated >= 128
        BY <1>2, <3>6, NeedsTyped
      <4>7. Excused(s, a)
        BY <1>2, <3>2, <4>4, <4>5, <4>6
           DEF Excused, SegmentEnd, SegmentHeaderSize
      <4> QED BY <4>4, <4>7
    <3>7. CASE ~moves
      <4>1. \A m \in NextThen(s) : m = n
        BY <3>4, <3>7 DEF NextThen
      <4>2. PICK a \in PlacedSegments : AttGoes(s, a) /\ a.valid /\ a.pos = n
        BY <2>1, <3>2, <3>3, <4>1
      <4>3. Beyond(S, a)
        BY <3>2, <4>2 DEF Beyond
      <4>4. s = subBlockDirectorySegment
        BY <3>7
      <4> QED BY <4>2, <4>3, <4>4
    <3> QED BY <3>6, <3>7
  <2> QED BY <2>2, <2>3
<1> QED BY <1>3, <1>4, <1>5

SubIsPlaced ==
  \/ op \in {"WriteAttachmentDir", "FinishAttachmentDir", "UpdateFileHeader"}
  \/ phase = "closed"

AttIsPlaced == op = "UpdateFileHeader" \/ phase = "closed"

\* It is settled that the directories go to s and a.
Settled(s, a) ==
  /\ SubGoes(s) /\ AttGoes(s, a)
  /\ SubIsPlaced => /\ subBlockDirectorySegment = s
                    /\ sbBlkDirectory.modified => nextSegmentPos # 0
  /\ AttIsPlaced => attachmentDirectorySegment = a
  /\ \/ op = "FinishSubBlkDir" /\ ~sbBlkDirectory.modified
     \/ op = "WriteAttachmentDir"
     => writes = <<>>

\* No write of a directory reaches these bytes.
Beside(lo, hi, s, a) ==
  /\ sbBlkDirectory.modified => Clear(lo, hi, subBlockDirectorySegment, s)
  /\ attachmentDirectory.modified =>
       Clear(lo, hi, attachmentDirectorySegment, a)

\* The parts are in the file, and no write of Close reaches them.
Remains(f, parts, s, a) ==
  /\ parts \subseteq f
  /\ \A x \in parts : x.lo >= FileHeaderSegmentSize /\ Beside(x.lo, x.hi, s, a)

\* The sub-blocks and the metadata that the client relies on do.
ReliedRemains(f, s, a) ==
  /\ \A k : SubBlock(k) \in kept =>
       /\ k \in DOMAIN sbBlkDirectory.entries
       /\ Remains(f, SubBlockExtents(sbBlkDirectory.entries[k].pos,
                                     sbBlkDirectory.entries[k].id), s, a)
  /\ meta \in Metadatas =>
       Remains(f, MetadataExtents(metadataSegment.pos, meta), s, a)

\* The sub-block directory, if there is one, will be at s with the entries dir.
SubDirRemains(f, s, a, dir) ==
  /\ IsListOf(dir, sbBlkDirectory)
  /\ sbBlkDirectory.modified => s.valid /\ dir = Enumerated(sbBlkDirectory)
  /\ s.valid =>
       /\ s.pos >= FileHeaderSegmentSize
       /\ attachmentDirectory.modified =>
            Clear(s.pos, DirectoryEnd(s.pos, Len(dir)),
                  attachmentDirectorySegment, a)
       /\ ~sbBlkDirectory.modified \/ SubIsPlaced => Reads(f, s.pos, dir)

\* An attachment directory that was not edited is at a, if there is one.
AttDirRemains(f, s, a) ==
  ~attachmentDirectory.modified =>
    /\ a.valid =>
         /\ sbBlkDirectory.modified =>
              Clear(a.pos, SegmentEnd(a), subBlockDirectorySegment, s)
         /\ ReadsAttachments(f, a, EntriesOf(attachmentDirectory))
    /\ ~a.valid => EntriesOf(attachmentDirectory) = {}

\* The file header has to be written: HeaderIsStale when both are placed
Stale(s, a) ==
  \/ /\ attachmentDirectory.modified
     /\ hdrSegmentData.attachmentDirectory # a.pos
  \/ /\ sbBlkDirectory.modified
     /\ hdrSegmentData.subBlockDirectory # s.pos
  \/ hdrSegmentData.metadata # metadataSegment.pos

HeaderComesOut(f, s, a) ==
  phase = "closed" \/ ~Stale(s, a) =>
    Names(Parts(f, 0, FileHeaderSegmentSize), s.pos, metadataSegment.pos, a.pos)

\* The writes ws that a part of Close has left reach nothing but its own.
Finishing(f, ws, s, a, dir) ==
  /\ op = "FinishSubBlkDir" =>
       IF sbBlkDirectory.modified
       THEN /\ \A w \in ws : Reaches(w, subBlockDirectorySegment, s)
            /\ \A x \in DirectoryExtents(s.pos, dir) : Lasting(f, ws, x)
       ELSE ws = {}
  /\ op = "WriteAttachmentDir" => ws = {}
  /\ op = "FinishAttachmentDir" =>
       IF attachmentDirectory.modified
       THEN \A w \in ws : Reaches(w, attachmentDirectorySegment, a)
       ELSE ws = {}
  /\ op = "UpdateFileHeader" =>
       IF Stale(s, a)
       THEN /\ \A w \in ws : w.pos = 0 /\ w.len = FileHeaderSegmentSize
            /\ \A x \in FileHeader(s.pos, metadataSegment.pos, a.pos) :
                 Lasting(f, ws, x)
       ELSE ws = {}

Saves(f, ws, s, a, dir) ==
  /\ ReliedRemains(f, s, a) /\ SubDirRemains(f, s, a, dir)
  /\ AttDirRemains(f, s, a) /\ HeaderComesOut(f, s, a)
  /\ Finishing(f, ws, s, a, dir)

SavesAll(f, ws, s, a) == \E dir : Saves(f, ws, s, a, dir)

Closable ==
  \E s, a \in PlacedSegments :
    Settled(s, a) /\ (Excused(s, a) \/ SavesAll(file, Range(writes), s, a))

\* While the document is being closed, and when it is, Close saves everything,
\* or has to put one directory over the other.
ClosingInv == phase \in {"closing", "closed"} => Closable

LEMMA RoomClear ==
  ASSUME NEW S, Arranged(S), NEW old \in PlacedSegments,
         NEW at \in PlacedSegments, at.valid, DirectoryRoom(S, old),
         at = old \/ Beyond(S, at),
         NEW t \in S, t.owner # Document, NEW lo \in Nat, NEW hi \in Nat,
         t.lo <= lo, hi <= t.hi
  PROVE  Clear(lo, hi, old, at)
<1>1. PICK p, q : p = SegmentEnd(old) /\ q = SegmentEnd(at)
  OBVIOUS
<1>2. /\ old.pos \in Nat /\ at.pos \in Nat /\ p \in Nat /\ q \in Nat
      /\ old.pos + 16 <= p /\ t.lo \in Nat /\ t.hi \in Nat
  <2>1. old.pos \in Nat /\ at.pos \in Nat /\ p \in Nat /\ q \in Nat
    BY <1>1, PlacedTyped, EndTyped
  <2>2. old.allocated \in Nat
    BY PlacedTyped DEF Segments
  <2>3. old.pos + 16 <= p
    BY <1>1, <2>1, <2>2 DEF SegmentEnd, SegmentHeaderSize
  <2> QED BY <2>1, <2>3 DEF Arranged
<1>3. old.valid => t.hi <= old.pos \/ p <= t.lo
  BY <1>1 DEF DirectoryRoom
<1>4. old.valid => hi <= old.pos \/ old.pos + 16 <= lo
  BY <1>2, <1>3
<1>5. hi <= at.pos \/ q <= lo
  BY <1>1, <1>2, <1>3 DEF Beyond
<1> QED BY <1>1, <1>4, <1>5 DEF Clear

\* A directory that has arrived reaches no further than when it goes.
LEMMA ClearThere ==
  ASSUME NEW old, NEW at \in PlacedSegments, NEW lo \in Nat, NEW hi \in Nat,
         Clear(lo, hi, old, at)
  PROVE  Clear(lo, hi, at, at)
<1>1. at.pos \in Nat /\ at.allocated \in Nat
  BY PlacedTyped DEF Segments
<1>2. hi <= at.pos \/ at.pos + at.allocated + 32 <= lo
  BY DEF Clear, SegmentEnd, SegmentHeaderSize
<1>3. hi <= at.pos \/ at.pos + 16 <= lo
  BY <1>1, <1>2
<1> QED BY <1>3 DEF Clear

\* What a write of Close may reach
Permitted(w, s, a) ==
  \/ w.pos = 0 /\ w.len = FileHeaderSegmentSize
  \/ sbBlkDirectory.modified /\ Reaches(w, subBlockDirectorySegment, s)
  \/ attachmentDirectory.modified /\ Reaches(w, attachmentDirectorySegment, a)

LEMMA BesideAway ==
  ASSUME TypeInv, NEW s \in PlacedSegments, NEW a \in PlacedSegments, NEW w,
         GoodWrite(w), Permitted(w, s, a), NEW lo \in Nat, NEW hi \in Nat,
         lo >= FileHeaderSegmentSize, Beside(lo, hi, s, a)
  PROVE  Away(w, lo, hi)
<1>1. /\ s \in Segments /\ a \in Segments
      /\ subBlockDirectorySegment \in Segments
      /\ attachmentDirectorySegment \in Segments
  BY PlacedTyped DEF TypeInv, SegmentsTyped
<1>2. CASE w.pos = 0 /\ w.len = FileHeaderSegmentSize
  BY <1>2 DEF Away, FileHeaderSegmentSize
<1>3. CASE sbBlkDirectory.modified /\ Reaches(w, subBlockDirectorySegment, s)
  <2>1. Clear(lo, hi, subBlockDirectorySegment, s)
    BY <1>3 DEF Beside
  <2> QED BY <1>1, <1>3, <2>1, OutOfReach
<1>4. CASE /\ attachmentDirectory.modified
           /\ Reaches(w, attachmentDirectorySegment, a)
  <2>1. Clear(lo, hi, attachmentDirectorySegment, a)
    BY <1>4 DEF Beside
  <2> QED BY <1>1, <1>4, <2>1, OutOfReach
<1> QED BY <1>2, <1>3, <1>4 DEF Permitted

LEMMA RemainsKept ==
  ASSUME TypeInv, NEW s \in PlacedSegments, NEW a \in PlacedSegments, NEW w,
         GoodWrite(w), Permitted(w, s, a),
         NEW g, g \in {file, Smash(file, w), Apply(file, w)},
         NEW parts, Remains(file, parts, s, a)
  PROVE  Remains(g, parts, s, a)
<1>1. ASSUME NEW x \in parts PROVE x \in g
  <2>1. /\ x \in file /\ x.lo >= FileHeaderSegmentSize
        /\ Beside(x.lo, x.hi, s, a)
    BY DEF Remains
  <2>2. x.lo \in Nat /\ x.hi \in Nat
    BY <2>1, WellFormedBounds DEF TypeInv, FileTyped, IsCziFile
  <2>3. Survives(x, w)
    BY <2>1, <2>2, BesideAway DEF Away, Survives
  <2> QED BY <2>1, <2>3 DEF Smash, Apply
<1> QED BY <1>1 DEF Remains

LEMMA FinishingPermits ==
  ASSUME TypeInv, phase = "closing", NEW s, NEW a, NEW dir,
         Finishing(file, Range(writes), s, a, dir), NEW w \in Range(writes)
  PROVE  Permitted(w, s, a) /\ op # "WriteAttachmentDir"
<1>1. op \in CloseOps
  <2>1. op # "idle"
    BY NoElement DEF TypeInv, WritesTyped
  <2> QED BY <2>1 DEF TypeInv, OpInPhase, CreateOps
<1>2. CASE op = "FinishSubBlkDir"
  BY <1>2 DEF Finishing, Permitted
<1>3. CASE op = "FinishAttachmentDir"
  BY <1>3 DEF Finishing, Permitted
<1>4. CASE op = "UpdateFileHeader"
  BY <1>4 DEF Finishing, Permitted
<1>5. op # "WriteAttachmentDir"
  BY DEF Finishing
<1> QED BY <1>1, <1>2, <1>3, <1>4, <1>5 DEF CloseOps

\* A write of Close, made, failed or cut short, leaves what is relied on.
LEMMA WriteRemains ==
  ASSUME TypeInv, phase = "closing",
         NEW s \in PlacedSegments, NEW a \in PlacedSegments, NEW dir,
         Saves(file, Range(writes), s, a, dir), NEW w \in Range(writes),
         NEW g, g \in {file, Smash(file, w), Apply(file, w)}
  PROVE  /\ ReliedRemains(g, s, a)
         /\ IsListOf(dir, sbBlkDirectory)
         /\ sbBlkDirectory.modified => s.valid /\ dir = Enumerated(sbBlkDirectory)
         /\ s.valid =>
              /\ s.pos >= FileHeaderSegmentSize
              /\ attachmentDirectory.modified =>
                   Clear(s.pos, DirectoryEnd(s.pos, Len(dir)),
                         attachmentDirectorySegment, a)
              /\ ~sbBlkDirectory.modified \/ SubIsPlaced => Reads(g, s.pos, dir)
         /\ AttDirRemains(g, s, a)
         /\ ~Stale(s, a) =>
              Names(Parts(g, 0, FileHeaderSegmentSize), s.pos,
                    metadataSegment.pos, a.pos)
<1>1. GoodWrite(w) /\ IsCziFile(file)
  BY DEF TypeInv, FileTyped, GoodWrites
<1>2. Permitted(w, s, a) /\ op # "WriteAttachmentDir"
  BY FinishingPermits DEF Saves
<1>3. ReliedRemains(g, s, a)
  BY <1>1, <1>2, RemainsKept DEF Saves, ReliedRemains
<1>4. /\ s \in Segments /\ a \in Segments
      /\ s.pos \in Nat /\ a.pos \in Nat /\ SegmentEnd(a) \in Nat
      /\ (a.valid => a.pos >= FileHeaderSegmentSize)
  BY PlacedTyped, EndTyped DEF PlacedSegments, BehindHeader
<1>5. op \in CloseOps
  <2>1. op # "idle"
    BY NoElement DEF TypeInv, WritesTyped
  <2> QED BY <2>1 DEF TypeInv, OpInPhase, CreateOps
<1>6. SubDirRemains(file, s, a, dir)
  BY DEF Saves
<1>7. s.valid /\ (~sbBlkDirectory.modified \/ SubIsPlaced) =>
        Reads(g, s.pos, dir)
  <2> SUFFICES ASSUME s.valid, ~sbBlkDirectory.modified \/ SubIsPlaced
               PROVE  Reads(g, s.pos, dir)
    OBVIOUS
  <2>1. PICK end : end = DirectoryEnd(s.pos, Len(dir))
    OBVIOUS
  <2>2. end \in Nat
    BY <1>4, <1>6, <2>1, EndTyped DEF SubDirRemains, IsListOf
  <2>3. sbBlkDirectory.modified =>
          op \in {"FinishAttachmentDir", "UpdateFileHeader"}
    BY <1>2, <1>5 DEF SubIsPlaced, CloseOps
  <2>4. Away(w, s.pos, end)
    <3>1. CASE op = "FinishSubBlkDir"
      BY <2>3, <3>1 DEF Saves, Finishing
    <3>2. CASE op = "FinishAttachmentDir"
      <4>1. attachmentDirectory.modified
        BY <3>2 DEF Saves, Finishing
      <4>2. /\ Reaches(w, attachmentDirectorySegment, a)
            /\ Clear(s.pos, end, attachmentDirectorySegment, a)
        BY <1>6, <2>1, <3>2, <4>1 DEF Saves, Finishing, SubDirRemains
      <4>3. attachmentDirectorySegment \in Segments
        BY PlacedTyped DEF TypeInv, SegmentsTyped
      <4> QED BY <1>1, <1>4, <2>2, <4>2, <4>3, OutOfReach
    <3>3. CASE op = "UpdateFileHeader"
      <4>1. w.pos = 0 /\ w.len = FileHeaderSegmentSize
        BY <3>3 DEF Saves, Finishing
      <4> QED BY <1>4, <1>6, <4>1
              DEF Away, SubDirRemains, FileHeaderSegmentSize
    <3> QED BY <1>2, <1>5, <3>1, <3>2, <3>3 DEF CloseOps
  <2>5. Parts(g, s.pos, end) = Parts(file, s.pos, end)
    BY <1>1, <1>4, <2>2, <2>4, PartsKept DEF Away
  <2> QED BY <1>6, <2>1, <2>5 DEF SubDirRemains, Reads
<1>8. AttDirRemains(g, s, a)
  <2> SUFFICES ASSUME ~attachmentDirectory.modified, a.valid
               PROVE  ReadsAttachments(g, a, EntriesOf(attachmentDirectory))
    BY DEF Saves, AttDirRemains
  <2>1. PICK end : end = SegmentEnd(a)
    OBVIOUS
  <2>2. Away(w, a.pos, end)
    <3>1. CASE op = "FinishSubBlkDir"
      <4>1. sbBlkDirectory.modified
        BY <3>1 DEF Saves, Finishing
      <4>2. /\ Reaches(w, subBlockDirectorySegment, s)
            /\ Clear(a.pos, end, subBlockDirectorySegment, s)
        BY <2>1, <3>1, <4>1 DEF Saves, Finishing, AttDirRemains
      <4>3. subBlockDirectorySegment \in Segments
        BY PlacedTyped DEF TypeInv, SegmentsTyped
      <4> QED BY <1>1, <1>4, <2>1, <4>2, <4>3, OutOfReach
    <3>2. CASE op = "FinishAttachmentDir"
      BY <3>2 DEF Saves, Finishing
    <3>3. CASE op = "UpdateFileHeader"
      <4>1. w.pos = 0 /\ w.len = FileHeaderSegmentSize
        BY <3>3 DEF Saves, Finishing
      <4> QED BY <1>4, <4>1 DEF Away, FileHeaderSegmentSize
    <3> QED BY <1>2, <1>5, <3>1, <3>2, <3>3 DEF CloseOps
  <2>3. Parts(g, a.pos, end) = Parts(file, a.pos, end)
    BY <1>1, <1>4, <2>1, <2>2, PartsKept DEF Away
  <2>4. ReadsAttachments(file, a, EntriesOf(attachmentDirectory))
    BY DEF Saves, AttDirRemains
  <2> QED BY <2>1, <2>3, <2>4 DEF ReadsAttachments
<1>9. ASSUME ~Stale(s, a)
      PROVE  Names(Parts(g, 0, FileHeaderSegmentSize), s.pos,
                   metadataSegment.pos, a.pos)
  <2>1. op # "UpdateFileHeader"
    BY <1>9 DEF Saves, Finishing
  <2>2. w.pos \in BehindHeader
    BY <1>5, <2>1 DEF TypeInv, WritesTyped, EditWrites, CreateOps, CloseOps
  <2>3. PICK e : e = FileHeaderSegmentSize
    OBVIOUS
  <2>4. e \in Nat /\ e <= w.pos
    BY <2>2, <2>3 DEF BehindHeader, FileHeaderSegmentSize
  <2>5. Parts(g, 0, e) = Parts(file, 0, e)
    BY <1>1, <2>4, PartsKept
  <2> QED BY <1>9, <2>3, <2>5 DEF Saves, HeaderComesOut
<1> QED BY <1>3, <1>6, <1>7, <1>8, <1>9 DEF SubDirRemains

LEMMA GoesFewer ==
  ASSUME NEW old, NEW at, NEW needed, NEW allocated, NEW ns, NEW ms,
         Goes(old, at, needed, allocated, ns), old = at \/ ms \subseteq ns
  PROVE  Goes(old, at, needed, allocated, ms)
BY DEF Goes

\* The directories still go there when the append position is the same.
LEMMA GoStill ==
  ASSUME UNCHANGED <<directories, segments>>, NEW s, NEW a,
         SubGoes(s), AttGoes(s, a),
         sbBlkDirectory.modified \/ attachmentDirectorySegment # a =>
           EnsureNextSegmentInfo' \subseteq EnsureNextSegmentInfo
  PROVE  SubGoes(s)' /\ AttGoes(s, a)'
<1>1. /\ sbBlkDirectory' = sbBlkDirectory
      /\ attachmentDirectory' = attachmentDirectory
      /\ subBlockDirectorySegment' = subBlockDirectorySegment
      /\ attachmentDirectorySegment' = attachmentDirectorySegment
  BY DEF directories, segments
<1>2. SubNeeds' = SubNeeds /\ AttNeeds' = AttNeeds
  BY <1>1, Zenon DEF SubNeeds, AttNeeds
<1>3. PICK sub, att, ns, ms, sn, an :
        /\ sub = subBlockDirectorySegment /\ att = attachmentDirectorySegment
        /\ ns = EnsureNextSegmentInfo /\ ms = EnsureNextSegmentInfo'
        /\ sn = SubNeeds /\ an = AttNeeds
  OBVIOUS
<1>4. SubGoes(s)'
  <2>1. CASE sbBlkDirectory.modified
    <3>1. ms \subseteq ns
      BY <1>3, <2>1
    <3>2. Goes(sub, s, sn, sn, ns) /\ (sub = s => \A n \in ns : s.pos < n)
      BY <1>3, <2>1 DEF SubGoes
    <3>3. Goes(sub, s, sn, sn, ms) /\ (sub = s => \A n \in ms : s.pos < n)
      BY <3>1, <3>2, GoesFewer
    <3> QED BY <1>1, <1>2, <1>3, <2>1, <3>3 DEF SubGoes
  <2>2. CASE ~sbBlkDirectory.modified
    BY <1>1, <2>2 DEF SubGoes
  <2> QED BY <2>1, <2>2
<1>5. AttGoes(s, a)'
  <2>1. CASE attachmentDirectory.modified
    <3>1. PICK before, after : before = NextThen(s) /\ after = NextThen(s)'
      OBVIOUS
    <3>2. att = a \/ after \subseteq before
      <4>1. CASE ms \subseteq ns
        <5>1. CASE sbBlkDirectory.modified /\ sub # s
          <6>1. /\ before = {n + s.allocated : n \in ns}
                /\ after = {n + s.allocated : n \in ms}
            BY <1>1, <1>3, <3>1, <5>1 DEF NextThen
          <6> QED BY <4>1, <6>1
        <5>2. CASE ~(sbBlkDirectory.modified /\ sub # s)
          BY <1>1, <1>3, <3>1, <4>1, <5>2 DEF NextThen
        <5> QED BY <5>1, <5>2
      <4>2. CASE att = a
        BY <4>2
      <4> QED BY <1>3, <4>1, <4>2
    <3>3. PICK allocated : allocated = AlignSegmentSize(an)
      OBVIOUS
    <3>4. Goes(att, a, an, allocated, before)
      BY <1>3, <2>1, <3>1, <3>3 DEF AttGoes
    <3>5. Goes(att, a, an, allocated, after)
      BY <3>2, <3>4, GoesFewer
    <3> QED BY <1>1, <1>2, <1>3, <2>1, <3>1, <3>3, <3>5 DEF AttGoes
  <2>2. CASE ~attachmentDirectory.modified
    BY <1>1, <2>2 DEF AttGoes
  <2> QED BY <2>1, <2>2
<1> QED BY <1>4, <1>5

LEMMA ExcusedStays ==
  ASSUME NEW s, NEW a, Excused(s, a)
  PROVE  Excused(s, a)'
BY DEF Excused, SegmentEnd

LEMMA SettledWrite ==
  ASSUME TypeInv, phase = "closing", WriteOk \/ WriteFails,
         NEW s, NEW a, Settled(s, a)
  PROVE  Settled(s, a)'
<1>1. /\ writes # <<>> /\ UNCHANGED <<directories, segments>>
      /\ nextSegmentPos' = nextSegmentPos
      /\ \/ op' = op /\ phase' = phase
         \/ /\ op' = "idle"
            /\ op \notin {"WriteHeader", "ReadCziStructure"} => phase' = phase
  BY DEF WriteOk, WriteFails, client
<1>2. op \in CloseOps /\ op \notin {"WriteHeader", "ReadCziStructure"}
  <2>1. op # "idle"
    BY <1>1 DEF TypeInv, WritesTyped
  <2> QED BY <2>1 DEF TypeInv, OpInPhase, CreateOps, CloseOps
<1>3. /\ op # "WriteAttachmentDir"
      /\ op = "FinishSubBlkDir" => sbBlkDirectory.modified
  BY <1>1 DEF Settled
<1>4. ASSUME nextSegmentPos # 0
      PROVE  EnsureNextSegmentInfo' = EnsureNextSegmentInfo
  BY <1>1, <1>4 DEF EnsureNextSegmentInfo
<1>5. SubGoes(s) /\ AttGoes(s, a)
  BY DEF Settled
<1>6. ASSUME sbBlkDirectory.modified \/ attachmentDirectorySegment # a
      PROVE  nextSegmentPos # 0
  <2>1. attachmentDirectorySegment # a => attachmentDirectory.modified
    BY <1>5 DEF AttGoes
  <2>2. CASE op = "FinishSubBlkDir"
    BY <1>3, <2>2 DEF TypeInv, NextTyped, BehindHeader, FileHeaderSegmentSize
  <2>3. CASE op = "FinishAttachmentDir"
    <3>1. CASE sbBlkDirectory.modified
      BY <2>3, <3>1 DEF Settled, SubIsPlaced
    <3>2. CASE ~sbBlkDirectory.modified
      BY <1>6, <2>1, <2>3, <3>2
         DEF TypeInv, NextTyped, BehindHeader, FileHeaderSegmentSize
    <3> QED BY <3>1, <3>2
  <2>4. CASE op = "UpdateFileHeader"
    BY <1>6, <2>4 DEF Settled, SubIsPlaced, AttIsPlaced
  <2> QED BY <1>2, <1>3, <2>2, <2>3, <2>4 DEF CloseOps
<1>7. SubGoes(s)' /\ AttGoes(s, a)'
  BY <1>1, <1>4, <1>5, <1>6, GoStill
<1>8. UNCHANGED <<subBlockDirectorySegment, attachmentDirectorySegment,
                  sbBlkDirectory>>
  BY <1>1 DEF directories, segments
<1>9. phase' = "closing"
  BY <1>1, <1>2
<1>10. CASE op' = op
  <2>1. SubIsPlaced' = SubIsPlaced /\ AttIsPlaced' = AttIsPlaced
    BY <1>9, <1>10 DEF SubIsPlaced, AttIsPlaced
  <2> QED BY <1>1, <1>3, <1>7, <1>8, <1>10, <2>1 DEF Settled
<1>11. CASE op' = "idle"
  <2>1. ~SubIsPlaced' /\ ~AttIsPlaced'
    BY <1>9, <1>11 DEF SubIsPlaced, AttIsPlaced
  <2> QED BY <1>7, <1>11, <2>1 DEF Settled
<1> QED BY <1>1, <1>10, <1>11

\* What Close saves of the file g does not depend on the writes under way.
LEMMA SavesStill ==
  ASSUME UNCHANGED <<directories, segments, hdrSegmentData, kept, meta>>,
         NEW g, NEW s, NEW a
  PROVE  /\ ReliedRemains(g, s, a) => ReliedRemains(g, s, a)'
         /\ AttDirRemains(g, s, a) => AttDirRemains(g, s, a)'
         /\ Stale(s, a)' <=> Stale(s, a)
<1>1. /\ sbBlkDirectory' = sbBlkDirectory
      /\ attachmentDirectory' = attachmentDirectory
      /\ subBlockDirectorySegment' = subBlockDirectorySegment
      /\ attachmentDirectorySegment' = attachmentDirectorySegment
      /\ metadataSegment' = metadataSegment
      /\ hdrSegmentData' = hdrSegmentData /\ kept' = kept /\ meta' = meta
  BY DEF directories, segments
<1>2. ASSUME NEW lo, NEW hi, Beside(lo, hi, s, a) PROVE Beside(lo, hi, s, a)'
  BY <1>1, <1>2 DEF Beside
<1>3. ASSUME NEW parts, Remains(g, parts, s, a) PROVE Remains(g, parts, s, a)'
  BY <1>2, <1>3 DEF Remains
<1>4. ASSUME ReliedRemains(g, s, a) PROVE ReliedRemains(g, s, a)'
  BY <1>1, <1>3, <1>4, Zenon DEF ReliedRemains
<1>5. ASSUME AttDirRemains(g, s, a) PROVE AttDirRemains(g, s, a)'
  BY <1>1, <1>5 DEF AttDirRemains
<1>6. Stale(s, a)' <=> Stale(s, a)
  BY <1>1 DEF Stale
<1> QED BY <1>4, <1>5, <1>6

LEMMA ClosingWrite ==
  ASSUME TypeInv, phase = "closing", WriteOk \/ WriteFails, ClosingInv
  PROVE  ClosingInv'
<1>1. PICK s \in PlacedSegments, a \in PlacedSegments :
        Settled(s, a) /\ (Excused(s, a) \/ SavesAll(file, Range(writes), s, a))
  BY DEF ClosingInv, Closable
<1>2. Settled(s, a)'
  BY <1>1, SettledWrite
<1>3. CASE Excused(s, a)
  <2>1. Excused(s, a)'
    BY <1>3, ExcusedStays
  <2> QED BY <1>2, <2>1 DEF ClosingInv, Closable
<1>4. CASE SavesAll(file, Range(writes), s, a)
  <2>1. PICK dir : Saves(file, Range(writes), s, a, dir)
    BY <1>4 DEF SavesAll
  <2> DEFINE w == Head(writes)
  <2>2. /\ writes # <<>> /\ UNCHANGED <<directories, segments>>
        /\ UNCHANGED <<hdrSegmentData, kept>>
        /\ file' \in {file, Smash(file, w), Apply(file, w)}
        /\ \/ /\ op' = op /\ phase' = phase /\ writes' = Tail(writes)
              /\ file' = Apply(file, w)
           \/ op' = "idle"
    BY DEF WriteOk, WriteFails, opened, client
  <2>3. w \in Range(writes) /\ Range(writes) = {w} \cup Range(Tail(writes))
    BY <2>2, WritesLeft DEF TypeInv, FileTyped
  <2>4. op \in CloseOps
    <3>1. op # "idle"
      BY <2>2 DEF TypeInv, WritesTyped
    <3> QED BY <3>1 DEF TypeInv, OpInPhase, CreateOps
  <2>5. phase' = "closing" /\ meta' = meta
    BY <2>4 DEF WriteOk, WriteFails, client, CloseOps
  <2>6. PICK v, g : v = w /\ g = file'
    OBVIOUS
  <2> HIDE DEF w
  <2>7. /\ ReliedRemains(g, s, a)
        /\ IsListOf(dir, sbBlkDirectory)
        /\ sbBlkDirectory.modified => s.valid /\ dir = Enumerated(sbBlkDirectory)
        /\ s.valid =>
             /\ s.pos >= FileHeaderSegmentSize
             /\ attachmentDirectory.modified =>
                  Clear(s.pos, DirectoryEnd(s.pos, Len(dir)),
                        attachmentDirectorySegment, a)
             /\ ~sbBlkDirectory.modified \/ SubIsPlaced => Reads(g, s.pos, dir)
        /\ AttDirRemains(g, s, a)
        /\ ~Stale(s, a) =>
             Names(Parts(g, 0, FileHeaderSegmentSize), s.pos,
                   metadataSegment.pos, a.pos)
    <3>1. v \in Range(writes) /\ g \in {file, Smash(file, v), Apply(file, v)}
      BY <2>2, <2>3, <2>6
    <3> QED BY ONLY TypeInv, phase = "closing", <2>1, <3>1, WriteRemains
  <2>8. /\ ReliedRemains(g, s, a)' /\ AttDirRemains(g, s, a)'
        /\ Stale(s, a)' <=> Stale(s, a)
    BY <2>2, <2>5, <2>7, SavesStill
  <2>9. /\ sbBlkDirectory' = sbBlkDirectory
        /\ attachmentDirectory' = attachmentDirectory
        /\ subBlockDirectorySegment' = subBlockDirectorySegment
        /\ attachmentDirectorySegment' = attachmentDirectorySegment
        /\ metadataSegment' = metadataSegment
    BY <2>2 DEF directories, segments
  <2>10. HeaderComesOut(g, s, a)'
    BY <2>5, <2>7, <2>8, <2>9 DEF HeaderComesOut
  <2>11. SubDirRemains(g, s, a, dir)'
    <3>1. SubIsPlaced' => SubIsPlaced
      BY <2>2, <2>5 DEF SubIsPlaced
    <3>2. IsListOf(dir, sbBlkDirectory)'
      BY <2>7, <2>9 DEF IsListOf, EntriesOf
    <3>3. sbBlkDirectory'.modified => s.valid /\ dir = Enumerated(sbBlkDirectory)'
      BY <2>7, <2>9, Zenon
    <3> QED BY <2>7, <2>9, <3>1, <3>2, <3>3 DEF SubDirRemains
  <2>12. PICK ws : ws = Range(writes')
    OBVIOUS
  <2>13. Finishing(g, ws, s, a, dir)'
    <3>1. CASE op' = "idle"
      BY <3>1 DEF Finishing
    <3>2. CASE /\ op' = op /\ phase' = phase /\ writes' = Tail(writes)
               /\ file' = Apply(file, w)
      <4>1. PICK vs : vs = Range(writes)
        OBVIOUS
      <4>2. vs = {v} \cup ws /\ ws \subseteq vs /\ vs # {} /\ g = Apply(file, v)
        BY <2>3, <2>6, <2>12, <3>2, <4>1
      <4>3. ASSUME NEW x, Lasting(file, vs, x) PROVE Lasting(g, ws, x)
        BY <4>2, <4>3, LastingLeft
      <4>4. Finishing(file, vs, s, a, dir)
        BY <2>1, <4>1 DEF Saves
      <4>5. op = "FinishSubBlkDir" =>
              /\ sbBlkDirectory.modified
              /\ \A u \in ws : Reaches(u, subBlockDirectorySegment, s)
              /\ \A x \in DirectoryExtents(s.pos, dir) : Lasting(g, ws, x)
        BY <4>2, <4>3, <4>4 DEF Finishing
      <4>6. op # "WriteAttachmentDir"
        BY <4>2, <4>4 DEF Finishing
      <4>7. op = "FinishAttachmentDir" =>
              /\ attachmentDirectory.modified
              /\ \A u \in ws : Reaches(u, attachmentDirectorySegment, a)
        BY <4>2, <4>4 DEF Finishing
      <4>8. op = "UpdateFileHeader" =>
              /\ Stale(s, a)
              /\ \A u \in ws : u.pos = 0 /\ u.len = FileHeaderSegmentSize
              /\ \A x \in FileHeader(s.pos, metadataSegment.pos, a.pos) :
                   Lasting(g, ws, x)
        BY <4>2, <4>3, <4>4 DEF Finishing
      <4> QED BY <2>8, <2>9, <3>2, <4>5, <4>6, <4>7, <4>8 DEF Finishing
    <3> QED BY <2>2, <3>1, <3>2
  <2>14. Saves(g, ws, s, a, dir)'
    BY <2>8, <2>10, <2>11, <2>13 DEF Saves
  <2>15. SavesAll(file, Range(writes), s, a)'
    BY <2>6, <2>12, <2>14, Zenon DEF SavesAll
  <2> QED BY <1>2, <2>15 DEF ClosingInv, Closable
<1> QED BY <1>1, <1>3, <1>4

LEMMA NextTaken ==
  ASSUME TypeInv, UNCHANGED <<file, lastSegmentPos>>,
         nextSegmentPos' \in EnsureNextSegmentInfo
           \/ nextSegmentPos' = nextSegmentPos
  PROVE  /\ EnsureNextSegmentInfo' \subseteq EnsureNextSegmentInfo
         /\ nextSegmentPos' \in EnsureNextSegmentInfo => nextSegmentPos' # 0
<1>1. CASE nextSegmentPos' \in EnsureNextSegmentInfo
  <2>1. PICK n : n = nextSegmentPos'
    OBVIOUS
  <2>2. n \in BehindHeader
    BY <1>1, <2>1, NextSegmentTyped
  <2>3. n # 0
    BY <2>2 DEF BehindHeader, FileHeaderSegmentSize
  <2>4. EnsureNextSegmentInfo' = {n}
    BY <2>1, <2>3 DEF EnsureNextSegmentInfo
  <2> QED BY <1>1, <2>1, <2>3, <2>4
<1>2. CASE /\ nextSegmentPos' \notin EnsureNextSegmentInfo
           /\ nextSegmentPos' = nextSegmentPos
  <2>1. EnsureNextSegmentInfo' = EnsureNextSegmentInfo
    BY <1>2 DEF EnsureNextSegmentInfo
  <2> QED BY <1>2, <2>1
<1> QED BY <1>1, <1>2

\* Close begins, for the first time or again.
LEMMA CloseBegins ==
  ASSUME TypeInv, Close, Closable
  PROVE  ClosingInv'
<1>1. PICK s \in PlacedSegments, a \in PlacedSegments :
        Settled(s, a) /\ (Excused(s, a) \/ SavesAll(file, Range(writes), s, a))
  BY DEF Closable
<1> DEFINE sub == subBlockDirectorySegment
           list == Enumerated(sbBlkDirectory)
<1>2. /\ UNCHANGED <<directories, segments, hdrSegmentData, kept, meta>>
      /\ UNCHANGED <<file, lastSegmentPos>>
      /\ op = "idle" /\ op' = "FinishSubBlkDir" /\ phase' = "closing"
      /\ phase # "closed"
      /\ IF sbBlkDirectory.modified
         THEN /\ nextSegmentPos' \in EnsureNextSegmentInfo
              /\ writes' = WriteSubBlkDirectory(sub, list, nextSegmentPos')
         ELSE nextSegmentPos' = nextSegmentPos /\ writes' = <<>>
  BY DEF Close, Begin, opened
<1>3. EnsureNextSegmentInfo' \subseteq EnsureNextSegmentInfo
  BY <1>2, NextTaken
<1>4. /\ sbBlkDirectory' = sbBlkDirectory
      /\ attachmentDirectory' = attachmentDirectory
      /\ subBlockDirectorySegment' = subBlockDirectorySegment
      /\ attachmentDirectorySegment' = attachmentDirectorySegment
      /\ metadataSegment' = metadataSegment
  BY <1>2 DEF directories, segments
<1>5. ~SubIsPlaced' /\ ~AttIsPlaced' /\ ~SubIsPlaced
  BY <1>2 DEF SubIsPlaced, AttIsPlaced
<1>6. SubGoes(s) /\ AttGoes(s, a)
  BY <1>1 DEF Settled
<1>7. SubGoes(s)' /\ AttGoes(s, a)'
  BY <1>2, <1>3, <1>6, GoStill
<1>8. Settled(s, a)'
  BY <1>2, <1>4, <1>5, <1>7 DEF Settled
<1>9. CASE Excused(s, a)
  <2>1. Excused(s, a)'
    BY <1>9, ExcusedStays
  <2> QED BY <1>8, <2>1 DEF ClosingInv, Closable
<1>10. CASE SavesAll(file, Range(writes), s, a)
  <2>1. PICK f, dir : f = file /\ Saves(f, Range(writes), s, a, dir)
    BY <1>10 DEF SavesAll
  <2>2. /\ ReliedRemains(f, s, a)' /\ AttDirRemains(f, s, a)'
        /\ Stale(s, a)' <=> Stale(s, a)
    BY <1>2, <2>1, SavesStill DEF Saves
  <2>3. HeaderComesOut(f, s, a)'
    BY <1>2, <1>4, <2>1, <2>2 DEF Saves, HeaderComesOut
  <2>4. SubDirRemains(f, s, a, dir)'
    <3>1. SubDirRemains(f, s, a, dir)
      BY <2>1 DEF Saves
    <3>2. IsListOf(dir, sbBlkDirectory)'
      BY <1>4, <3>1 DEF IsListOf, EntriesOf, SubDirRemains
    <3>3. sbBlkDirectory'.modified => s.valid /\ dir = Enumerated(sbBlkDirectory)'
      BY <1>4, <3>1, Zenon DEF SubDirRemains
    <3> QED BY <1>4, <1>5, <3>1, <3>2, <3>3 DEF SubDirRemains
  <2>5. PICK ws : ws = Range(writes')
    OBVIOUS
  <2>6. sbBlkDirectory.modified =>
          /\ \A w \in ws : Reaches(w, sub, s)
          /\ \A x \in DirectoryExtents(s.pos, dir) : Lasting(f, ws, x)
    <3> SUFFICES ASSUME sbBlkDirectory.modified
                 PROVE  /\ \A w \in ws : Reaches(w, sub, s)
                        /\ \A x \in DirectoryExtents(s.pos, dir) :
                             Lasting(f, ws, x)
      OBVIOUS
    <3>1. PICK n, ns, needed :
            /\ n = nextSegmentPos' /\ ns = EnsureNextSegmentInfo
            /\ needed = SubNeeds
      OBVIOUS
    <3>2. n \in ns /\ ws = Range(WriteSubBlkDirectory(sub, dir, n))
          /\ dir = list
      BY <1>2, <2>1, <2>5, <3>1 DEF Saves, SubDirRemains
    <3>3. n \in Nat
      BY <3>1, <3>2, NextSegmentTyped DEF BehindHeader
    <3>4. sub \in PlacedSegments /\ Len(dir) \in Nat
      BY <2>1 DEF TypeInv, SegmentsTyped, Saves, SubDirRemains, IsListOf
    <3>5. Goes(sub, s, needed, needed, ns)
      BY <1>6, <3>1 DEF SubGoes
    <3>6. needed = SubBlkDirAllocated(Len(dir))
      BY <3>1, <3>2 DEF SubNeeds
    <3> HIDE DEF sub, list
    <3>7. /\ \A w \in Range(WriteSubBlkDirectory(sub, dir, n)) :
               Reaches(w, sub, s)
          /\ \A x \in DirectoryExtents(s.pos, dir) :
               Lasting(f, Range(WriteSubBlkDirectory(sub, dir, n)), x)
      BY <3>2, <3>3, <3>4, <3>5, <3>6, SubBlkDirGoes
    <3> QED BY <3>2, <3>7
  <2>7. ~sbBlkDirectory.modified => ws = {}
    BY <1>2, <2>5, NoElement
  <2>8. Finishing(f, ws, s, a, dir)'
    BY <1>2, <1>4, <2>6, <2>7 DEF Finishing
  <2>9. Saves(f, ws, s, a, dir)'
    BY <2>2, <2>3, <2>4, <2>8 DEF Saves
  <2>10. SavesAll(file, Range(writes), s, a)'
    BY <1>2, <2>1, <2>5, <2>9, Zenon DEF SavesAll
  <2> QED BY <1>8, <2>10 DEF ClosingInv, Closable
<1> QED BY <1>1, <1>9, <1>10

\* The sub-block directory is where it was to go, and the next segment goes
\* where it was to go then.
LEMMA SubArrives ==
  ASSUME TypeInv, SubBlkDirFinished,
         NEW s \in PlacedSegments, NEW a, Settled(s, a)
  PROVE  /\ subBlockDirectorySegment' = s
         /\ EnsureNextSegmentInfo' = NextThen(s)
         /\ SubGoes(s)'
         /\ sbBlkDirectory.modified => nextSegmentPos' # 0
<1>1. /\ op = "FinishSubBlkDir" /\ sbBlkDirectory' = sbBlkDirectory
      /\ UNCHANGED <<file, lastSegmentPos>>
  BY DEF SubBlkDirFinished, Done, opened, directories
<1>2. SubGoes(s)
  BY DEF Settled
<1>3. CASE ~sbBlkDirectory.modified
  <2>1. /\ subBlockDirectorySegment' = subBlockDirectorySegment
        /\ nextSegmentPos' = nextSegmentPos
    BY <1>3 DEF SubBlkDirFinished
  <2>2. subBlockDirectorySegment = s
    BY <1>2, <1>3 DEF SubGoes
  <2>3. EnsureNextSegmentInfo' = EnsureNextSegmentInfo
    BY <1>1, <2>1 DEF EnsureNextSegmentInfo
  <2> QED BY <1>1, <1>3, <2>1, <2>2, <2>3 DEF NextThen, SubGoes
<1>4. CASE sbBlkDirectory.modified
  <2>1. PICK sub, list, n, needed, ns :
          /\ sub = subBlockDirectorySegment
          /\ list = Enumerated(sbBlkDirectory) /\ n = nextSegmentPos
          /\ needed = SubNeeds /\ ns = EnsureNextSegmentInfo
    OBVIOUS
  <2>2. n \in Nat /\ n # 0
    BY <1>1, <1>4, <2>1
       DEF TypeInv, NextTyped, BehindHeader, FileHeaderSegmentSize
  <2>3. ns = {n} /\ n \in ns
    BY <2>1, <2>2 DEF EnsureNextSegmentInfo
  <2>4. /\ Goes(sub, s, needed, needed, ns)
        /\ sub = s => s.pos < n
    BY <1>2, <1>4, <2>1, <2>3 DEF SubGoes
  <2>5. Arrives(Placement(sub, needed, needed, n), sub, s, needed, n)
    BY <2>3, <2>4, GoesThere
  <2>6. PICK at : at = SubBlkDirPlace(sub, list, n)
    OBVIOUS
  <2>7. at = Placement(sub, needed, needed, n)
    BY <2>1, <2>6 DEF SubBlkDirPlace, SubNeeds
  <2>8. /\ at.pos = s.pos /\ at.allocated = s.allocated
        /\ s = SegmentAt(s.pos, s.allocated, FALSE)
        /\ s.valid /\ s.allocated >= needed
        /\ \/ FitsInto(sub, needed) /\ sub = s
           \/ ~FitsInto(sub, needed) /\ s.pos = n
    <3>1. /\ at = [pos |-> s.pos, allocated |-> s.allocated]
          /\ s = SegmentAt(s.pos, s.allocated, FALSE)
          /\ s.valid /\ s.allocated >= needed
          /\ \/ FitsInto(sub, needed) /\ sub = s
             \/ ~FitsInto(sub, needed) /\ s.pos = n
      BY <2>5, <2>7, Zenon DEF Arrives
    <3>2. at.pos = s.pos /\ at.allocated = s.allocated
      BY <3>1
    <3> QED BY <3>1, <3>2
  <2>9. /\ subBlockDirectorySegment' = SegmentAt(at.pos, at.allocated, FALSE)
        /\ nextSegmentPos' = IF at.pos = n THEN at.pos + at.allocated ELSE n
    BY <1>4, <2>1, <2>6 DEF SubBlkDirFinished, AfterDirectory
  <2>10. subBlockDirectorySegment' = s
    BY <2>8, <2>9
  <2>11. /\ s.pos \in Nat /\ s.allocated \in Nat /\ needed \in Nat
         /\ needed >= 128
    BY <2>1, PlacedTyped, NeedsTyped DEF Segments
  <2>12. FitsInto(s, needed)
    BY <2>8 DEF FitsInto
  <2>13. /\ nextSegmentPos' # 0 /\ s.pos < nextSegmentPos'
         /\ nextSegmentPos' = IF sub # s THEN n + s.allocated ELSE n
    <3>1. CASE sub = s
      BY <2>2, <2>4, <2>8, <2>9, <2>11, <3>1
    <3>2. CASE sub # s
      BY <2>2, <2>8, <2>9, <2>11, <3>2
    <3> QED BY <3>1, <3>2
  <2>14. EnsureNextSegmentInfo' = {nextSegmentPos'}
    BY <2>13 DEF EnsureNextSegmentInfo
  <2>15. EnsureNextSegmentInfo' = NextThen(s)
    BY <1>4, <2>1, <2>3, <2>13, <2>14 DEF NextThen
  <2>16. SubGoes(s)'
    <3>1. PICK ms : ms = EnsureNextSegmentInfo'
      OBVIOUS
    <3>2. Goes(s, s, needed, needed, ms)
      BY <2>12 DEF Goes
    <3>3. \A m \in ms : s.pos < m
      BY <2>13, <2>14, <3>1
    <3>4. SubNeeds' = needed
      BY <1>1, <2>1, Zenon DEF SubNeeds
    <3> QED BY <1>1, <1>4, <2>10, <3>1, <3>2, <3>3, <3>4 DEF SubGoes
  <2> QED BY <2>10, <2>13, <2>15, <2>16
<1> QED BY <1>3, <1>4

\* What no write of a directory reached, none reaches when the directory is
\* where it was to go.
LEMMA BesideThere ==
  ASSUME UNCHANGED directories,
         NEW s \in PlacedSegments, NEW a \in PlacedSegments,
         subBlockDirectorySegment' \in {subBlockDirectorySegment, s},
         attachmentDirectorySegment' \in {attachmentDirectorySegment, a},
         NEW lo \in Nat, NEW hi \in Nat, Beside(lo, hi, s, a)
  PROVE  Beside(lo, hi, s, a)'
<1>1. /\ sbBlkDirectory' = sbBlkDirectory
      /\ attachmentDirectory' = attachmentDirectory
  BY DEF directories
<1>2. PICK sub, att, sub2, att2 :
        /\ sub = subBlockDirectorySegment /\ att = attachmentDirectorySegment
        /\ sub2 = subBlockDirectorySegment'
        /\ att2 = attachmentDirectorySegment'
  OBVIOUS
<1>3. ASSUME sbBlkDirectory.modified PROVE Clear(lo, hi, sub2, s)
  <2>1. Clear(lo, hi, sub, s)
    BY <1>2, <1>3 DEF Beside
  <2>2. Clear(lo, hi, s, s)
    BY <2>1, ClearThere
  <2> QED BY <1>2, <2>1, <2>2
<1>4. ASSUME attachmentDirectory.modified PROVE Clear(lo, hi, att2, a)
  <2>1. Clear(lo, hi, att, a)
    BY <1>2, <1>4 DEF Beside
  <2>2. Clear(lo, hi, a, a)
    BY <2>1, ClearThere
  <2> QED BY <1>2, <2>1, <2>2
<1> QED BY <1>1, <1>2, <1>3, <1>4 DEF Beside

LEMMA SavesThere ==
  ASSUME TypeInv, UNCHANGED <<file, directories, metadataSegment,
                              hdrSegmentData, kept, meta>>,
         NEW s \in PlacedSegments, NEW a \in PlacedSegments,
         subBlockDirectorySegment' \in {subBlockDirectorySegment, s},
         attachmentDirectorySegment' \in {attachmentDirectorySegment, a},
         NEW f, f = file, ReliedRemains(f, s, a), AttDirRemains(f, s, a)
  PROVE  /\ ReliedRemains(f, s, a)' /\ AttDirRemains(f, s, a)'
         /\ Stale(s, a)' <=> Stale(s, a)
<1>1. /\ sbBlkDirectory' = sbBlkDirectory
      /\ attachmentDirectory' = attachmentDirectory
      /\ metadataSegment' = metadataSegment
      /\ hdrSegmentData' = hdrSegmentData /\ kept' = kept /\ meta' = meta
  BY DEF directories
<1>2. ASSUME NEW parts, Remains(f, parts, s, a) PROVE Remains(f, parts, s, a)'
  <2>1. ASSUME NEW x \in parts
        PROVE  x.lo >= FileHeaderSegmentSize /\ Beside(x.lo, x.hi, s, a)'
    <3>1. /\ x \in file /\ x.lo >= FileHeaderSegmentSize
          /\ Beside(x.lo, x.hi, s, a)
      BY <1>2 DEF Remains
    <3>2. PICK lo, hi : lo = x.lo /\ hi = x.hi
      OBVIOUS
    <3>3. lo \in Nat /\ hi \in Nat
      BY <3>1, <3>2, WellFormedBounds DEF TypeInv, FileTyped, IsCziFile
    <3>4. Beside(lo, hi, s, a)'
      BY <3>1, <3>2, <3>3, BesideThere
    <3> QED BY <3>1, <3>2, <3>4
  <2> QED BY <1>2, <2>1 DEF Remains
<1>3. ReliedRemains(f, s, a)'
  BY <1>1, <1>2, Zenon DEF ReliedRemains
<1>4. AttDirRemains(f, s, a)'
  <2>1. PICK sub, sub2 : /\ sub = subBlockDirectorySegment
                         /\ sub2 = subBlockDirectorySegment'
    OBVIOUS
  <2>2. ASSUME NEW lo \in Nat, NEW hi \in Nat, Clear(lo, hi, sub, s)
        PROVE  Clear(lo, hi, sub2, s)
    <3>1. Clear(lo, hi, s, s)
      BY <2>2, ClearThere
    <3> QED BY <2>1, <2>2, <3>1
  <2>3. PICK lo, hi : lo = a.pos /\ hi = SegmentEnd(a)
    OBVIOUS
  <2>4. lo \in Nat /\ hi \in Nat
    BY <2>3, PlacedTyped, EndTyped
  <2>5. Clear(lo, hi, sub, s) => Clear(lo, hi, sub2, s)
    BY <2>2, <2>4
  <2> QED BY <1>1, <2>1, <2>3, <2>5 DEF AttDirRemains
<1>5. Stale(s, a)' <=> Stale(s, a)
  BY <1>1 DEF Stale
<1> QED BY <1>3, <1>4, <1>5

LEMMA ClosingSubBlkDir ==
  ASSUME TypeInv, SubBlkDirFinished, ClosingInv
  PROVE  ClosingInv'
<1>1. /\ op = "FinishSubBlkDir" /\ writes = <<>> /\ writes' = writes
      /\ op' = "WriteAttachmentDir" /\ phase' = phase
      /\ UNCHANGED <<file, directories, metadataSegment, hdrSegmentData, kept,
                     meta>>
      /\ attachmentDirectorySegment' = attachmentDirectorySegment
  BY DEF SubBlkDirFinished, Done, opened, client
<1>2. phase = "closing"
  BY <1>1 DEF TypeInv, OpInPhase, CloseOps
<1>3. PICK s \in PlacedSegments, a \in PlacedSegments :
        Settled(s, a) /\ (Excused(s, a) \/ SavesAll(file, Range(writes), s, a))
  BY <1>2 DEF ClosingInv, Closable
<1>4. /\ subBlockDirectorySegment' = s
      /\ EnsureNextSegmentInfo' = NextThen(s)
      /\ SubGoes(s)' /\ (sbBlkDirectory.modified => nextSegmentPos' # 0)
  BY <1>3, SubArrives
<1>5. /\ sbBlkDirectory' = sbBlkDirectory
      /\ attachmentDirectory' = attachmentDirectory
  BY <1>1 DEF directories
<1>6. AttGoes(s, a)'
  <2>1. PICK ns : ns = NextThen(s)
    OBVIOUS
  <2>2. NextThen(s)' = ns
    BY <1>4, <2>1 DEF NextThen
  <2>3. AttGoes(s, a)
    BY <1>3 DEF Settled
  <2>4. AttNeeds' = AttNeeds
    BY <1>5, Zenon DEF AttNeeds
  <2> QED BY <1>1, <1>5, <2>1, <2>2, <2>3, <2>4 DEF AttGoes
<1>7. SubIsPlaced' /\ ~AttIsPlaced' /\ ~SubIsPlaced
  BY <1>1, <1>2 DEF SubIsPlaced, AttIsPlaced
<1>8. Settled(s, a)'
  BY <1>1, <1>4, <1>5, <1>6, <1>7 DEF Settled
<1>9. CASE Excused(s, a)
  <2>1. Excused(s, a)'
    BY <1>9, ExcusedStays
  <2> QED BY <1>8, <2>1 DEF ClosingInv, Closable
<1>10. CASE SavesAll(file, Range(writes), s, a)
  <2>1. PICK f, dir : f = file /\ Saves(f, Range(writes), s, a, dir)
    BY <1>10 DEF SavesAll
  <2>2. ReliedRemains(f, s, a) /\ AttDirRemains(f, s, a)
    BY <2>1 DEF Saves
  <2>3. /\ ReliedRemains(f, s, a)' /\ AttDirRemains(f, s, a)'
        /\ Stale(s, a)' <=> Stale(s, a)
    BY <1>1, <1>4, <2>1, <2>2, SavesThere
  <2>4. HeaderComesOut(f, s, a)'
    BY <1>1, <1>2, <2>1, <2>3 DEF Saves, HeaderComesOut
  <2>5. SubDirRemains(f, s, a, dir)
    BY <2>1 DEF Saves
  <2>6. ASSUME s.valid PROVE Reads(f, s.pos, dir)
    <3>1. CASE ~sbBlkDirectory.modified
      BY <2>5, <2>6, <3>1 DEF SubDirRemains
    <3>2. CASE sbBlkDirectory.modified
      <4>1. \A x \in DirectoryExtents(s.pos, dir) : Lasting(f, {}, x)
        BY <1>1, <2>1, <3>2, NoElement DEF Saves, Finishing
      <4>2. DirectoryExtents(s.pos, dir) \subseteq f
        BY <4>1, LastingDone
      <4>3. dir = Enumerated(sbBlkDirectory) /\ Len(dir) \in Nat
        BY <2>5, <3>2 DEF SubDirRemains, IsListOf
      <4>4. dir = <<>> <=> Len(dir) = 0
        <5>1. dir \in Seq(SubBlockEntries)
          BY <4>3, EnumeratedIsList DEF TypeInv, DirectoriesTyped
        <5> QED BY <5>1
      <4>5. s.pos \in Nat /\ IsCziFile(f)
        BY <2>1, PlacedTyped, EndTyped DEF TypeInv, FileTyped
      <4>6. dir \in SubBlkDirAt(f, s.pos)
        BY <4>2, <4>3, <4>4, <4>5, DirectoryReadBack
      <4> QED BY <4>5, <4>6, DirectoryRead
    <3> QED BY <3>1, <3>2
  <2>7. SubDirRemains(f, s, a, dir)'
    <3>1. IsListOf(dir, sbBlkDirectory)'
      BY <1>5, <2>5 DEF IsListOf, EntriesOf, SubDirRemains
    <3>2. sbBlkDirectory'.modified => s.valid /\ dir = Enumerated(sbBlkDirectory)'
      BY <1>5, <2>5, Zenon DEF SubDirRemains
    <3> QED BY <1>1, <1>5, <2>5, <2>6, <3>1, <3>2 DEF SubDirRemains
  <2>8. PICK ws : ws = Range(writes') /\ ws = {}
    BY <1>1, NoElement
  <2>9. Finishing(f, ws, s, a, dir)'
    BY <1>1, <2>8 DEF Finishing
  <2>10. Saves(f, ws, s, a, dir)'
    BY <2>3, <2>4, <2>7, <2>9 DEF Saves
  <2>11. SavesAll(file, Range(writes), s, a)'
    BY <1>1, <2>1, <2>8, <2>10, Zenon DEF SavesAll
  <2> QED BY <1>8, <2>11 DEF ClosingInv, Closable
<1> QED BY <1>3, <1>9, <1>10

LEMMA ClosingAttachmentDirBegun ==
  ASSUME TypeInv, AttachmentDirBegun, ClosingInv
  PROVE  ClosingInv'
<1> DEFINE att == attachmentDirectorySegment
           list == Enumerated(attachmentDirectory)
<1>1. /\ op = "WriteAttachmentDir" /\ op' = "FinishAttachmentDir"
      /\ phase' = phase
      /\ UNCHANGED <<directories, segments, hdrSegmentData, kept, meta>>
      /\ UNCHANGED <<file, lastSegmentPos>>
      /\ IF attachmentDirectory.modified
         THEN /\ nextSegmentPos' \in EnsureNextSegmentInfo
              /\ writes' = WriteAttachmentDirectory(att, list, nextSegmentPos')
         ELSE nextSegmentPos' = nextSegmentPos /\ writes' = <<>>
  BY DEF AttachmentDirBegun, Done, Begin, opened, client
<1>2. phase = "closing"
  BY <1>1 DEF TypeInv, OpInPhase, CloseOps
<1>3. PICK s \in PlacedSegments, a \in PlacedSegments :
        Settled(s, a) /\ (Excused(s, a) \/ SavesAll(file, Range(writes), s, a))
  BY <1>2 DEF ClosingInv, Closable
<1>4. /\ EnsureNextSegmentInfo' \subseteq EnsureNextSegmentInfo
      /\ nextSegmentPos' \in EnsureNextSegmentInfo => nextSegmentPos' # 0
  BY <1>1, NextTaken
<1>5. /\ sbBlkDirectory' = sbBlkDirectory
      /\ attachmentDirectory' = attachmentDirectory
      /\ subBlockDirectorySegment' = subBlockDirectorySegment
      /\ attachmentDirectorySegment' = attachmentDirectorySegment
      /\ metadataSegment' = metadataSegment
  BY <1>1 DEF directories, segments
<1>6. SubGoes(s) /\ AttGoes(s, a) /\ subBlockDirectorySegment = s
      /\ (sbBlkDirectory.modified => nextSegmentPos # 0)
  BY <1>1, <1>3 DEF Settled, SubIsPlaced
<1>7. SubGoes(s)' /\ AttGoes(s, a)'
  BY <1>1, <1>4, <1>6, GoStill
<1>8. SubIsPlaced /\ SubIsPlaced' /\ ~AttIsPlaced'
  BY <1>1, <1>2 DEF SubIsPlaced, AttIsPlaced
<1>9. sbBlkDirectory.modified => nextSegmentPos' # 0
  BY <1>1, <1>4, <1>6
<1>10. Settled(s, a)'
  BY <1>1, <1>5, <1>6, <1>7, <1>8, <1>9 DEF Settled
<1>11. CASE Excused(s, a)
  <2>1. Excused(s, a)'
    BY <1>11, ExcusedStays
  <2> QED BY <1>10, <2>1 DEF ClosingInv, Closable
<1>12. CASE SavesAll(file, Range(writes), s, a)
  <2>1. PICK f, dir : f = file /\ Saves(f, Range(writes), s, a, dir)
    BY <1>12 DEF SavesAll
  <2>2. /\ ReliedRemains(f, s, a)' /\ AttDirRemains(f, s, a)'
        /\ Stale(s, a)' <=> Stale(s, a)
    BY <1>1, <2>1, SavesStill DEF Saves
  <2>3. HeaderComesOut(f, s, a)'
    BY <1>1, <1>5, <2>1, <2>2 DEF Saves, HeaderComesOut
  <2>4. SubDirRemains(f, s, a, dir)'
    <3>1. SubDirRemains(f, s, a, dir)
      BY <2>1 DEF Saves
    <3>2. IsListOf(dir, sbBlkDirectory)'
      BY <1>5, <3>1 DEF IsListOf, EntriesOf, SubDirRemains
    <3>3. sbBlkDirectory'.modified => s.valid /\ dir = Enumerated(sbBlkDirectory)'
      BY <1>5, <3>1, Zenon DEF SubDirRemains
    <3> QED BY <1>5, <1>8, <3>1, <3>2, <3>3 DEF SubDirRemains
  <2>5. PICK ws : ws = Range(writes')
    OBVIOUS
  <2>6. attachmentDirectory.modified => \A w \in ws : Reaches(w, att, a)
    <3> SUFFICES ASSUME attachmentDirectory.modified
                 PROVE  \A w \in ws : Reaches(w, att, a)
      OBVIOUS
    <3>1. PICK n, ns, needed, dir2, allocated :
            /\ n = nextSegmentPos' /\ ns = NextThen(s)
            /\ needed = AttNeeds /\ dir2 = list
            /\ allocated = AlignSegmentSize(needed)
      OBVIOUS
    <3>2. n \in ns /\ ws = Range(WriteAttachmentDirectory(att, dir2, n))
      BY <1>1, <1>6, <2>5, <3>1 DEF NextThen
    <3>3. n \in Nat
      BY <1>1, <3>1, NextSegmentTyped DEF BehindHeader
    <3>4. att \in PlacedSegments
      BY DEF TypeInv, SegmentsTyped
    <3>5. Len(dir2) \in Nat /\ DOMAIN dir2 = 1..Len(dir2)
      <4>1. dir2 \in Seq(AttachmentEntries)
        BY <3>1, EnumeratedIsList DEF TypeInv, DirectoriesTyped
      <4> QED BY <4>1
    <3>6. Goes(att, a, needed, allocated, ns)
      BY <1>6, <3>1 DEF AttGoes
    <3>7. needed = AttachmentDirUsed(Len(dir2))
      BY <3>1 DEF AttNeeds
    <3> HIDE DEF att, list
    <3>8. \A w \in Range(WriteAttachmentDirectory(att, dir2, n)) :
            Reaches(w, att, a)
      BY <3>1, <3>2, <3>3, <3>4, <3>5, <3>6, <3>7, AttachmentDirGoes
    <3> QED BY <3>2, <3>8
  <2>7. ~attachmentDirectory.modified => ws = {}
    BY <1>1, <2>5, NoElement
  <2>8. Finishing(f, ws, s, a, dir)'
    BY <1>1, <1>5, <2>6, <2>7 DEF Finishing
  <2>9. Saves(f, ws, s, a, dir)'
    BY <2>2, <2>3, <2>4, <2>8 DEF Saves
  <2>10. SavesAll(file, Range(writes), s, a)'
    BY <1>1, <2>1, <2>5, <2>9, Zenon DEF SavesAll
  <2> QED BY <1>10, <2>10 DEF ClosingInv, Closable
<1> QED BY <1>3, <1>11, <1>12

LEMMA AttArrives ==
  ASSUME TypeInv, AttachmentDirFinished,
         NEW s \in PlacedSegments, NEW a \in PlacedSegments, Settled(s, a)
  PROVE  /\ attachmentDirectorySegment' = a
         /\ SubGoes(s)' /\ AttGoes(s, a)'
         /\ sbBlkDirectory.modified => nextSegmentPos' # 0
<1>1. /\ op = "FinishAttachmentDir"
      /\ UNCHANGED <<file, lastSegmentPos, sbBlkDirectory, attachmentDirectory,
                     subBlockDirectorySegment>>
  BY DEF AttachmentDirFinished, Done, opened, directories
<1>2. SubGoes(s) /\ AttGoes(s, a) /\ subBlockDirectorySegment = s
      /\ (sbBlkDirectory.modified => nextSegmentPos # 0)
  BY <1>1 DEF Settled, SubIsPlaced
<1>3. PICK sub, att, n, needed, allocated, an, ns, ms, sn :
        /\ sub = subBlockDirectorySegment /\ att = attachmentDirectorySegment
        /\ n = nextSegmentPos /\ an = nextSegmentPos'
        /\ needed = AttNeeds /\ allocated = AlignSegmentSize(needed)
        /\ ns = EnsureNextSegmentInfo /\ ms = EnsureNextSegmentInfo'
        /\ sn = SubNeeds
  OBVIOUS
<1>4. SubNeeds' = sn /\ AttNeeds' = needed
  BY <1>1, <1>3, Zenon DEF SubNeeds, AttNeeds
<1>5. n \in Nat
  BY <1>3 DEF TypeInv, NextTyped, PositionsOrNone, BehindHeader
<1>6. /\ attachmentDirectorySegment' = a
      /\ attachmentDirectory.modified => FitsInto(a, needed) /\ n # 0
      /\ \/ an = n
         \/ an \in Nat /\ n # 0 /\ n <= an
  <2>1. CASE ~attachmentDirectory.modified
    BY <1>2, <1>3, <2>1 DEF AttachmentDirFinished, AttGoes
  <2>2. CASE attachmentDirectory.modified
    <3>1. n # 0
      BY <1>1, <1>3, <2>2
         DEF TypeInv, NextTyped, BehindHeader, FileHeaderSegmentSize
    <3>2. n \in ns /\ ns = NextThen(s)
      BY <1>2, <1>3, <3>1 DEF EnsureNextSegmentInfo, NextThen
    <3>3. Goes(att, a, needed, allocated, ns)
      BY <1>2, <1>3, <2>2, <3>2 DEF AttGoes
    <3>4. Arrives(Placement(att, needed, allocated, n), att, a, needed, n)
      BY <3>2, <3>3, GoesThere
    <3>5. PICK at :
            at = AttachmentDirPlace(att, Enumerated(attachmentDirectory), n)
      OBVIOUS
    <3>6. at = Placement(att, needed, allocated, n)
      BY <1>3, <3>5 DEF AttachmentDirPlace, AttNeeds
    <3>7. /\ at = [pos |-> a.pos, allocated |-> a.allocated]
          /\ a = SegmentAt(a.pos, a.allocated, FALSE)
          /\ a.valid /\ a.allocated >= needed
      BY <3>4, <3>6, Zenon DEF Arrives
    <3>8. at.pos = a.pos /\ at.allocated = a.allocated
      BY <3>7
    <3>9. /\ attachmentDirectorySegment' = SegmentAt(at.pos, at.allocated, FALSE)
          /\ an = IF at.pos = n THEN at.pos + at.allocated ELSE n
      BY <1>3, <2>2, <3>5 DEF AttachmentDirFinished, AfterDirectory
    <3>10. a.pos \in Nat /\ a.allocated \in Nat
      BY PlacedTyped DEF Segments
    <3>11. an = n \/ (an \in Nat /\ n <= an)
      BY <1>5, <3>8, <3>9, <3>10
    <3> QED BY <3>1, <3>7, <3>8, <3>9, <3>11 DEF FitsInto
  <2> QED BY <2>1, <2>2
<1>7. sbBlkDirectory.modified => an # 0
  BY <1>2, <1>3, <1>5, <1>6
<1>8. SubGoes(s)'
  <2>1. CASE sbBlkDirectory.modified
    <3>1. Goes(s, s, sn, sn, ns) /\ \A m \in ns : s.pos < m
      BY <1>2, <1>3, <2>1 DEF SubGoes
    <3>2. Goes(s, s, sn, sn, ms)
      BY <3>1, GoesFewer
    <3>3. ns = {n} /\ ms = {an}
      BY <1>2, <1>3, <1>7, <2>1 DEF EnsureNextSegmentInfo
    <3>4. s.pos \in Nat
      BY PlacedTyped, EndTyped
    <3>5. \A m \in ms : s.pos < m
      BY <1>5, <1>6, <3>1, <3>3, <3>4
    <3> QED BY <1>1, <1>2, <1>3, <1>4, <2>1, <3>2, <3>5 DEF SubGoes
  <2>2. CASE ~sbBlkDirectory.modified
    BY <1>1, <1>2, <2>2 DEF SubGoes
  <2> QED BY <2>1, <2>2
<1>9. AttGoes(s, a)'
  <2>1. CASE attachmentDirectory.modified
    <3>1. PICK qs : qs = NextThen(s)'
      OBVIOUS
    <3>2. Goes(a, a, needed, allocated, qs)
      BY <1>6, <2>1 DEF Goes
    <3> QED BY <1>1, <1>3, <1>4, <1>6, <2>1, <3>1, <3>2 DEF AttGoes
  <2>2. CASE ~attachmentDirectory.modified
    BY <1>1, <1>6, <2>2 DEF AttGoes
  <2> QED BY <2>1, <2>2
<1> QED BY <1>3, <1>6, <1>7, <1>8, <1>9

LEMMA ClosingAttachmentDir ==
  ASSUME TypeInv, AttachmentDirFinished, ClosingInv
  PROVE  ClosingInv'
<1>1. /\ op = "FinishAttachmentDir" /\ writes = <<>>
      /\ op' = "UpdateFileHeader" /\ phase' = phase
      /\ UNCHANGED <<file, directories, metadataSegment, hdrSegmentData, kept,
                     meta>>
      /\ subBlockDirectorySegment' = subBlockDirectorySegment
  BY DEF AttachmentDirFinished, Done, Begin, opened, client
<1>2. phase = "closing"
  BY <1>1 DEF TypeInv, OpInPhase, CloseOps
<1>3. PICK s \in PlacedSegments, a \in PlacedSegments :
        Settled(s, a) /\ (Excused(s, a) \/ SavesAll(file, Range(writes), s, a))
  BY <1>2 DEF ClosingInv, Closable
<1>4. /\ attachmentDirectorySegment' = a
      /\ SubGoes(s)' /\ AttGoes(s, a)'
      /\ sbBlkDirectory.modified => nextSegmentPos' # 0
  BY <1>3, AttArrives
<1>5. /\ sbBlkDirectory' = sbBlkDirectory
      /\ attachmentDirectory' = attachmentDirectory
  BY <1>1 DEF directories
<1>6. subBlockDirectorySegment = s /\ SubIsPlaced
  BY <1>1, <1>3 DEF Settled, SubIsPlaced
<1>7. Settled(s, a)'
  BY <1>1, <1>4, <1>5, <1>6 DEF Settled
<1>8. CASE Excused(s, a)
  <2>1. Excused(s, a)'
    BY <1>8, ExcusedStays
  <2> QED BY <1>7, <2>1 DEF ClosingInv, Closable
<1>9. CASE SavesAll(file, Range(writes), s, a)
  <2>1. PICK f, dir : f = file /\ Saves(f, Range(writes), s, a, dir)
    BY <1>9 DEF SavesAll
  <2>2. ReliedRemains(f, s, a) /\ AttDirRemains(f, s, a)
    BY <2>1 DEF Saves
  <2>3. /\ ReliedRemains(f, s, a)' /\ AttDirRemains(f, s, a)'
        /\ Stale(s, a)' <=> Stale(s, a)
    BY <1>1, <1>4, <2>1, <2>2, SavesThere
  <2>4. HeaderComesOut(f, s, a)'
    BY <1>1, <1>2, <2>1, <2>3 DEF Saves, HeaderComesOut
  <2>5. SubDirRemains(f, s, a, dir)
    BY <2>1 DEF Saves
  <2>6. SubDirRemains(f, s, a, dir)'
    <3>1. IsListOf(dir, sbBlkDirectory)'
      BY <1>5, <2>5 DEF IsListOf, EntriesOf, SubDirRemains
    <3>2. sbBlkDirectory'.modified => s.valid /\ dir = Enumerated(sbBlkDirectory)'
      BY <1>5, <2>5, Zenon DEF SubDirRemains
    <3>3. ASSUME s.valid, attachmentDirectory.modified
          PROVE  Clear(s.pos, DirectoryEnd(s.pos, Len(dir)), a, a)
      <4>1. PICK old, lo, hi :
              /\ old = attachmentDirectorySegment /\ lo = s.pos
              /\ hi = DirectoryEnd(s.pos, Len(dir))
        OBVIOUS
      <4>2. Clear(lo, hi, old, a)
        BY <2>5, <3>3, <4>1 DEF SubDirRemains
      <4>3. lo \in Nat /\ hi \in Nat
        BY <2>5, <4>1, PlacedTyped, EndTyped DEF SubDirRemains, IsListOf
      <4> QED BY <4>1, <4>2, <4>3, ClearThere
    <3> QED BY <1>4, <1>5, <1>6, <2>5, <3>1, <3>2, <3>3 DEF SubDirRemains
  <2>7. PICK ws : ws = Range(writes')
    OBVIOUS
  <2>8. HeaderIsStale(a) <=> Stale(s, a)
    BY <1>6 DEF HeaderIsStale, Stale
  <2>9. IF Stale(s, a)
        THEN writes' = WriteHeaderSegment(hdrSegmentData.guid, s.pos,
                                          metadataSegment.pos, a.pos)
        ELSE writes' = <<>>
    BY <1>4, <1>6, <2>8 DEF AttachmentDirFinished, Begin
  <2>10. IF Stale(s, a)
         THEN /\ \A w \in ws : w.pos = 0 /\ w.len = FileHeaderSegmentSize
              /\ \A x \in FileHeader(s.pos, metadataSegment.pos, a.pos) :
                   Lasting(f, ws, x)
         ELSE ws = {}
    <3>1. PICK vs, md, g : /\ vs = writes' /\ md = metadataSegment.pos
                           /\ g = hdrSegmentData.guid
      OBVIOUS
    <3>2. CASE Stale(s, a)
      <4>1. vs = WriteHeaderSegment(g, s.pos, md, a.pos)
        BY <2>9, <3>1, <3>2
      <4>2. /\ \A x \in FileHeader(s.pos, md, a.pos) : Lasting(f, Range(vs), x)
            /\ \A w \in Range(vs) : w.pos = 0 /\ w.len = FileHeaderSegmentSize
        BY <4>1, HeaderComes
      <4> QED BY <2>7, <3>1, <3>2, <4>2
    <3>3. CASE ~Stale(s, a)
      BY <2>7, <2>9, <3>3, NoElement
    <3> QED BY <3>2, <3>3
  <2>11. Finishing(f, ws, s, a, dir)'
    BY <1>1, <2>3, <2>10 DEF Finishing
  <2>12. Saves(f, ws, s, a, dir)'
    BY <2>3, <2>4, <2>6, <2>11 DEF Saves
  <2>13. SavesAll(file, Range(writes), s, a)'
    BY <1>1, <2>1, <2>7, <2>12, Zenon DEF SavesAll
  <2> QED BY <1>7, <2>13 DEF ClosingInv, Closable
<1> QED BY <1>3, <1>8, <1>9

LEMMA HeaderNames ==
  ASSUME NEW f, NEW p, NEW r, NEW q, FileHeader(p, r, q) \subseteq f
  PROVE  Names(Parts(f, 0, FileHeaderSegmentSize), p, r, q)
<1> DEFINE P == Parts(f, 0, FileHeaderSegmentSize)
           m == Magic(0, "ZISRAWFILE")
           x == Extent(84, 8, <<"SubBlockDirectoryPosition", p>>)
           y == Extent(92, 8, <<"MetadataPosition", r>>)
           z == Extent(104, 8, <<"AttachmentDirectoryPosition", q>>)
<1>1. {m, x, y, z} \subseteq f
  BY DEF FileHeader, SegmentHeader
<1>2. /\ m.lo = 0 /\ m.hi = 16 /\ x.lo = 84 /\ x.hi = 92
      /\ y.lo = 92 /\ y.hi = 100 /\ z.lo = 104 /\ z.hi = 112
      /\ x.what[1] = "SubBlockDirectoryPosition" /\ x.what[2] = p
      /\ y.what[1] = "MetadataPosition" /\ y.what[2] = r
      /\ z.what[1] = "AttachmentDirectoryPosition" /\ z.what[2] = q
  BY DEF Magic, Extent
<1> HIDE DEF m, x, y, z
<1>3. {m, x, y, z} \subseteq P
  BY <1>1, <1>2 DEF Parts, FileHeaderSegmentSize
<1> HIDE DEF P
<1>4. HasMagic(P, 0, "ZISRAWFILE")
  BY <1>3 DEF HasMagic, m
<1>5. /\ p \in HeaderField(P, "SubBlockDirectoryPosition")
      /\ r \in HeaderField(P, "MetadataPosition")
      /\ q \in HeaderField(P, "AttachmentDirectoryPosition")
  BY <1>2, <1>3 DEF HeaderField
<1> QED BY <1>4, <1>5 DEF Names, P

LEMMA ClosingEnds ==
  ASSUME TypeInv, Closed, ClosingInv
  PROVE  ClosingInv'
<1>1. /\ op = "UpdateFileHeader" /\ writes = <<>> /\ writes' = writes
      /\ op' = "idle" /\ phase' = "closed"
      /\ UNCHANGED <<directories, segments, hdrSegmentData, kept, meta>>
      /\ UNCHANGED <<file, lastSegmentPos, nextSegmentPos>>
  BY DEF Closed, Done, ReturnToClient, opened
<1>2. phase = "closing"
  BY <1>1 DEF TypeInv, OpInPhase, CloseOps
<1>3. PICK s \in PlacedSegments, a \in PlacedSegments :
        Settled(s, a) /\ (Excused(s, a) \/ SavesAll(file, Range(writes), s, a))
  BY <1>2 DEF ClosingInv, Closable
<1>4. EnsureNextSegmentInfo' = EnsureNextSegmentInfo
  BY <1>1 DEF EnsureNextSegmentInfo
<1>5. /\ sbBlkDirectory' = sbBlkDirectory
      /\ attachmentDirectory' = attachmentDirectory
      /\ subBlockDirectorySegment' = subBlockDirectorySegment
      /\ attachmentDirectorySegment' = attachmentDirectorySegment
      /\ metadataSegment' = metadataSegment
  BY <1>1 DEF directories, segments
<1>6. /\ SubGoes(s) /\ AttGoes(s, a) /\ SubIsPlaced
      /\ subBlockDirectorySegment = s /\ attachmentDirectorySegment = a
      /\ (sbBlkDirectory.modified => nextSegmentPos # 0)
  BY <1>1, <1>3 DEF Settled, SubIsPlaced, AttIsPlaced
<1>7. SubGoes(s)' /\ AttGoes(s, a)'
  BY <1>1, <1>4, <1>6, GoStill
<1>8. Settled(s, a)'
  BY <1>1, <1>5, <1>6, <1>7 DEF Settled
<1>9. CASE Excused(s, a)
  <2>1. Excused(s, a)'
    BY <1>9, ExcusedStays
  <2> QED BY <1>8, <2>1 DEF ClosingInv, Closable
<1>10. CASE SavesAll(file, Range(writes), s, a)
  <2>1. PICK f, dir : f = file /\ Saves(f, Range(writes), s, a, dir)
    BY <1>10 DEF SavesAll
  <2>2. /\ ReliedRemains(f, s, a)' /\ AttDirRemains(f, s, a)'
        /\ Stale(s, a)' <=> Stale(s, a)
    BY <1>1, <2>1, SavesStill DEF Saves
  <2>3. Names(Parts(f, 0, FileHeaderSegmentSize), s.pos, metadataSegment.pos,
              a.pos)
    <3>1. CASE ~Stale(s, a)
      BY <2>1, <3>1 DEF Saves, HeaderComesOut
    <3>2. CASE Stale(s, a)
      <4>1. \A x \in FileHeader(s.pos, metadataSegment.pos, a.pos) :
              Lasting(f, {}, x)
        BY <1>1, <2>1, <3>2, NoElement DEF Saves, Finishing
      <4>2. FileHeader(s.pos, metadataSegment.pos, a.pos) \subseteq f
        BY <4>1, LastingDone
      <4> QED BY <4>2, HeaderNames
    <3> QED BY <3>1, <3>2
  <2>4. HeaderComesOut(f, s, a)'
    BY <1>5, <2>3 DEF HeaderComesOut
  <2>5. SubDirRemains(f, s, a, dir)'
    <3>1. SubDirRemains(f, s, a, dir)
      BY <2>1 DEF Saves
    <3>2. IsListOf(dir, sbBlkDirectory)'
      BY <1>5, <3>1 DEF IsListOf, EntriesOf, SubDirRemains
    <3>3. sbBlkDirectory'.modified => s.valid /\ dir = Enumerated(sbBlkDirectory)'
      BY <1>5, <3>1, Zenon DEF SubDirRemains
    <3> QED BY <1>5, <1>6, <3>1, <3>2, <3>3 DEF SubDirRemains
  <2>6. PICK ws : ws = Range(writes')
    OBVIOUS
  <2>7. Finishing(f, ws, s, a, dir)'
    BY <1>1 DEF Finishing
  <2>8. Saves(f, ws, s, a, dir)'
    BY <2>2, <2>4, <2>5, <2>7 DEF Saves
  <2>9. SavesAll(file, Range(writes), s, a)'
    BY <1>1, <2>1, <2>6, <2>8, Zenon DEF SavesAll
  <2> QED BY <1>8, <2>9 DEF ClosingInv, Closable
<1> QED BY <1>3, <1>9, <1>10

-----------------------------------------------------------------------------
(* A document without a sub-block directory is a new one.                  *)

\* The allocated size of the file header
HeaderRoom ==
  Extent(16, 8, <<"allocated", FileHeaderSegmentSize - SegmentHeaderSize>>)

\* Its entries are those that were added, and while it is open, the segments
\* go behind its file header.
NewDocument ==
  ~subBlockDirectorySegment.valid =>
    /\ ~sbBlkDirectory.modified => DOMAIN sbBlkDirectory.entries = {}
    /\ phase = "open" => lastSegmentPos = 0 /\ HeaderRoom \in file

LEMMA NewDocumentInit == Init => NewDocument
BY DEF Init, NewDocument, EmptyDirectory

\* Nothing that the client calls in between changes these members.
LEMMA NewDocumentStays ==
  ASSUME NewDocument, file' = file, lastSegmentPos' = lastSegmentPos,
         subBlockDirectorySegment' = subBlockDirectorySegment,
         sbBlkDirectory' = sbBlkDirectory \/ sbBlkDirectory'.modified,
         phase' = "open" => phase = "open"
  PROVE  NewDocument'
BY DEF NewDocument, HeaderRoom

LEMMA ModifiedIsSet ==
  ASSUME NEW E, NEW d, IsDirectory(d, E), NEW k, NEW e
  PROVE  ModifyEntry(d, k, e).modified
BY DEF IsDirectory, ModifyEntry

LEMMA NewDocumentCalls ==
  ASSUME TypeInv, NewDocument,
         \/ \E c \in SubBlocks : SyncAddSubBlock(c) \/ AddSubBlockRejected(c)
         \/ SubBlockAdded
         \/ \E a \in Attachments : SyncAddAttachment(a) \/ AddAttachmentRejected(a)
         \/ AttachmentAdded
         \/ \E k \in Keys, c \in SubBlocks : ReplaceSubBlock(k, c)
         \/ SubBlockReplacedInplace \/ SubBlockReplacedAtEnd
         \/ \E k \in Keys, a \in Attachments : ReplaceAttachment(k, a)
         \/ AttachmentReplacedInplace \/ AttachmentReplacedAtEnd
         \/ \E k \in Keys : RemoveSubBlock(k) \/ RemoveAttachment(k)
         \/ Removed
         \/ \E m \in Metadatas : SyncWriteMetadata(m)
         \/ MetadataWritten
  PROVE  NewDocument'
<1>1. \A e : AddEntry(sbBlkDirectory, e).modified
  BY DEF AddEntry
<1>2. \A k : RemoveEntry(sbBlkDirectory, k).modified
  BY DEF RemoveEntry
<1>3. CASE \E c \in SubBlocks : SyncAddSubBlock(c) \/ AddSubBlockRejected(c)
  <2>1. /\ UNCHANGED <<file, opened, segments>> /\ phase' = phase
        /\ sbBlkDirectory' = sbBlkDirectory \/ sbBlkDirectory'.modified
    BY <1>1, <1>3 DEF SyncAddSubBlock, AddSubBlockRejected, AddRejected,
                      directories, client
  <2> QED BY <2>1, NewDocumentStays DEF opened, segments
<1>4. CASE \E k \in Keys : RemoveSubBlock(k) \/ RemoveAttachment(k)
  <2>1. /\ UNCHANGED <<file, opened, segments>> /\ phase' = phase
        /\ sbBlkDirectory' = sbBlkDirectory \/ sbBlkDirectory'.modified
    BY <1>2, <1>4 DEF RemoveSubBlock, RemoveAttachment
  <2> QED BY <2>1, NewDocumentStays DEF opened, segments
<1>5. CASE SubBlockReplacedInplace \/ SubBlockReplacedAtEnd
  <2>1. /\ UNCHANGED <<file, opened, segments>> /\ phase' = phase
        /\ \E e : sbBlkDirectory' = ModifyEntry(sbBlkDirectory, key, e)
    BY <1>5 DEF SubBlockReplacedInplace, SubBlockReplacedAtEnd
  <2>2. PICK e : sbBlkDirectory' = ModifyEntry(sbBlkDirectory, key, e)
    BY <2>1
  <2>3. sbBlkDirectory' = sbBlkDirectory \/ sbBlkDirectory'.modified
    BY <2>2, ModifiedIsSet DEF TypeInv, DirectoriesTyped
  <2> QED BY <2>1, <2>3, NewDocumentStays DEF opened, segments
<1>6. CASE \/ \E a \in Attachments :
                 SyncAddAttachment(a) \/ AddAttachmentRejected(a)
           \/ \E k \in Keys, c \in SubBlocks : ReplaceSubBlock(k, c)
           \/ \E k \in Keys, a \in Attachments : ReplaceAttachment(k, a)
           \/ \E m \in Metadatas : SyncWriteMetadata(m)
  <2>1. /\ UNCHANGED <<file, opened, segments>> /\ phase' = phase
        /\ sbBlkDirectory' = sbBlkDirectory
    BY <1>6 DEF SyncAddAttachment, AddAttachmentRejected, AddRejected,
                ReplaceSubBlock, ReplaceAttachment, SyncWriteMetadata,
                directories, client
  <2> QED BY <2>1, NewDocumentStays DEF opened, segments
<1>7. CASE \/ SubBlockAdded \/ AttachmentAdded \/ AttachmentReplacedInplace
           \/ AttachmentReplacedAtEnd \/ Removed \/ MetadataWritten
  <2>1. /\ UNCHANGED <<file, opened>> /\ phase' = phase
        /\ sbBlkDirectory' = sbBlkDirectory
        /\ subBlockDirectorySegment' = subBlockDirectorySegment
    BY <1>7 DEF SubBlockAdded, AttachmentAdded, AttachmentReplacedInplace,
                AttachmentReplacedAtEnd, Removed, MetadataWritten, directories,
                segments, client
  <2> QED BY <2>1, NewDocumentStays DEF opened
<1> QED BY <1>3, <1>4, <1>5, <1>6, <1>7

\* No write of a document that is open reaches the file header.
LEMMA NewDocumentWrite ==
  ASSUME TypeInv, NewDocument, WriteOk \/ WriteFails
  PROVE  NewDocument'
<1> DEFINE w == Head(writes)
<1>1. /\ writes # <<>> /\ UNCHANGED <<directories, segments>>
      /\ file' \in {file, Smash(file, w), Apply(file, w)}
      /\ lastSegmentPos' = lastSegmentPos /\ phase' \in {phase, "none"}
  BY DEF WriteOk, WriteFails, opened, client
<1>2. /\ sbBlkDirectory' = sbBlkDirectory
      /\ subBlockDirectorySegment' = subBlockDirectorySegment
  BY <1>1 DEF directories, segments
<1>3. ASSUME phase = "open", HeaderRoom \in file
      PROVE  HeaderRoom \in file'
  <2>1. w \in Range(writes)
    BY <1>1, WritesLeft DEF TypeInv, FileTyped
  <2>2. op # "idle"
    BY <1>1 DEF TypeInv, WritesTyped
  <2>3. EditWrites(writes)
    BY <1>3, <2>2 DEF TypeInv, OpInPhase, WritesTyped, CreateOps, CloseOps
  <2> HIDE DEF w
  <2>4. w.pos \in BehindHeader
    BY <2>1, <2>3 DEF EditWrites
  <2>5. HeaderRoom.lo = 16 /\ HeaderRoom.hi = 24
    BY DEF HeaderRoom, Extent
  <2>6. Survives(HeaderRoom, w)
    BY <2>4, <2>5 DEF Survives, BehindHeader, FileHeaderSegmentSize
  <2> QED BY <1>1, <1>3, <2>6 DEF Smash, Apply
<1>4. ASSUME ~subBlockDirectorySegment.valid, phase' = "open"
      PROVE  lastSegmentPos' = 0 /\ HeaderRoom \in file'
  BY <1>1, <1>3, <1>4 DEF NewDocument
<1> QED BY <1>2, <1>4 DEF NewDocument, HeaderRoom

LEMMA NewDocumentStep ==
  ASSUME TypeInv, LayoutInv, NewDocument, [Next]_vars
  PROVE  NewDocument'
<1>1. CASE CreateNew \/ OpenDocument
  <2>1. /\ UNCHANGED <<file, lastSegmentPos, directories, segments>>
        /\ phase' = "creating"
    BY <1>1 DEF CreateNew, OpenDocument, Create
  <2> QED BY <2>1, NewDocumentStays DEF directories, segments
<1>2. CASE CreatedNew
  <2>1. /\ op = "WriteHeader" /\ writes = <<>> /\ lastSegmentPos' = 0
        /\ UNCHANGED <<file, directories, segments>>
    BY <1>2 DEF CreatedNew, Done
  <2>2. phase = "creating"
    BY <2>1 DEF TypeInv, OpInPhase, CreateOps
  <2>3. \A x \in FileHeader(0, 0, 0) : Lasting(file, Range(writes), x)
    BY <2>1, <2>2 DEF LayoutInv, Fresh
  <2>4. Range(writes) = {}
    BY <2>1, NoElement
  <2>5. FileHeader(0, 0, 0) \subseteq file
    BY <2>3, <2>4, LastingDone
  <2>6. HeaderRoom \in file'
    BY <2>1, <2>5 DEF FileHeader, SegmentHeader, HeaderRoom
  <2> QED BY <2>1, <2>6 DEF NewDocument, HeaderRoom, directories, segments
<1>3. CASE ReadCziStructure
  <2>1. subBlockDirectorySegment'.valid
    BY <1>3 DEF ReadCziStructure, SegmentAt
  <2> QED BY <2>1 DEF NewDocument
<1>4. CASE CreateThrows
  <2>1. /\ UNCHANGED <<file, lastSegmentPos, directories, segments>>
        /\ phase' = "none"
    BY <1>4 DEF CreateThrows
  <2> QED BY <2>1, NewDocumentStays DEF directories, segments
<1>5. CASE Close
  <2>1. /\ UNCHANGED <<file, opened, directories, segments>>
        /\ phase' = "closing"
    BY <1>5 DEF Close
  <2> QED BY <2>1, NewDocumentStays DEF opened, directories, segments
<1>6. CASE SubBlkDirFinished
  <2>1. /\ UNCHANGED <<file, opened, directories>> /\ phase' = phase
        /\ \/ subBlockDirectorySegment' = subBlockDirectorySegment
           \/ subBlockDirectorySegment'.valid
    BY <1>6 DEF SubBlkDirFinished, SegmentAt, client
  <2>2. CASE subBlockDirectorySegment'.valid
    BY <2>2 DEF NewDocument
  <2>3. CASE subBlockDirectorySegment' = subBlockDirectorySegment
    BY <2>1, <2>3, NewDocumentStays DEF opened, directories
  <2> QED BY <2>1, <2>2, <2>3
<1>7. CASE AttachmentDirBegun \/ AttachmentDirFinished \/ Closed
  <2>1. /\ UNCHANGED <<file, opened, directories>>
        /\ phase' \in {phase, "closed"}
        /\ subBlockDirectorySegment' = subBlockDirectorySegment
    BY <1>7 DEF AttachmentDirBegun, AttachmentDirFinished, Closed, client,
                segments
  <2> QED BY <2>1, NewDocumentStays DEF opened, directories
<1>8. CASE Discard
  <2>1. sbBlkDirectory' = EmptyDirectory /\ phase' = "none"
    BY <1>8 DEF Discard, NewObject
  <2> QED BY <2>1 DEF NewDocument, EmptyDirectory
<1>9. CASE WriteOk \/ WriteFails
  BY <1>9, NewDocumentWrite
<1>10. CASE UNCHANGED vars
  <2>1. UNCHANGED <<file, opened, directories, segments, client>>
    BY <1>10 DEF vars
  <2> QED BY <2>1, NewDocumentStays DEF opened, directories, segments, client
<1> QED BY <1>1, <1>2, <1>3, <1>4, <1>5, <1>6, <1>7, <1>8, <1>9, <1>10,
           NewDocumentCalls DEF Next

-----------------------------------------------------------------------------
(* While the document is open, Close will save everything.                 *)

\* The entries end in the room for them, and one takes no more than several.
LEMMA EndWithin ==
  ASSUME NEW pos \in Nat, NEW n \in Nat
  PROVE  /\ DirectoryEnd(pos, n) \in Nat
         /\ DirectoryEnd(pos, n) <= pos + SegmentHeaderSize + SubBlkDirAllocated(n)
         /\ n = 0 => DirectoryEnd(pos, n) = pos + SegmentHeaderSize + 4
         /\ n # 0 => SubBlkDirAllocated(1) <= SubBlkDirAllocated(n)
<1>1. PICK e, size : e = n * EntryDVSize /\ size = EntryDVSize
  OBVIOUS
<1>2. e \in Nat /\ size \in Nat
  BY <1>1, HeadSizes, ProductIsNat
<1>3. SubBlkDirAllocated(n) \in Nat /\ SubBlkDirAllocated(n) >= 128 + e
  BY <1>1, AllocatedSizes
<1>4. DirectoryEnd(pos, n) <= pos + SegmentHeaderSize + SubBlkDirAllocated(n)
  BY <1>1, <1>2, <1>3
     DEF DirectoryEnd, SubBlkDirHeaderSize, SegmentHeaderSize
<1>5. ASSUME n # 0 PROVE SubBlkDirAllocated(1) <= SubBlkDirAllocated(n)
  <2>1. n * size >= size
    <3>1. PICK m \in Nat : n = m + 1
      BY <1>5
    <3>2. m * size \in Nat /\ n * size = m * size + size
      BY <1>2, <3>1
    <3> QED BY <1>2, <3>2
  <2>2. e >= size
    BY <1>1, <2>1
  <2>3. 1 * EntryDVSize = size
    BY <1>1, <1>2
  <2>4. ASSUME NEW i \in Nat, NEW j \in Nat, i <= j
        PROVE  AlignSegmentSize(i) <= AlignSegmentSize(j)
    BY <2>4 DEF AlignSegmentSize, SegmentAlign
  <2>5. AlignSegmentSize(128 + size) <= AlignSegmentSize(128 + e)
    BY <1>2, <2>2, <2>4
  <2> QED BY <1>1, <2>3, <2>5 DEF SubBlkDirAllocated
<1> QED BY <1>4, <1>5, EndTyped DEF DirectoryEnd

\* What lies in a span that is not the document's is beside the directories.
LEMMA SpanRemains ==
  ASSUME TypeInv, NEW S, NEW H, Rests(S, H),
         NEW s \in PlacedSegments, NEW a \in PlacedSegments,
         \/ s = subBlockDirectorySegment
         \/ Beyond(S, s),
         \/ a = attachmentDirectorySegment
         \/ Beyond(S, a),
         sbBlkDirectory.modified => s.valid,
         attachmentDirectory.modified => a.valid,
         NEW o, o # Document, NEW parts, Stays(S, file, o, parts)
  PROVE  Remains(file, parts, s, a)
<1>1. /\ Arranged(S) /\ Held(S, 0, FileHeaderSegmentSize)
      /\ DirectoryRoom(S, subBlockDirectorySegment)
      /\ DirectoryRoom(S, attachmentDirectorySegment)
      /\ subBlockDirectorySegment \in PlacedSegments
      /\ attachmentDirectorySegment \in PlacedSegments
  BY DEF TypeInv, SegmentsTyped, Rests, Ground, Framed, Frame, HeaderKept
<1>2. parts \subseteq file
  BY DEF Stays
<1>3. ASSUME NEW x \in parts
      PROVE  x.lo >= FileHeaderSegmentSize /\ Beside(x.lo, x.hi, s, a)
  <2>1. PICK t \in S : t.owner = o /\ t.lo <= x.lo /\ x.hi <= t.hi
    BY DEF Stays, Inside
  <2>2. PICK lo \in Nat, hi \in Nat : lo = x.lo /\ hi = x.hi /\ lo < hi
    <3>1. x.lo \in Nat /\ x.hi \in Nat /\ x.lo < x.hi
      BY <1>2, WellFormedBounds DEF TypeInv, FileTyped, IsCziFile
    <3> QED BY <3>1
  <2>3. t.owner # Document /\ t.lo <= lo /\ hi <= t.hi
    BY <2>1, <2>2
  <2>4. PICK u \in S : u.owner = Document /\ u.lo <= 0 /\ FileHeaderSegmentSize <= u.hi
    BY <1>1 DEF Held
  <2>5. t.hi <= u.lo \/ u.hi <= t.lo
    BY <1>1, <2>3, <2>4 DEF Arranged
  <2>6. t.lo \in Nat /\ t.hi \in Nat /\ u.lo \in Nat /\ u.hi \in Nat
    BY <1>1 DEF Arranged
  <2>7. lo >= FileHeaderSegmentSize
    BY <2>2, <2>3, <2>4, <2>5, <2>6 DEF FileHeaderSegmentSize
  <2>8. sbBlkDirectory.modified => Clear(lo, hi, subBlockDirectorySegment, s)
    BY <1>1, <2>3, RoomClear
  <2>9. attachmentDirectory.modified => Clear(lo, hi, attachmentDirectorySegment, a)
    BY <1>1, <2>3, RoomClear
  <2> QED BY <2>2, <2>7, <2>8, <2>9 DEF Beside
<1> QED BY <1>2, <1>3 DEF Remains

\* What lies before the end of a directory lies before what is appended.
LEMMA RoomBeyond ==
  ASSUME NEW S, Arranged(S), NEW old \in PlacedSegments, DirectoryRoom(S, old),
         old.valid, NEW at \in PlacedSegments, Beyond(S, at)
  PROVE  SegmentEnd(old) <= at.pos
<1>1. PICK t \in S : SegmentEnd(old) <= t.hi
  BY DEF DirectoryRoom
<1>2. SegmentEnd(old) \in Nat /\ t.hi \in Nat /\ at.pos \in Nat
  BY PlacedTyped, EndTyped DEF Arranged
<1> QED BY <1>1, <1>2 DEF Beyond

\* The attachment directory is not written over the entries of the other one:
\* either these were left where they are, or there is room for as many.
LEMMA SubDirClear ==
  ASSUME NEW S, Arranged(S),
         NEW sub \in PlacedSegments, NEW att \in PlacedSegments,
         DirectoryRoom(S, sub), DirectoryRoom(S, att), Pair(sub, att),
         NEW s \in PlacedSegments, NEW a \in PlacedSegments, s.valid, a.valid,
         s = sub \/ Beyond(S, s), a = att \/ (s = sub /\ Beyond(S, a)),
         NEW n \in Nat, NEW end, end = DirectoryEnd(s.pos, n),
         \/ s.allocated >= SubBlkDirAllocated(n)
         \/ /\ s = sub /\ end <= SegmentEnd(sub)
            /\ att.valid => end <= att.pos \/ SegmentEnd(att) <= sub.pos
  PROVE  Clear(s.pos, end, att, a)
<1>1. PICK p, q : p = SegmentEnd(s) /\ q = SegmentEnd(att)
  OBVIOUS
<1>2. /\ s.pos \in Nat /\ s.allocated \in Nat /\ att.pos \in Nat
      /\ att.allocated \in Nat /\ a.pos \in Nat
      /\ p = s.pos + s.allocated + 32 /\ q = att.pos + att.allocated + 32
  BY <1>1, PlacedTyped DEF Segments, SegmentEnd, SegmentHeaderSize
<1>3. PICK one, some : one = SubBlkDirAllocated(1) /\ some = SubBlkDirAllocated(n)
  OBVIOUS
<1>4. /\ one \in Nat /\ some \in Nat /\ end \in Nat
      /\ end <= s.pos + 32 + some
      /\ n = 0 => end = s.pos + 32 + 4
      /\ n # 0 => one <= some
  BY <1>2, <1>3, EndWithin, AllocatedSizes DEF SegmentHeaderSize
<1>5. end <= p
  <2>1. CASE s.allocated >= SubBlkDirAllocated(n)
    BY <1>2, <1>3, <1>4, <2>1
  <2>2. CASE s = sub /\ end <= SegmentEnd(sub)
    BY <1>1, <2>2
  <2> QED BY <2>1, <2>2
<1>6. att.valid => end <= att.pos \/ q <= s.pos
  <2> SUFFICES ASSUME att.valid PROVE end <= att.pos \/ q <= s.pos
    OBVIOUS
  <2>1. CASE Beyond(S, s)
    BY <1>1, <2>1, RoomBeyond
  <2>2. CASE s = sub /\ s.allocated >= SubBlkDirAllocated(n)
    <3>1. \/ q <= s.pos
          \/ p <= att.pos
          \/ /\ s.pos + 32 + 4 <= att.pos /\ s.allocated < one
      BY <1>1, <1>3, <2>2 DEF Pair, SegmentHeaderSize
    <3>2. s.allocated >= some
      BY <1>3, <2>2
    <3> QED BY <1>2, <1>4, <1>5, <3>1, <3>2
  <2>3. CASE s = sub /\ (end <= att.pos \/ SegmentEnd(att) <= sub.pos)
    BY <1>1, <2>3
  <2> QED BY <2>1, <2>2, <2>3
<1>7. att.valid => end <= att.pos \/ att.pos + 16 <= s.pos
  BY <1>2, <1>4, <1>6
<1>8. end <= a.pos \/ SegmentEnd(a) <= s.pos
  <2>1. CASE a = att
    BY <1>1, <1>6, <2>1
  <2>2. CASE s = sub /\ Beyond(S, a)
    <3>1. p <= a.pos
      BY <1>1, <2>2, RoomBeyond
    <3> QED BY <1>2, <1>4, <1>5, <3>1
  <2> QED BY <2>1, <2>2
<1> QED BY <1>7, <1>8 DEF Clear

\* Nor is the sub-block directory written over the other one.
LEMMA AttDirClear ==
  ASSUME NEW S, Arranged(S),
         NEW sub \in PlacedSegments, NEW att \in PlacedSegments,
         DirectoryRoom(S, att), Pair(sub, att), att.valid,
         NEW s \in PlacedSegments, s.valid, ~Excused(s, att),
         s = sub \/ Beyond(S, s)
  PROVE  Clear(att.pos, SegmentEnd(att), sub, s)
<1>1. PICK p, q, r : p = SegmentEnd(s) /\ q = SegmentEnd(att) /\ r = SegmentEnd(sub)
  OBVIOUS
<1>2. /\ s.pos \in Nat /\ s.allocated \in Nat /\ att.pos \in Nat
      /\ sub.pos \in Nat /\ sub.allocated \in Nat /\ att.allocated \in Nat
      /\ p = s.pos + s.allocated + 32 /\ q = att.pos + att.allocated + 32
      /\ r = sub.pos + sub.allocated + 32
  BY <1>1, PlacedTyped DEF Segments, SegmentEnd, SegmentHeaderSize
<1>3. sub.valid => \/ q <= sub.pos \/ r <= att.pos
                   \/ sub.pos + 36 <= att.pos /\ att.pos < r
  BY <1>1, <1>2 DEF Pair, SegmentHeaderSize
<1>4. sub.valid => q <= sub.pos \/ sub.pos + 16 <= att.pos
  BY <1>2, <1>3
<1>5. q <= s.pos \/ p <= att.pos
  <2>1. CASE Beyond(S, s)
    BY <1>1, <2>1, RoomBeyond
  <2>2. CASE s = sub
    <3>1. p <= att.pos \/ att.pos <= s.pos
      BY <1>1, <1>2 DEF Excused
    <3> QED BY <1>1, <1>2, <1>3, <2>2, <3>1
  <2> QED BY <2>1, <2>2
<1> QED BY <1>1, <1>4, <1>5 DEF Clear

\* What the client relies on is not in the way of the directories.
LEMMA ReliedReady ==
  ASSUME TypeInv, NEW S, NEW H, Rests(S, H), op = "idle",
         NEW s \in PlacedSegments, NEW a \in PlacedSegments,
         \/ s = subBlockDirectorySegment
         \/ Beyond(S, s),
         \/ a = attachmentDirectorySegment
         \/ Beyond(S, a),
         sbBlkDirectory.modified => s.valid,
         attachmentDirectory.modified => a.valid
  PROVE  ReliedRemains(file, s, a)
<1>1. ASSUME NEW k, SubBlock(k) \in kept
      PROVE  /\ k \in DOMAIN sbBlkDirectory.entries
             /\ Remains(file, SubBlockExtents(sbBlkDirectory.entries[k].pos,
                                              sbBlkDirectory.entries[k].id),
                        s, a)
  <2>1. SubBlocksStay(S, file, known, kept, sbBlkDirectory.entries)
    BY DEF Rests, Items
  <2>2. PICK o, parts :
          /\ o = SubBlock(k)
          /\ parts = SubBlockExtents(sbBlkDirectory.entries[k].pos,
                                     sbBlkDirectory.entries[k].id)
    OBVIOUS
  <2>3. SubBlock(k) \in known /\ Stays(S, file, o, parts)
    BY <1>1, <2>1, <2>2 DEF SubBlocksStay
  <2>4. k \in DOMAIN sbBlkDirectory.entries
    BY <2>3 DEF TypeInv, ClientTyped
  <2>5. o # Document
    BY <2>2, Owners
  <2>6. Remains(file, parts, s, a)
    BY <2>3, <2>5, SpanRemains
  <2> QED BY <2>2, <2>4, <2>6
<1>2. ASSUME meta \in Metadatas
      PROVE  Remains(file, MetadataExtents(metadataSegment.pos, meta), s, a)
  <2>1. MetadataKept(S, Nobody)
    BY DEF Rests
  <2>2. XmlStays(S, file, metadataSegment, meta)
    BY <2>1 DEF MetadataKept
  <2>3. PICK o, parts : o = TheMetadata
                        /\ parts = MetadataExtents(metadataSegment.pos, meta)
    OBVIOUS
  <2>4. Stays(S, file, o, parts) /\ o # Document
    BY <1>2, <2>2, <2>3, Owners DEF XmlStays
  <2>5. Remains(file, parts, s, a)
    BY <2>4, SpanRemains
  <2> QED BY <2>3, <2>5
<1> QED BY <1>1, <1>2 DEF ReliedRemains

LEMMA Ready ==
  ASSUME TypeInv, LayoutInv, NewDocument, phase = "open", op = "idle",
         sbBlkDirectory.modified => EnsureNextSegmentInfo # {}
  PROVE  Closable
<1>1. writes = <<>>
  BY DEF TypeInv, WritesTyped
<1>2. PICK S, H : Rests(S, H)
  BY <1>1, AtRest
<1>3. PICK s \in PlacedSegments :
        /\ SubGoes(s)
        /\ \/ s = subBlockDirectorySegment
           \/ /\ sbBlkDirectory.modified /\ s # subBlockDirectorySegment
              /\ Beyond(S, s)
        /\ sbBlkDirectory.modified => s.valid /\ s.allocated >= SubNeeds
  BY <1>2, SubReady
<1>4. PICK a \in PlacedSegments :
        /\ AttGoes(s, a)
        /\ \/ a = attachmentDirectorySegment
           \/ Excused(s, a)
           \/ s = subBlockDirectorySegment /\ Beyond(S, a)
        /\ attachmentDirectory.modified => a.valid
  <2>1. ASSUME ~s.valid PROVE NextThen(s) # {}
    <3>1. ~sbBlkDirectory.modified /\ ~subBlockDirectorySegment.valid
      BY <1>3, <2>1
    <3>2. lastSegmentPos = 0 /\ HeaderRoom \in file
      BY <3>1 DEF NewDocument
    <3>3. HeaderRoom.lo = lastSegmentPos + 16 /\ HeaderRoom.what[1] = "allocated"
      BY <3>2 DEF HeaderRoom, Extent
    <3>4. AllocatedSize(file, lastSegmentPos) # {}
      BY <3>2, <3>3 DEF AllocatedSize
    <3>5. EnsureNextSegmentInfo # {}
      BY <3>4 DEF EnsureNextSegmentInfo
    <3> QED BY <3>1, <3>5 DEF NextThen
  <2> QED BY <1>2, <1>3, <2>1, AttReady
<1>5. Settled(s, a)
  <2>1. ~SubIsPlaced /\ ~AttIsPlaced
    BY DEF SubIsPlaced, AttIsPlaced
  <2> QED BY <1>3, <1>4, <2>1 DEF Settled
<1>6. CASE Excused(s, a)
  BY <1>5, <1>6 DEF Closable
<1>7. CASE ~Excused(s, a)
  <2>1. PICK sub, att : /\ sub = subBlockDirectorySegment
                        /\ att = attachmentDirectorySegment
    OBVIOUS
  <2>2. /\ Arranged(S) /\ sub \in PlacedSegments /\ att \in PlacedSegments
        /\ Frame(S, file, hdrSegmentData, sub, att, sbBlkDirectory,
                 attachmentDirectory)
    BY <1>2, <2>1 DEF TypeInv, SegmentsTyped, Rests, Ground, Framed
  <2>3. DirectoryRoom(S, sub) /\ DirectoryRoom(S, att) /\ Pair(sub, att)
    BY <2>2 DEF Frame
  <2>4. s.valid => s.pos \in BehindHeader
    BY PlacedTyped
  <2>5. /\ s = sub \/ Beyond(S, s)
        /\ a = att \/ (s = sub /\ Beyond(S, a))
    BY <1>3, <1>4, <1>7, <2>1
  <2>6. ReliedRemains(file, s, a)
    BY <1>2, <1>3, <1>4, <2>1, <2>5, ReliedReady
  <2>7. PICK dir :
          /\ IsListOf(dir, sbBlkDirectory)
          /\ sbBlkDirectory.modified => dir = Enumerated(sbBlkDirectory)
          /\ ~sbBlkDirectory.modified /\ s.valid =>
               /\ s = sub
               /\ Keeps(S, file, sub, att, dir, DirectoryEnd(sub.pos, Len(dir)))
    <3>1. CASE sbBlkDirectory.modified \/ ~s.valid
      BY <3>1, EnumeratedIsList DEF TypeInv, DirectoriesTyped
    <3>2. CASE ~sbBlkDirectory.modified /\ s.valid
      <4>1. s = sub
        BY <1>3, <2>1, <3>2
      <4> QED BY <2>2, <3>2, <4>1 DEF Frame, SubBlkDirKept
    <3> QED BY <3>1, <3>2
  <2>8. PICK n \in Nat : n = Len(dir)
    BY <2>7 DEF IsListOf
  <2>9. SubDirRemains(file, s, a, dir)
    <3>1. s.valid => s.pos >= FileHeaderSegmentSize
      BY <2>4 DEF BehindHeader
    <3>2. ASSUME s.valid, attachmentDirectory.modified
          PROVE  Clear(s.pos, DirectoryEnd(s.pos, Len(dir)), att, a)
      <4>1. PICK end : end = DirectoryEnd(s.pos, n)
        OBVIOUS
      <4>2. \/ s.allocated >= SubBlkDirAllocated(n)
            \/ /\ s = sub /\ end <= SegmentEnd(sub)
               /\ att.valid => end <= att.pos \/ SegmentEnd(att) <= sub.pos
        <5>1. CASE sbBlkDirectory.modified
          BY <1>3, <2>7, <2>8, <5>1 DEF SubNeeds
        <5>2. CASE ~sbBlkDirectory.modified
          BY <2>7, <2>8, <3>2, <4>1, <5>2 DEF Keeps
        <5> QED BY <5>1, <5>2
      <4>3. a.valid
        BY <1>4, <3>2
      <4>4. Clear(s.pos, end, att, a)
        BY <2>2, <2>3, <2>5, <3>2, <4>1, <4>2, <4>3, SubDirClear
      <4> QED BY <2>8, <4>1, <4>4
    <3>3. ~SubIsPlaced
      BY DEF SubIsPlaced
    <3>4. s.valid /\ ~sbBlkDirectory.modified => Reads(file, s.pos, dir)
      BY <2>7 DEF Keeps
    <3> QED BY <1>3, <2>1, <2>7, <3>1, <3>2, <3>3, <3>4 DEF SubDirRemains
  <2>10. AttDirRemains(file, s, a)
    <3> SUFFICES ASSUME ~attachmentDirectory.modified
                 PROVE  /\ a.valid =>
                             /\ sbBlkDirectory.modified =>
                                  Clear(a.pos, SegmentEnd(a), sub, s)
                             /\ ReadsAttachments(file, a,
                                                 EntriesOf(attachmentDirectory))
                        /\ ~a.valid => EntriesOf(attachmentDirectory) = {}
      BY <2>1 DEF AttDirRemains
    <3>1. a = att
      BY <1>4, <2>1 DEF AttGoes
    <3>2. /\ att.valid => ReadsAttachments(file, att, EntriesOf(attachmentDirectory))
          /\ ~att.valid => EntriesOf(attachmentDirectory) = {}
      BY <2>2 DEF Frame, AttachmentDirKept
    <3>3. ASSUME a.valid, sbBlkDirectory.modified
          PROVE  Clear(a.pos, SegmentEnd(a), sub, s)
      BY <1>3, <1>7, <2>2, <2>3, <2>5, <3>1, <3>3, AttDirClear
    <3> QED BY <3>1, <3>2, <3>3
  <2>11. HeaderComesOut(file, s, a)
    <3>1. /\ sub.pos = hdrSegmentData.subBlockDirectory
          /\ att.pos = hdrSegmentData.attachmentDirectory
          /\ Names(Parts(file, 0, FileHeaderSegmentSize),
                   hdrSegmentData.subBlockDirectory, hdrSegmentData.metadata,
                   hdrSegmentData.attachmentDirectory)
      BY <2>2 DEF Frame, HeaderKept
    <3>2. ASSUME ~Stale(s, a)
          PROVE  /\ hdrSegmentData.subBlockDirectory = s.pos
                 /\ hdrSegmentData.metadata = metadataSegment.pos
                 /\ hdrSegmentData.attachmentDirectory = a.pos
      <4>1. ~sbBlkDirectory.modified => s = sub
        BY <1>3, <2>1
      <4>2. ~attachmentDirectory.modified => a = att
        BY <1>4, <2>1 DEF AttGoes
      <4> QED BY <3>1, <3>2, <4>1, <4>2 DEF Stale
    <3> QED BY <3>1, <3>2 DEF HeaderComesOut
  <2>12. Finishing(file, Range(writes), s, a, dir)
    BY DEF Finishing
  <2>13. SavesAll(file, Range(writes), s, a)
    BY <2>6, <2>9, <2>10, <2>11, <2>12 DEF Saves, SavesAll
  <2> QED BY <1>5, <2>13 DEF Closable
<1> QED BY <1>6, <1>7

LEMMA ClosingElsewhere ==
  ASSUME phase' \notin {"closing", "closed"}
  PROVE  ClosingInv'
BY DEF ClosingInv

LEMMA ClosingUnchanged ==
  ASSUME ClosingInv, UNCHANGED vars
  PROVE  ClosingInv'
<1>1. /\ UNCHANGED <<directories, segments, hdrSegmentData, kept, meta>>
      /\ file' = file /\ lastSegmentPos' = lastSegmentPos
      /\ nextSegmentPos' = nextSegmentPos
      /\ op' = op /\ phase' = phase /\ writes' = writes
  BY DEF vars, opened, call, client
<1>2. CASE phase \notin {"closing", "closed"}
  BY <1>1, <1>2, ClosingElsewhere
<1>3. CASE phase \in {"closing", "closed"}
  <2>1. PICK s \in PlacedSegments, a \in PlacedSegments :
          Settled(s, a) /\ (Excused(s, a) \/ SavesAll(file, Range(writes), s, a))
    BY <1>3 DEF ClosingInv, Closable
  <2>2. /\ sbBlkDirectory' = sbBlkDirectory
        /\ attachmentDirectory' = attachmentDirectory
        /\ subBlockDirectorySegment' = subBlockDirectorySegment
        /\ attachmentDirectorySegment' = attachmentDirectorySegment
        /\ metadataSegment' = metadataSegment
    BY <1>1 DEF directories, segments
  <2>3. EnsureNextSegmentInfo' = EnsureNextSegmentInfo
    BY <1>1 DEF EnsureNextSegmentInfo
  <2>4. SubIsPlaced' = SubIsPlaced /\ AttIsPlaced' = AttIsPlaced
    BY <1>1 DEF SubIsPlaced, AttIsPlaced
  <2>5. SubGoes(s)' /\ AttGoes(s, a)'
    BY <1>1, <2>1, <2>3, GoStill DEF Settled
  <2>6. Settled(s, a)'
    BY <1>1, <2>1, <2>2, <2>4, <2>5 DEF Settled
  <2>7. CASE Excused(s, a)
    <3>1. Excused(s, a)'
      BY <2>7, ExcusedStays
    <3> QED BY <2>6, <3>1 DEF ClosingInv, Closable
  <2>8. CASE SavesAll(file, Range(writes), s, a)
    <3>1. PICK f, ws, dir :
            f = file /\ ws = Range(writes) /\ Saves(f, ws, s, a, dir)
      BY <2>8 DEF SavesAll
    <3>2. /\ ReliedRemains(f, s, a)' /\ AttDirRemains(f, s, a)'
          /\ Stale(s, a)' <=> Stale(s, a)
      BY <1>1, <3>1, SavesStill DEF Saves
    <3>3. HeaderComesOut(f, s, a)'
      BY <1>1, <2>2, <3>1, <3>2 DEF Saves, HeaderComesOut
    <3>4. SubDirRemains(f, s, a, dir)'
      <4>1. SubDirRemains(f, s, a, dir)
        BY <3>1 DEF Saves
      <4>2. IsListOf(dir, sbBlkDirectory)'
        BY <2>2, <4>1 DEF IsListOf, EntriesOf, SubDirRemains
      <4>3. sbBlkDirectory'.modified => s.valid /\ dir = Enumerated(sbBlkDirectory)'
        BY <2>2, <4>1, Zenon DEF SubDirRemains
      <4> QED BY <2>2, <2>4, <4>1, <4>2, <4>3 DEF SubDirRemains
    <3>5. Finishing(f, ws, s, a, dir)'
      BY <1>1, <2>2, <3>1, <3>2 DEF Saves, Finishing
    <3>6. Saves(f, ws, s, a, dir)'
      BY <3>2, <3>3, <3>4, <3>5 DEF Saves
    <3>7. SavesAll(file, Range(writes), s, a)'
      BY <1>1, <3>1, <3>6, Zenon DEF SavesAll
    <3> QED BY <2>6, <3>7 DEF ClosingInv, Closable
  <2> QED BY <2>1, <2>7, <2>8
<1> QED BY <1>2, <1>3

LEMMA ClosingStep ==
  ASSUME TypeInv, LayoutInv, NewDocument, ClosingInv, [Next]_vars
  PROVE  ClosingInv'
<1>1. CASE CreateNew \/ CreatedNew \/ OpenDocument \/ ReadCziStructure
            \/ CreateThrows \/ Discard
  <2>1. phase' \in {"creating", "open", "none"}
    BY <1>1 DEF CreateNew, CreatedNew, OpenDocument, ReadCziStructure,
                CreateThrows, Discard, Create
  <2> QED BY <2>1, ClosingElsewhere
<1>2. CASE \E c \in SubBlocks : SyncAddSubBlock(c) \/ AddSubBlockRejected(c)
  <2>1. phase' = "open"
    BY <1>2 DEF SyncAddSubBlock, AddSubBlockRejected, AddRejected, Callable,
                client
  <2> QED BY <2>1, ClosingElsewhere
<1>3. CASE \E a \in Attachments :
             SyncAddAttachment(a) \/ AddAttachmentRejected(a)
  <2>1. phase' = "open"
    BY <1>3 DEF SyncAddAttachment, AddAttachmentRejected, AddRejected, Callable,
                client
  <2> QED BY <2>1, ClosingElsewhere
<1>4. CASE \E k \in Keys, c \in SubBlocks : ReplaceSubBlock(k, c)
  <2>1. phase' = "open"
    BY <1>4 DEF ReplaceSubBlock, Callable
  <2> QED BY <2>1, ClosingElsewhere
<1>5. CASE \E k \in Keys, a \in Attachments : ReplaceAttachment(k, a)
  <2>1. phase' = "open"
    BY <1>5 DEF ReplaceAttachment, Callable
  <2> QED BY <2>1, ClosingElsewhere
<1>6. CASE \E k \in Keys : RemoveSubBlock(k) \/ RemoveAttachment(k)
  <2>1. phase' = "open"
    BY <1>6 DEF RemoveSubBlock, RemoveAttachment, Callable
  <2> QED BY <2>1, ClosingElsewhere
<1>7. CASE \E m \in Metadatas : SyncWriteMetadata(m)
  <2>1. phase' = "open"
    BY <1>7 DEF SyncWriteMetadata, Callable, client
  <2> QED BY <2>1, ClosingElsewhere
<1>8. CASE \/ SubBlockAdded \/ AttachmentAdded \/ SubBlockReplacedInplace
           \/ SubBlockReplacedAtEnd \/ AttachmentReplacedInplace
           \/ AttachmentReplacedAtEnd \/ Removed \/ MetadataWritten
  <2>1. /\ phase' = phase
        /\ op \in {"AddSubBlock", "AddAttachment", "ReplaceSubBlockInplace",
                   "ReplaceSubBlockAddNewAtEnd", "ReplaceAttachmentInplace",
                   "ReplaceAttachmentAddNewAtEnd", "Remove", "WriteMetadata"}
    BY <1>8 DEF SubBlockAdded, AttachmentAdded, SubBlockReplacedInplace,
                SubBlockReplacedAtEnd, AttachmentReplacedInplace,
                AttachmentReplacedAtEnd, Removed, MetadataWritten, Done, client
  <2>2. phase = "open"
    BY <2>1 DEF TypeInv, OpInPhase, CreateOps, CloseOps
  <2> QED BY <2>1, <2>2, ClosingElsewhere
<1>9. CASE Close
  <2>1. Closable
    <3>1. CASE phase = "closing"
      BY <3>1 DEF ClosingInv
    <3>2. CASE phase = "open"
      <4>1. op = "idle" /\ (sbBlkDirectory.modified => EnsureNextSegmentInfo # {})
        BY <1>9 DEF Close
      <4> QED BY <3>2, <4>1, Ready
    <3> QED BY <1>9, <3>1, <3>2 DEF Close
  <2> QED BY <1>9, <2>1, CloseBegins
<1>10. CASE SubBlkDirFinished \/ AttachmentDirBegun \/ AttachmentDirFinished
              \/ Closed
  BY <1>10, ClosingSubBlkDir, ClosingAttachmentDirBegun, ClosingAttachmentDir,
     ClosingEnds
<1>11. CASE WriteOk \/ WriteFails
  <2>1. CASE phase = "closing"
    BY <1>11, <2>1, ClosingWrite
  <2>2. CASE phase # "closing"
    <3>1. writes # <<>> /\ phase' \in {phase, "none"}
      BY <1>11 DEF WriteOk, WriteFails, client
    <3>2. op # "idle" /\ op \notin CloseOps
      BY <2>2, <3>1 DEF TypeInv, WritesTyped, OpInPhase
    <3>3. phase \in {"creating", "open"}
      BY <3>2 DEF TypeInv, OpInPhase
    <3> QED BY <3>1, <3>3, ClosingElsewhere
  <2> QED BY <2>1, <2>2
<1>12. CASE UNCHANGED vars
  BY <1>12, ClosingUnchanged
<1> QED BY <1>1, <1>2, <1>3, <1>4, <1>5, <1>6, <1>7, <1>8, <1>9, <1>10,
           <1>11, <1>12 DEF Next

-----------------------------------------------------------------------------
(* When Close has returned, a reader finds what it has saved.              *)

LEMMA PartsAreThere ==
  ASSUME NEW f, NEW lo, NEW hi, NEW P, P = Parts(f, lo, hi)
  PROVE  /\ P \subseteq f
         /\ \A n : HeaderField(P, n) \subseteq HeaderField(f, n)
         /\ \A pos : SubBlkDirAt(P, pos) \subseteq SubBlkDirAt(f, pos)
         /\ \A pos, id : HasMagic(P, pos, id) => HasMagic(f, pos, id)
<1>1. P \subseteq f
  BY DEF Parts
<1>2. \A n : HeaderField(P, n) \subseteq HeaderField(f, n)
  BY <1>1 DEF HeaderField
<1>3. \A pos, id : HasMagic(P, pos, id) => HasMagic(f, pos, id)
  BY <1>1 DEF HasMagic
<1>4. \A pos : SubBlkDirAt(P, pos) \subseteq SubBlkDirAt(f, pos)
  BY <1>1 DEF SubBlkDirAt, HasMagic
<1> QED BY <1>1, <1>2, <1>3, <1>4

\* A field of the file header has one value.
LEMMA OneField ==
  ASSUME NEW f, IsCziFile(f),
         NEW n \in {"SubBlockDirectoryPosition", "MetadataPosition",
                    "AttachmentDirectoryPosition"},
         NEW p \in HeaderField(f, n), NEW q \in HeaderField(f, n)
  PROVE  p = q
<1>1. PICK x \in f : x.what[1] = n /\ x.what[2] = p
  BY DEF HeaderField
<1>2. PICK y \in f : y.what[1] = n /\ y.what[2] = q
  BY DEF HeaderField
<1>3. x.lo = y.lo
  BY <1>1, <1>2 DEF IsCziFile, WellFormed
<1> QED BY <1>1, <1>2, <1>3 DEF IsCziFile

\* There is one sub-block directory at a position.
LEMMA OneSubBlkDir ==
  ASSUME NEW f, IsCziFile(f), NEW p \in Nat,
         NEW c \in SubBlkDirAt(f, p), NEW d \in SubBlkDirAt(f, p)
  PROVE  c = d
<1>1. ASSUME NEW dir \in SubBlkDirAt(f, p)
      PROVE  /\ SubBlkDirCount(p, Len(dir)) \in f
             /\ \/ dir = <<>>
                \/ \E x \in f : /\ x.lo = p + SubBlkDirHeaderSize
                                /\ x.what[1] = "entries" /\ x.what[2] = dir
                                /\ Len(dir) # 0
  <2>1. CASE dir = <<>> /\ SubBlkDirCount(p, 0) \in f
    BY <2>1
  <2>2. CASE \E x \in f : /\ x.what[1] = "entries" /\ x.what[2] = dir
                          /\ x.lo = p + SubBlkDirHeaderSize
                          /\ SubBlkDirCount(p, Len(dir)) \in f
    <3>1. PICK x \in f : /\ x.what[1] = "entries" /\ x.what[2] = dir
                         /\ x.lo = p + SubBlkDirHeaderSize
                         /\ SubBlkDirCount(p, Len(dir)) \in f
      BY <2>2
    <3>2. x = Extent(x.lo, Len(dir) * EntryDVSize, x.what) /\ x.lo < x.hi
          /\ x.lo \in Nat
      BY <3>1 DEF IsCziFile, WellFormed
    <3>3. Len(dir) # 0
      <4> SUFFICES ASSUME Len(dir) = 0 PROVE FALSE
        OBVIOUS
      <4>1. Len(dir) * EntryDVSize = 0
        BY HeadSizes
      <4>2. x.hi = x.lo
        BY <3>2, <4>1 DEF Extent
      <4> QED BY <3>2, <4>2
    <3> QED BY <3>1, <3>3
  <2>3. HasMagic(f, p, "ZISRAWDIRECTORY")
    BY SubBlkDirTyped
  <2> QED BY <2>1, <2>2, <2>3 DEF SubBlkDirAt
<1>2. Len(c) = Len(d)
  <2>1. PICK x, y : x = SubBlkDirCount(p, Len(c)) /\ y = SubBlkDirCount(p, Len(d))
    OBVIOUS
  <2>2. x \in f /\ y \in f
    BY <1>1, <2>1
  <2>3. /\ x.lo = p + SegmentHeaderSize /\ y.lo = p + SegmentHeaderSize
        /\ x.what = <<"EntryCount", Len(c)>> /\ y.what = <<"EntryCount", Len(d)>>
    BY <2>1 DEF SubBlkDirCount, Extent
  <2>4. x = y
    BY <2>2, <2>3 DEF IsCziFile
  <2> QED BY <2>3, <2>4
<1>3. CASE Len(c) = 0
  <2>1. c = <<>> /\ d = <<>>
    BY <1>1, <1>2, <1>3
  <2> QED BY <2>1
<1>4. CASE Len(c) # 0
  <2>1. c # <<>> /\ d # <<>>
    BY <1>2, <1>4
  <2>2. PICK x \in f, y \in f :
          /\ x.lo = p + SubBlkDirHeaderSize /\ x.what[2] = c
          /\ y.lo = p + SubBlkDirHeaderSize /\ y.what[2] = d
    BY <1>1, <2>1
  <2> QED BY <2>2 DEF IsCziFile
<1> QED BY <1>3, <1>4

\* The parts of an attachment directory are all that is read of it.
LEMMA AttachmentsRead ==
  ASSUME NEW f, IsCziFile(f), NEW at \in PlacedSegments, NEW entries,
         ReadsAttachments(f, at, entries)
  PROVE  /\ HasMagic(f, at.pos, "ZISRAWATTDIR")
         /\ {x.what[2] : x \in AttachmentDirSlots(f, at.pos)} = entries
<1>1. PICK q, qe : q = at.pos /\ qe = SegmentEnd(at)
  OBVIOUS
<1>2. q \in Nat /\ qe \in Nat
  BY <1>1, PlacedTyped, EndTyped
<1>3. PICK P : P = Parts(f, q, qe)
  OBVIOUS
<1>4. P \subseteq f
  BY <1>3 DEF Parts
<1>5. ListsAttachments(P, at, entries)
  BY <1>1, <1>3 DEF ReadsAttachments
<1>6. HasMagic(P, q, "ZISRAWATTDIR")
  BY <1>1, <1>5 DEF ListsAttachments
<1>7. PICK z \in P :
        /\ z.lo = q + SegmentHeaderSize /\ z.what[1] = "count"
        /\ q + SegmentHeaderSize + AttachmentDirUsed(z.what[2]) <= qe
  BY <1>1, <1>5 DEF ListsAttachments
<1>8. PICK n : n = z.what[2]
  OBVIOUS
<1>9. n \in Nat /\ q + 288 + n * 128 <= qe
  <2>1. n \in Nat
    BY <1>4, <1>7, <1>8 DEF IsCziFile, WellFormed
  <2>2. n * 128 \in Nat
    BY <2>1
  <2>3. AttachmentDirUsed(n) = 256 + n * 128
    BY DEF AttachmentDirUsed, AttachmentEntrySize
  <2> QED BY <1>2, <1>7, <1>8, <2>1, <2>2, <2>3 DEF SegmentHeaderSize
<1>10. AttachmentDirSlots(P, q) = AttachmentDirSlots(f, q)
  <2>1. ASSUME NEW x \in AttachmentDirSlots(f, q)
        PROVE  x \in AttachmentDirSlots(P, q)
    <3>1. PICK y \in f : /\ y.lo = q + SegmentHeaderSize
                         /\ y.what[1] = "count"
                         /\ \E k \in 1..y.what[2] :
                              x.lo = q + FixedHeaderSize
                                       + (k - 1) * AttachmentEntrySize
      BY DEF AttachmentDirSlots
    <3>2. y = z
      BY <1>4, <1>7, <3>1 DEF IsCziFile
    <3>3. PICK k \in 1..n :
            x.lo = q + FixedHeaderSize + (k - 1) * AttachmentEntrySize
      BY <1>8, <3>1, <3>2
    <3>4. x \in f /\ x.what[1] = "entryA1" /\ x = Extent(x.lo, 128, x.what)
          /\ x.lo \in Nat
      BY DEF AttachmentDirSlots, IsCziFile, WellFormed, AttachmentEntrySize
    <3>5. x.lo = q + 288 + (k - 1) * 128 /\ x.hi = x.lo + 128
      BY <1>2, <3>3, <3>4
         DEF FixedHeaderSize, SegmentHeaderSize, AttachmentEntrySize, Extent
    <3>6. q <= x.lo /\ x.hi <= qe
      <4>1. k \in Nat /\ k >= 1 /\ k <= n
        BY <1>9
      <4>2. 0 <= (k - 1) * 128 /\ (k - 1) * 128 + 128 <= n * 128
            /\ (k - 1) * 128 \in Nat /\ n * 128 \in Nat
        BY <1>9, <4>1
      <4> QED BY <1>2, <1>9, <3>5, <4>2
    <3>7. x \in P
      BY <1>3, <3>4, <3>6 DEF Parts
    <3>8. \E w \in P : /\ w.lo = q + SegmentHeaderSize
                       /\ w.what[1] = "count"
                       /\ \E j \in 1..w.what[2] :
                            x.lo = q + FixedHeaderSize
                                     + (j - 1) * AttachmentEntrySize
      BY <1>7, <1>8, <3>3
    <3> QED BY <1>6, <3>4, <3>7, <3>8 DEF AttachmentDirSlots
  <2>2. ASSUME NEW x \in AttachmentDirSlots(P, q)
        PROVE  x \in AttachmentDirSlots(f, q)
    BY <1>4, Zenon DEF AttachmentDirSlots, HasMagic
  <2> QED BY <2>1, <2>2
<1> QED BY <1>1, <1>4, <1>5, <1>6, <1>10 DEF ListsAttachments, HasMagic

LEMMA ClosingSays ==
  ASSUME TypeInv, NewDocument, ClosingInv
  PROVE  EditsSurviveClose
<1> SUFFICES ASSUME phase = "closed", ~DirectoriesOverlap
             PROVE  /\ SubBlkDirRead(file) = EntriesOf(sbBlkDirectory)
                    /\ \A k \in Keys : KeptIntact(k)
                    /\ meta \in Metadatas =>
                         \E p \in HeaderField(file, "MetadataPosition") :
                           MetadataAt(file, p, meta)
                    /\ ~attachmentDirectory.modified =>
                         AttachmentDirRead(file) = EntriesOf(attachmentDirectory)
                    /\ /\ ~attachmentDirectory.modified
                       /\ subBlockDirectorySegment.valid
                       => CanOpen(file)
  BY DEF EditsSurviveClose
<1>1. PICK s \in PlacedSegments, a \in PlacedSegments :
        Settled(s, a) /\ (Excused(s, a) \/ SavesAll(file, Range(writes), s, a))
  BY DEF ClosingInv, Closable
<1>2. subBlockDirectorySegment = s /\ attachmentDirectorySegment = a
  BY <1>1 DEF Settled, SubIsPlaced, AttIsPlaced
<1>3. ~Excused(s, a)
  <2>1. s.pos \in Nat /\ s.allocated \in Nat
    BY PlacedTyped DEF Segments
  <2> QED BY <1>2, <2>1 DEF Excused, DirectoriesOverlap, SegmentEnd,
                            SegmentHeaderSize
<1>4. PICK f, dir : f = file /\ Saves(f, Range(writes), s, a, dir)
  BY <1>1, <1>3 DEF SavesAll
<1>5. IsCziFile(f)
  BY <1>4 DEF TypeInv, FileTyped
<1>6. s.pos \in Nat /\ a.pos \in BehindHeader \cup {0}
  BY PlacedTyped DEF Segments
<1>7. PICK P : P = Parts(f, 0, FileHeaderSegmentSize)
  OBVIOUS
<1>8. Names(P, s.pos, metadataSegment.pos, a.pos)
  BY <1>4, <1>7 DEF Saves, HeaderComesOut
<1>9. /\ HasMagic(f, 0, "ZISRAWFILE")
      /\ s.pos \in HeaderField(f, "SubBlockDirectoryPosition")
      /\ metadataSegment.pos \in HeaderField(f, "MetadataPosition")
      /\ a.pos \in HeaderField(f, "AttachmentDirectoryPosition")
  BY <1>7, <1>8, PartsAreThere DEF Names
<1>10. ReliedRemains(f, s, a)
  BY <1>4 DEF Saves
<1>11. /\ s.valid => dir \in SubBlkDirAt(f, s.pos)
       /\ IsListOf(dir, sbBlkDirectory)
  <2>1. SubDirRemains(f, s, a, dir) /\ SubIsPlaced
    BY <1>4 DEF Saves, SubIsPlaced
  <2>2. (s.valid => Reads(f, s.pos, dir)) /\ IsListOf(dir, sbBlkDirectory)
    BY <2>1 DEF SubDirRemains
  <2>3. PICK Q : Q = Parts(f, s.pos, DirectoryEnd(s.pos, Len(dir)))
    OBVIOUS
  <2>4. s.valid => dir \in SubBlkDirAt(Q, s.pos)
    BY <2>2, <2>3 DEF Reads
  <2> QED BY <2>2, <2>3, <2>4, PartsAreThere
<1>12. SubBlkDirRead(f) = EntriesOf(sbBlkDirectory)
  <2>1. \A p \in HeaderField(f, "SubBlockDirectoryPosition") : p = s.pos
    BY <1>5, <1>9, OneField
  <2>2. HeaderField(f, "SubBlockDirectoryPosition") = {s.pos}
    BY <1>9, <2>1
  <2>3. CASE s.valid
    <3>1. \A d \in SubBlkDirAt(f, s.pos) : d = dir
      BY <1>5, <1>6, <1>11, <2>3, OneSubBlkDir
    <3>2. SubBlkDirAt(f, s.pos) = {dir}
      BY <1>11, <2>3, <3>1
    <3>3. SubBlkDirRead(f) = {dir[k] : k \in DOMAIN dir}
      BY <2>2, <3>2 DEF SubBlkDirRead
    <3> QED BY <1>11, <3>3 DEF IsListOf
  <2>4. CASE ~s.valid
    <3>1. ~sbBlkDirectory.modified /\ s.pos = 0
      BY <1>4, <2>4 DEF Saves, SubDirRemains, PlacedSegments
    <3>2. EntriesOf(sbBlkDirectory) = {}
      BY <1>2, <2>4, <3>1 DEF NewDocument, EntriesOf
    <3>3. ~HasMagic(f, 0, "ZISRAWDIRECTORY")
      BY <1>5, <1>9, OneMagic
    <3>4. SubBlkDirAt(f, s.pos) = {}
      BY <3>1, <3>3 DEF SubBlkDirAt
    <3>5. SubBlkDirRead(f) = {}
      BY <2>2, <3>4 DEF SubBlkDirRead
    <3> QED BY <3>2, <3>5
  <2> QED BY <2>3, <2>4
<1>13. ASSUME NEW k \in Keys PROVE KeptIntact(k)
  BY <1>4, <1>10 DEF KeptIntact, ReliedRemains, Remains, SubBlockAt
<1>14. ASSUME meta \in Metadatas
       PROVE  \E p \in HeaderField(file, "MetadataPosition") :
                MetadataAt(file, p, meta)
  <2>1. MetadataAt(f, metadataSegment.pos, meta)
    BY <1>10, <1>14 DEF ReliedRemains, Remains, MetadataAt
  <2> QED BY <1>4, <1>9, <2>1
<1>15. ASSUME ~attachmentDirectory.modified
       PROVE  /\ s.valid => CanOpen(f)
              /\ AttachmentDirRead(f) = EntriesOf(attachmentDirectory)
  <2>1. PICK entries : entries = EntriesOf(attachmentDirectory)
    OBVIOUS
  <2>2. /\ a.valid => ReadsAttachments(f, a, entries)
        /\ ~a.valid => entries = {}
    BY <1>4, <1>15, <2>1 DEF Saves, AttDirRemains
  <2>3. \A q \in HeaderField(f, "AttachmentDirectoryPosition") : q = a.pos
    BY <1>5, <1>9, OneField
  <2>4. HeaderField(f, "AttachmentDirectoryPosition") = {a.pos}
    BY <1>9, <2>3
  <2>5. a.valid => a.pos # 0
    BY PlacedTyped DEF BehindHeader, FileHeaderSegmentSize
  <2>6. ~a.valid => a.pos = 0
    BY DEF PlacedSegments
  <2>7. a.valid => /\ HasMagic(f, a.pos, "ZISRAWATTDIR")
                   /\ {x.what[2] : x \in AttachmentDirSlots(f, a.pos)} = entries
    BY <1>5, <2>2, AttachmentsRead
  <2>8. s.valid => CanOpen(f)
    BY <1>9, <1>11, <2>3, <2>6, <2>7 DEF CanOpen
  <2>9. AttachmentDirRead(f) = entries
    <3>1. CASE a.valid
      <4>1. HeaderField(f, "AttachmentDirectoryPosition") \ {0} = {a.pos}
        BY <2>4, <2>5, <3>1
      <4> QED BY <2>7, <3>1, <4>1 DEF AttachmentDirRead
    <3>2. CASE ~a.valid
      <4>1. HeaderField(f, "AttachmentDirectoryPosition") \ {0} = {}
        BY <2>4, <2>6, <3>2
      <4> QED BY <2>2, <3>2, <4>1 DEF AttachmentDirRead
    <3> QED BY <3>1, <3>2
  <2> QED BY <2>1, <2>8, <2>9
<1> QED BY <1>2, <1>4, <1>12, <1>13, <1>14, <1>15

LEMMA ClosingInit == Init => ClosingInv
BY DEF Init, ClosingInv

LEMMA ClosingInvariance ==
  ASSUME FunctorsDeliver
  PROVE  Spec /\ []DocumentIsLaidOut => [](NewDocument /\ ClosingInv)
<1>1. TypeInv /\ LayoutInv /\ NewDocument /\ [Next]_vars => NewDocument'
  BY NewDocumentStep
<1>2. TypeInv /\ LayoutInv /\ NewDocument /\ ClosingInv /\ [Next]_vars
        => ClosingInv'
  BY ClosingStep
<1> QED BY <1>1, <1>2, NewDocumentInit, ClosingInit, TypeInvariance,
           LayoutInvariance, PTL DEF Spec

\* As long as every document that is opened is laid out, and the functions of
\* the client deliver what they announce, a reader finds, when Close has
\* returned, the sub-block directory as it was in memory, all sub-blocks relied
\* on, the metadata, and the attachment directory, if it was not edited: whatever
\* failed before, also in a Close that was called again, in a document with a
\* sub-block directory or without one, and unless Close has put one directory
\* over the other (Finish, UpdateFileHeader, AfterDirectory).  No write of a
\* directory reaches an item, the metadata or the other directory, for it stays in
\* the room of its old segment or goes behind all that is there; and the file
\* header names all of them, for it is left alone only if none of its positions
\* has changed.
THEOREM EditsAreSaved ==
  ASSUME FunctorsDeliver
  PROVE  Spec /\ []DocumentIsLaidOut => []EditsSurviveClose
<1>1. TypeInv /\ NewDocument /\ ClosingInv => EditsSurviveClose
  BY ClosingSays
<1> QED BY <1>1, TypeInvariance, ClosingInvariance, PTL

-----------------------------------------------------------------------------
(* A document is laid out when it is first opened: only GUIDs were written. *)

IsGuid(x) == x.what[1] \in {"PrimaryFileGuid", "FileGuid"}

\* With fewer parts, a reader finds less, and what it finds is laid out.
LEMMA LaidOutStill ==
  ASSUME NEW f, NEW g, LaidOut(f), \A x \in g : x \in f \/ IsGuid(x),
         HeaderField(f, "AttachmentDirectoryPosition")
           \subseteq HeaderField(g, "AttachmentDirectoryPosition")
  PROVE  LaidOut(g)
<1>1. \A pos, id : HasMagic(g, pos, id) => HasMagic(f, pos, id)
  <2>1. \A pos, id : ~IsGuid(Magic(pos, id))
    BY DEF IsGuid, Magic, Extent
  <2> QED BY <2>1 DEF HasMagic
<1>2. /\ HeaderField(g, "SubBlockDirectoryPosition")
           \subseteq HeaderField(f, "SubBlockDirectoryPosition")
      /\ HeaderField(g, "AttachmentDirectoryPosition")
           \subseteq HeaderField(f, "AttachmentDirectoryPosition")
      /\ HeaderField(g, "MetadataPosition")
           \subseteq HeaderField(f, "MetadataPosition")
  BY DEF HeaderField, IsGuid
<1>3. \A pos : Room(g, pos) \subseteq Room(f, pos)
  <2>1. \A pos : AllocatedSize(g, pos) \subseteq AllocatedSize(f, pos)
    BY DEF AllocatedSize, IsGuid
  <2> QED BY <2>1 DEF Room
<1>4. ASSUME NEW pos PROVE SubBlkDirAt(g, pos) \subseteq SubBlkDirAt(f, pos)
  <2>1. \A n : SubBlkDirCount(pos, n) \in g => SubBlkDirCount(pos, n) \in f
    <3>1. \A n : ~IsGuid(SubBlkDirCount(pos, n))
      BY DEF IsGuid, SubBlkDirCount, Extent
    <3> QED BY <3>1
  <2>2. \A x \in g : x.what[1] = "entries" => x \in f
    BY DEF IsGuid
  <2> QED BY <1>1, <2>1, <2>2 DEF SubBlkDirAt
<1>5. SubBlkDirRead(g) \subseteq SubBlkDirRead(f)
  <2> SUFFICES ASSUME NEW p \in HeaderField(g, "SubBlockDirectoryPosition"),
                      NEW dir \in SubBlkDirAt(g, p), NEW k \in DOMAIN dir
               PROVE  dir[k] \in SubBlkDirRead(f)
    BY DEF SubBlkDirRead
  <2>1. /\ p \in HeaderField(f, "SubBlockDirectoryPosition")
        /\ dir \in SubBlkDirAt(f, p) /\ dir[k] \in {dir[j] : j \in DOMAIN dir}
    BY <1>2, <1>4
  <2> QED BY ONLY <2>1 DEF SubBlkDirRead
<1>6. AttachmentDirRead(g) \subseteq AttachmentDirRead(f)
  <2>1. ASSUME NEW p
        PROVE  AttachmentDirSlots(g, p) \subseteq AttachmentDirSlots(f, p)
    <3>1. \A x \in g : x.what[1] \in {"entryA1", "count"} => x \in f
      BY DEF IsGuid
    <3> QED BY <1>1, <3>1 DEF AttachmentDirSlots
  <2> QED BY <1>2, <2>1 DEF AttachmentDirRead
<1>7. NamedPositions(g) \subseteq NamedPositions(f)
  BY <1>2, <1>5, <1>6 DEF NamedPositions
<1>8. ASSUME NEW pos, NEW parts, NEW ends, NEW fewer, fewer \subseteq ends,
             LaidOutAt(f, pos, parts, ends)
      PROVE  LaidOutAt(g, pos, parts, fewer)
  BY <1>3, <1>7, <1>8 DEF LaidOutAt
<1>9. \A pos, c : SubBlockAt(g, pos, c) => SubBlockAt(f, pos, c)
  <2>1. \A pos, c : \A x \in SubBlockExtents(pos, c) : ~IsGuid(x)
    BY DEF SubBlockExtents, NotEmpty, Magic, SubBlockHead, SubBlockPayload,
           SubBlockRest,
           Extent, IsGuid
  <2> QED BY <2>1 DEF SubBlockAt
<1>10. \A pos, a : AttachmentAt(g, pos, a) => AttachmentAt(f, pos, a)
  <2>1. \A pos, a : \A x \in AttachmentExtents(pos, a) : ~IsGuid(x)
    BY DEF AttachmentExtents, NotEmpty, Magic, AttachmentHead,
           AttachmentPayload, Extent, IsGuid
  <2> QED BY <2>1 DEF AttachmentAt
<1>11. ASSUME NEW e \in SubBlkDirRead(g), SubBlockAt(g, e.pos, e.id)
       PROVE  LaidOutAt(g, e.pos, SubBlockExtents(e.pos, e.id), Room(g, e.pos))
  <2>1. LaidOutAt(f, e.pos, SubBlockExtents(e.pos, e.id), Room(f, e.pos))
    BY <1>5, <1>9, <1>11 DEF LaidOut
  <2> QED BY <1>3, <1>8, <2>1
<1>12. ASSUME NEW e \in AttachmentDirRead(g), AttachmentAt(g, e.pos, e.id)
       PROVE  LaidOutAt(g, e.pos, AttachmentExtents(e.pos, e.id),
                        Room(g, e.pos))
  <2>1. LaidOutAt(f, e.pos, AttachmentExtents(e.pos, e.id), Room(f, e.pos))
    BY <1>6, <1>10, <1>12 DEF LaidOut
  <2> QED BY <1>3, <1>8, <2>1
<1>13. ASSUME NEW p \in HeaderField(g, "MetadataPosition"),
              HasMagic(g, p, "ZISRAWMETADATA")
       PROVE  /\ LaidOutAt(g, p, {Magic(p, "ZISRAWMETADATA")}, Room(g, p))
              /\ \A m \in Metadatas :
                   MetadataAt(g, p, m) => LaidOutAt(g, p, MetadataExtents(p, m), {})
  <2>1. /\ LaidOutAt(f, p, {Magic(p, "ZISRAWMETADATA")}, Room(f, p))
        /\ \A m \in Metadatas :
             MetadataAt(f, p, m) => LaidOutAt(f, p, MetadataExtents(p, m), {})
    BY <1>1, <1>2, <1>13 DEF LaidOut
  <2>2. \A m : MetadataAt(g, p, m) => MetadataAt(f, p, m)
    <3>1. \A m : \A x \in MetadataExtents(p, m) : ~IsGuid(x)
      BY DEF MetadataExtents, NotEmpty, Magic, MetadataHead, MetadataPayload,
             Extent, IsGuid
    <3> QED BY <3>1 DEF MetadataAt
  <2> QED BY <1>3, <1>8, <2>1, <2>2
<1>14. ASSUME NEW p \in HeaderField(g, "SubBlockDirectoryPosition"),
              NEW dir \in SubBlkDirAt(g, p)
       PROVE  /\ LaidOutAt(g, p, SubBlkDirExtents(p, dir), {})
              /\ \/ LaidOutAt(g, p, {}, Room(g, p))
                 \/ \E q \in HeaderField(g, "AttachmentDirectoryPosition") :
                      LiesOver(g, p, q)
  <2>1. /\ LaidOutAt(f, p, SubBlkDirExtents(p, dir), {})
        /\ \/ LaidOutAt(f, p, {}, Room(f, p))
           \/ \E q \in HeaderField(f, "AttachmentDirectoryPosition") :
                LiesOver(f, p, q)
    BY <1>2, <1>4 DEF LaidOut
  <2>2. \A q : LiesOver(f, p, q) => LiesOver(g, p, q)
    BY <1>3, <1>7 DEF LiesOver
  <2>3. LaidOutAt(g, p, SubBlkDirExtents(p, dir), {})
    BY <1>8, <2>1
  <2>4. LaidOutAt(f, p, {}, Room(f, p)) => LaidOutAt(g, p, {}, Room(g, p))
    BY <1>3, <1>8
  <2> QED BY <2>1, <2>2, <2>3, <2>4
<1>15. ASSUME NEW p \in HeaderField(g, "AttachmentDirectoryPosition"),
              HasMagic(g, p, "ZISRAWATTDIR")
       PROVE  LaidOutAt(g, p, {Magic(p, "ZISRAWATTDIR")} \cup Slots(g, p),
                        Room(g, p))
  <2>1. LaidOutAt(f, p, {Magic(p, "ZISRAWATTDIR")} \cup Slots(f, p), Room(f, p))
    BY <1>1, <1>2, <1>15 DEF LaidOut
  <2>2. Slots(g, p) \subseteq Slots(f, p)
    BY DEF Slots, IsGuid
  <2>3. ASSUME NEW parts, NEW less, less \subseteq parts,
               LaidOutAt(f, p, parts, Room(f, p))
        PROVE  LaidOutAt(g, p, less, Room(g, p))
    BY <1>3, <1>7, <2>3 DEF LaidOutAt
  <2>4. {Magic(p, "ZISRAWATTDIR")} \cup Slots(g, p)
          \subseteq {Magic(p, "ZISRAWATTDIR")} \cup Slots(f, p)
    BY <2>2
  <2> QED BY <2>1, <2>3, <2>4
<1> QED BY <1>11, <1>12, <1>13, <1>14, <1>15 DEF LaidOut

FirstInv ==
  /\ sessions = 0 => phase = "none" /\ LaidOut(file)
  /\ sessions = 1 /\ op = "ReadCziStructure" => LaidOut(file)
  /\ op = "ReadCziStructure" =>
       \A w \in Range(writes) :
         w.pos + w.len <= 84 /\ \A x \in w.holds : IsGuid(x)

LEMMA FirstElsewhere ==
  ASSUME TypeInv, FirstInv, op # "idle" \/ phase # "none",
         op' # "ReadCziStructure", sessions' = sessions
  PROVE  FirstInv' /\ sessions' \in {sessions, sessions + 1}
<1>1. phase # "none"
  BY DEF TypeInv, OpInPhase
<1> QED BY <1>1 DEF FirstInv

LEMMA FirstStep ==
  ASSUME TypeInv, FirstInv, [Next]_vars
  PROVE  FirstInv' /\ sessions' \in {sessions, sessions + 1}
<1>1. CASE OpenDocument
  <2>1. phase = "none" /\ sessions' = sessions + 1 /\ file' = file
    BY <1>1 DEF OpenDocument, Create
  <2>2. sessions \in Nat
    BY ReaderWriterAssumption DEF TypeInv, BoundsTyped
  <2>3. \A w \in Range(writes') :
          w.pos + w.len <= 84 /\ \A x \in w.holds : IsGuid(x)
    <3>1. CASE writes' = <<>>
      BY <3>1, NoElement
    <3>2. CASE \E g \in Guids : writes' = UpdateFileHeaderGuid(g)
      <4>1. PICK g \in Guids : writes' = UpdateFileHeaderGuid(g)
        BY <3>2
      <4> DEFINE v == Write(48, 16, {PrimaryFileGuid(g)})
                 w == Write(64, 16, {FileGuid(g)})
      <4>2. Range(writes') = {v, w}
        <5>1. writes' = <<v, w>>
          BY <4>1 DEF UpdateFileHeaderGuid
        <5> HIDE DEF v, w
        <5> QED BY <5>1 DEF Range
      <4>3. /\ v.holds = {PrimaryFileGuid(g)} /\ w.holds = {FileGuid(g)}
            /\ v.pos + v.len = 64 /\ w.pos + w.len = 80
        BY DEF Write
      <4>4. IsGuid(PrimaryFileGuid(g)) /\ IsGuid(FileGuid(g))
        BY DEF IsGuid, PrimaryFileGuid, FileGuid, Extent
      <4> HIDE DEF v, w
      <4> QED BY <4>2, <4>3, <4>4
    <3> QED BY <1>1, <3>1, <3>2 DEF OpenDocument, Begin
  <2> QED BY <2>1, <2>2, <2>3 DEF FirstInv
<1>2. CASE CreateNew
  <2>1. op' = "WriteHeader" /\ sessions' = sessions + 1
    BY <1>2 DEF CreateNew, Create, Begin
  <2>2. sessions \in Nat
    BY ReaderWriterAssumption DEF TypeInv, BoundsTyped
  <2> QED BY <2>1, <2>2 DEF FirstInv
<1>3. CASE WriteOk
  <2>1. /\ writes # <<>> /\ file' = Apply(file, Head(writes))
        /\ writes' = Tail(writes) /\ op' = op /\ phase' = phase
        /\ sessions' = sessions
    BY <1>3 DEF WriteOk, client, bounds
  <2>2. Head(writes) \in Range(writes) /\ Range(Tail(writes)) \subseteq Range(writes)
    BY <2>1, WritesLeft DEF TypeInv, FileTyped
  <2>3. op # "idle" /\ (phase = "none" => op = "idle")
    BY <2>1 DEF TypeInv, WritesTyped, OpInPhase
  <2>4. sessions = 1 /\ op = "ReadCziStructure" => LaidOut(file')
    <3> SUFFICES ASSUME op = "ReadCziStructure", LaidOut(file)
                 PROVE  LaidOut(file')
      BY DEF FirstInv
    <3>1. PICK w, g : w = Head(writes) /\ g = file'
      OBVIOUS
    <3>2. g = Apply(file, w) /\ GoodWrite(w) /\ IsCziFile(file)
          /\ w.pos + w.len <= 84 /\ \A x \in w.holds : IsGuid(x)
      BY <2>1, <2>2, <3>1 DEF FirstInv, TypeInv, FileTyped, GoodWrites
    <3>3. \A x \in g : x \in file \/ IsGuid(x)
      BY <3>2 DEF Apply
    <3>4. HeaderField(file, "AttachmentDirectoryPosition")
            \subseteq HeaderField(g, "AttachmentDirectoryPosition")
      <4>1. ASSUME NEW x \in file, x.what[1] = "AttachmentDirectoryPosition"
            PROVE  x \in g
        <5>1. x.lo = 104 /\ w.pos \in Nat /\ w.len \in Nat
          BY <3>2, <4>1 DEF IsCziFile, WellFormed, GoodWrite
        <5> QED BY <3>2, <5>1 DEF Apply, Survives
      <4> QED BY <4>1 DEF HeaderField
    <3>5. LaidOut(g)
      BY ONLY LaidOut(file), <3>3, <3>4, LaidOutStill
    <3> QED BY <3>1, <3>5
  <2> QED BY <2>1, <2>2, <2>3, <2>4 DEF FirstInv
<1>4. CASE CreatedNew \/ ReadCziStructure \/ CreateThrows
  <2>1. op # "idle" /\ op' = "idle" /\ sessions' = sessions
    BY <1>4 DEF CreatedNew, ReadCziStructure, CreateThrows, Done,
                ReturnToClient, bounds
  <2> QED BY <2>1, FirstElsewhere
<1>5. CASE \E c \in SubBlocks : SyncAddSubBlock(c) \/ AddSubBlockRejected(c)
  <2>1. phase = "open" /\ op' \in {"AddSubBlock", "idle"} /\ sessions' = sessions
    BY <1>5 DEF SyncAddSubBlock, AddSubBlockRejected, AddRejected, Callable,
                Edit, Begin, call, bounds
  <2> QED BY <2>1, FirstElsewhere
<1>6. CASE \E a \in Attachments :
             SyncAddAttachment(a) \/ AddAttachmentRejected(a)
  <2>1. /\ phase = "open" /\ op' \in {"AddAttachment", "idle"}
        /\ sessions' = sessions
    BY <1>6 DEF SyncAddAttachment, AddAttachmentRejected, AddRejected, Callable,
                Edit, Begin, call, bounds
  <2> QED BY <2>1, FirstElsewhere
<1>7. CASE \E k \in Keys, c \in SubBlocks : ReplaceSubBlock(k, c)
  <2>1. /\ phase = "open" /\ sessions' = sessions
        /\ op' \in {"ReplaceSubBlockInplace", "ReplaceSubBlockAddNewAtEnd"}
    BY <1>7 DEF ReplaceSubBlock, Callable, Edit, Begin
  <2> QED BY <2>1, FirstElsewhere
<1>8. CASE \E k \in Keys, a \in Attachments : ReplaceAttachment(k, a)
  <2>1. /\ phase = "open" /\ sessions' = sessions
        /\ op' \in {"ReplaceAttachmentInplace", "ReplaceAttachmentAddNewAtEnd"}
    BY <1>8 DEF ReplaceAttachment, Callable, Edit, Begin
  <2> QED BY <2>1, FirstElsewhere
<1>9. CASE \E k \in Keys : RemoveSubBlock(k) \/ RemoveAttachment(k)
  <2>1. phase = "open" /\ op' = "Remove" /\ sessions' = sessions
    BY <1>9 DEF RemoveSubBlock, RemoveAttachment, Callable, Edit, Begin
  <2> QED BY <2>1, FirstElsewhere
<1>10. CASE \E m \in Metadatas : SyncWriteMetadata(m)
  <2>1. phase = "open" /\ op' = "WriteMetadata" /\ sessions' = sessions
    BY <1>10 DEF SyncWriteMetadata, Callable, Edit, Begin
  <2> QED BY <2>1, FirstElsewhere
<1>11. CASE \/ SubBlockAdded \/ AttachmentAdded \/ SubBlockReplacedInplace
            \/ SubBlockReplacedAtEnd \/ AttachmentReplacedInplace
            \/ AttachmentReplacedAtEnd \/ Removed \/ MetadataWritten
  <2>1. op # "idle" /\ op' = "idle" /\ sessions' = sessions
    BY <1>11 DEF SubBlockAdded, AttachmentAdded, SubBlockReplacedInplace,
                 SubBlockReplacedAtEnd, AttachmentReplacedInplace,
                 AttachmentReplacedAtEnd, Removed, MetadataWritten, Done,
                 ReturnToClient, bounds
  <2> QED BY <2>1, FirstElsewhere
<1>12. CASE Close
  <2>1. phase # "none" /\ op' = "FinishSubBlkDir" /\ sessions' = sessions
    BY <1>12 DEF Close, Begin, bounds
  <2> QED BY <2>1, FirstElsewhere
<1>13. CASE SubBlkDirFinished \/ AttachmentDirBegun \/ AttachmentDirFinished
              \/ Closed
  <2>1. /\ op # "idle" /\ sessions' = sessions
        /\ op' \in {"WriteAttachmentDir", "FinishAttachmentDir",
                    "UpdateFileHeader", "idle"}
    BY <1>13 DEF SubBlkDirFinished, AttachmentDirBegun, AttachmentDirFinished,
                 Closed, Done, Begin, ReturnToClient, bounds
  <2> QED BY <2>1, FirstElsewhere
<1>14. CASE WriteFails
  <2>1. writes # <<>> /\ op' = "idle" /\ sessions' = sessions
    BY <1>14 DEF WriteFails
  <2>2. op # "idle"
    BY <2>1 DEF TypeInv, WritesTyped
  <2> QED BY <2>1, <2>2, FirstElsewhere
<1>15. CASE Discard
  <2>1. phase # "none" /\ op' = "idle" /\ sessions' = sessions
    BY <1>15 DEF Discard, NewObject, bounds
  <2> QED BY <2>1, FirstElsewhere
<1>16. CASE UNCHANGED vars
  BY <1>16 DEF FirstInv, vars, call, client, bounds
<1> QED BY <1>1, <1>2, <1>3, <1>4, <1>5, <1>6, <1>7, <1>8, <1>9, <1>10,
           <1>11, <1>12, <1>13, <1>14, <1>15, <1>16 DEF Next

\* The documents that a client has are laid out: as the sessions before left
\* them, or as a CZI writer did.
LaidOutAtFirst == \A f \in Files : LaidOut(f)

LEMMA FirstInvariance == LaidOutAtFirst /\ Spec => []FirstInv
<1>1. LaidOutAtFirst /\ Init => FirstInv
  BY DEF LaidOutAtFirst, Init, FirstInv
<1>2. TypeInv /\ FirstInv /\ [Next]_vars => FirstInv'
  BY FirstStep
<1> QED BY <1>1, <1>2, TypeInvariance, PTL DEF Spec

\* In a session with a document whose segments lie apart, or with a new one, and
\* with functions of the client that deliver what they announce, a sub-block or
\* an attachment that was found, added or replaced, and was not replaced or
\* removed since, can be read until Close, and until then the file still opens
\* and leads to all that was left alone, whatever fails; after Close it leads to
\* what was edited: no write goes where one of them is (the methods of
\* CCziReaderWriter that write).
THEOREM OneSessionIsSafe ==
  ASSUME FunctorsDeliver
  PROVE  LaidOutAtFirst /\ Spec =>
           [](sessions <= 1 =>
                /\ SubBlocksIntact
                /\ AttachmentsIntact
                /\ UntouchedStayReadable
                /\ EditsSurviveClose)
<1> DEFINE First == sessions <= 1
           Inv == LayoutInv /\ NewDocument /\ ClosingInv
           Safe == /\ SubBlocksIntact
                   /\ AttachmentsIntact
                   /\ UntouchedStayReadable
                   /\ EditsSurviveClose
<1>1. Init => (First => Inv)
  BY NewDocumentInit, ClosingInit
     DEF Init, LayoutInv, LaidOutWhileOpen, Fresh, NoSegment
<1>2. TypeInv /\ FirstInv /\ (First => Inv) /\ [Next]_vars => (First => Inv)'
  <2> SUFFICES ASSUME TypeInv, FirstInv, First => Inv, [Next]_vars, First'
               PROVE  LayoutInv' /\ NewDocument' /\ ClosingInv'
    OBVIOUS
  <2>1. sessions \in Nat /\ sessions' \in {sessions, sessions + 1}
    BY FirstStep, ReaderWriterAssumption DEF TypeInv, BoundsTyped
  <2>2. First
    BY <2>1
  <2>3. DocumentIsLaidOut
    BY <2>1, <2>2 DEF FirstInv, DocumentIsLaidOut, TypeInv, OpInPhase, CreateOps
  <2> QED BY <2>2, <2>3, LayoutStep, NewDocumentStep, ClosingStep
<1>3. TypeInv /\ (First => Inv) => (First => Safe)
  BY LayoutSays, ClosingSays
<1> HIDE DEF First, Inv, Safe
<1>4. LaidOutAtFirst /\ Spec => [](First => Safe)
  BY <1>1, <1>2, <1>3, TypeInvariance, FirstInvariance, PTL DEF Spec
<1> QED BY <1>4 DEF First, Safe

=============================================================================
