-------------------------- MODULE CziWriterProofs --------------------------
(***************************************************************************)
(* What CziWriter guarantees, for all values of the constants: its types,  *)
(* that accepted items and the metadata stay intact, that no directory     *)
(* that can be read is torn, and that it implements CziDocument.           *)
(*                                                                         *)
(* Each invariant rests on those before it: where writes go (Inv), that    *)
(* the reusable segments lie apart and a call writes into its own          *)
(* (AreasInv), what the segments hold (MetadataKept, CloseInv), what the   *)
(* directories name (DirectoriesInv), and that an extent is in the file    *)
(* once (TidyInv).                                                         *)
(***************************************************************************)
EXTENDS CziWriter, CziWriterUtilsProofs

(* The inductive invariant. *)

\* The segments Close and SyncWriteMetadata may write into again
Reusable == {metadataSegment, subBlockDirectorySegment,
             attachmentDirectorySegment}

WritesTyped == writes \in Seq(Range(writes)) /\ \A w \in Range(writes) : IsWrite(w)

\* A write of the running call changes the file header, a reusable segment,
\* or bytes behind all that was written.
Confined(w) ==
  \/ w.pos + w.len <= FileHeaderSegmentSize
  \/ w.pos >= nextSegmentPos
  \/ \E s \in Reusable :
       s.valid /\ w.pos >= s.pos /\ w.pos + w.len <= SegmentEnd(s)

SegmentsBelowEnd ==
  \A s \in Reusable : s.valid => SegmentEnd(s) <= nextSegmentPos

\* The extent is in the file, where no write of the running call goes.
Kept(x) ==
  /\ x \in file
  /\ FileHeaderSegmentSize <= x.lo /\ x.hi <= nextSegmentPos
  /\ \A s \in Reusable :
       s.valid => x.hi <= s.pos \/ SegmentEnd(s) <= x.lo

AcceptedKept ==
  /\ \A c \in (accepted \cap SubBlocks) \ CutShort :
       \E k \in DOMAIN sbBlkDirectory :
         /\ sbBlkDirectory[k].id = c
         /\ \A x \in SubBlockExtents(sbBlkDirectory[k].pos, c) : Kept(x)
  /\ \A a \in accepted \cap Attachments :
       \E k \in DOMAIN attachmentDirectory :
         /\ attachmentDirectory[k].id = a
         /\ \A x \in AttachmentExtents(attachmentDirectory[k].pos, a) : Kept(x)

\* The item of a running add will be at nextSegmentPos.
AddedLasting ==
  /\ op = "AddSubBlock" =>
       /\ \E k \in DOMAIN sbBlkDirectory :
            sbBlkDirectory[k] = [id |-> item, pos |-> nextSegmentPos]
       /\ item \notin CutShort =>
            \A x \in SubBlockExtents(nextSegmentPos, item) :
              Lasting(file, Range(writes), x)
  /\ op = "AddAttachment" =>
       /\ \E k \in DOMAIN attachmentDirectory :
            attachmentDirectory[k] = [id |-> item, pos |-> nextSegmentPos]
       /\ \A x \in AttachmentExtents(nextSegmentPos, item) :
            Lasting(file, Range(writes), x)

CreateOps == {"Create", "ReserveMetadata", "ReserveSubBlkDir",
              "ReserveAttachmentDir"}

OpInPhase ==
  /\ op \in CreateOps => phase = "creating" /\ accepted = {}
  /\ op \in Ops \ (CreateOps \cup {"idle"}) => phase = "open"
  /\ phase \in {"none", "closed"} => op = "idle"
  /\ phase \in {"creating", "open"} => stream
  /\ ~stream \/ op = "Create" => \A s \in Reusable : ~s.valid
  /\ phase = "open" \/ op \in CreateOps \ {"Create"} =>
       nextSegmentPos >= FileHeaderSegmentSize

TypeInv == TypeOK /\ WritesTyped

Inv ==
  /\ OpInPhase
  /\ SegmentsBelowEnd
  /\ \A w \in Range(writes) : Confined(w)
  /\ phase = "open" => AcceptedKept
  /\ AddedLasting

LEMMA ReserveWrites ==
  ASSUME NEW s, NEW pos \in Nat, NEW headerSize \in Nat, NEW allocated
  PROVE  LET ws == Reserve(s, pos, headerSize, allocated)
         IN  /\ ws \in Seq(Range(ws))
             /\ \A w \in Range(ws) : IsWrite(w) /\ w.pos = pos
<1> DEFINE h == SegmentHeader(pos, "DELETED", allocated)
           w == Write(pos, headerSize, h)
<1>1. \A x \in h : IsExtent(x)
  BY SegmentHeaderTyped
<1> HIDE DEF h
<1>2. IsWrite(w) /\ w.pos = pos
  BY <1>1 DEF IsWrite, Write
<1> HIDE DEF w
<1>3. <<w>> \in Seq(Range(<<w>>)) /\ Range(<<w>>) = {w}
  BY OneElement
<1>4. CASE s = NotReserved
  BY <1>4, NoElement DEF Reserve
<1>5. CASE s # NotReserved
  <2>1. Reserve(s, pos, headerSize, allocated) = <<w>>
    BY <1>5 DEF Reserve, w, h
  <2> QED BY <1>2, <1>3, <2>1
<1> QED BY <1>4, <1>5

\* The space Create reserves, if it reserves any, has a size.
LEMMA ReservationSizes ==
  ASSUME info \in WriterInfos \cup {DefaultInfo}
  PROVE  /\ info.metadata # NotReserved => MetadataReservation \in Nat
         /\ info.subBlkDir # NotReserved => SubBlkDirReservation \in Nat
         /\ info.attachmentDir # NotReserved => AttachmentDirReservation \in Nat
<1>1. /\ info.metadata \in Nat \cup {NotReserved}
      /\ info.subBlkDir \in Nat \cup {NotReserved}
      /\ info.attachmentDir \in Nat \cup {NotReserved}
  BY WriterAssumption DEF DefaultInfo
<1>2. ASSUME info.metadata # NotReserved
      PROVE  MetadataReservation \in Nat
  BY <1>1, <1>2, AlignProperties DEF MetadataReservation, ReservedFor
<1>3. ASSUME info.subBlkDir # NotReserved
      PROVE  SubBlkDirReservation \in Nat
  BY <1>1, <1>3, AlignProperties DEF SubBlkDirReservation, ReservedFor
<1>4. ASSUME info.attachmentDir # NotReserved
      PROVE  AttachmentDirReservation \in Nat
  BY <1>1, <1>4, AllocatedSizes DEF AttachmentDirReservation, ReservedFor
<1> QED BY <1>2, <1>3, <1>4

\* The writer's segment and append position after a reservation
LEMMA ReservedTyped ==
  ASSUME NEW s, NEW segment \in Segments, NEW allocated,
         s # NotReserved => allocated \in Nat, nextSegmentPos \in Nat
  PROVE  /\ Reserved(s, segment, allocated) \in Segments
         /\ AfterReservation(s, allocated) \in Nat
         /\ AfterReservation(s, allocated) >= nextSegmentPos
         /\ Reserved(s, segment, allocated).valid =>
              \/ Reserved(s, segment, allocated) = segment
              \/ SegmentEnd(Reserved(s, segment, allocated)) =
                   AfterReservation(s, allocated)
BY DEF Reserved, AfterReservation, SegmentAt, Segments, SegmentEnd,
       SegmentHeaderSize

-----------------------------------------------------------------------------
(* Type correctness. *)

\* A write keeps the extents of the file, and the writes that remain, typed.
LEMMA WriteTyped ==
  ASSUME WritesTyped, writes # <<>>, \A x \in file : IsExtent(x),
         NEW f, f \in {file, Smash(file, Head(writes)),
                       Apply(file, Head(writes))}
  PROVE  /\ \A x \in f : IsExtent(x)
         /\ Tail(writes) \in Seq(Range(Tail(writes)))
         /\ \A w \in Range(Tail(writes)) : IsWrite(w)
<1>1. /\ Head(writes) \in Range(writes)
      /\ Tail(writes) \in Seq(Range(Tail(writes)))
      /\ Range(Tail(writes)) \subseteq Range(writes)
  BY HeadAndTail DEF WritesTyped
<1>2. \A w \in Range(Tail(writes)) : IsWrite(w)
  BY <1>1 DEF WritesTyped
<1>3. \A x \in Head(writes).holds : IsExtent(x)
  BY <1>1 DEF WritesTyped, IsWrite
<1>4. \A x \in f : IsExtent(x)
  BY <1>3 DEF Apply, Smash
<1> QED BY <1>1, <1>2, <1>4


LEMMA TypeInit == Init => TypeInv
<1> SUFFICES ASSUME Init PROVE TypeInv
  OBVIOUS
<1>1. WritesTyped
  BY NoElement DEF Init, WritesTyped
<1>2. /\ sbBlkDirectory \in Seq([id : SubBlocks, pos : Nat])
      /\ attachmentDirectory \in Seq([id : Attachments, pos : Nat])
  BY EmptySeq DEF Init
<1>3. /\ metadataSegment \in Segments /\ subBlockDirectorySegment \in Segments
      /\ attachmentDirectorySegment \in Segments
  BY NoSegmentTyped DEF Init
<1>4. TypeOK
  <2>1. faults \in 0..MaxFaults
    BY WriterAssumption DEF Init
  <2>2. /\ \A x \in file : x.lo \in Nat /\ x.hi \in Nat
        /\ stream \in BOOLEAN
        /\ info \in WriterInfos \cup {DefaultInfo}
        /\ nextSegmentPos \in Nat
    BY DEF Init
  <2>3. /\ op = "idle" /\ op \in Ops
        /\ phase \in {"none", "creating", "open", "closed"}
        /\ accepted = {} /\ doubtful = {}
        /\ meta \in Metadatas \cup {NoMeta, UnknownMeta}
    BY DEF Init, Ops
  <2> QED BY <1>2, <1>3, <2>1, <2>2, <2>3 DEF TypeOK
<1> QED BY <1>1, <1>4 DEF TypeInv

LEMMA TypeNext == TypeInv /\ [Next]_vars => TypeInv'
<1> SUFFICES ASSUME TypeInv, [Next]_vars PROVE TypeInv'
  OBVIOUS
<1> USE DEF TypeInv
<1>a. /\ nextSegmentPos \in Nat
      /\ metadataSegment \in Segments /\ subBlockDirectorySegment \in Segments
      /\ attachmentDirectorySegment \in Segments
      /\ info \in WriterInfos \cup {DefaultInfo}
      /\ \A x \in file : IsExtent(x)
  BY DEF TypeOK, IsExtent
<1>b. /\ Len(sbBlkDirectory) \in Nat
      /\ Len(attachmentDirectory) \in Nat
      /\ DOMAIN attachmentDirectory = 1..Len(attachmentDirectory)
  BY LenProperties DEF TypeOK
<1>1. ASSUME NEW i \in WriterInfos, Create(i) PROVE TypeInv'
  <2>1. WritesTyped'
    BY <1>1, HeaderWrites DEF Create, Begin, WritesTyped
  <2>2. TypeOK'
    BY <1>1 DEF TypeOK, Create, Begin, Ops, directories, segments
  <2> QED BY <2>1, <2>2
<1>2. CASE CreateHeaderWritten
  <2>1. nextSegmentPos' \in Nat /\ FixedHeaderSize \in Nat
    BY <1>2 DEF CreateHeaderWritten, FileHeaderSegmentSize, FixedHeaderSize,
                SegmentHeaderSize
  <2>2. WritesTyped'
    BY <1>2, <2>1, ReserveWrites DEF CreateHeaderWritten, Begin, WritesTyped
  <2>3. TypeOK'
    BY <1>2, <2>1 DEF TypeOK, CreateHeaderWritten, Begin, Ops, directories,
                      segments, client
  <2> QED BY <2>2, <2>3
<1>3. CASE MetadataReserved
  <2>1. /\ nextSegmentPos' \in Nat /\ metadataSegment' \in Segments
        /\ SubBlkDirHeaderSize \in Nat
    BY <1>3, <1>a, ReservationSizes, ReservedTyped
       DEF MetadataReserved, SubBlkDirHeaderSize, SegmentHeaderSize
  <2>2. WritesTyped'
    BY <1>3, <2>1, ReserveWrites DEF MetadataReserved, Begin, WritesTyped
  <2>3. TypeOK'
    BY <1>3, <2>1 DEF TypeOK, MetadataReserved, Begin, Ops, directories, client
  <2> QED BY <2>2, <2>3
<1>4. CASE SubBlkDirReserved
  <2>1. /\ nextSegmentPos' \in Nat /\ subBlockDirectorySegment' \in Segments
        /\ FixedHeaderSize \in Nat
    BY <1>4, <1>a, ReservationSizes, ReservedTyped
       DEF SubBlkDirReserved, FixedHeaderSize, SegmentHeaderSize
  <2>2. WritesTyped'
    BY <1>4, <2>1, ReserveWrites DEF SubBlkDirReserved, Begin, WritesTyped
  <2>3. TypeOK'
    BY <1>4, <2>1 DEF TypeOK, SubBlkDirReserved, Begin, Ops, directories, client
  <2> QED BY <2>2, <2>3
<1>5. CASE AttachmentDirReserved
  <2>1. /\ nextSegmentPos' \in Nat /\ attachmentDirectorySegment' \in Segments
    BY <1>5, <1>a, ReservationSizes, ReservedTyped DEF AttachmentDirReserved
  <2>2. WritesTyped'
    BY <1>5 DEF AttachmentDirReserved, ReturnToClient, WritesTyped
  <2>3. TypeOK'
    BY <1>5, <2>1 DEF TypeOK, AttachmentDirReserved, ReturnToClient, Ops,
                      directories
  <2> QED BY <2>2, <2>3
<1>6. ASSUME NEW c \in SubBlocks, SyncAddSubBlock(c) PROVE TypeInv'
  <2>1. WritesTyped'
    BY <1>6, <1>a, SubBlockWrites DEF SyncAddSubBlock, Begin, WritesTyped
  <2>2. sbBlkDirectory' \in Seq([id : SubBlocks, pos : Nat])
    BY <1>6, <1>a, AppendProperties DEF SyncAddSubBlock, TypeOK
  <2>3. TypeOK'
    BY <1>6, <2>2 DEF TypeOK, SyncAddSubBlock, Begin, Ops, segments, client
  <2> QED BY <2>1, <2>3
<1>7. CASE SubBlockAdded
  <2>1. item \in SubBlocks
    BY <1>7 DEF SubBlockAdded, Done, TypeOK
  <2>2. nextSegmentPos' \in Nat
    BY <1>7, <1>a, <2>1, SubBlockWrites DEF SubBlockAdded
  <2>3. TypeOK'
    BY <1>7, <2>1, <2>2 DEF TypeOK, SubBlockAdded, ReturnToClient, Ops,
                            directories, segments
  <2>4. WritesTyped'
    BY <1>7 DEF SubBlockAdded, ReturnToClient, WritesTyped
  <2> QED BY <2>3, <2>4
<1>8. ASSUME NEW a \in Attachments, SyncAddAttachment(a) PROVE TypeInv'
  <2>1. WritesTyped'
    BY <1>8, <1>a, AttachmentWrites DEF SyncAddAttachment, Begin, WritesTyped
  <2>2. attachmentDirectory' \in Seq([id : Attachments, pos : Nat])
    BY <1>8, <1>a, AppendProperties DEF SyncAddAttachment, TypeOK
  <2>3. TypeOK'
    BY <1>8, <2>2 DEF TypeOK, SyncAddAttachment, Begin, Ops, segments, client
  <2> QED BY <2>1, <2>3
<1>9. CASE AttachmentAdded
  <2>1. item \in Attachments
    BY <1>9 DEF AttachmentAdded, Done, TypeOK
  <2>2. nextSegmentPos' \in Nat
    BY <1>9, <1>a, <2>1, AttachmentWrites DEF AttachmentAdded
  <2>3. TypeOK'
    BY <1>9, <2>1, <2>2 DEF TypeOK, AttachmentAdded, ReturnToClient, Ops,
                            directories, segments
  <2>4. WritesTyped'
    BY <1>9 DEF AttachmentAdded, ReturnToClient, WritesTyped
  <2> QED BY <2>3, <2>4
<1>10. ASSUME NEW m \in Metadatas, SyncWriteMetadata(m) PROVE TypeInv'
  <2>1. WritesTyped'
    BY <1>10, <1>a, MetadataWrites DEF SyncWriteMetadata, Begin, WritesTyped
  <2>2. TypeOK'
    BY <1>10 DEF TypeOK, SyncWriteMetadata, Begin, Ops, segments, client,
                 directories
  <2> QED BY <2>1, <2>2
<1>11. CASE MetadataWritten
  <2> DEFINE at == MetadataPlace(metadataSegment, item, nextSegmentPos)
  <2>1. item \in Metadatas
    BY <1>11 DEF MetadataWritten, Done, TypeOK
  <2>2. at.pos \in Nat /\ at.allocated \in Nat
    BY <1>a, <2>1, Places DEF Placed
  <2>3. nextSegmentPos' = Advanced(at)
        /\ metadataSegment' = SegmentAt(at.pos, at.allocated, FALSE)
    BY <1>11 DEF MetadataWritten
  <2> HIDE DEF at
  <2>4. nextSegmentPos' \in Nat /\ metadataSegment' \in Segments
    BY <1>a, <2>2, <2>3 DEF Advanced, SegmentHeaderSize, SegmentAt, Segments
  <2>5. TypeOK'
    BY <1>11, <2>1, <2>4 DEF TypeOK, MetadataWritten, ReturnToClient, Ops,
                             directories
  <2>6. WritesTyped'
    BY <1>11 DEF MetadataWritten, ReturnToClient, WritesTyped
  <2> QED BY <2>5, <2>6
<1>12. CASE Close
  <2>1. WritesTyped'
    BY <1>12, <1>a, <1>b, SubBlkDirWrites DEF Close, Begin, WritesTyped
  <2>2. TypeOK'
    BY <1>12 DEF TypeOK, Close, Begin, Ops, segments, client, directories
  <2> QED BY <2>1, <2>2
<1>13. CASE SubBlkDirFinished
  <2> DEFINE at == SubBlkDirPlace(subBlockDirectorySegment, sbBlkDirectory,
                                  nextSegmentPos)
  <2>1. at.pos \in Nat /\ at.allocated \in Nat
    BY <1>a, <1>b, Places DEF Placed
  <2>2. /\ nextSegmentPos' = Advanced(at)
        /\ subBlockDirectorySegment' = SegmentAt(at.pos, at.allocated, FALSE)
    BY <1>13 DEF SubBlkDirFinished
  <2> HIDE DEF at
  <2>3. nextSegmentPos' \in Nat /\ subBlockDirectorySegment' \in Segments
    BY <1>a, <2>1, <2>2 DEF Advanced, SegmentHeaderSize, SegmentAt, Segments
  <2>4. WritesTyped'
    <3>1. CASE attachmentDirectory = <<>>
      BY <1>13, <3>1, NoElement DEF SubBlkDirFinished, Begin, WritesTyped
    <3>2. CASE attachmentDirectory # <<>>
      BY <1>13, <3>2, <1>a, <1>b, <2>3, AttachmentDirWrites
         DEF SubBlkDirFinished, Begin, WritesTyped
    <3> QED BY <3>1, <3>2
  <2>5. TypeOK'
    BY <1>13, <2>3 DEF TypeOK, SubBlkDirFinished, Begin, Ops, directories,
                       client
  <2> QED BY <2>4, <2>5
<1>14. CASE AttachmentDirFinished
  <2> DEFINE at == AttachmentDirPlace(attachmentDirectorySegment,
                                      attachmentDirectory, nextSegmentPos)
  <2>1. at.pos \in Nat /\ at.allocated \in Nat
    BY <1>a, <1>b, Places DEF Placed
  <2>2. \/ UNCHANGED <<attachmentDirectorySegment, nextSegmentPos>>
        \/ /\ nextSegmentPos' = Advanced(at)
           /\ attachmentDirectorySegment' =
                SegmentAt(at.pos, at.allocated, FALSE)
    BY <1>14 DEF AttachmentDirFinished
  <2> HIDE DEF at
  <2>3. nextSegmentPos' \in Nat /\ attachmentDirectorySegment' \in Segments
    <3>1. /\ Advanced(at) \in Nat
          /\ SegmentAt(at.pos, at.allocated, FALSE) \in Segments
      BY <1>a, <2>1 DEF Advanced, SegmentHeaderSize, SegmentAt, Segments
    <3> QED BY <1>a, <2>2, <3>1
  <2>4. WritesTyped'
    BY <1>14, HeaderWrites DEF AttachmentDirFinished, Begin, WritesTyped
  <2>5. TypeOK'
    BY <1>14, <2>3 DEF TypeOK, AttachmentDirFinished, Begin, Ops, directories,
                       client
  <2> QED BY <2>4, <2>5
<1>c. ASSUME Cleared
      PROVE  /\ stream' \in BOOLEAN
             /\ info' \in WriterInfos \cup {DefaultInfo}
             /\ nextSegmentPos' \in Nat
             /\ sbBlkDirectory' \in Seq([id : SubBlocks, pos : Nat])
             /\ attachmentDirectory' \in Seq([id : Attachments, pos : Nat])
             /\ metadataSegment' \in Segments
             /\ subBlockDirectorySegment' \in Segments
             /\ attachmentDirectorySegment' \in Segments
  BY <1>c, EmptySeq, NoSegmentTyped DEF Cleared
<1>15. CASE Closed
  <2>1. TypeOK'
    BY <1>15, <1>c DEF TypeOK, Closed, ReturnToClient, Ops
  <2>2. WritesTyped'
    BY <1>15 DEF Closed, ReturnToClient, WritesTyped
  <2> QED BY <2>1, <2>2
<1>16. CASE WriteOk
  <2>1. /\ \A x \in file' : IsExtent(x)
        /\ WritesTyped'
    BY <1>16, <1>a, WriteTyped DEF WriteOk, WritesTyped
  <2>2. TypeOK'
    BY <1>16, <2>1 DEF TypeOK, WriteOk, directories, segments, client, IsExtent
  <2> QED BY <2>1, <2>2
<1>17. CASE WriteFails
  <2>1. \A x \in file' : IsExtent(x)
    BY <1>17, <1>a, WriteTyped DEF WriteFails
  <2>2. WritesTyped'
    BY <1>17, NoElement DEF WriteFails, WritesTyped
  <2>3. faults' \in 0..MaxFaults
    BY <1>17, WriterAssumption DEF WriteFails, TypeOK
  <2>4. doubtful' \subseteq SubBlocks \cup Attachments
    BY <1>17 DEF WriteFails, TypeOK
  <2>5. meta' \in Metadatas \cup {NoMeta, UnknownMeta}
    BY <1>17 DEF WriteFails, TypeOK
  <2>6. TypeOK'
    BY <1>17, <2>1, <2>3, <2>4, <2>5
       DEF TypeOK, WriteFails, directories, segments, IsExtent, Ops
  <2> QED BY <2>2, <2>6
<1>18. CASE Discard
  <2>1. TypeOK'
    BY <1>18, <1>c DEF TypeOK, Discard, Ops
  <2>2. WritesTyped'
    BY <1>18, NoElement DEF Discard, WritesTyped
  <2> QED BY <2>1, <2>2
<1>19. CASE UNCHANGED vars
  BY <1>19 DEF vars, TypeOK, WritesTyped, directories, segments, client
<1> QED
  BY <1>1, <1>2, <1>3, <1>4, <1>5, <1>6, <1>7, <1>8, <1>9, <1>10, <1>11,
     <1>12, <1>13, <1>14, <1>15, <1>16, <1>17, <1>18, <1>19
     DEF Next

\* CCziWriter's members, the state of a running call and the extents of the
\* file have their types in every reachable state.
THEOREM TypeCorrect == Spec => []TypeOK
<1>1. Spec => []TypeInv
  BY TypeInit, TypeNext, PTL DEF Spec
<1>2. TypeInv => TypeOK
  BY DEF TypeInv
<1> QED BY <1>1, <1>2, PTL

-----------------------------------------------------------------------------
(* What has been accepted stays intact. *)

\* No write of the running call touches a kept extent.
LEMMA KeptSurvives ==
  ASSUME TypeInv, NEW w \in Range(writes), Confined(w), NEW x, Kept(x)
  PROVE  Survives(x, w)
<1>1. w.pos \in Nat /\ w.len \in Nat
  BY DEF TypeInv, WritesTyped, IsWrite
<1>2. x.lo \in Nat /\ x.hi \in Nat /\ nextSegmentPos \in Nat
  BY DEF TypeInv, TypeOK, Kept
<1>3. \A s \in Reusable : s \in Segments
  BY DEF TypeInv, TypeOK, Reusable
<1>4. CASE w.pos + w.len <= FileHeaderSegmentSize
  BY <1>1, <1>2, <1>4 DEF Kept, Survives, FileHeaderSegmentSize
<1>5. CASE w.pos >= nextSegmentPos
  BY <1>1, <1>2, <1>5 DEF Kept, Survives
<1>6. ASSUME NEW s \in Reusable, s.valid, w.pos >= s.pos,
             w.pos + w.len <= SegmentEnd(s)
      PROVE  Survives(x, w)
  <2>1. x.hi <= s.pos \/ SegmentEnd(s) <= x.lo
    BY <1>6 DEF Kept
  <2>2. s.pos \in Nat /\ SegmentEnd(s) \in Nat
    BY <1>3, <1>6 DEF Segments, SegmentEnd, SegmentHeaderSize
  <2> QED BY <1>1, <1>2, <1>6, <2>1, <2>2 DEF Survives
<1> QED BY <1>4, <1>5, <1>6 DEF Confined

\* A kept extent stays kept while the append position grows, and segments
\* move to it or keep their area.
LEMMA KeptStep ==
  ASSUME TypeInv, NEW x, Kept(x), x \in file',
         nextSegmentPos' \in Nat, nextSegmentPos' >= nextSegmentPos,
         \A s \in Reusable' : s.valid =>
           \/ s.pos \in Nat /\ s.pos >= nextSegmentPos
           \/ \E t \in Reusable : /\ t.valid
                                  /\ s.pos = t.pos /\ s.allocated = t.allocated
  PROVE  Kept(x)'
<1>1. x.lo \in Nat /\ x.hi \in Nat /\ nextSegmentPos \in Nat
  BY DEF TypeInv, TypeOK, Kept
<1>2. FileHeaderSegmentSize <= x.lo /\ x.hi <= nextSegmentPos'
  BY <1>1 DEF Kept
<1>3. ASSUME NEW s \in Reusable', s.valid
      PROVE  x.hi <= s.pos \/ SegmentEnd(s) <= x.lo
  <2>1. CASE s.pos \in Nat /\ s.pos >= nextSegmentPos
    BY <1>1, <2>1 DEF Kept
  <2>2. ASSUME NEW t \in Reusable, t.valid, s.pos = t.pos,
               s.allocated = t.allocated
        PROVE  x.hi <= s.pos \/ SegmentEnd(s) <= x.lo
    BY <2>2 DEF Kept, SegmentEnd
  <2> QED BY <1>3, <2>1, <2>2
<1> QED BY <1>2, <1>3 DEF Kept

\* What was accepted stays so while directories only grow.
LEMMA AcceptedKeptStep ==
  ASSUME AcceptedKept, accepted' = accepted, \A x : Kept(x) => Kept(x)',
         \A k \in DOMAIN sbBlkDirectory :
           k \in DOMAIN sbBlkDirectory' /\ sbBlkDirectory'[k] = sbBlkDirectory[k],
         \A k \in DOMAIN attachmentDirectory :
           /\ k \in DOMAIN attachmentDirectory'
           /\ attachmentDirectory'[k] = attachmentDirectory[k]
  PROVE  AcceptedKept'
<1>1. ASSUME NEW c \in (accepted \cap SubBlocks) \ CutShort
      PROVE  \E k \in DOMAIN sbBlkDirectory' :
               /\ sbBlkDirectory'[k].id = c
               /\ \A x \in SubBlockExtents(sbBlkDirectory'[k].pos, c) : Kept(x)'
  <2>1. PICK k \in DOMAIN sbBlkDirectory :
          /\ sbBlkDirectory[k].id = c
          /\ \A x \in SubBlockExtents(sbBlkDirectory[k].pos, c) : Kept(x)
    BY DEF AcceptedKept
  <2> QED BY <2>1
<1>2. ASSUME NEW a \in accepted \cap Attachments
      PROVE  \E k \in DOMAIN attachmentDirectory' :
               /\ attachmentDirectory'[k].id = a
               /\ \A x \in AttachmentExtents(attachmentDirectory'[k].pos, a) :
                    Kept(x)'
  <2>1. PICK k \in DOMAIN attachmentDirectory :
          /\ attachmentDirectory[k].id = a
          /\ \A x \in AttachmentExtents(attachmentDirectory[k].pos, a) : Kept(x)
    BY DEF AcceptedKept
  <2> QED BY <2>1
<1> QED BY <1>1, <1>2 DEF AcceptedKept


LEMMA LastingStep ==
  ASSUME WritesTyped, writes # <<>>, NEW x, Lasting(file, Range(writes), x)
  PROVE  Lasting(Apply(file, Head(writes)), Range(Tail(writes)), x)
<1> DEFINE h == Head(writes)
           ws == Range(Tail(writes))
           f  == Apply(file, h)
<1>1. Range(writes) = {h} \cup ws
  BY HeadAndTail DEF WritesTyped
<1> HIDE DEF ws, h
<1>2. CASE x \in file /\ \A w \in Range(writes) : Survives(x, w)
  <2>1. x \in f /\ \A w \in ws : Survives(x, w)
    BY <1>1, <1>2 DEF Apply, Smash
  <2>2. Lasting(f, ws, x)
    BY <2>1, Zenon DEF Lasting
  <2> QED BY <2>2 DEF h, ws
<1>3. ASSUME NEW w \in Range(writes), x \in w.holds,
             \A v \in Range(writes) : v = w \/ Survives(x, v)
      PROVE  Lasting(f, ws, x)
  <2>1. CASE w \in ws
    BY <1>1, <1>3, <2>1 DEF Lasting
  <2>2. CASE w \notin ws
    <3>1. w = h
      BY <1>1, <1>3, <2>2
    <3>2. x \in f
      BY <1>3, <3>1 DEF Apply
    <3>3. \A v \in ws : Survives(x, v)
      BY <1>1, <1>3, <2>2
    <3> QED BY <3>2, <3>3 DEF Lasting
  <2> QED BY <2>1, <2>2
<1> QED BY <1>2, <1>3 DEF Lasting, h, ws

\* A segment that was written again keeps its area or is a new one at the end.
LEMMA SegmentMoved ==
  ASSUME NEW existing \in Reusable, existing \in Segments, SegmentsBelowEnd,
         nextSegmentPos \in Nat, NEW at, Placed(existing, nextSegmentPos, at)
  PROVE  LET s == SegmentAt(at.pos, at.allocated, FALSE)
         IN  /\ Advanced(at) \in Nat /\ Advanced(at) >= nextSegmentPos
             /\ SegmentEnd(s) <= Advanced(at)
             /\ \/ s.pos \in Nat /\ s.pos >= nextSegmentPos
                \/ /\ existing.valid /\ s.pos = existing.pos
                   /\ s.allocated = existing.allocated
<1> DEFINE s == SegmentAt(at.pos, at.allocated, FALSE)
<1>1. s.pos = at.pos /\ s.allocated = at.allocated
  BY DEF SegmentAt
<1> HIDE DEF s
<1>2. at.pos \in Nat /\ at.allocated \in Nat
  BY DEF Placed
<1>3. CASE at.pos = nextSegmentPos
  <2>1. Advanced(at) = nextSegmentPos + at.allocated + SegmentHeaderSize
    BY <1>3 DEF Advanced
  <2>2. SegmentEnd(s) = at.pos + at.allocated + SegmentHeaderSize
    BY <1>1 DEF SegmentEnd
  <2>3. /\ Advanced(at) \in Nat /\ Advanced(at) >= nextSegmentPos
        /\ SegmentEnd(s) <= Advanced(at)
    BY <1>2, <1>3, <2>1, <2>2 DEF SegmentHeaderSize
  <2>4. s.pos \in Nat /\ s.pos >= nextSegmentPos
    BY <1>1, <1>2, <1>3
  <2> QED BY <2>3, <2>4 DEF s
<1>4. CASE /\ existing.valid /\ at.pos = existing.pos
           /\ at.allocated = existing.allocated
  <2>1. SegmentEnd(existing) <= nextSegmentPos
    BY <1>4 DEF SegmentsBelowEnd
  <2>2. SegmentEnd(s) = SegmentEnd(existing)
    BY <1>1, <1>4 DEF SegmentEnd
  <2>3. Advanced(at) \in Nat /\ Advanced(at) >= nextSegmentPos
    BY <1>2 DEF Advanced, SegmentHeaderSize
  <2>4. SegmentEnd(existing) \in Nat
    BY DEF SegmentEnd, SegmentHeaderSize, Segments
  <2>5. SegmentEnd(s) <= Advanced(at)
    BY <2>1, <2>2, <2>3, <2>4
  <2> QED BY <1>1, <1>4, <2>3, <2>5 DEF s
<1> QED BY <1>3, <1>4 DEF Placed

\* A write that replaces a segment is confined.
LEMMA ReplacementConfined ==
  ASSUME NEW existing \in Reusable, NEW w,
         ConfinedTo(existing, nextSegmentPos, w)
  PROVE  Confined(w)
BY DEF Confined, ConfinedTo

LEMMA InvInit == Init => Inv
<1> SUFFICES ASSUME Init PROVE Inv
  OBVIOUS
<1>1. \A s \in Reusable : ~s.valid
  BY NoSegmentTyped DEF Init, Reusable
<1>2. Range(writes) = {} /\ op = "idle" /\ phase = "none" /\ stream = FALSE
  BY NoElement DEF Init
<1> QED BY <1>1, <1>2 DEF Inv, OpInPhase, SegmentsBelowEnd, AddedLasting,
                          CreateOps, Ops

\* Steps that begin a call: they only append to a directory and plan writes.
LEMMA BeginKeeps ==
  ASSUME TypeInv, Inv, phase = "open", UNCHANGED <<file, segments, client>>,
         nextSegmentPos' = nextSegmentPos, stream' = stream,
         op' \in Ops \ (CreateOps \cup {"idle"}),
         \A k \in DOMAIN sbBlkDirectory :
           k \in DOMAIN sbBlkDirectory' /\ sbBlkDirectory'[k] = sbBlkDirectory[k],
         \A k \in DOMAIN attachmentDirectory :
           /\ k \in DOMAIN attachmentDirectory'
           /\ attachmentDirectory'[k] = attachmentDirectory[k]
  PROVE  OpInPhase' /\ SegmentsBelowEnd' /\ AcceptedKept'
<1>1. OpInPhase'
  BY DEF OpInPhase, Inv, segments, client, CreateOps, Ops, Reusable
<1>2. SegmentsBelowEnd'
  BY DEF SegmentsBelowEnd, Inv, segments, Reusable, SegmentEnd
<1>3. \A x : Kept(x) => Kept(x)'
  BY DEF Kept, segments, Reusable, SegmentEnd
<1>4. AcceptedKept'
  BY <1>3, AcceptedKeptStep DEF Inv, client
<1> QED BY <1>1, <1>2, <1>4

LEMMA AddSubBlockKeeps ==
  ASSUME TypeInv, Inv, NEW c \in SubBlocks, SyncAddSubBlock(c)
  PROVE  Inv'
<1> DEFINE ws == WriteSubBlock(nextSegmentPos, c, SubBlockAllocated(c))
           e == [id |-> c, pos |-> nextSegmentPos]
<1>1. nextSegmentPos \in Nat /\ sbBlkDirectory \in Seq([id : SubBlocks, pos : Nat])
  BY DEF TypeInv, TypeOK
<1>2. /\ phase = "open" /\ op' = "AddSubBlock" /\ writes' = ws /\ item' = c
      /\ UNCHANGED <<file, segments, client, attachmentDirectory>>
      /\ nextSegmentPos' = nextSegmentPos /\ stream' = stream
      /\ sbBlkDirectory' = Append(sbBlkDirectory, e)
  BY DEF SyncAddSubBlock, Callable, Begin
<1>3. /\ \A k \in DOMAIN sbBlkDirectory :
           k \in DOMAIN sbBlkDirectory' /\ sbBlkDirectory'[k] = sbBlkDirectory[k]
      /\ \E k \in DOMAIN sbBlkDirectory' : sbBlkDirectory'[k] = e
  <2>1. e \in [id : SubBlocks, pos : Nat]
    BY <1>1
  <2> HIDE DEF e
  <2>2. /\ sbBlkDirectory' \in Seq([id : SubBlocks, pos : Nat])
        /\ Len(sbBlkDirectory') = Len(sbBlkDirectory) + 1
        /\ \A i \in 1..Len(sbBlkDirectory) : sbBlkDirectory'[i] = sbBlkDirectory[i]
        /\ sbBlkDirectory'[Len(sbBlkDirectory) + 1] = e
    BY <1>1, <1>2, <2>1, AppendProperties
  <2>3. /\ Len(sbBlkDirectory) \in Nat
        /\ DOMAIN sbBlkDirectory = 1..Len(sbBlkDirectory)
        /\ DOMAIN sbBlkDirectory' = 1..Len(sbBlkDirectory')
    BY <1>1, <2>2, LenProperties
  <2> QED BY <2>2, <2>3
<1>4. OpInPhase' /\ SegmentsBelowEnd' /\ AcceptedKept'
  BY <1>2, <1>3, BeginKeeps DEF Ops, CreateOps
<1>5. \A w \in Range(writes') : Confined(w)'
  BY <1>1, <1>2, SubBlockWrites DEF Confined
<1>6. AddedLasting'
  <2>1. c \notin CutShort =>
          \A x \in SubBlockExtents(nextSegmentPos, c) :
            Lasting(file, Range(ws), x)
    BY <1>1, SubBlockWrites DEF CutShort
  <2> HIDE DEF ws
  <2> QED BY <1>2, <1>3, <2>1 DEF AddedLasting
<1> QED BY <1>4, <1>5, <1>6 DEF Inv

LEMMA AddAttachmentKeeps ==
  ASSUME TypeInv, Inv, NEW a \in Attachments, SyncAddAttachment(a)
  PROVE  Inv'
<1> DEFINE ws == WriteAttachment(nextSegmentPos, a, AttachmentAllocated(a))
           e == [id |-> a, pos |-> nextSegmentPos]
           dir == attachmentDirectory
<1>1. nextSegmentPos \in Nat /\ dir \in Seq([id : Attachments, pos : Nat])
  BY DEF TypeInv, TypeOK
<1>2. /\ phase = "open" /\ op' = "AddAttachment" /\ writes' = ws /\ item' = a
      /\ UNCHANGED <<file, segments, client, sbBlkDirectory>>
      /\ nextSegmentPos' = nextSegmentPos /\ stream' = stream
      /\ dir' = Append(dir, e)
  BY DEF SyncAddAttachment, Callable, Begin
<1>3. /\ \A k \in DOMAIN dir : k \in DOMAIN dir' /\ dir'[k] = dir[k]
      /\ \E k \in DOMAIN dir' : dir'[k] = e
  <2>1. e \in [id : Attachments, pos : Nat]
    BY <1>1
  <2> HIDE DEF e
  <2>2. /\ dir' \in Seq([id : Attachments, pos : Nat])
        /\ Len(dir') = Len(dir) + 1
        /\ \A i \in 1..Len(dir) : dir'[i] = dir[i]
        /\ dir'[Len(dir) + 1] = e
    BY <1>1, <1>2, <2>1, AppendProperties
  <2>3. /\ Len(dir) \in Nat /\ DOMAIN dir = 1..Len(dir)
        /\ DOMAIN dir' = 1..Len(dir')
    BY <1>1, <2>2, LenProperties
  <2> QED BY <2>2, <2>3
<1>4. OpInPhase' /\ SegmentsBelowEnd' /\ AcceptedKept'
  BY <1>2, <1>3, BeginKeeps DEF Ops, CreateOps
<1>5. \A w \in Range(writes') : Confined(w)'
  BY <1>1, <1>2, AttachmentWrites DEF Confined
<1>6. AddedLasting'
  <2>1. \A x \in AttachmentExtents(nextSegmentPos, a) :
          Lasting(file, Range(ws), x)
    BY <1>1, AttachmentWrites
  <2> HIDE DEF ws
  <2> QED BY <1>2, <1>3, <2>1 DEF AddedLasting
<1> QED BY <1>4, <1>5, <1>6 DEF Inv

\* Steps that begin a call which replaces a segment
LEMMA ReplaceKeeps ==
  ASSUME TypeInv, Inv,
         Close \/ \E m \in Metadatas : SyncWriteMetadata(m)
  PROVE  Inv'
<1>1. /\ phase = "open" /\ op' \in {"WriteMetadata", "FinishSubBlkDir"}
      /\ UNCHANGED <<file, segments, client, directories>>
      /\ nextSegmentPos' = nextSegmentPos /\ stream' = stream
  BY DEF Close, SyncWriteMetadata, Callable, Begin
<1>2. OpInPhase' /\ SegmentsBelowEnd' /\ AcceptedKept'
  BY <1>1, BeginKeeps DEF Ops, CreateOps, directories
<1>3. /\ nextSegmentPos \in Nat /\ Len(sbBlkDirectory) \in Nat
      /\ metadataSegment \in Segments /\ subBlockDirectorySegment \in Segments
  BY LenProperties DEF TypeInv, TypeOK
<1>4. \A w \in Range(writes') : Confined(w)
  <2>1. CASE Close
    BY <1>3, <2>1, SubBlkDirWrites, ReplacementConfined
       DEF Close, Begin, Reusable
  <2>2. ASSUME NEW m \in Metadatas, SyncWriteMetadata(m)
        PROVE  \A w \in Range(writes') : Confined(w)
    BY <1>3, <2>2, MetadataWrites, ReplacementConfined
       DEF SyncWriteMetadata, Begin, Reusable
  <2> QED BY <2>1, <2>2
<1>5. \A w \in Range(writes') : Confined(w)'
  BY <1>1, <1>4 DEF Confined, segments, Reusable, SegmentEnd
<1>6. AddedLasting'
  BY <1>1 DEF AddedLasting
<1> QED BY <1>2, <1>5, <1>6 DEF Inv

\* The end of a call: what is kept stays kept, and there is nothing to write.
LEMMA EndKeeps ==
  ASSUME TypeInv, Inv, op \in Ops \ (CreateOps \cup {"idle"}),
         UNCHANGED <<file, stream, directories, phase>>,
         op' \in (Ops \ CreateOps) \ {"AddSubBlock", "AddAttachment"},
         nextSegmentPos' \in Nat, nextSegmentPos' >= nextSegmentPos,
         SegmentsBelowEnd',
         \A s \in Reusable' : s.valid =>
           \/ s.pos \in Nat /\ s.pos >= nextSegmentPos
           \/ \E t \in Reusable : /\ t.valid
                                  /\ s.pos = t.pos /\ s.allocated = t.allocated
  PROVE  /\ OpInPhase' /\ AddedLasting'
         /\ \A x : Kept(x) => Kept(x)'
         /\ accepted' = accepted => AcceptedKept'
<1>1. phase = "open" /\ stream /\ AcceptedKept
  BY DEF Inv, OpInPhase, Ops, CreateOps
<1>2. nextSegmentPos' >= FileHeaderSegmentSize
  BY <1>1 DEF Inv, OpInPhase, TypeInv, TypeOK, FileHeaderSegmentSize
<1>3. OpInPhase'
  BY <1>1, <1>2 DEF OpInPhase, CreateOps, Ops
<1>4. ASSUME NEW x, Kept(x) PROVE Kept(x)'
  <2>1. x \in file'
    BY <1>4 DEF Kept
  <2> QED BY <1>4, <2>1, KeptStep
<1>5. accepted' = accepted => AcceptedKept'
  BY <1>1, <1>4, AcceptedKeptStep DEF directories
<1>6. AddedLasting'
  BY DEF AddedLasting
<1> QED BY <1>3, <1>4, <1>5, <1>6

\* An item whose add returns is where no later write goes.
LEMMA AddedKept ==
  ASSUME TypeInv, Inv, SubBlockAdded \/ AttachmentAdded
  PROVE  /\ SubBlockAdded /\ item \notin CutShort =>
              \A x \in SubBlockExtents(nextSegmentPos, item) : Kept(x)'
         /\ AttachmentAdded =>
              \A x \in AttachmentExtents(nextSegmentPos, item) : Kept(x)'
<1>1. /\ writes = <<>> /\ phase = "open" /\ UNCHANGED <<file, segments>>
      /\ nextSegmentPos \in Nat /\ \A s \in Reusable : s \in Segments
      /\ Reusable' = Reusable
  BY DEF SubBlockAdded, AttachmentAdded, Done, TypeInv, TypeOK, Reusable,
         segments, Inv, OpInPhase, Ops, CreateOps
<1>2. ASSUME NEW x, Lasting(file, Range(writes), x), x.lo \in Nat,
             x.lo >= nextSegmentPos, x.hi <= nextSegmentPos'
      PROVE  Kept(x)'
  <2>1. x \in file'
    BY <1>1, <1>2, LastingDone, NoElement
  <2>2. x.lo >= FileHeaderSegmentSize
    BY <1>1, <1>2 DEF FileHeaderSegmentSize, Inv, OpInPhase
  <2>3. ASSUME NEW s \in Reusable, s.valid
        PROVE  SegmentEnd(s) <= x.lo
    <3>1. SegmentEnd(s) <= nextSegmentPos /\ SegmentEnd(s) \in Nat
      BY <1>1, <2>3
         DEF Inv, SegmentsBelowEnd, SegmentEnd, SegmentHeaderSize, Segments
    <3> QED BY <1>1, <1>2, <3>1
  <2> QED BY <1>1, <1>2, <2>1, <2>2, <2>3 DEF Kept
<1>3. ASSUME SubBlockAdded, item \notin CutShort,
             NEW x \in SubBlockExtents(nextSegmentPos, item)
      PROVE  Kept(x)'
  <2> DEFINE n == SubBlockBytes(item, SubBlockAllocated(item))
  <2>1. /\ op = "AddSubBlock" /\ item \in SubBlocks
        /\ nextSegmentPos' = nextSegmentPos + n
    BY <1>3 DEF SubBlockAdded, Done, TypeInv, TypeOK
  <2>2. /\ x.lo \in Nat /\ x.lo >= nextSegmentPos
        /\ x.hi <= nextSegmentPos + n
    BY <1>1, <1>3, <2>1, SubBlockWrites DEF CutShort
  <2>3. Lasting(file, Range(writes), x)
    BY <1>3, <2>1 DEF Inv, AddedLasting
  <2> HIDE DEF n
  <2> QED BY <1>2, <2>1, <2>2, <2>3
<1>4. ASSUME AttachmentAdded, NEW x \in AttachmentExtents(nextSegmentPos, item)
      PROVE  Kept(x)'
  <2> DEFINE n == AttachmentBytes(item, AttachmentAllocated(item))
  <2>1. /\ op = "AddAttachment" /\ item \in Attachments
        /\ nextSegmentPos' = nextSegmentPos + n
    BY <1>4 DEF AttachmentAdded, Done, TypeInv, TypeOK
  <2>2. /\ x.lo \in Nat /\ x.lo >= nextSegmentPos
        /\ x.hi <= nextSegmentPos + n
    BY <1>1, <1>4, <2>1, AttachmentWrites
  <2>3. Lasting(file, Range(writes), x)
    BY <1>4, <2>1 DEF Inv, AddedLasting
  <2> HIDE DEF n
  <2> QED BY <1>2, <2>1, <2>2, <2>3
<1> QED BY <1>3, <1>4

LEMMA SubBlockAddedKeeps ==
  ASSUME TypeInv, Inv, SubBlockAdded
  PROVE  Inv'
<1> DEFINE n == SubBlockBytes(item, SubBlockAllocated(item))
<1>1. /\ op = "AddSubBlock" /\ writes = <<>> /\ writes' = <<>> /\ op' = "idle"
      /\ nextSegmentPos' = nextSegmentPos + n
      /\ accepted' = accepted \cup {item}
      /\ UNCHANGED <<file, stream, directories, segments, phase>>
  BY DEF SubBlockAdded, Done, ReturnToClient
<1>2. /\ item \in SubBlocks /\ nextSegmentPos \in Nat
      /\ \A s \in Reusable : s \in Segments
      /\ phase = "open"
  BY <1>1 DEF TypeInv, TypeOK, Reusable, Inv, OpInPhase, Ops, CreateOps
<1>3. n \in Nat
  BY <1>2, SubBlockWrites
<1> HIDE DEF n
<1>4. Reusable' = Reusable
  BY <1>1 DEF Reusable, segments
<1>5. SegmentsBelowEnd'
  <2>1. \A s \in Reusable : SegmentEnd(s) \in Nat
    BY <1>2 DEF SegmentEnd, SegmentHeaderSize, Segments
  <2> QED BY <1>1, <1>2, <1>3, <1>4, <2>1 DEF SegmentsBelowEnd, Inv
<1>6. /\ OpInPhase' /\ AddedLasting'
      /\ \A x : Kept(x) => Kept(x)'
  <2>1. nextSegmentPos' \in Nat /\ nextSegmentPos' >= nextSegmentPos
    BY <1>1, <1>2, <1>3
  <2> QED BY <1>1, <1>4, <1>5, <2>1, EndKeeps DEF Ops, CreateOps
<1>7. PICK k \in DOMAIN sbBlkDirectory :
        sbBlkDirectory[k] = [id |-> item, pos |-> nextSegmentPos]
  BY <1>1 DEF Inv, AddedLasting
<1>8. item \notin CutShort =>
        \A x \in SubBlockExtents(nextSegmentPos, item) : Kept(x)'
  BY AddedKept
<1>9. AcceptedKept'
  <2>1. AcceptedKept
    BY <1>2 DEF Inv
  <2>2. ASSUME NEW c \in (accepted' \cap SubBlocks) \ CutShort
        PROVE  \E j \in DOMAIN sbBlkDirectory' :
                 /\ sbBlkDirectory'[j].id = c
                 /\ \A x \in SubBlockExtents(sbBlkDirectory'[j].pos, c) : Kept(x)'
    <3>1. CASE c = item
      BY <1>1, <1>7, <1>8, <2>2, <3>1 DEF directories
    <3>2. CASE c \in (accepted \cap SubBlocks) \ CutShort
      BY <1>1, <1>6, <2>1, <3>2 DEF directories, AcceptedKept
    <3> QED BY <1>1, <2>2, <3>1, <3>2
  <2>3. ASSUME NEW a \in accepted' \cap Attachments
        PROVE  \E j \in DOMAIN attachmentDirectory' :
                 /\ attachmentDirectory'[j].id = a
                 /\ \A x \in AttachmentExtents(attachmentDirectory'[j].pos, a) :
                      Kept(x)'
    <3>1. a \in accepted \cap Attachments
      BY <1>1, <1>2, <2>3, WriterAssumption
    <3> QED BY <1>1, <1>6, <2>1, <3>1 DEF directories, AcceptedKept
  <2> QED BY <2>2, <2>3 DEF AcceptedKept
<1> QED BY <1>1, <1>5, <1>6, <1>9, NoElement DEF Inv

LEMMA AttachmentAddedKeeps ==
  ASSUME TypeInv, Inv, AttachmentAdded
  PROVE  Inv'
<1> DEFINE n == AttachmentBytes(item, AttachmentAllocated(item))
<1>1. /\ op = "AddAttachment" /\ writes = <<>> /\ writes' = <<>> /\ op' = "idle"
      /\ nextSegmentPos' = nextSegmentPos + n
      /\ accepted' = accepted \cup {item}
      /\ UNCHANGED <<file, stream, directories, segments, phase>>
  BY DEF AttachmentAdded, Done, ReturnToClient
<1>2. /\ item \in Attachments /\ nextSegmentPos \in Nat
      /\ \A s \in Reusable : s \in Segments
      /\ phase = "open"
  BY <1>1 DEF TypeInv, TypeOK, Reusable, Inv, OpInPhase, Ops, CreateOps
<1>3. /\ n \in Nat
      /\ \A x \in AttachmentExtents(nextSegmentPos, item) :
           /\ x.lo \in Nat /\ x.hi \in Nat /\ x.lo >= nextSegmentPos
           /\ x.hi <= nextSegmentPos + n
  BY <1>2, AttachmentWrites
<1> HIDE DEF n
<1>4. Reusable' = Reusable
  BY <1>1 DEF Reusable, segments
<1>5. SegmentsBelowEnd'
  <2>1. \A s \in Reusable : SegmentEnd(s) \in Nat
    BY <1>2 DEF SegmentEnd, SegmentHeaderSize, Segments
  <2> QED BY <1>1, <1>2, <1>3, <1>4, <2>1 DEF SegmentsBelowEnd, Inv
<1>6. /\ OpInPhase' /\ AddedLasting'
      /\ \A x : Kept(x) => Kept(x)'
  <2>1. nextSegmentPos' \in Nat /\ nextSegmentPos' >= nextSegmentPos
    BY <1>1, <1>2, <1>3
  <2> QED BY <1>1, <1>4, <1>5, <2>1, EndKeeps DEF Ops, CreateOps
<1>7. PICK k \in DOMAIN attachmentDirectory :
        attachmentDirectory[k] = [id |-> item, pos |-> nextSegmentPos]
  BY <1>1 DEF Inv, AddedLasting
<1>8. \A x \in AttachmentExtents(nextSegmentPos, item) : Kept(x)'
  BY AddedKept
<1>9. AcceptedKept'
  <2>1. AcceptedKept
    BY <1>2 DEF Inv
  <2>2. ASSUME NEW a \in accepted' \cap Attachments
        PROVE  \E j \in DOMAIN attachmentDirectory' :
                 /\ attachmentDirectory'[j].id = a
                 /\ \A x \in AttachmentExtents(attachmentDirectory'[j].pos, a) :
                      Kept(x)'
    <3>1. CASE a = item
      BY <1>1, <1>7, <1>8, <3>1 DEF directories
    <3>2. CASE a \in accepted \cap Attachments
      BY <1>1, <1>6, <2>1, <3>2 DEF directories, AcceptedKept
    <3> QED BY <1>1, <2>2, <3>1, <3>2
  <2>3. ASSUME NEW c \in (accepted' \cap SubBlocks) \ CutShort
        PROVE  \E j \in DOMAIN sbBlkDirectory' :
                 /\ sbBlkDirectory'[j].id = c
                 /\ \A x \in SubBlockExtents(sbBlkDirectory'[j].pos, c) : Kept(x)'
    <3>1. c \in (accepted \cap SubBlocks) \ CutShort
      BY <1>1, <1>2, <2>3, WriterAssumption
    <3> QED BY <1>1, <1>6, <2>1, <3>1 DEF directories, AcceptedKept
  <2> QED BY <2>2, <2>3 DEF AcceptedKept
<1> QED BY <1>1, <1>5, <1>6, <1>9, NoElement DEF Inv

LEMMA SegmentEndTyped ==
  ASSUME TypeInv, Inv, NEW t \in Reusable, t.valid
  PROVE  SegmentEnd(t) \in Nat /\ SegmentEnd(t) <= nextSegmentPos
<1>1. t \in Segments
  BY DEF TypeInv, TypeOK, Reusable
<1>2. SegmentEnd(t) \in Nat
  BY <1>1 DEF SegmentEnd, SegmentHeaderSize, Segments
<1>3. SegmentEnd(t) <= nextSegmentPos
  BY DEF Inv, SegmentsBelowEnd
<1> QED BY <1>2, <1>3

\* The steps that note where a segment has been put
LEMMA MetadataWrittenKeeps ==
  ASSUME TypeInv, Inv, MetadataWritten
  PROVE  Inv'
<1> DEFINE at == MetadataPlace(metadataSegment, item, nextSegmentPos)
           s == SegmentAt(at.pos, at.allocated, FALSE)
<1>1. /\ op = "WriteMetadata" /\ writes = <<>> /\ writes' = <<>> /\ op' = "idle"
      /\ nextSegmentPos' = Advanced(at) /\ metadataSegment' = s
      /\ UNCHANGED <<file, stream, directories, phase, accepted,
                     subBlockDirectorySegment, attachmentDirectorySegment>>
  BY DEF MetadataWritten, Done, ReturnToClient
<1>2. item \in Metadatas /\ nextSegmentPos \in Nat /\ metadataSegment \in Segments
  BY <1>1 DEF TypeInv, TypeOK
<1>3. Placed(metadataSegment, nextSegmentPos, at)
  BY <1>2, Places
<1> HIDE DEF at
<1>4. /\ nextSegmentPos' \in Nat /\ nextSegmentPos' >= nextSegmentPos
      /\ SegmentEnd(s) <= nextSegmentPos'
      /\ \/ s.pos \in Nat /\ s.pos >= nextSegmentPos
         \/ /\ metadataSegment.valid /\ s.pos = metadataSegment.pos
            /\ s.allocated = metadataSegment.allocated
  BY <1>1, <1>2, <1>3, SegmentMoved DEF Inv, Reusable
<1> HIDE DEF s
<1>5. SegmentsBelowEnd' /\ \A t \in Reusable' : t = s \/ t \in Reusable
  <2>1. \A t \in Reusable : t.valid => /\ SegmentEnd(t) \in Nat
                                       /\ SegmentEnd(t) <= nextSegmentPos
    BY SegmentEndTyped
  <2> QED BY <1>1, <1>2, <1>4, <2>1 DEF SegmentsBelowEnd, Reusable
<1>6. \A t \in Reusable' : t.valid =>
        \/ t.pos \in Nat /\ t.pos >= nextSegmentPos
        \/ \E u \in Reusable : /\ u.valid
                               /\ t.pos = u.pos /\ t.allocated = u.allocated
  BY <1>4, <1>5 DEF Reusable
<1>7. OpInPhase' /\ AddedLasting' /\ AcceptedKept'
  BY <1>1, <1>4, <1>5, <1>6, EndKeeps DEF Ops, CreateOps
<1> QED BY <1>1, <1>5, <1>7, NoElement DEF Inv

LEMMA SubBlkDirFinishedKeeps ==
  ASSUME TypeInv, Inv, SubBlkDirFinished
  PROVE  Inv'
<1> DEFINE at == SubBlkDirPlace(subBlockDirectorySegment, sbBlkDirectory,
                                nextSegmentPos)
           s == SegmentAt(at.pos, at.allocated, FALSE)
           ws == WriteAttachmentDirectory(attachmentDirectorySegment,
                                          attachmentDirectory, nextSegmentPos')
<1>1. /\ op = "FinishSubBlkDir" /\ op' = "FinishAttachmentDir"
      /\ writes' = IF attachmentDirectory = <<>> THEN <<>> ELSE ws
      /\ nextSegmentPos' = Advanced(at) /\ subBlockDirectorySegment' = s
      /\ UNCHANGED <<file, stream, directories, phase, accepted,
                     metadataSegment, attachmentDirectorySegment>>
  BY DEF SubBlkDirFinished, Done, Begin, client
<1>2. /\ nextSegmentPos \in Nat /\ subBlockDirectorySegment \in Segments
      /\ attachmentDirectorySegment \in Segments
      /\ Len(sbBlkDirectory) \in Nat /\ Len(attachmentDirectory) \in Nat
      /\ DOMAIN attachmentDirectory = 1..Len(attachmentDirectory)
  BY LenProperties DEF TypeInv, TypeOK
<1>3. Placed(subBlockDirectorySegment, nextSegmentPos, at)
  BY <1>2, Places
<1> HIDE DEF at
<1>4. /\ nextSegmentPos' \in Nat /\ nextSegmentPos' >= nextSegmentPos
      /\ SegmentEnd(s) <= nextSegmentPos'
      /\ \/ s.pos \in Nat /\ s.pos >= nextSegmentPos
         \/ /\ subBlockDirectorySegment.valid
            /\ s.pos = subBlockDirectorySegment.pos
            /\ s.allocated = subBlockDirectorySegment.allocated
  BY <1>1, <1>2, <1>3, SegmentMoved DEF Inv, Reusable
<1> HIDE DEF s, ws
<1>5. SegmentsBelowEnd' /\ \A t \in Reusable' : t = s \/ t \in Reusable
  <2>1. \A t \in Reusable : t.valid => /\ SegmentEnd(t) \in Nat
                                       /\ SegmentEnd(t) <= nextSegmentPos
    BY SegmentEndTyped
  <2> QED BY <1>1, <1>2, <1>4, <2>1 DEF SegmentsBelowEnd, Reusable
<1>6. \A t \in Reusable' : t.valid =>
        \/ t.pos \in Nat /\ t.pos >= nextSegmentPos
        \/ \E u \in Reusable : /\ u.valid
                               /\ t.pos = u.pos /\ t.allocated = u.allocated
  BY <1>4, <1>5 DEF Reusable
<1>7. OpInPhase' /\ AddedLasting' /\ AcceptedKept'
  BY <1>1, <1>4, <1>5, <1>6, EndKeeps DEF Ops, CreateOps
<1>8. \A w \in Range(writes') : Confined(w)'
  <2>1. CASE attachmentDirectory = <<>>
    BY <1>1, <2>1, NoElement
  <2>2. CASE attachmentDirectory # <<>>
    <3>1. \A w \in Range(ws) :
            ConfinedTo(attachmentDirectorySegment, nextSegmentPos', w)
      BY <1>2, <1>4, AttachmentDirWrites DEF ws
    <3> QED BY <1>1, <2>2, <3>1 DEF ConfinedTo, Confined, Reusable
  <2> QED BY <2>1, <2>2
<1> QED BY <1>5, <1>7, <1>8 DEF Inv

LEMMA AttachmentDirFinishedKeeps ==
  ASSUME TypeInv, Inv, AttachmentDirFinished
  PROVE  Inv'
<1> DEFINE at == AttachmentDirPlace(attachmentDirectorySegment,
                                    attachmentDirectory, nextSegmentPos)
           s == SegmentAt(at.pos, at.allocated, FALSE)
<1>1. /\ op = "FinishAttachmentDir" /\ op' = "FinishHeader"
      /\ \/ UNCHANGED <<attachmentDirectorySegment, nextSegmentPos>>
         \/ /\ nextSegmentPos' = Advanced(at)
            /\ attachmentDirectorySegment' = s
      /\ UNCHANGED <<file, stream, directories, phase, accepted,
                     metadataSegment, subBlockDirectorySegment>>
  BY DEF AttachmentDirFinished, Done, Begin, client
<1>2. /\ nextSegmentPos \in Nat /\ attachmentDirectorySegment \in Segments
      /\ Len(attachmentDirectory) \in Nat
  BY LenProperties DEF TypeInv, TypeOK
<1>3. Placed(attachmentDirectorySegment, nextSegmentPos, at)
  BY <1>2, Places
<1> HIDE DEF at
<1>4. /\ Advanced(at) \in Nat /\ Advanced(at) >= nextSegmentPos
      /\ SegmentEnd(s) <= Advanced(at)
      /\ \/ s.pos \in Nat /\ s.pos >= nextSegmentPos
         \/ /\ attachmentDirectorySegment.valid
            /\ s.pos = attachmentDirectorySegment.pos
            /\ s.allocated = attachmentDirectorySegment.allocated
  BY <1>2, <1>3, SegmentMoved DEF Inv, Reusable
<1> HIDE DEF s
<1>5. /\ nextSegmentPos' \in Nat /\ nextSegmentPos' >= nextSegmentPos
      /\ SegmentsBelowEnd'
      /\ \A t \in Reusable' :
           t \in Reusable \/ (t = s /\ nextSegmentPos' = Advanced(at))
  <2>1. \A t \in Reusable : t.valid => /\ SegmentEnd(t) \in Nat
                                       /\ SegmentEnd(t) <= nextSegmentPos
    BY SegmentEndTyped
  <2>2. CASE UNCHANGED <<attachmentDirectorySegment, nextSegmentPos>>
    BY <1>1, <1>2, <2>1, <2>2 DEF SegmentsBelowEnd, Reusable
  <2>3. CASE /\ nextSegmentPos' = Advanced(at)
             /\ attachmentDirectorySegment' = s
    BY <1>1, <1>2, <1>4, <2>1, <2>3 DEF SegmentsBelowEnd, Reusable
  <2> QED BY <1>1, <2>2, <2>3
<1>6. \A t \in Reusable' : t.valid =>
        \/ t.pos \in Nat /\ t.pos >= nextSegmentPos
        \/ \E u \in Reusable : /\ u.valid
                               /\ t.pos = u.pos /\ t.allocated = u.allocated
  BY <1>4, <1>5 DEF Reusable
<1>7. OpInPhase' /\ AddedLasting' /\ AcceptedKept'
  BY <1>1, <1>5, <1>6, EndKeeps DEF Ops, CreateOps
<1>8. \A w \in Range(writes') : Confined(w)'
  BY HeaderWrites
     DEF AttachmentDirFinished, Begin, Confined, FileHeaderSegmentSize
<1> QED BY <1>5, <1>7, <1>8 DEF Inv

\* Steps of Create: nothing is accepted yet, and nothing is in the file that
\* a client knows of.
LEMMA CreateKeeps ==
  ASSUME TypeInv, Inv, NEW i \in WriterInfos, Create(i)
  PROVE  Inv'
<1>1. /\ op' = "Create" /\ stream' /\ phase' = "creating" /\ accepted' = {}
      /\ writes' = WriteFileHeader(0, 0, 0) /\ UNCHANGED segments
      /\ \A s \in Reusable : ~s.valid
  BY DEF Create, Begin, Inv, OpInPhase
<1>2. \A s \in Reusable' : ~s.valid
  BY <1>1 DEF segments, Reusable
<1>3. OpInPhase'
  BY <1>1, <1>2 DEF OpInPhase, CreateOps, Ops
<1>4. SegmentsBelowEnd' /\ AddedLasting'
  BY <1>1, <1>2 DEF SegmentsBelowEnd, AddedLasting
<1>5. \A w \in Range(writes') : Confined(w)'
  BY <1>1, HeaderWrites DEF Confined, FileHeaderSegmentSize
<1> QED BY <1>1, <1>3, <1>4, <1>5 DEF Inv

\* What is planned for the next reservation goes to the append position.
LEMMA ReservingKeeps ==
  ASSUME TypeInv, Inv, op \in CreateOps, op' \in CreateOps \ {"Create"},
         UNCHANGED <<stream, phase, accepted>>, nextSegmentPos' \in Nat,
         nextSegmentPos' >= FileHeaderSegmentSize, SegmentsBelowEnd',
         NEW s, NEW headerSize \in Nat, NEW allocated,
         writes' = Reserve(s, nextSegmentPos', headerSize, allocated)
  PROVE  Inv'
<1>1. phase' = "creating" /\ accepted' = {} /\ stream'
  BY DEF Inv, OpInPhase
<1>2. OpInPhase' /\ AddedLasting'
  BY <1>1 DEF OpInPhase, AddedLasting, CreateOps, Ops
<1>3. \A w \in Range(writes') : w.pos = nextSegmentPos'
  BY ReserveWrites
<1>4. \A w \in Range(writes') : Confined(w)'
  BY <1>3 DEF Confined
<1> QED BY <1>1, <1>2, <1>4 DEF Inv

\* A reservation, if any is made, ends at the new append position.
LEMMA ReservedBelowEnd ==
  ASSUME TypeInv, Inv, NEW existing \in Reusable, NEW s, NEW allocated,
         s # NotReserved => allocated \in Nat,
         nextSegmentPos' = AfterReservation(s, allocated),
         \A t \in Reusable' :
           t \in Reusable \/ t = Reserved(s, existing, allocated)
  PROVE  /\ nextSegmentPos' \in Nat /\ nextSegmentPos' >= nextSegmentPos
         /\ SegmentsBelowEnd'
<1>1. nextSegmentPos \in Nat /\ existing \in Segments
  BY DEF TypeInv, TypeOK, Reusable
<1>2. nextSegmentPos' \in Nat /\ nextSegmentPos' >= nextSegmentPos
  BY <1>1, ReservedTyped
<1>3. ASSUME NEW t \in Reusable', t.valid
      PROVE  SegmentEnd(t) <= nextSegmentPos'
  <2>1. CASE t \in Reusable
    BY <1>1, <1>2, <1>3, <2>1, SegmentEndTyped
  <2>2. CASE t \notin Reusable
    <3>1. t = Reserved(s, existing, allocated)
      BY <1>3, <2>2
    <3>2. SegmentEnd(t) = nextSegmentPos'
      BY <1>1, <1>3, <2>2, <3>1, ReservedTyped
    <3> QED BY <1>2, <3>2
  <2> QED BY <2>1, <2>2
<1> QED BY <1>2, <1>3 DEF SegmentsBelowEnd

LEMMA CreateHeaderWrittenKeeps ==
  ASSUME TypeInv, Inv, CreateHeaderWritten
  PROVE  Inv'
<1>1. /\ op = "Create" /\ op' = "ReserveMetadata"
      /\ UNCHANGED <<stream, phase, accepted, segments>>
      /\ nextSegmentPos' = FileHeaderSegmentSize
      /\ writes' = Reserve(info.metadata, nextSegmentPos', FixedHeaderSize,
                           MetadataReservation)
  BY DEF CreateHeaderWritten, Done, Begin, client, segments
<1>2. SegmentsBelowEnd'
  BY <1>1 DEF Inv, OpInPhase, SegmentsBelowEnd, segments, Reusable
<1>3. nextSegmentPos' \in Nat /\ FixedHeaderSize \in Nat
  BY <1>1 DEF FileHeaderSegmentSize, FixedHeaderSize, SegmentHeaderSize
<1>4. nextSegmentPos' >= FileHeaderSegmentSize
  BY <1>1 DEF FileHeaderSegmentSize
<1> HIDE DEF FixedHeaderSize
<1> QED BY <1>1, <1>2, <1>3, <1>4, ReservingKeeps DEF CreateOps

LEMMA MetadataReservedKeeps ==
  ASSUME TypeInv, Inv, MetadataReserved
  PROVE  Inv'
<1>1. /\ op = "ReserveMetadata" /\ op' = "ReserveSubBlkDir"
      /\ UNCHANGED <<stream, phase, accepted, subBlockDirectorySegment,
                     attachmentDirectorySegment>>
      /\ metadataSegment' =
           Reserved(info.metadata, metadataSegment, MetadataReservation)
      /\ nextSegmentPos' = AfterReservation(info.metadata, MetadataReservation)
      /\ writes' = Reserve(info.subBlkDir, nextSegmentPos',
                           SubBlkDirHeaderSize, SubBlkDirReservation)
  BY DEF MetadataReserved, Done, Begin, client
<1>2. info.metadata # NotReserved => MetadataReservation \in Nat
  BY ReservationSizes DEF TypeInv, TypeOK
<1>3. /\ nextSegmentPos' \in Nat /\ nextSegmentPos' >= nextSegmentPos
      /\ SegmentsBelowEnd'
  BY <1>1, <1>2, ReservedBelowEnd DEF Reusable
<1>4. nextSegmentPos' >= FileHeaderSegmentSize
  BY <1>1, <1>3 DEF Inv, OpInPhase, CreateOps, TypeInv, TypeOK,
                    FileHeaderSegmentSize
<1>5. SubBlkDirHeaderSize \in Nat
  BY DEF SubBlkDirHeaderSize, SegmentHeaderSize
<1> QED BY <1>1, <1>3, <1>4, <1>5, ReservingKeeps DEF CreateOps

LEMMA SubBlkDirReservedKeeps ==
  ASSUME TypeInv, Inv, SubBlkDirReserved
  PROVE  Inv'
<1>1. /\ op = "ReserveSubBlkDir" /\ op' = "ReserveAttachmentDir"
      /\ UNCHANGED <<stream, phase, accepted, metadataSegment,
                     attachmentDirectorySegment>>
      /\ subBlockDirectorySegment' =
           Reserved(info.subBlkDir, subBlockDirectorySegment,
                    SubBlkDirReservation)
      /\ nextSegmentPos' =
           AfterReservation(info.subBlkDir, SubBlkDirReservation)
      /\ writes' = Reserve(info.attachmentDir, nextSegmentPos',
                           FixedHeaderSize, AttachmentDirReservation)
  BY DEF SubBlkDirReserved, Done, Begin, client
<1>2. info.subBlkDir # NotReserved => SubBlkDirReservation \in Nat
  BY ReservationSizes DEF TypeInv, TypeOK
<1>3. /\ nextSegmentPos' \in Nat /\ nextSegmentPos' >= nextSegmentPos
      /\ SegmentsBelowEnd'
  BY <1>1, <1>2, ReservedBelowEnd DEF Reusable
<1>4. nextSegmentPos' >= FileHeaderSegmentSize
  BY <1>1, <1>3 DEF Inv, OpInPhase, CreateOps, TypeInv, TypeOK,
                    FileHeaderSegmentSize
<1>5. FixedHeaderSize \in Nat
  BY DEF FixedHeaderSize, SegmentHeaderSize
<1> QED BY <1>1, <1>3, <1>4, <1>5, ReservingKeeps DEF CreateOps

LEMMA AttachmentDirReservedKeeps ==
  ASSUME TypeInv, Inv, AttachmentDirReserved
  PROVE  Inv'
<1>1. /\ op = "ReserveAttachmentDir" /\ op' = "idle" /\ phase' = "open"
      /\ UNCHANGED <<stream, accepted, metadataSegment,
                     subBlockDirectorySegment>>
      /\ writes' = <<>>
      /\ attachmentDirectorySegment' =
           Reserved(info.attachmentDir, attachmentDirectorySegment,
                    AttachmentDirReservation)
      /\ nextSegmentPos' =
           AfterReservation(info.attachmentDir, AttachmentDirReservation)
  BY DEF AttachmentDirReserved, Done, ReturnToClient
<1>2. info.attachmentDir # NotReserved => AttachmentDirReservation \in Nat
  BY ReservationSizes DEF TypeInv, TypeOK
<1>3. /\ nextSegmentPos' \in Nat /\ nextSegmentPos' >= nextSegmentPos
      /\ SegmentsBelowEnd'
  BY <1>1, <1>2, ReservedBelowEnd DEF Reusable
<1>4. nextSegmentPos' >= FileHeaderSegmentSize
  BY <1>1, <1>3 DEF Inv, OpInPhase, CreateOps, TypeInv, TypeOK,
                    FileHeaderSegmentSize
<1>5. stream' /\ accepted' = {}
  BY <1>1 DEF Inv, OpInPhase, CreateOps
<1>6. OpInPhase' /\ AddedLasting' /\ AcceptedKept'
  BY <1>1, <1>4, <1>5 DEF OpInPhase, AddedLasting, AcceptedKept, CreateOps, Ops
<1> QED BY <1>1, <1>3, <1>6, NoElement DEF Inv

\* A write of the running call spares what is kept and stores what is added.
LEMMA WriteOkKeeps ==
  ASSUME TypeInv, Inv, WriteOk
  PROVE  Inv'
<1>1. /\ writes # <<>> /\ file' = Apply(file, Head(writes))
      /\ writes' = Tail(writes)
      /\ UNCHANGED <<stream, nextSegmentPos, directories, segments, op, item,
                     phase, accepted>>
  BY DEF WriteOk, client
<1>2. /\ Head(writes) \in Range(writes)
      /\ Range(writes') \subseteq Range(writes)
  BY <1>1, HeadAndTail DEF TypeInv, WritesTyped
<1>3. OpInPhase' /\ SegmentsBelowEnd'
  BY <1>1 DEF Inv, OpInPhase, SegmentsBelowEnd, Reusable, segments, SegmentEnd
<1>4. \A w \in Range(writes') : Confined(w)'
  <2>1. \A w \in Range(writes) : Confined(w)
    BY DEF Inv
  <2> QED BY <1>1, <1>2, <2>1 DEF Confined, Reusable, segments, SegmentEnd
<1>5. ASSUME NEW x, Kept(x) PROVE Kept(x)'
  <2>1. Survives(x, Head(writes))
    BY <1>2, <1>5, KeptSurvives DEF Inv
  <2>2. x \in file'
    BY <1>1, <1>5, <2>1 DEF Kept, Apply, Smash
  <2> QED BY <1>1, <1>5, <2>2 DEF Kept, Reusable, segments, SegmentEnd
<1>6. phase' = "open" => AcceptedKept'
  BY <1>1, <1>5, AcceptedKeptStep DEF Inv, directories
<1>7. \A x : Lasting(file, Range(writes), x) => Lasting(file', Range(writes'), x)
  BY <1>1, LastingStep DEF TypeInv
<1>8. AddedLasting'
  <2>1. AddedLasting
    BY DEF Inv
  <2> QED BY <1>1, <1>7, <2>1 DEF AddedLasting, directories
<1> QED BY <1>3, <1>4, <1>6, <1>8 DEF Inv

\* So does a write that throws, and the call ends.
LEMMA WriteFailsKeeps ==
  ASSUME TypeInv, Inv, WriteFails
  PROVE  Inv'
<1>1. /\ writes # <<>>
      /\ file' \in {file, Smash(file, Head(writes)), Apply(file, Head(writes))}
      /\ writes' = <<>> /\ op' = "idle"
      /\ UNCHANGED <<stream, nextSegmentPos, directories, segments, phase,
                     accepted>>
  BY DEF WriteFails
<1>2. Head(writes) \in Range(writes)
  BY <1>1, HeadAndTail DEF TypeInv, WritesTyped
<1>3. OpInPhase' /\ SegmentsBelowEnd' /\ AddedLasting'
  BY <1>1 DEF Inv, OpInPhase, SegmentsBelowEnd, Reusable, segments, SegmentEnd,
              AddedLasting, CreateOps, Ops
<1>4. ASSUME NEW x, Kept(x) PROVE Kept(x)'
  <2>1. Survives(x, Head(writes))
    BY <1>2, <1>4, KeptSurvives DEF Inv
  <2>2. x \in file'
    <3>1. x \in file
      BY <1>4 DEF Kept
    <3>2. x \in Smash(file, Head(writes)) /\ x \in Apply(file, Head(writes))
      BY <2>1, <3>1 DEF Apply, Smash
    <3> QED BY <1>1, <3>1, <3>2
  <2> QED BY <1>1, <1>4, <2>2 DEF Kept, Reusable, segments, SegmentEnd
<1>5. phase' = "open" => AcceptedKept'
  BY <1>1, <1>4, AcceptedKeptStep DEF Inv, directories
<1> QED BY <1>1, <1>3, <1>5, NoElement DEF Inv

\* A writer that is closed or destroyed has nothing left.
LEMMA ClearedKeeps ==
  ASSUME TypeInv, Inv, Closed \/ Discard
  PROVE  Inv'
<1>1. /\ Cleared /\ op' = "idle" /\ writes' = <<>>
      /\ phase' \in {"none", "closed"}
  BY NoElement DEF Closed, Discard, ReturnToClient, Done
<1>2. stream' = FALSE /\ \A s \in Reusable' : ~s.valid
  BY <1>1, NoSegmentTyped DEF Cleared, Reusable
<1> QED BY <1>1, <1>2, NoElement DEF Inv, OpInPhase, SegmentsBelowEnd,
                                     AddedLasting, CreateOps, Ops

LEMMA InvNext == TypeInv /\ Inv /\ [Next]_vars => Inv'
<1> SUFFICES ASSUME TypeInv, Inv, [Next]_vars PROVE Inv'
  OBVIOUS
<1>1. CASE UNCHANGED vars
  BY <1>1 DEF Inv, OpInPhase, SegmentsBelowEnd, Confined, AcceptedKept, Kept,
              AddedLasting, Reusable, vars, directories, segments, client
<1>2. CASE Next
  BY <1>2, CreateKeeps, CreateHeaderWrittenKeeps, MetadataReservedKeeps,
     SubBlkDirReservedKeeps, AttachmentDirReservedKeeps, AddSubBlockKeeps,
     SubBlockAddedKeeps, AddAttachmentKeeps, AttachmentAddedKeeps,
     ReplaceKeeps, MetadataWrittenKeeps, SubBlkDirFinishedKeeps,
     AttachmentDirFinishedKeeps, ClearedKeeps, WriteOkKeeps, WriteFailsKeeps
     DEF Next
<1> QED BY <1>1, <1>2

\* From the return of an add to the end of the writer, the segment of the item
\* is intact at the position of its directory entry, unless its own functions
\* cut it short.
THEOREM AcceptedStaysIntact == Spec => []AcceptedIntact
<1>1. Spec => [](TypeInv /\ Inv)
  <2>1. Init => TypeInv /\ Inv
    BY TypeInit, InvInit
  <2>2. TypeInv /\ Inv /\ [Next]_vars => (TypeInv /\ Inv)'
    BY TypeNext, InvNext
  <2> QED BY <2>1, <2>2, PTL DEF Spec
<1>2. Inv => AcceptedIntact
  <2> SUFFICES ASSUME AcceptedKept PROVE AcceptedIntact
    BY DEF Inv, AcceptedIntact
  <2>1. \A x : Kept(x) => x \in file
    BY DEF Kept
  <2>2. ASSUME NEW c \in (accepted \cap SubBlocks) \ CutShort
        PROVE  \E k \in DOMAIN sbBlkDirectory :
                 /\ sbBlkDirectory[k].id = c
                 /\ SubBlockAt(file, sbBlkDirectory[k].pos, c)
    BY <2>1 DEF AcceptedKept, SubBlockAt
  <2>3. ASSUME NEW a \in accepted \cap Attachments
        PROVE  \E k \in DOMAIN attachmentDirectory :
                 /\ attachmentDirectory[k].id = a
                 /\ AttachmentAt(file, attachmentDirectory[k].pos, a)
    BY <2>1 DEF AcceptedKept, AttachmentAt
  <2> QED BY <2>2, <2>3 DEF AcceptedIntact
<1> QED BY <1>1, <1>2, PTL

-----------------------------------------------------------------------------
(* The segments that are written again, and the metadata. *)

Apart(s, t) ==
  s.valid /\ t.valid => SegmentEnd(s) <= t.pos \/ SegmentEnd(t) <= s.pos

SegmentsApart ==
  /\ Apart(metadataSegment, subBlockDirectorySegment)
  /\ Apart(metadataSegment, attachmentDirectorySegment)
  /\ Apart(subBlockDirectorySegment, attachmentDirectorySegment)
  /\ \A s \in Reusable : s.valid => s.pos >= FileHeaderSegmentSize

\* A write changes only what its call is about.
OpConfined(w) ==
  /\ op \in {"AddSubBlock", "AddAttachment"} => w.pos >= nextSegmentPos
  /\ op = "WriteMetadata" => ConfinedTo(metadataSegment, nextSegmentPos, w)
  /\ op = "FinishSubBlkDir" =>
       ConfinedTo(subBlockDirectorySegment, nextSegmentPos, w)
  /\ op = "FinishAttachmentDir" =>
       ConfinedTo(attachmentDirectorySegment, nextSegmentPos, w)
  /\ op = "FinishHeader" => w.pos + w.len <= FileHeaderSegmentSize

\* The segment is not deleted and has the extents.
Holds(s, extents) ==
  /\ s.valid /\ ~s.deleted
  /\ \A x \in extents : x \in file /\ Within(x, s.pos, s.allocated)

\* The running call puts the extents there.
Planned(at, extents) ==
  \A x \in extents :
    Lasting(file, Range(writes), x) /\ Within(x, at.pos, at.allocated)

MetadataKept ==
  /\ phase = "creating" => meta = NoMeta
  /\ phase = "open" /\ op # "WriteMetadata" /\ meta \in Metadatas =>
       Holds(metadataSegment, MetadataExtents(metadataSegment.pos, meta))
  /\ op = "WriteMetadata" =>
       LET at == MetadataPlace(metadataSegment, item, nextSegmentPos)
       IN  Planned(at, MetadataExtents(at.pos, item))

AreasInv ==
  /\ op = "idle" => writes = <<>>
  /\ SegmentsApart
  /\ \A w \in Range(writes) : OpConfined(w)

-----------------------------------------------------------------------------
(* The directories. *)

SubBlockKept(e) ==
  \/ e.id \in doubtful
  \/ /\ e.id \in accepted
     /\ e.id \in CutShort \/ \A x \in SubBlockExtents(e.pos, e.id) : Kept(x)

AttachmentKept(e) ==
  \/ e.id \in doubtful
  \/ e.id \in accepted /\ \A x \in AttachmentExtents(e.pos, e.id) : Kept(x)

\* Every entry of the directories is of an item that is kept or doubtful, or
\* that is being added.
EntriesKept ==
  /\ \A k \in DOMAIN sbBlkDirectory :
       \/ SubBlockKept(sbBlkDirectory[k])
       \/ /\ op = "AddSubBlock"
          /\ sbBlkDirectory[k] = [id |-> item, pos |-> nextSegmentPos]
  /\ \A k \in DOMAIN attachmentDirectory :
       \/ AttachmentKept(attachmentDirectory[k])
       \/ /\ op = "AddAttachment"
          /\ attachmentDirectory[k] = [id |-> item, pos |-> nextSegmentPos]

\* The items that the extent names, if it is of a directory, are kept.
NamesKept(x) ==
  /\ x.what[1] = "entries" =>
       \A k \in DOMAIN x.what[2] : SubBlockKept(x.what[2][k])
  /\ x.what[1] = "entryA1" => AttachmentKept(x.what[2])

\* They are intact.
NamesIntact(x) ==
  /\ x.what[1] = "entries" =>
       \A k \in DOMAIN x.what[2] :
         LET e == x.what[2][k]
         IN  \/ e.id \in doubtful
             \/ /\ e.id \in accepted
                /\ e.id \in CutShort \/ SubBlockAt(file, e.pos, e.id)
  /\ x.what[1] = "entryA1" =>
       LET e == x.what[2]
       IN  \/ e.id \in doubtful
           \/ e.id \in accepted /\ AttachmentAt(file, e.pos, e.id)

\* The extent makes no directory readable.
NoDirectory(x) == NamesNoItem(x) /\ x.what # <<"magic", "ZISRAWDIRECTORY">>

Stored == file \cup UNION {w.holds : w \in Range(writes)}

DirectoriesInv ==
  /\ phase = "creating" =>
       /\ sbBlkDirectory = <<>> /\ attachmentDirectory = <<>>
       /\ \A x \in Stored : NoDirectory(x)
  /\ ~stream => sbBlkDirectory = <<>> /\ attachmentDirectory = <<>>
  /\ phase = "open" => EntriesKept /\ \A x \in Stored : NamesKept(x)
  /\ phase \in {"none", "closed"} => \A x \in file : NamesIntact(x)

-----------------------------------------------------------------------------
(* Close. *)

HeaderOf(f, sbDir, md, attDir) ==
  /\ Magic(0, "ZISRAWFILE") \in f
  /\ HeaderField(f, "SubBlockDirectoryPosition") = {sbDir}
  /\ HeaderField(f, "MetadataPosition") = {md}
  /\ HeaderField(f, "AttachmentDirectoryPosition") = {attDir}

\* The sub-block directory is in its segment.
DirectoryWritten ==
  Holds(subBlockDirectorySegment,
        DirectoryExtents(subBlockDirectorySegment.pos, sbBlkDirectory))

AttachmentDirWritten ==
  attachmentDirectory # <<>> =>
    Holds(attachmentDirectorySegment,
          AttachmentDirExtents(attachmentDirectorySegment.pos,
                               attachmentDirectory))

CloseInv ==
  /\ op = "FinishSubBlkDir" =>
       LET at == SubBlkDirPlace(subBlockDirectorySegment, sbBlkDirectory,
                                nextSegmentPos)
       IN  Planned(at, DirectoryExtents(at.pos, sbBlkDirectory))
  /\ op = "FinishAttachmentDir" =>
       /\ DirectoryWritten
       /\ attachmentDirectory # <<>> =>
            LET at == AttachmentDirPlace(attachmentDirectorySegment,
                                         attachmentDirectory, nextSegmentPos)
            IN  Planned(at, AttachmentDirExtents(at.pos, attachmentDirectory))
  /\ op = "FinishHeader" =>
       LET sbDir == HeaderPosition(subBlockDirectorySegment)
           md == HeaderPosition(metadataSegment)
           attDir == HeaderPosition(attachmentDirectorySegment)
       IN  /\ DirectoryWritten /\ AttachmentDirWritten
           /\ IF writes = <<>>
              THEN HeaderOf(file, sbDir, md, attDir)
              ELSE writes = WriteFileHeader(sbDir, md, attDir)

\* No segment is there that the file header would lead to in vain; the
\* attachment directory has no more room than its entries need.
NothingToSpare ==
  /\ phase \in {"creating", "open"} /\ meta = NoMeta =>
       ~metadataSegment.valid \/ metadataSegment.deleted
  /\ attachmentDirectory = <<>> => ~attachmentDirectorySegment.valid
  /\ attachmentDirectorySegment.valid =>
       attachmentDirectorySegment.allocated
         <= AttachmentDirUsed(Len(attachmentDirectory))

TidyInv == TidyFile(file) /\ \A w \in Range(writes) : Tidy(w)

-----------------------------------------------------------------------------
(* How segments and files change. *)

\* A segment stays, is put at the end of the file, or is written again.
SegmentStep(s, t) ==
  \/ t = s
  \/ /\ t.valid
     /\ \/ t.pos \in Nat /\ t.pos >= nextSegmentPos
        \/ s.valid /\ t.pos = s.pos /\ t.allocated = s.allocated

LEMMA ReservedStep ==
  ASSUME nextSegmentPos \in Nat, NEW s, NEW segment, NEW allocated,
         s # NotReserved => allocated \in Nat
  PROVE  /\ SegmentStep(segment, Reserved(s, segment, allocated))
         /\ AfterReservation(s, allocated) \in Nat
         /\ AfterReservation(s, allocated) >= nextSegmentPos
BY DEF SegmentStep, Reserved, SegmentAt, AfterReservation, SegmentHeaderSize

LEMMA MovedStep ==
  ASSUME TypeInv, Inv, NEW s \in Reusable, NEW at,
         Placed(s, nextSegmentPos, at)
  PROVE  /\ SegmentStep(s, SegmentAt(at.pos, at.allocated, FALSE))
         /\ Advanced(at) \in Nat /\ Advanced(at) >= nextSegmentPos
<1>1. s \in Segments /\ nextSegmentPos \in Nat /\ SegmentsBelowEnd
  BY DEF TypeInv, TypeOK, Reusable, Inv
<1>2. SegmentAt(at.pos, at.allocated, FALSE).valid
  BY DEF SegmentAt
<1> QED BY <1>1, <1>2, SegmentMoved DEF SegmentStep

\* While the writer has a stream, segments only move to the append position,
\* one at a time, and the append position only grows.
LEMMA SegmentsNext ==
  ASSUME TypeInv, Inv, Next, stream, stream', op # "Create"
  PROVE  /\ nextSegmentPos' \in Nat /\ nextSegmentPos' >= nextSegmentPos
         /\ SegmentStep(metadataSegment, metadataSegment')
         /\ SegmentStep(subBlockDirectorySegment, subBlockDirectorySegment')
         /\ SegmentStep(attachmentDirectorySegment, attachmentDirectorySegment')
         /\ \/ UNCHANGED <<metadataSegment, subBlockDirectorySegment>>
            \/ UNCHANGED <<metadataSegment, attachmentDirectorySegment>>
            \/ UNCHANGED <<subBlockDirectorySegment,
                           attachmentDirectorySegment>>
<1>1. /\ nextSegmentPos \in Nat
      /\ metadataSegment \in Segments
      /\ subBlockDirectorySegment \in Segments
      /\ attachmentDirectorySegment \in Segments
      /\ Len(sbBlkDirectory) \in Nat /\ Len(attachmentDirectory) \in Nat
      /\ info \in WriterInfos \cup {DefaultInfo}
      /\ op = "WriteMetadata" => item \in Metadatas
  BY LenProperties DEF TypeInv, TypeOK
<1>2. CASE UNCHANGED <<segments, nextSegmentPos>>
  BY <1>1, <1>2 DEF segments, SegmentStep
<1>3. CASE MetadataReserved
  <2>1. info.metadata # NotReserved => MetadataReservation \in Nat
    BY <1>1, ReservationSizes
  <2> HIDE DEF MetadataReservation
  <2> QED BY <1>1, <1>3, <2>1, ReservedStep DEF MetadataReserved, SegmentStep
<1>4. CASE SubBlkDirReserved
  <2>1. info.subBlkDir # NotReserved => SubBlkDirReservation \in Nat
    BY <1>1, ReservationSizes
  <2> QED BY <1>1, <1>4, <2>1, ReservedStep DEF SubBlkDirReserved, SegmentStep
<1>5. CASE AttachmentDirReserved
  <2>1. info.attachmentDir # NotReserved => AttachmentDirReservation \in Nat
    BY <1>1, ReservationSizes
  <2> QED BY <1>1, <1>5, <2>1, ReservedStep
          DEF AttachmentDirReserved, SegmentStep
<1>6. CASE MetadataWritten
  <2> DEFINE at == MetadataPlace(metadataSegment, item, nextSegmentPos)
  <2>1. Placed(metadataSegment, nextSegmentPos, at)
    BY <1>1, <1>6, Places DEF MetadataWritten, Done
  <2>2. /\ metadataSegment' = SegmentAt(at.pos, at.allocated, FALSE)
        /\ nextSegmentPos' = Advanced(at)
        /\ UNCHANGED <<subBlockDirectorySegment, attachmentDirectorySegment>>
    BY <1>6 DEF MetadataWritten
  <2> HIDE DEF at
  <2> QED BY <2>1, <2>2, MovedStep DEF Reusable, SegmentStep
<1>7. CASE SubBlkDirFinished
  <2> DEFINE at == SubBlkDirPlace(subBlockDirectorySegment, sbBlkDirectory,
                                  nextSegmentPos)
  <2>1. Placed(subBlockDirectorySegment, nextSegmentPos, at)
    BY <1>1, Places
  <2>2. /\ subBlockDirectorySegment' = SegmentAt(at.pos, at.allocated, FALSE)
        /\ nextSegmentPos' = Advanced(at)
        /\ UNCHANGED <<metadataSegment, attachmentDirectorySegment>>
    BY <1>7 DEF SubBlkDirFinished
  <2> HIDE DEF at
  <2> QED BY <2>1, <2>2, MovedStep DEF Reusable, SegmentStep
<1>8. CASE AttachmentDirFinished
  <2> DEFINE at == AttachmentDirPlace(attachmentDirectorySegment,
                                      attachmentDirectory, nextSegmentPos)
  <2>1. Placed(attachmentDirectorySegment, nextSegmentPos, at)
    BY <1>1, Places
  <2>2. /\ \/ UNCHANGED <<attachmentDirectorySegment, nextSegmentPos>>
           \/ /\ attachmentDirectorySegment' =
                   SegmentAt(at.pos, at.allocated, FALSE)
              /\ nextSegmentPos' = Advanced(at)
        /\ UNCHANGED <<metadataSegment, subBlockDirectorySegment>>
    BY <1>8 DEF AttachmentDirFinished
  <2> HIDE DEF at
  <2>3. /\ SegmentStep(attachmentDirectorySegment,
                       SegmentAt(at.pos, at.allocated, FALSE))
        /\ Advanced(at) \in Nat /\ Advanced(at) >= nextSegmentPos
    BY <2>1, MovedStep DEF Reusable
  <2>4. CASE UNCHANGED <<attachmentDirectorySegment, nextSegmentPos>>
    BY <1>1, <2>2, <2>4 DEF SegmentStep
  <2>5. CASE /\ attachmentDirectorySegment' =
                  SegmentAt(at.pos, at.allocated, FALSE)
             /\ nextSegmentPos' = Advanced(at)
    <3>1. SegmentStep(attachmentDirectorySegment, attachmentDirectorySegment')
      BY <2>3, <2>5
    <3> QED BY <2>2, <2>3, <2>5, <3>1 DEF SegmentStep
  <2> QED BY <2>2, <2>4, <2>5
<1>9. CASE SubBlockAdded \/ AttachmentAdded
  <2> DEFINE n == SubBlockBytes(item, SubBlockAllocated(item))
             m == AttachmentBytes(item, AttachmentAllocated(item))
  <2>1. /\ op = "AddSubBlock" => item \in SubBlocks
        /\ op = "AddAttachment" => item \in Attachments
    BY DEF TypeInv, TypeOK
  <2>2. /\ op = "AddSubBlock" => n \in Nat
        /\ op = "AddAttachment" => m \in Nat
    BY <1>1, <2>1, SubBlockWrites, AttachmentWrites
  <2>3. /\ UNCHANGED segments
        /\ \/ op = "AddSubBlock" /\ nextSegmentPos' = nextSegmentPos + n
           \/ op = "AddAttachment" /\ nextSegmentPos' = nextSegmentPos + m
    BY <1>9 DEF SubBlockAdded, AttachmentAdded, Done
  <2> HIDE DEF n, m
  <2>4. nextSegmentPos' \in Nat /\ nextSegmentPos' >= nextSegmentPos
    BY <1>1, <2>2, <2>3
  <2> QED BY <2>3, <2>4 DEF segments, SegmentStep
<1>10. \/ UNCHANGED <<segments, nextSegmentPos>>
       \/ MetadataReserved \/ SubBlkDirReserved \/ AttachmentDirReserved
       \/ MetadataWritten \/ SubBlkDirFinished \/ AttachmentDirFinished
       \/ SubBlockAdded \/ AttachmentAdded
  BY DEF Next, Create, CreateHeaderWritten, SyncAddSubBlock, SyncAddAttachment,
         SyncWriteMetadata, Close, Closed, Cleared, Discard, WriteOk,
         WriteFails, Done
<1> QED BY <1>2, <1>3, <1>4, <1>5, <1>6, <1>7, <1>8, <1>9, <1>10

\* The file changes by the first of the planned writes only.
LEMMA FileNext ==
  ASSUME Next
  PROVE  \/ file' = file
         \/ (\E i \in WriterInfos : Create(i)) /\ file' = {}
         \/ /\ writes # <<>>
            /\ file' \in {file, Smash(file, Head(writes)),
                          Apply(file, Head(writes))}
            /\ \/ WriteOk /\ file' = Apply(file, Head(writes))
               \/ WriteFails
BY DEF Next, Create, CreateHeaderWritten, MetadataReserved, SubBlkDirReserved,
       AttachmentDirReserved, SyncAddSubBlock, SubBlockAdded,
       SyncAddAttachment, AttachmentAdded, SyncWriteMetadata, MetadataWritten,
       Close, SubBlkDirFinished, AttachmentDirFinished, Closed, WriteOk,
       WriteFails, Discard

LEMMA SurvivorStays ==
  ASSUME NEW x \in file, NEW w, Survives(x, w),
         file' \in {file, Smash(file, w), Apply(file, w)}
  PROVE  x \in file'
BY DEF Smash, Apply

\* What is kept stays kept while the document is open.
LEMMA KeptNext ==
  ASSUME TypeInv, Inv, Next, phase = "open", stream', NEW x, Kept(x)
  PROVE  Kept(x)'
<1>1. stream /\ op # "Create" /\ \A w \in Range(writes) : Confined(w)
  BY DEF Inv, OpInPhase, CreateOps
<1>2. x \in file'
  <2>1. ~ \E i \in WriterInfos : Create(i)
    BY <1>1 DEF Create
  <2>2. CASE file' = file
    BY <2>2 DEF Kept
  <2>3. CASE /\ writes # <<>>
             /\ file' \in {file, Smash(file, Head(writes)),
                           Apply(file, Head(writes))}
    <3>1. Head(writes) \in Range(writes)
      BY <2>3, HeadAndTail DEF TypeInv, WritesTyped
    <3>2. Survives(x, Head(writes))
      BY <1>1, <3>1, KeptSurvives
    <3> QED BY <2>3, <3>2, SurvivorStays DEF Kept
  <2> QED BY <2>1, <2>2, <2>3, FileNext
<1>3. /\ nextSegmentPos' \in Nat /\ nextSegmentPos' >= nextSegmentPos
      /\ \A s \in Reusable' : s.valid =>
           \/ s.pos \in Nat /\ s.pos >= nextSegmentPos
           \/ \E t \in Reusable : /\ t.valid
                                  /\ s.pos = t.pos /\ s.allocated = t.allocated
  BY <1>1, SegmentsNext DEF Reusable, SegmentStep
<1> QED BY <1>2, <1>3, KeptStep

-----------------------------------------------------------------------------
(* Every write stays in the area of its call. *)

LEMMA ApartStep ==
  ASSUME nextSegmentPos \in Nat, NEW s \in Segments, NEW t \in Segments,
         NEW u \in Segments, Apart(s, t), SegmentStep(s, u),
         t.valid => SegmentEnd(t) <= nextSegmentPos
  PROVE  Apart(u, t) /\ Apart(t, u)
<1>1. /\ SegmentEnd(s) \in Nat /\ SegmentEnd(t) \in Nat /\ SegmentEnd(u) \in Nat
      /\ s.pos \in Nat /\ t.pos \in Nat /\ u.pos \in Nat
  BY DEF SegmentEnd, SegmentHeaderSize, Segments
<1>2. CASE u = s
  BY <1>2 DEF Apart
<1>3. CASE u.pos >= nextSegmentPos
  BY <1>1, <1>3 DEF Apart
<1>4. CASE s.valid /\ u.pos = s.pos /\ u.allocated = s.allocated
  <2>1. SegmentEnd(u) = SegmentEnd(s)
    BY <1>4 DEF SegmentEnd
  <2> QED BY <1>4, <2>1 DEF Apart
<1> QED BY <1>2, <1>3, <1>4 DEF SegmentStep

\* Beginning a call moves no segment.
LEMMA SegmentsFixed ==
  ASSUME Next, stream', op \in {"idle", "Create"}
  PROVE  UNCHANGED segments
BY DEF Next, Create, SyncAddSubBlock, SyncAddAttachment, SyncWriteMetadata,
       Close, Discard, Cleared, Done, CreateHeaderWritten, MetadataReserved,
       SubBlkDirReserved, AttachmentDirReserved, SubBlockAdded,
       AttachmentAdded, MetadataWritten, SubBlkDirFinished,
       AttachmentDirFinished, Closed, WriteOk, WriteFails, segments

LEMMA SegmentsApartNext ==
  ASSUME TypeInv, TypeInv', Inv, Inv', Next, SegmentsApart
  PROVE  SegmentsApart'
<1>1. /\ nextSegmentPos \in Nat
      /\ metadataSegment \in Segments /\ metadataSegment' \in Segments
      /\ subBlockDirectorySegment \in Segments
      /\ subBlockDirectorySegment' \in Segments
      /\ attachmentDirectorySegment \in Segments
      /\ attachmentDirectorySegment' \in Segments
  BY DEF TypeInv, TypeOK
<1>2. CASE \A s \in Reusable' : ~s.valid
  BY <1>2 DEF SegmentsApart, Apart, Reusable
<1>3. CASE /\ stream /\ stream' /\ op # "Create"
  <2>1. /\ SegmentStep(metadataSegment, metadataSegment')
        /\ SegmentStep(subBlockDirectorySegment, subBlockDirectorySegment')
        /\ SegmentStep(attachmentDirectorySegment, attachmentDirectorySegment')
        /\ \/ UNCHANGED <<metadataSegment, subBlockDirectorySegment>>
           \/ UNCHANGED <<metadataSegment, attachmentDirectorySegment>>
           \/ UNCHANGED <<subBlockDirectorySegment,
                          attachmentDirectorySegment>>
    BY <1>3, SegmentsNext
  <2>2. \A s \in Reusable : s.valid => SegmentEnd(s) <= nextSegmentPos
    BY DEF Inv, SegmentsBelowEnd
  <2>3. /\ Apart(metadataSegment, subBlockDirectorySegment)
        /\ Apart(metadataSegment, attachmentDirectorySegment)
        /\ Apart(subBlockDirectorySegment, attachmentDirectorySegment)
        /\ Apart(subBlockDirectorySegment, metadataSegment)
        /\ Apart(attachmentDirectorySegment, metadataSegment)
        /\ Apart(attachmentDirectorySegment, subBlockDirectorySegment)
    BY DEF SegmentsApart, Apart
  <2>4. /\ Apart(metadataSegment, subBlockDirectorySegment)'
        /\ Apart(metadataSegment, attachmentDirectorySegment)'
        /\ Apart(subBlockDirectorySegment, attachmentDirectorySegment)'
    <3>1. CASE UNCHANGED <<metadataSegment, subBlockDirectorySegment>>
      <4>1. /\ Apart(metadataSegment, attachmentDirectorySegment')
            /\ Apart(subBlockDirectorySegment, attachmentDirectorySegment')
        BY <1>1, <2>1, <2>2, <2>3, ApartStep DEF Reusable
      <4> QED BY <2>3, <3>1, <4>1
    <3>2. CASE UNCHANGED <<metadataSegment, attachmentDirectorySegment>>
      <4>1. /\ Apart(metadataSegment, subBlockDirectorySegment')
            /\ Apart(subBlockDirectorySegment', attachmentDirectorySegment)
        BY <1>1, <2>1, <2>2, <2>3, ApartStep DEF Reusable
      <4> QED BY <2>3, <3>2, <4>1
    <3>3. CASE UNCHANGED <<subBlockDirectorySegment,
                           attachmentDirectorySegment>>
      <4>1. /\ Apart(metadataSegment', subBlockDirectorySegment)
            /\ Apart(metadataSegment', attachmentDirectorySegment)
        BY <1>1, <2>1, <2>2, <2>3, ApartStep DEF Reusable
      <4> QED BY <2>3, <3>3, <4>1
    <3> QED BY <2>1, <3>1, <3>2, <3>3
  <2>5. ASSUME NEW s \in Reusable', s.valid
        PROVE  s.pos >= FileHeaderSegmentSize
    <3>1. PICK t \in Reusable : SegmentStep(t, s)
      BY <2>1 DEF Reusable
    <3>2. t.valid => t.pos >= FileHeaderSegmentSize
      BY DEF SegmentsApart
    <3>3. CASE s \in Reusable
      BY <2>5, <3>3 DEF SegmentsApart
    <3>4. CASE s \notin Reusable
      <4>1. op # "idle"
        BY <1>3, <2>5, <3>4, SegmentsFixed DEF segments, Reusable
      <4>2. nextSegmentPos >= FileHeaderSegmentSize
        BY <1>3, <4>1 DEF Inv, OpInPhase, CreateOps, Ops, TypeInv, TypeOK
      <4> QED BY <1>1, <2>5, <3>1, <3>2, <4>2
              DEF SegmentStep, FileHeaderSegmentSize
    <3> QED BY <3>3, <3>4
  <2> QED BY <2>4, <2>5 DEF SegmentsApart
<1>4. \/ \A s \in Reusable' : ~s.valid
      \/ stream /\ stream' /\ op # "Create"
  <2>1. CASE ~stream'
    BY <2>1 DEF Inv, OpInPhase
  <2>2. CASE (~stream \/ op = "Create") /\ stream'
    <3>1. UNCHANGED segments
      BY <2>2, SegmentsFixed DEF Inv, OpInPhase, TypeInv, TypeOK
    <3> QED BY <2>2, <3>1 DEF Inv, OpInPhase, segments, Reusable
  <2> QED BY <2>1, <2>2
<1> QED BY <1>2, <1>3, <1>4

LEMMA OpConfinedNext ==
  ASSUME TypeInv, Inv, AreasInv, Next
  PROVE  /\ op' = "idle" => writes' = <<>>
         /\ \A w \in Range(writes') : OpConfined(w)'
<1>1. /\ nextSegmentPos \in Nat /\ nextSegmentPos' \in Nat
      /\ metadataSegment \in Segments
      /\ subBlockDirectorySegment \in Segments
      /\ attachmentDirectorySegment \in Segments
      /\ Len(sbBlkDirectory) \in Nat /\ Len(attachmentDirectory) \in Nat
      /\ DOMAIN attachmentDirectory = 1..Len(attachmentDirectory)
  BY LenProperties, TypeNext DEF TypeInv, TypeOK
<1>2. CASE op' \in CreateOps
  BY <1>2 DEF CreateOps, OpConfined
<1>3. CASE op' = "idle" /\ writes' = <<>>
  BY <1>3, NoElement
<1>4. ASSUME NEW c \in SubBlocks, SyncAddSubBlock(c)
      PROVE  op' # "idle" /\ \A w \in Range(writes') : OpConfined(w)'
  <2>1. /\ op' = "AddSubBlock" /\ nextSegmentPos' = nextSegmentPos
        /\ writes' = WriteSubBlock(nextSegmentPos, c, SubBlockAllocated(c))
    BY <1>4 DEF SyncAddSubBlock, Begin
  <2>2. \A w \in Range(writes') : w.pos >= nextSegmentPos
    BY <1>1, <2>1, SubBlockWrites
  <2> QED BY <2>1, <2>2 DEF OpConfined
<1>5. ASSUME NEW a \in Attachments, SyncAddAttachment(a)
      PROVE  op' # "idle" /\ \A w \in Range(writes') : OpConfined(w)'
  <2>1. /\ op' = "AddAttachment" /\ nextSegmentPos' = nextSegmentPos
        /\ writes' = WriteAttachment(nextSegmentPos, a, AttachmentAllocated(a))
    BY <1>5 DEF SyncAddAttachment, Begin
  <2>2. \A w \in Range(writes') : w.pos >= nextSegmentPos
    BY <1>1, <2>1, AttachmentWrites
  <2> QED BY <2>1, <2>2 DEF OpConfined
<1>6. ASSUME NEW m \in Metadatas, SyncWriteMetadata(m)
      PROVE  op' # "idle" /\ \A w \in Range(writes') : OpConfined(w)'
  <2>1. /\ op' = "WriteMetadata"
        /\ UNCHANGED <<nextSegmentPos, metadataSegment>>
        /\ writes' = WriteMetadata(metadataSegment, m, nextSegmentPos)
    BY <1>6 DEF SyncWriteMetadata, Begin, segments
  <2>2. \A w \in Range(writes') : ConfinedTo(metadataSegment, nextSegmentPos, w)
    BY <1>1, <2>1, MetadataWrites
  <2> QED BY <2>1, <2>2 DEF OpConfined
<1>7. CASE Close
  <2>1. /\ op' = "FinishSubBlkDir"
        /\ UNCHANGED <<nextSegmentPos, subBlockDirectorySegment>>
        /\ writes' = WriteSubBlkDirectory(subBlockDirectorySegment,
                                          sbBlkDirectory, nextSegmentPos)
    BY <1>7 DEF Close, Begin, segments
  <2>2. \A w \in Range(writes') :
          ConfinedTo(subBlockDirectorySegment, nextSegmentPos, w)
    BY <1>1, <2>1, SubBlkDirWrites
  <2> QED BY <2>1, <2>2 DEF OpConfined
<1>8. CASE SubBlkDirFinished
  <2>1. /\ op' = "FinishAttachmentDir"
        /\ UNCHANGED attachmentDirectorySegment
        /\ \/ writes' = <<>>
           \/ writes' = WriteAttachmentDirectory(attachmentDirectorySegment,
                                                 attachmentDirectory,
                                                 nextSegmentPos')
    BY <1>8 DEF SubBlkDirFinished, Begin
  <2>2. \A w \in Range(writes') :
          ConfinedTo(attachmentDirectorySegment, nextSegmentPos', w)
    BY <1>1, <2>1, AttachmentDirWrites, NoElement
  <2> QED BY <2>1, <2>2 DEF OpConfined
<1>9. CASE AttachmentDirFinished
  <2>1. /\ op' = "FinishHeader"
        /\ \E s, m, a : writes' = WriteFileHeader(s, m, a)
    BY <1>9 DEF AttachmentDirFinished, Begin
  <2>2. \A w \in Range(writes') : w.pos = 0 /\ w.len = FileHeaderSegmentSize
    BY <2>1, HeaderWrites
  <2> QED BY <2>1, <2>2 DEF OpConfined, FileHeaderSegmentSize
<1>10. CASE WriteOk /\ op # "idle"
  <2>1. /\ Range(writes') \subseteq Range(writes)
        /\ UNCHANGED <<op, nextSegmentPos, segments>>
    BY <1>10, HeadAndTail DEF WriteOk, TypeInv, WritesTyped
  <2> QED BY <1>10, <2>1 DEF AreasInv, OpConfined, segments
<1>11. CASE WriteOk /\ op = "idle"
  BY <1>11 DEF WriteOk, AreasInv
<1>12. \/ op' \in CreateOps
       \/ op' = "idle" /\ writes' = <<>>
       \/ \E c \in SubBlocks : SyncAddSubBlock(c)
       \/ \E a \in Attachments : SyncAddAttachment(a)
       \/ \E m \in Metadatas : SyncWriteMetadata(m)
       \/ Close \/ SubBlkDirFinished \/ AttachmentDirFinished \/ WriteOk
  BY DEF Next, Create, CreateHeaderWritten, MetadataReserved, SubBlkDirReserved,
         AttachmentDirReserved, SubBlockAdded, AttachmentAdded,
         MetadataWritten, Closed, WriteFails, Discard, Begin, ReturnToClient,
         Done, CreateOps
<1>13. op' \in CreateOps => op' # "idle"
  BY DEF CreateOps
<1> QED BY <1>2, <1>3, <1>4, <1>5, <1>6, <1>7, <1>8, <1>9, <1>10, <1>11,
           <1>12, <1>13

LEMMA AreasNext ==
  TypeInv /\ Inv /\ AreasInv /\ [Next]_vars => AreasInv'
<1> SUFFICES ASSUME TypeInv, Inv, AreasInv, [Next]_vars PROVE AreasInv'
  OBVIOUS
<1>1. CASE UNCHANGED vars
  BY <1>1 DEF AreasInv, SegmentsApart, OpConfined, Reusable, vars, segments
<1>2. CASE Next
  BY <1>2, TypeNext, InvNext, SegmentsApartNext, OpConfinedNext DEF AreasInv
<1> QED BY <1>1, <1>2

LEMMA AreasInit == Init => AreasInv
<1> SUFFICES ASSUME Init PROVE AreasInv
  OBVIOUS
<1>1. Range(writes) = {} /\ writes = <<>>
  BY NoElement DEF Init
<1>2. /\ ~metadataSegment.valid /\ ~subBlockDirectorySegment.valid
      /\ ~attachmentDirectorySegment.valid
  BY NoSegmentTyped DEF Init
<1> QED BY <1>1, <1>2 DEF AreasInv, SegmentsApart, Apart, Reusable

\* While the document is open, a segment is written only by the call for it.
LEMMA HeldSurvives ==
  ASSUME TypeInv, Inv, AreasInv, phase = "open", NEW w \in Range(writes),
         NEW s, s.valid, NEW x, Within(x, s.pos, s.allocated),
         \/ s = metadataSegment /\ op # "WriteMetadata"
         \/ s = subBlockDirectorySegment /\ op # "FinishSubBlkDir"
         \/ s = attachmentDirectorySegment /\ op # "FinishAttachmentDir"
  PROVE  Survives(x, w)
<1>1. /\ s \in Segments /\ s \in Reusable /\ nextSegmentPos \in Nat
      /\ metadataSegment \in Segments
      /\ subBlockDirectorySegment \in Segments
      /\ attachmentDirectorySegment \in Segments
      /\ w.pos \in Nat /\ w.len \in Nat
  BY DEF TypeInv, TypeOK, Reusable, WritesTyped, IsWrite
<1>2. /\ SegmentEnd(s) <= nextSegmentPos /\ SegmentEnd(s) \in Nat
      /\ s.pos \in Nat /\ s.pos >= FileHeaderSegmentSize
      /\ x.lo \in Nat /\ x.hi \in Nat /\ s.pos <= x.lo /\ x.hi <= SegmentEnd(s)
  BY <1>1 DEF Inv, SegmentsBelowEnd, AreasInv, SegmentsApart, Within,
              SegmentEnd, SegmentHeaderSize, Segments
<1>3. CASE w.pos >= nextSegmentPos
  BY <1>1, <1>2, <1>3 DEF Survives
<1>4. CASE w.pos + w.len <= FileHeaderSegmentSize
  BY <1>1, <1>2, <1>4 DEF Survives, FileHeaderSegmentSize
<1>5. ASSUME NEW t, t \in Segments, t.valid, w.pos >= t.pos,
             w.pos + w.len <= SegmentEnd(t),
             Apart(s, t) \/ Apart(t, s)
      PROVE  Survives(x, w)
  <2>1. SegmentEnd(s) <= t.pos \/ SegmentEnd(t) <= s.pos
    BY <1>5 DEF Apart
  <2>2. t.pos \in Nat /\ SegmentEnd(t) \in Nat /\ s.pos \in Nat
    BY <1>1, <1>5 DEF Segments, SegmentEnd, SegmentHeaderSize
  <2> QED BY <1>1, <1>2, <1>5, <2>1, <2>2 DEF Survives
<1>6. op \in {"AddSubBlock", "AddAttachment", "WriteMetadata",
              "FinishSubBlkDir", "FinishAttachmentDir", "FinishHeader"}
  BY NoElement DEF Inv, OpInPhase, AreasInv, TypeInv, TypeOK, Ops, CreateOps
<1>7. OpConfined(w)
  BY DEF AreasInv
<1>8. SegmentsApart
  BY DEF AreasInv
<1>9. CASE op \in {"AddSubBlock", "AddAttachment"}
  BY <1>3, <1>7, <1>9 DEF OpConfined
<1>10. CASE op = "FinishHeader"
  BY <1>4, <1>7, <1>10 DEF OpConfined
<1>11. CASE op = "WriteMetadata"
  <2>1. ConfinedTo(metadataSegment, nextSegmentPos, w)
    BY <1>7, <1>11 DEF OpConfined
  <2>2. Apart(s, metadataSegment) \/ Apart(metadataSegment, s)
    BY <1>8, <1>11 DEF SegmentsApart
  <2> QED BY <1>1, <1>3, <1>5, <2>1, <2>2 DEF ConfinedTo
<1>12. CASE op = "FinishSubBlkDir"
  <2>1. ConfinedTo(subBlockDirectorySegment, nextSegmentPos, w)
    BY <1>7, <1>12 DEF OpConfined
  <2>2. \/ Apart(s, subBlockDirectorySegment)
        \/ Apart(subBlockDirectorySegment, s)
    BY <1>8, <1>12 DEF SegmentsApart
  <2> QED BY <1>1, <1>3, <1>5, <2>1, <2>2 DEF ConfinedTo
<1>13. CASE op = "FinishAttachmentDir"
  <2>1. ConfinedTo(attachmentDirectorySegment, nextSegmentPos, w)
    BY <1>7, <1>13 DEF OpConfined
  <2>2. \/ Apart(s, attachmentDirectorySegment)
        \/ Apart(attachmentDirectorySegment, s)
    BY <1>8, <1>13 DEF SegmentsApart
  <2> QED BY <1>1, <1>3, <1>5, <2>1, <2>2 DEF ConfinedTo
<1> QED BY <1>6, <1>9, <1>10, <1>11, <1>12, <1>13

\* What such a segment holds stays there.
LEMMA HoldsNext ==
  ASSUME TypeInv, Inv, AreasInv, Next, phase = "open", NEW s, NEW extents,
         Holds(s, extents),
         \/ s = metadataSegment /\ op # "WriteMetadata"
         \/ s = subBlockDirectorySegment /\ op # "FinishSubBlkDir"
         \/ s = attachmentDirectorySegment /\ op # "FinishAttachmentDir"
  PROVE  \A x \in extents : x \in file' /\ Within(x, s.pos, s.allocated)
<1> SUFFICES ASSUME NEW x \in extents
             PROVE  x \in file' /\ Within(x, s.pos, s.allocated)
  OBVIOUS
<1>1. s.valid /\ x \in file /\ Within(x, s.pos, s.allocated)
  BY DEF Holds
<1>2. ~ \E i \in WriterInfos : Create(i)
  BY DEF Create, Inv, OpInPhase
<1>3. CASE file' = file
  BY <1>1, <1>3
<1>4. CASE /\ writes # <<>>
           /\ file' \in {file, Smash(file, Head(writes)),
                         Apply(file, Head(writes))}
  <2>1. Head(writes) \in Range(writes)
    BY <1>4, HeadAndTail DEF TypeInv, WritesTyped
  <2>2. Survives(x, Head(writes))
    BY <1>1, <2>1, HeldSurvives
  <2> QED BY <1>1, <1>4, <2>2, SurvivorStays
<1> QED BY <1>2, <1>3, <1>4, FileNext

\* What a call has planned is there when all its writes are made.
LEMMA PlannedDone ==
  ASSUME NEW at, NEW extents, Planned(at, extents), writes = <<>>
  PROVE  \A x \in extents : x \in file /\ Within(x, at.pos, at.allocated)
BY NoElement, LastingDone DEF Planned

LEMMA PlannedStep ==
  ASSUME TypeInv, WriteOk, NEW at, NEW extents, Planned(at, extents)
  PROVE  \A x \in extents :
           /\ Lasting(file', Range(writes'), x)
           /\ Within(x, at.pos, at.allocated)
BY LastingStep DEF TypeInv, WriteOk, Planned

-----------------------------------------------------------------------------
(* The metadata. *)

\* Metadata and its segment change only by the call that writes metadata.
LEMMA MetadataFixed ==
  ASSUME Next, phase = "open", phase' = "open", op # "WriteMetadata",
         TypeInv, Inv
  PROVE  UNCHANGED <<metadataSegment, meta>>
<1>1. op \notin CreateOps /\ stream
  BY DEF Inv, OpInPhase
<1> QED BY <1>1 DEF Next, Create, SyncAddSubBlock, SyncAddAttachment,
       SyncWriteMetadata, Close, Discard, Cleared, Done, CreateHeaderWritten,
       MetadataReserved, SubBlkDirReserved, AttachmentDirReserved,
       SubBlockAdded, AttachmentAdded, MetadataWritten, SubBlkDirFinished,
       AttachmentDirFinished, Closed, WriteOk, WriteFails, segments, client,
       CreateOps

LEMMA MetadataWrittenHolds ==
  ASSUME TypeInv, MetadataKept, MetadataWritten
  PROVE  Holds(metadataSegment,
               MetadataExtents(metadataSegment.pos, meta))'
<1> DEFINE at == MetadataPlace(metadataSegment, item, nextSegmentPos)
<1>1. /\ op = "WriteMetadata" /\ writes = <<>> /\ file' = file
      /\ metadataSegment' = SegmentAt(at.pos, at.allocated, FALSE)
      /\ meta' = item
  BY DEF MetadataWritten, Done
<1>2. Planned(at, MetadataExtents(at.pos, item))
  BY <1>1 DEF MetadataKept
<1> HIDE DEF at
<1>3. \A x \in MetadataExtents(at.pos, item) :
        x \in file /\ Within(x, at.pos, at.allocated)
  BY <1>1, <1>2, PlannedDone
<1>4. /\ metadataSegment'.pos = at.pos
      /\ metadataSegment'.allocated = at.allocated
      /\ metadataSegment'.valid /\ ~metadataSegment'.deleted
  BY <1>1 DEF SegmentAt
<1> QED BY <1>1, <1>3, <1>4 DEF Holds

LEMMA MetadataPlannedNext ==
  ASSUME TypeInv, Inv, MetadataKept, Next, op' = "WriteMetadata"
  PROVE  LET at == MetadataPlace(metadataSegment, item, nextSegmentPos)
         IN  Planned(at, MetadataExtents(at.pos, item))'
<1> DEFINE at == MetadataPlace(metadataSegment, item, nextSegmentPos)
<1>1. ASSUME NEW m \in Metadatas, SyncWriteMetadata(m)
      PROVE  Planned(at, MetadataExtents(at.pos, item))'
  <2> DEFINE p == MetadataPlace(metadataSegment, m, nextSegmentPos)
             ws == WriteMetadata(metadataSegment, m, nextSegmentPos)
  <2>1. /\ at' = p /\ item' = m /\ writes' = ws /\ file' = file
    BY <1>1 DEF SyncWriteMetadata, Begin, segments
  <2>2. /\ metadataSegment \in Segments /\ nextSegmentPos \in Nat
        /\ metadataSegment.valid =>
             SegmentEnd(metadataSegment) <= nextSegmentPos
    BY DEF TypeInv, TypeOK, Inv, SegmentsBelowEnd, Reusable
  <2>3. \A x \in MetadataExtents(p.pos, m) :
          /\ Lasting(file, Range(ws), x)
          /\ Within(x, p.pos, p.allocated)
    BY <2>2, MetadataLasts
  <2> HIDE DEF at, p, ws
  <2> QED BY <2>1, <2>3 DEF Planned
<1>2. CASE WriteOk
  <2>1. /\ UNCHANGED <<op, item, metadataSegment, nextSegmentPos>>
        /\ at' = at
    BY <1>2 DEF WriteOk, segments
  <2>2. Planned(at, MetadataExtents(at.pos, item))
    BY <2>1 DEF MetadataKept
  <2> HIDE DEF at
  <2>3. \A x \in MetadataExtents(at.pos, item) :
          /\ Lasting(file', Range(writes'), x)
          /\ Within(x, at.pos, at.allocated)
    BY <1>2, <2>2, PlannedStep
  <2>4. Planned(at, MetadataExtents(at.pos, item))'
    BY <2>1, <2>3 DEF Planned
  <2> QED BY <2>4 DEF at
<1>3. WriteOk \/ \E m \in Metadatas : SyncWriteMetadata(m)
  BY DEF Next, Create, SyncAddSubBlock, SyncAddAttachment, Close, Discard,
         CreateHeaderWritten, MetadataReserved, SubBlkDirReserved,
         AttachmentDirReserved, SubBlockAdded, AttachmentAdded,
         MetadataWritten, SubBlkDirFinished, AttachmentDirFinished, Closed,
         WriteFails, Begin, ReturnToClient
<1> QED BY <1>1, <1>2, <1>3

LEMMA MetadataNext ==
  TypeInv /\ Inv /\ AreasInv /\ MetadataKept /\ [Next]_vars => MetadataKept'
<1> SUFFICES ASSUME TypeInv, Inv, AreasInv, MetadataKept, [Next]_vars
             PROVE  MetadataKept'
  OBVIOUS
<1>1. CASE UNCHANGED vars
  BY <1>1 DEF MetadataKept, Holds, Planned, vars, segments, client
<1>2. ASSUME Next, phase' = "creating" PROVE meta' = NoMeta
  <2>1. op = "WriteMetadata" => phase = "open"
    BY DEF Inv, OpInPhase, Ops, CreateOps
  <2> QED BY <1>2, <2>1 DEF MetadataKept, Next, Create, SyncAddSubBlock,
          SyncAddAttachment, SyncWriteMetadata, Close, Discard,
          CreateHeaderWritten, MetadataReserved, SubBlkDirReserved,
          AttachmentDirReserved, SubBlockAdded, AttachmentAdded,
          MetadataWritten, SubBlkDirFinished, AttachmentDirFinished, Closed,
          WriteOk, WriteFails, Done, client
<1>3. ASSUME Next, phase' = "open", op' # "WriteMetadata", meta' \in Metadatas
      PROVE  Holds(metadataSegment,
                   MetadataExtents(metadataSegment.pos, meta))'
  <2>1. CASE phase = "open" /\ op # "WriteMetadata"
    <3>1. UNCHANGED <<metadataSegment, meta>>
      BY <1>3, <2>1, MetadataFixed
    <3>2. Holds(metadataSegment,
                MetadataExtents(metadataSegment.pos, meta))
      BY <1>3, <2>1, <3>1 DEF MetadataKept
    <3>3. \A x \in MetadataExtents(metadataSegment.pos, meta) :
            /\ x \in file'
            /\ Within(x, metadataSegment.pos, metadataSegment.allocated)
      BY <1>3, <2>1, <3>2, HoldsNext
    <3> QED BY <3>1, <3>2, <3>3 DEF Holds
  <2>2. CASE op = "WriteMetadata"
    <3>1. CASE MetadataWritten
      BY <3>1, MetadataWrittenHolds
    <3>2. CASE WriteFails
      BY <1>3, <2>2, <3>2, WriterAssumption DEF WriteFails
    <3>3. MetadataWritten \/ WriteFails
      BY <1>3, <2>2 DEF Next, Create, SyncAddSubBlock, SyncAddAttachment,
         SyncWriteMetadata, Close, Discard, Callable,
         CreateHeaderWritten, MetadataReserved, SubBlkDirReserved,
         AttachmentDirReserved, SubBlockAdded, AttachmentAdded,
         SubBlkDirFinished, AttachmentDirFinished, Closed, WriteOk, Done
    <3> QED BY <3>1, <3>2, <3>3
  <2>3. CASE phase # "open" /\ op # "WriteMetadata"
    <3>1. AttachmentDirReserved
      BY <1>3, <2>3 DEF Next, Create, SyncAddSubBlock, SyncAddAttachment,
         SyncWriteMetadata, Close, Discard, Callable, client,
         CreateHeaderWritten, MetadataReserved, SubBlkDirReserved,
         SubBlockAdded, AttachmentAdded, MetadataWritten,
         SubBlkDirFinished, AttachmentDirFinished, Closed, WriteOk,
         WriteFails, Done
    <3>2. meta' = NoMeta
      BY <3>1 DEF AttachmentDirReserved, Done, Inv, OpInPhase, CreateOps,
                  MetadataKept
    <3> QED BY <1>3, <3>2, WriterAssumption
  <2> QED BY <2>1, <2>2, <2>3
<1>4. CASE Next
  BY <1>2, <1>3, <1>4, MetadataPlannedNext DEF MetadataKept
<1> QED BY <1>1, <1>4

\* From the return of SyncWriteMetadata until the next one begins, the XML is
\* intact in the metadata segment.
THEOREM MetadataStaysIntact == Spec => []MetadataIntact
<1>1. Init => TypeInv /\ Inv /\ AreasInv /\ MetadataKept
  <2>1. Init => MetadataKept
    BY DEF Init, MetadataKept
  <2> QED BY <2>1, TypeInit, InvInit, AreasInit
<1>2. TypeInv /\ Inv /\ AreasInv /\ MetadataKept /\ [Next]_vars
        => (TypeInv /\ Inv /\ AreasInv /\ MetadataKept)'
  BY TypeNext, InvNext, AreasNext, MetadataNext
<1>3. MetadataKept => MetadataIntact
  BY DEF MetadataKept, Holds, MetadataIntact, MetadataAt
<1> QED BY <1>1, <1>2, <1>3, PTL DEF Spec

-----------------------------------------------------------------------------
(* What the directories name. *)

\* An item that is accepted or doubtful stays so while a document is open.
LEMMA ClientNext ==
  ASSUME Inv, Next, phase = "open"
  PROVE  accepted \subseteq accepted' /\ doubtful \subseteq doubtful'
<1>1. stream
  BY DEF Inv, OpInPhase
<1> QED BY <1>1 DEF Next, Create, CreateHeaderWritten, MetadataReserved,
  SubBlkDirReserved, AttachmentDirReserved, SyncAddSubBlock, SubBlockAdded,
  SyncAddAttachment, AttachmentAdded, SyncWriteMetadata, MetadataWritten,
  Close, SubBlkDirFinished, AttachmentDirFinished, Closed, WriteOk, WriteFails,
  Discard, client, Callable, ReturnToClient

\* An entry whose item is kept or doubtful stays so.
LEMMA EntryKeptNext ==
  ASSUME TypeInv, Inv, Next, phase = "open", stream', NEW e
  PROVE  /\ SubBlockKept(e) => SubBlockKept(e)'
         /\ AttachmentKept(e) => AttachmentKept(e)'
<1>1. \A x : Kept(x) => Kept(x)'
  BY KeptNext
<1>2. accepted \subseteq accepted' /\ doubtful \subseteq doubtful'
  BY ClientNext
<1> QED BY <1>1, <1>2 DEF SubBlockKept, AttachmentKept

\* What is in the file, or will be, was to be before, or has just been planned.
LEMMA StoredNext ==
  ASSUME TypeInv, Next, NEW x \in Stored'
  PROVE  \/ x \in Stored
         \/ /\ ~WriteOk /\ ~WriteFails
            /\ \E w \in Range(writes') : x \in w.holds
<1>1. CASE WriteOk \/ WriteFails
  <2>1. /\ Head(writes) \in Range(writes)
        /\ Range(Tail(writes)) \subseteq Range(writes)
    BY <1>1, HeadAndTail DEF WriteOk, WriteFails, TypeInv, WritesTyped
  <2>2. /\ file' \subseteq file \cup Head(writes).holds
        /\ Range(writes') \subseteq Range(writes)
    BY <1>1, <2>1, NoElement DEF WriteOk, WriteFails, Apply, Smash
  <2> QED BY <2>1, <2>2 DEF Stored
<1>2. CASE ~WriteOk /\ ~WriteFails
  <2>1. file' \subseteq file
    BY <1>2, FileNext
  <2> QED BY <1>2, <2>1 DEF Stored
<1> QED BY <1>1, <1>2

\* While a document is created nothing is planned that makes a directory.
LEMMA HeaderNamesNothing ==
  ASSUME NEW sbDir, NEW md, NEW attDir
  PROVE  \A w \in Range(WriteFileHeader(sbDir, md, attDir)) :
           \A x \in w.holds : NoDirectory(x)
<1> DEFINE w == Write(0, FileHeaderSegmentSize, FileHeader(sbDir, md, attDir))
<1>1. \A x \in w.holds : NoDirectory(x)
  BY DEF Write, FileHeader, SegmentHeader, Magic, Extent, NoDirectory,
         NamesNoItem
<1> HIDE DEF w
<1>2. WriteFileHeader(sbDir, md, attDir) = <<w>>
  BY DEF WriteFileHeader, w
<1> QED BY <1>1, <1>2, OneElement

LEMMA ReservationNamesNothing ==
  ASSUME NEW s, NEW pos, NEW headerSize, NEW allocated
  PROVE  \A w \in Range(Reserve(s, pos, headerSize, allocated)) :
           \A x \in w.holds : NoDirectory(x)
<1> DEFINE w == Write(pos, headerSize, SegmentHeader(pos, "DELETED", allocated))
           ws == Reserve(s, pos, headerSize, allocated)
<1>1. \A x \in w.holds : NoDirectory(x)
  BY DEF Write, SegmentHeader, Magic, Extent, NoDirectory, NamesNoItem
<1> HIDE DEF w
<1>2. ws = <<w>> \/ ws = <<>>
  BY DEF Reserve, w
<1> HIDE DEF ws
<1>3. \A v \in Range(ws) : v = w
  BY <1>2, OneElement, NoElement
<1> QED BY <1>1, <1>3 DEF ws

LEMMA CreatingNamesNothing ==
  ASSUME TypeInv, Next, phase' = "creating", ~WriteOk, ~WriteFails,
         phase = "creating" \/ stream',
         NEW w \in Range(writes'), NEW x \in w.holds, Inv
  PROVE  NoDirectory(x)
<1>1. ASSUME NEW i \in WriterInfos, Create(i) PROVE NoDirectory(x)
  BY <1>1, HeaderNamesNothing DEF Create, Begin
<1>2. CASE CreateHeaderWritten \/ MetadataReserved \/ SubBlkDirReserved
  BY <1>2, ReservationNamesNothing
     DEF CreateHeaderWritten, MetadataReserved, SubBlkDirReserved, Begin
<1>3. \/ \E i \in WriterInfos : Create(i)
      \/ CreateHeaderWritten \/ MetadataReserved \/ SubBlkDirReserved
  BY DEF Next, AttachmentDirReserved, SyncAddSubBlock, SubBlockAdded,
         SyncAddAttachment, AttachmentAdded, SyncWriteMetadata,
         MetadataWritten, Close, SubBlkDirFinished, AttachmentDirFinished,
         Closed, Discard, client, Callable, Done, Inv, OpInPhase, CreateOps,
         Ops
<1> QED BY <1>1, <1>2, <1>3

\* A call that is begun on an open document names items only in the directories
\* that Close writes, and there the entries of the writer.
LEMMA PlannedNames ==
  ASSUME TypeInv, Inv, Next, phase = "open", phase' = "open", ~WriteOk,
         ~WriteFails, NEW w \in Range(writes'), w \notin Range(writes),
         NEW x \in w.holds
  PROVE  \/ NamesNoItem(x)
         \/ op = "idle" /\ x.what = <<"entries", sbBlkDirectory>>
         \/ /\ op = "FinishSubBlkDir"
            /\ \E k \in DOMAIN attachmentDirectory :
                 x.what = <<"entryA1", attachmentDirectory[k]>>
<1>1. /\ nextSegmentPos \in Nat /\ nextSegmentPos' \in Nat
      /\ metadataSegment \in Segments
      /\ subBlockDirectorySegment \in Segments
      /\ attachmentDirectorySegment \in Segments
      /\ attachmentDirectorySegment' \in Segments
      /\ Len(sbBlkDirectory) \in Nat /\ Len(attachmentDirectory) \in Nat
      /\ DOMAIN attachmentDirectory = 1..Len(attachmentDirectory)
  BY LenProperties, TypeNext DEF TypeInv, TypeOK
<1>2. /\ \A s \in Reusable : s.valid => SegmentEnd(s) <= nextSegmentPos
      /\ \A s \in Reusable' : s.valid => SegmentEnd(s) <= nextSegmentPos'
  BY InvNext DEF Inv, SegmentsBelowEnd
<1>3. ASSUME NEW c \in SubBlocks, SyncAddSubBlock(c) PROVE NamesNoItem(x)
  BY <1>1, <1>3, ItemWritesPlain DEF SyncAddSubBlock, Begin, Plain
<1>4. ASSUME NEW a \in Attachments, SyncAddAttachment(a) PROVE NamesNoItem(x)
  BY <1>1, <1>4, ItemWritesPlain DEF SyncAddAttachment, Begin, Plain
<1>5. ASSUME NEW m \in Metadatas, SyncWriteMetadata(m) PROVE NamesNoItem(x)
  <2>1. w \in Range(WriteMetadata(metadataSegment, m, nextSegmentPos))
    BY <1>5 DEF SyncWriteMetadata, Begin
  <2> QED BY <1>1, <1>2, <2>1, MetadataLasts DEF Plain, Reusable
<1>6. CASE Close
  <2>1. /\ op = "idle"
        /\ w \in Range(WriteSubBlkDirectory(subBlockDirectorySegment,
                                            sbBlkDirectory, nextSegmentPos))
    BY <1>6 DEF Close, Begin, Callable
  <2>2. ListsOnly(w, sbBlkDirectory)
    BY <1>1, <1>2, <2>1, SubBlkDirLasts DEF Reusable
  <2> QED BY <2>1, <2>2 DEF ListsOnly
<1>7. CASE SubBlkDirFinished
  <2>1. /\ op = "FinishSubBlkDir"
        /\ UNCHANGED attachmentDirectorySegment
        /\ \/ writes' = <<>>
           \/ writes' = WriteAttachmentDirectory(attachmentDirectorySegment,
                                                 attachmentDirectory,
                                                 nextSegmentPos')
    BY <1>7 DEF SubBlkDirFinished, Begin, Done
  <2>2. w \in Range(WriteAttachmentDirectory(attachmentDirectorySegment,
                                             attachmentDirectory,
                                             nextSegmentPos'))
    BY <2>1, NoElement
  <2>3. NamesOnly(w, attachmentDirectory)
    BY <1>1, <1>2, <2>1, <2>2, AttachmentDirLasts DEF Reusable
  <2> QED BY <2>1, <2>3 DEF NamesOnly
<1>8. CASE AttachmentDirFinished
  <2>1. \E s, m, a : writes' = WriteFileHeader(s, m, a)
    BY <1>8 DEF AttachmentDirFinished, Begin
  <2> QED BY <2>1, HeaderNamesNothing DEF NoDirectory
<1>9. \/ \E c \in SubBlocks : SyncAddSubBlock(c)
      \/ \E a \in Attachments : SyncAddAttachment(a)
      \/ \E m \in Metadatas : SyncWriteMetadata(m)
      \/ Close \/ SubBlkDirFinished \/ AttachmentDirFinished
  <2>1. writes' # writes /\ op \notin CreateOps /\ stream
    BY DEF Inv, OpInPhase
  <2> QED BY <2>1, NoElement DEF Next, Create, CreateHeaderWritten, MetadataReserved,
          SubBlkDirReserved, AttachmentDirReserved, SubBlockAdded,
          AttachmentAdded, MetadataWritten, Closed, Discard, Done,
          ReturnToClient, CreateOps
<1> QED BY <1>3, <1>4, <1>5, <1>6, <1>7, <1>8, <1>9

LEMMA NamesKeptNext ==
  ASSUME TypeInv, Inv, DirectoriesInv, Next, phase = "open", phase' = "open",
         NEW x \in Stored'
  PROVE  NamesKept(x)'
<1>1. stream'
  BY InvNext DEF Inv, OpInPhase
<1>2. EntriesKept /\ \A y \in Stored : NamesKept(y)
  BY DEF DirectoriesInv
<1>3. NamesKept(x)
  <2>1. CASE x \in Stored
    BY <1>2, <2>1
  <2>2. ASSUME x \notin Stored, ~WriteOk, ~WriteFails,
               NEW w \in Range(writes'), x \in w.holds
        PROVE  NamesKept(x)
    <3>1. w \notin Range(writes)
      BY <2>2 DEF Stored
    <3>2. \/ NamesNoItem(x)
          \/ op = "idle" /\ x.what = <<"entries", sbBlkDirectory>>
          \/ /\ op = "FinishSubBlkDir"
             /\ \E k \in DOMAIN attachmentDirectory :
                  x.what = <<"entryA1", attachmentDirectory[k]>>
      BY <2>2, <3>1, PlannedNames
    <3>3. CASE NamesNoItem(x)
      BY <3>3 DEF NamesNoItem, NamesKept
    <3>4. CASE op = "idle" /\ x.what = <<"entries", sbBlkDirectory>>
      <4>1. x.what[1] = "entries" /\ x.what[2] = sbBlkDirectory
        BY <3>4
      <4>2. \A k \in DOMAIN sbBlkDirectory : SubBlockKept(sbBlkDirectory[k])
        BY <1>2, <3>4 DEF EntriesKept
      <4> QED BY <4>1, <4>2 DEF NamesKept
    <3>5. ASSUME op = "FinishSubBlkDir", NEW k \in DOMAIN attachmentDirectory,
                 x.what = <<"entryA1", attachmentDirectory[k]>>
          PROVE  NamesKept(x)
      <4>1. x.what[1] = "entryA1" /\ x.what[2] = attachmentDirectory[k]
        BY <3>5
      <4>2. AttachmentKept(attachmentDirectory[k])
        BY <1>2, <3>5 DEF EntriesKept
      <4> QED BY <4>1, <4>2 DEF NamesKept
    <3> QED BY <3>2, <3>3, <3>4, <3>5
  <2> QED BY <2>1, <2>2, StoredNext
<1> QED BY <1>1, <1>3, EntryKeptNext DEF NamesKept

\* An entry of the directories is new with its add, and kept or doubtful when
\* the add has returned or thrown.
LEMMA EntriesKeptNext ==
  ASSUME TypeInv, Inv, DirectoriesInv, Next, phase = "open", phase' = "open"
  PROVE  EntriesKept'
<1>1. stream'
  BY InvNext DEF Inv, OpInPhase
<1>2. EntriesKept
  BY DEF DirectoriesInv
<1>3. /\ sbBlkDirectory \in Seq([id : SubBlocks, pos : Nat])
      /\ attachmentDirectory \in Seq([id : Attachments, pos : Nat])
  BY DEF TypeInv, TypeOK
<1>4. ASSUME NEW e,
             \/ SubBlockKept(e)
             \/ /\ op = "AddSubBlock"
                /\ e = [id |-> item, pos |-> nextSegmentPos]
      PROVE  \/ SubBlockKept(e)'
             \/ /\ op' = "AddSubBlock"
                /\ e = [id |-> item', pos |-> nextSegmentPos']
  <2>1. CASE SubBlockKept(e)
    BY <1>1, <2>1, EntryKeptNext
  <2>2. CASE /\ op = "AddSubBlock"
             /\ e = [id |-> item, pos |-> nextSegmentPos]
    <3>1. CASE SubBlockAdded
      <4>1. item \notin CutShort =>
              \A x \in SubBlockExtents(nextSegmentPos, item) : Kept(x)'
        BY <3>1, AddedKept
      <4>2. item \in accepted' /\ e.id = item /\ e.pos = nextSegmentPos
        BY <2>2, <3>1 DEF SubBlockAdded
      <4>3. \/ e.id \in CutShort
            \/ \A x \in SubBlockExtents(e.pos, e.id) : Kept(x)'
        BY <4>1, <4>2
      <4> QED BY <4>2, <4>3 DEF SubBlockKept
    <3>2. CASE WriteFails
      BY <2>2, <3>2 DEF WriteFails, SubBlockKept
    <3>3. CASE WriteOk
      BY <2>2, <3>3 DEF WriteOk
    <3>4. SubBlockAdded \/ WriteFails \/ WriteOk
      BY <2>2 DEF Next, Create, CreateHeaderWritten, MetadataReserved,
         SubBlkDirReserved, AttachmentDirReserved, SyncAddSubBlock,
         SyncAddAttachment, AttachmentAdded, SyncWriteMetadata,
         MetadataWritten, Close, SubBlkDirFinished, AttachmentDirFinished,
         Closed, Discard, Callable, Done
    <3> QED BY <3>1, <3>2, <3>3, <3>4
  <2> QED BY <1>4, <2>1, <2>2
<1>5. ASSUME NEW e,
             \/ AttachmentKept(e)
             \/ /\ op = "AddAttachment"
                /\ e = [id |-> item, pos |-> nextSegmentPos]
      PROVE  \/ AttachmentKept(e)'
             \/ /\ op' = "AddAttachment"
                /\ e = [id |-> item', pos |-> nextSegmentPos']
  <2>1. CASE AttachmentKept(e)
    BY <1>1, <2>1, EntryKeptNext
  <2>2. CASE /\ op = "AddAttachment"
             /\ e = [id |-> item, pos |-> nextSegmentPos]
    <3>1. CASE AttachmentAdded
      <4>1. \A x \in AttachmentExtents(nextSegmentPos, item) : Kept(x)'
        BY <3>1, AddedKept
      <4>2. item \in accepted' /\ e.id = item /\ e.pos = nextSegmentPos
        BY <2>2, <3>1 DEF AttachmentAdded
      <4>3. \A x \in AttachmentExtents(e.pos, e.id) : Kept(x)'
        BY <4>1, <4>2
      <4> QED BY <4>2, <4>3 DEF AttachmentKept
    <3>2. CASE WriteFails
      BY <2>2, <3>2 DEF WriteFails, AttachmentKept
    <3>3. CASE WriteOk
      BY <2>2, <3>3 DEF WriteOk
    <3>4. AttachmentAdded \/ WriteFails \/ WriteOk
      BY <2>2 DEF Next, Create, CreateHeaderWritten, MetadataReserved,
         SubBlkDirReserved, AttachmentDirReserved, SyncAddSubBlock,
         SyncAddAttachment, SubBlockAdded, SyncWriteMetadata,
         MetadataWritten, Close, SubBlkDirFinished, AttachmentDirFinished,
         Closed, Discard, Callable, Done
    <3> QED BY <3>1, <3>2, <3>3, <3>4
  <2> QED BY <1>5, <2>1, <2>2
<1>6. ASSUME NEW c \in SubBlocks, SyncAddSubBlock(c) PROVE EntriesKept'
  <2> DEFINE e == [id |-> c, pos |-> nextSegmentPos]
  <2>1. /\ sbBlkDirectory' = Append(sbBlkDirectory, e)
        /\ attachmentDirectory' = attachmentDirectory
        /\ op' = "AddSubBlock" /\ item' = c /\ nextSegmentPos' = nextSegmentPos
    BY <1>6 DEF SyncAddSubBlock, Begin
  <2>2. /\ DOMAIN sbBlkDirectory' = DOMAIN sbBlkDirectory
                                      \cup {Len(sbBlkDirectory) + 1}
        /\ \A k \in DOMAIN sbBlkDirectory :
             sbBlkDirectory'[k] = sbBlkDirectory[k]
        /\ sbBlkDirectory'[Len(sbBlkDirectory) + 1] = e
    BY <1>3, <2>1
  <2>3. op = "idle"
    BY <1>6 DEF SyncAddSubBlock, Callable
  <2>4. \A k \in DOMAIN sbBlkDirectory : SubBlockKept(sbBlkDirectory[k])
    BY <1>2, <2>3 DEF EntriesKept
  <2>5. ASSUME NEW k \in DOMAIN sbBlkDirectory'
        PROVE  \/ SubBlockKept(sbBlkDirectory[k])'
               \/ /\ op' = "AddSubBlock"
                  /\ sbBlkDirectory'[k] = [id |-> item', pos |-> nextSegmentPos']
    <3>1. CASE k \in DOMAIN sbBlkDirectory
      <4>1. PICK d : d = sbBlkDirectory[k] /\ SubBlockKept(d)
        BY <2>4, <3>1
      <4>2. SubBlockKept(d)' /\ d = sbBlkDirectory'[k]
        BY <1>1, <2>2, <3>1, <4>1, EntryKeptNext
      <4> QED BY <4>2
    <3>2. CASE k = Len(sbBlkDirectory) + 1
      BY <2>1, <2>2, <3>2
    <3> QED BY <2>2, <3>1, <3>2
  <2>6. \A k \in DOMAIN attachmentDirectory' :
          AttachmentKept(attachmentDirectory[k])'
    <3> SUFFICES ASSUME NEW k \in DOMAIN attachmentDirectory'
                 PROVE  AttachmentKept(attachmentDirectory[k])'
      OBVIOUS
    <3>1. PICK d : d = attachmentDirectory[k] /\ AttachmentKept(d)
      BY <1>2, <2>1, <2>3 DEF EntriesKept
    <3> QED BY <1>1, <2>1, <3>1, EntryKeptNext
  <2> QED BY <2>5, <2>6 DEF EntriesKept
<1>7. ASSUME NEW a \in Attachments, SyncAddAttachment(a) PROVE EntriesKept'
  <2> DEFINE e == [id |-> a, pos |-> nextSegmentPos]
  <2>1. /\ attachmentDirectory' = Append(attachmentDirectory, e)
        /\ sbBlkDirectory' = sbBlkDirectory
        /\ op' = "AddAttachment" /\ item' = a
        /\ nextSegmentPos' = nextSegmentPos
    BY <1>7 DEF SyncAddAttachment, Begin
  <2>2. /\ DOMAIN attachmentDirectory' = DOMAIN attachmentDirectory
                                           \cup {Len(attachmentDirectory) + 1}
        /\ \A k \in DOMAIN attachmentDirectory :
             attachmentDirectory'[k] = attachmentDirectory[k]
        /\ attachmentDirectory'[Len(attachmentDirectory) + 1] = e
    BY <1>3, <2>1
  <2>3. op = "idle"
    BY <1>7 DEF SyncAddAttachment, Callable
  <2>4. \A k \in DOMAIN attachmentDirectory :
          AttachmentKept(attachmentDirectory[k])
    BY <1>2, <2>3 DEF EntriesKept
  <2>5. ASSUME NEW k \in DOMAIN attachmentDirectory'
        PROVE  \/ AttachmentKept(attachmentDirectory[k])'
               \/ /\ op' = "AddAttachment"
                  /\ attachmentDirectory'[k] =
                       [id |-> item', pos |-> nextSegmentPos']
    <3>1. CASE k \in DOMAIN attachmentDirectory
      <4>1. PICK d : d = attachmentDirectory[k] /\ AttachmentKept(d)
        BY <2>4, <3>1
      <4>2. AttachmentKept(d)' /\ d = attachmentDirectory'[k]
        BY <1>1, <2>2, <3>1, <4>1, EntryKeptNext
      <4> QED BY <4>2
    <3>2. CASE k = Len(attachmentDirectory) + 1
      BY <2>1, <2>2, <3>2
    <3> QED BY <2>2, <3>1, <3>2
  <2>6. \A k \in DOMAIN sbBlkDirectory' : SubBlockKept(sbBlkDirectory[k])'
    <3> SUFFICES ASSUME NEW k \in DOMAIN sbBlkDirectory'
                 PROVE  SubBlockKept(sbBlkDirectory[k])'
      OBVIOUS
    <3>1. PICK d : d = sbBlkDirectory[k] /\ SubBlockKept(d)
      BY <1>2, <2>1, <2>3 DEF EntriesKept
    <3> QED BY <1>1, <2>1, <3>1, EntryKeptNext
  <2> QED BY <2>5, <2>6 DEF EntriesKept
<1>8. CASE UNCHANGED directories
  <2>1. sbBlkDirectory' = sbBlkDirectory
        /\ attachmentDirectory' = attachmentDirectory
    BY <1>8 DEF directories
  <2>2. ASSUME NEW k \in DOMAIN sbBlkDirectory'
        PROVE  \/ SubBlockKept(sbBlkDirectory[k])'
               \/ /\ op' = "AddSubBlock"
                  /\ sbBlkDirectory'[k] = [id |-> item', pos |-> nextSegmentPos']
    <3>1. PICK d : d = sbBlkDirectory[k]
      OBVIOUS
    <3>2. \/ SubBlockKept(d)
          \/ op = "AddSubBlock" /\ d = [id |-> item, pos |-> nextSegmentPos]
      BY <1>2, <2>1, <3>1 DEF EntriesKept
    <3>3. d = sbBlkDirectory'[k]
      BY <2>1, <3>1
    <3> QED BY <1>4, <3>2, <3>3
  <2>3. ASSUME NEW k \in DOMAIN attachmentDirectory'
        PROVE  \/ AttachmentKept(attachmentDirectory[k])'
               \/ /\ op' = "AddAttachment"
                  /\ attachmentDirectory'[k] =
                       [id |-> item', pos |-> nextSegmentPos']
    <3>1. PICK d : d = attachmentDirectory[k]
      OBVIOUS
    <3>2. \/ AttachmentKept(d)
          \/ op = "AddAttachment" /\ d = [id |-> item, pos |-> nextSegmentPos]
      BY <1>2, <2>1, <3>1 DEF EntriesKept
    <3>3. d = attachmentDirectory'[k]
      BY <2>1, <3>1
    <3> QED BY <1>5, <3>2, <3>3
  <2> QED BY <2>2, <2>3 DEF EntriesKept
<1>9. \/ \E c \in SubBlocks : SyncAddSubBlock(c)
      \/ \E a \in Attachments : SyncAddAttachment(a)
      \/ UNCHANGED directories
  BY DEF Next, Create, CreateHeaderWritten, MetadataReserved,
         SubBlkDirReserved, AttachmentDirReserved, SubBlockAdded,
         AttachmentAdded, SyncWriteMetadata, MetadataWritten, Close,
         SubBlkDirFinished, AttachmentDirFinished, Closed, Discard, WriteOk,
         WriteFails
<1> QED BY <1>6, <1>7, <1>8, <1>9

LEMMA DirectoriesNext ==
  TypeInv /\ Inv /\ AreasInv /\ DirectoriesInv /\ [Next]_vars
    => DirectoriesInv'
<1> SUFFICES ASSUME TypeInv, Inv, AreasInv, DirectoriesInv, [Next]_vars
             PROVE  DirectoriesInv'
  OBVIOUS
<1>1. CASE UNCHANGED vars
  BY <1>1 DEF DirectoriesInv, EntriesKept, SubBlockKept, AttachmentKept, Kept,
              NamesKept, NamesIntact, Stored, Reusable, vars, directories,
              segments, client
<1>2. CASE Next /\ phase' = "creating"
  <2>1. CASE phase = "creating"
    <3>1. UNCHANGED directories
      BY <1>2, <2>1 DEF Next, Create, CreateHeaderWritten, MetadataReserved,
         SubBlkDirReserved, AttachmentDirReserved, SyncAddSubBlock,
         SubBlockAdded, SyncAddAttachment, AttachmentAdded, SyncWriteMetadata,
         MetadataWritten, Close, SubBlkDirFinished, AttachmentDirFinished,
         Closed, Discard, WriteOk, WriteFails, Callable
    <3>2. ASSUME NEW x \in Stored' PROVE NoDirectory(x)
      BY <1>2, <2>1, StoredNext, CreatingNamesNothing DEF DirectoriesInv
    <3> QED BY <1>2, <2>1, <3>1, <3>2 DEF DirectoriesInv, directories
  <2>2. CASE phase # "creating"
    <3>1. PICK i \in WriterInfos : Create(i)
      BY <1>2, <2>2 DEF Next, CreateHeaderWritten, MetadataReserved,
         SubBlkDirReserved, AttachmentDirReserved, SyncAddSubBlock,
         SubBlockAdded, SyncAddAttachment, AttachmentAdded, SyncWriteMetadata,
         MetadataWritten, Close, SubBlkDirFinished, AttachmentDirFinished,
         Closed, Discard, WriteOk, WriteFails, client
    <3>2. /\ file' = {} /\ writes' = WriteFileHeader(0, 0, 0) /\ ~stream
          /\ UNCHANGED directories /\ stream'
      BY <3>1 DEF Create, Begin
    <3>3. \A x \in Stored' : NoDirectory(x)
      BY <3>2, HeaderNamesNothing DEF Stored
    <3> QED BY <1>2, <3>2, <3>3 DEF DirectoriesInv, directories
  <2> QED BY <2>1, <2>2
<1>3. CASE Next /\ phase' = "open"
  <2>1. stream'
    BY <1>3, InvNext DEF Inv, OpInPhase
  <2>2. CASE phase = "open"
    <3>1. EntriesKept' /\ \A x \in Stored' : NamesKept(x)'
      BY <1>3, <2>2, EntriesKeptNext, NamesKeptNext
    <3> QED BY <1>3, <2>1, <3>1 DEF DirectoriesInv
  <2>3. CASE phase # "open"
    <3>1. AttachmentDirReserved
      BY <1>3, <2>3 DEF Next, Create, CreateHeaderWritten, MetadataReserved,
         SubBlkDirReserved, SyncAddSubBlock, SubBlockAdded, SyncAddAttachment,
         AttachmentAdded, SyncWriteMetadata, MetadataWritten, Close,
         SubBlkDirFinished, AttachmentDirFinished, Closed, Discard, WriteOk,
         WriteFails, client, Callable
    <3>2. /\ phase = "creating" /\ UNCHANGED <<file, writes, directories>>
      BY <3>1 DEF AttachmentDirReserved, Done, ReturnToClient, Inv, OpInPhase,
                  CreateOps
    <3>3. \A x \in Stored' : NamesKept(x)'
      <4>1. Stored' = Stored
        BY <3>2 DEF Stored
      <4> QED BY <3>2, <4>1
              DEF DirectoriesInv, NoDirectory, NamesNoItem, NamesKept
    <3>4. sbBlkDirectory' = <<>> /\ attachmentDirectory' = <<>>
      BY <3>2 DEF DirectoriesInv, directories
    <3>5. EntriesKept'
      BY <3>4 DEF EntriesKept
    <3> QED BY <1>3, <2>1, <3>3, <3>5 DEF DirectoriesInv
  <2> QED BY <2>2, <2>3
<1>4. CASE Next /\ phase' \in {"none", "closed"}
  <2>1. Closed \/ Discard
    <3>1. (op = "idle" /\ writes = <<>>) \/ phase \in {"creating", "open"}
      BY DEF Inv, OpInPhase, AreasInv, TypeInv, TypeOK
    <3> QED BY <1>4, <3>1 DEF Next, Create, CreateHeaderWritten,
       MetadataReserved, SubBlkDirReserved, AttachmentDirReserved,
       SyncAddSubBlock, SubBlockAdded, SyncAddAttachment, AttachmentAdded,
       SyncWriteMetadata, MetadataWritten, Close, SubBlkDirFinished,
       AttachmentDirFinished, WriteOk, WriteFails, client, Callable, Done
  <2>2. /\ phase \in {"creating", "open"}
        /\ UNCHANGED <<file, accepted, doubtful>>
        /\ sbBlkDirectory' = <<>> /\ attachmentDirectory' = <<>>
    BY <2>1 DEF Closed, Discard, Done, Cleared, Inv, OpInPhase, Ops, CreateOps
  <2>3. ASSUME NEW x \in file' PROVE NamesIntact(x)'
    <3>1. x \in Stored
      BY <2>2, <2>3 DEF Stored
    <3>2. CASE phase = "creating"
      BY <3>1, <3>2 DEF DirectoriesInv, NoDirectory, NamesNoItem, NamesIntact
    <3>3. CASE phase = "open"
      <4>1. NamesKept(x)
        BY <3>1, <3>3 DEF DirectoriesInv
      <4>2. \A y : Kept(y) => y \in file'
        BY <2>2 DEF Kept
      <4>3. ASSUME NEW e, SubBlockKept(e)
            PROVE  \/ e.id \in doubtful'
                   \/ /\ e.id \in accepted'
                      /\ e.id \in CutShort \/ SubBlockAt(file', e.pos, e.id)
        BY <2>2, <4>2, <4>3 DEF SubBlockKept, SubBlockAt
      <4>4. ASSUME NEW e, AttachmentKept(e)
            PROVE  \/ e.id \in doubtful'
                   \/ e.id \in accepted' /\ AttachmentAt(file', e.pos, e.id)
        BY <2>2, <4>2, <4>4 DEF AttachmentKept, AttachmentAt
      <4> QED BY <4>1, <4>3, <4>4 DEF NamesKept, NamesIntact
    <3> QED BY <2>2, <3>2, <3>3
  <2> QED BY <1>4, <2>2, <2>3 DEF DirectoriesInv
<1>5. phase' \in {"none", "creating", "open", "closed"}
  BY TypeNext DEF TypeInv, TypeOK
<1> QED BY <1>1, <1>2, <1>3, <1>4, <1>5

LEMMA StoredIntact ==
  ASSUME TypeInv, DirectoriesInv, phase # "creating", NEW x \in file
  PROVE  NamesIntact(x)
<1>1. CASE phase = "open"
  <2>1. \A y : Kept(y) => y \in file
    BY DEF Kept
  <2>2. ASSUME NEW e, SubBlockKept(e)
        PROVE  \/ e.id \in doubtful
               \/ /\ e.id \in accepted
                  /\ e.id \in CutShort \/ SubBlockAt(file, e.pos, e.id)
    BY <2>1, <2>2 DEF SubBlockKept, SubBlockAt
  <2>3. ASSUME NEW e, AttachmentKept(e)
        PROVE  \/ e.id \in doubtful
               \/ e.id \in accepted /\ AttachmentAt(file, e.pos, e.id)
    BY <2>1, <2>3 DEF AttachmentKept, AttachmentAt
  <2>4. NamesKept(x)
    BY <1>1 DEF DirectoriesInv, Stored
  <2> QED BY <2>2, <2>3, <2>4 DEF NamesKept, NamesIntact
<1>2. CASE phase \in {"none", "closed"}
  BY <1>2 DEF DirectoriesInv
<1> QED BY <1>1, <1>2 DEF TypeInv, TypeOK

\* Before Create returns there is no sub-block directory.
LEMMA CreatingCannotBeOpened ==
  ASSUME DirectoriesInv, phase = "creating"
  PROVE  ~CanOpen(file)
<1> SUFFICES ASSUME CanOpen(file) PROVE FALSE
  OBVIOUS
<1>1. PICK p : SubBlkDirAt(file, p) # {}
  BY DEF CanOpen
<1>2. Magic(p, "ZISRAWDIRECTORY") \in file
  BY <1>1 DEF SubBlkDirAt, HasMagic
<1>3. Magic(p, "ZISRAWDIRECTORY").what = <<"magic", "ZISRAWDIRECTORY">>
  BY DEF Magic, Extent
<1> QED BY <1>2, <1>3 DEF DirectoriesInv, NoDirectory, Stored

\* What a reader gets of a directory are entries some extent names.
LEMMA ReadEntries ==
  ASSUME NEW f
  PROVE  /\ \A e \in SubBlkDirRead(f) :
              \E y \in f : /\ y.what[1] = "entries"
                         /\ \E k \in DOMAIN y.what[2] : e = y.what[2][k]
         /\ \A e \in AttachmentDirRead(f) :
              \E y \in f : y.what[1] = "entryA1" /\ e = y.what[2]
<1>1. ASSUME NEW e \in SubBlkDirRead(f)
      PROVE  \E y \in f : /\ y.what[1] = "entries"
                         /\ \E k \in DOMAIN y.what[2] : e = y.what[2][k]
  <2>1. PICK dir : /\ \E p : dir \in SubBlkDirAt(f, p)
                   /\ \E k \in DOMAIN dir : e = dir[k]
    BY DEF SubBlkDirRead
  <2>2. dir # <<>>
    BY <2>1
  <2>3. PICK y \in f : y.what[1] = "entries" /\ dir = y.what[2]
    BY <2>1, <2>2 DEF SubBlkDirAt
  <2> QED BY <2>1, <2>3
<1>2. ASSUME NEW e \in AttachmentDirRead(f)
      PROVE  \E y \in f : y.what[1] = "entryA1" /\ e = y.what[2]
  BY <1>2 DEF AttachmentDirRead, AttachmentDirSlots
<1> QED BY <1>1, <1>2

\* Entries of a file that can be opened lead to intact items.
LEMMA NamesAreIntact ==
  ASSUME TypeInv, DirectoriesInv
  PROVE  NoTornDirectory
<1> SUFFICES ASSUME CanOpen(file) PROVE NoTornDirectory
  BY DEF NoTornDirectory
<1>1. \A x \in file : NamesIntact(x)
  BY StoredIntact, CreatingCannotBeOpened
<1>2. ASSUME NEW e \in SubBlkDirRead(file)
      PROVE  SubBlockAt(file, e.pos, e.id) \/ e.id \in doubtful \cup CutShort
  BY <1>1, <1>2, ReadEntries DEF NamesIntact
<1>3. ASSUME NEW e \in AttachmentDirRead(file)
      PROVE  AttachmentAt(file, e.pos, e.id) \/ e.id \in doubtful
  BY <1>1, <1>3, ReadEntries DEF NamesIntact
<1> QED BY <1>2, <1>3 DEF NoTornDirectory

\* Whatever crash or failed write a file is left by, if a reader can open it,
\* every entry of its directories leads to an intact item, or to one whose
\* add has failed or that was cut short.
THEOREM NoDirectoryIsTorn == Spec => []NoTornDirectory
<1>1. Init => TypeInv /\ Inv /\ AreasInv /\ DirectoriesInv
  <2>1. Init => DirectoriesInv
    BY DEF Init, DirectoriesInv
  <2> QED BY <2>1, TypeInit, InvInit, AreasInit
<1>2. TypeInv /\ Inv /\ AreasInv /\ DirectoriesInv /\ [Next]_vars
        => (TypeInv /\ Inv /\ AreasInv /\ DirectoriesInv)'
  BY TypeNext, InvNext, AreasNext, DirectoriesNext
<1>3. TypeInv /\ DirectoriesInv => NoTornDirectory
  BY NamesAreIntact
<1> QED BY <1>1, <1>2, <1>3, PTL DEF Spec

-----------------------------------------------------------------------------
(* The file stays tidy. *)

LEMMA ReserveTidy ==
  ASSUME NEW s, NEW pos \in Nat, NEW headerSize \in Nat, headerSize >= 24,
         NEW allocated
  PROVE  \A w \in Range(Reserve(s, pos, headerSize, allocated)) : Tidy(w)
<1> DEFINE w == Write(pos, headerSize, SegmentHeader(pos, "DELETED", allocated))
           ws == Reserve(s, pos, headerSize, allocated)
<1>1. Tidy(w)
  BY DEF Tidy, Write, SegmentHeader, Magic, Extent
<1> HIDE DEF w
<1>2. ws = <<w>> \/ ws = <<>>
  BY DEF Reserve, w
<1> HIDE DEF ws
<1>3. \A v \in Range(ws) : v = w
  BY <1>2, OneElement, NoElement
<1> QED BY <1>1, <1>3 DEF ws

LEMMA HeaderTidy ==
  ASSUME NEW sbDir, NEW md, NEW attDir
  PROVE  \A w \in Range(WriteFileHeader(sbDir, md, attDir)) : Tidy(w)
<1> DEFINE w == Write(0, FileHeaderSegmentSize, FileHeader(sbDir, md, attDir))
<1>1. Tidy(w)
  BY HeaderPlain DEF Plain
<1> HIDE DEF w
<1>2. WriteFileHeader(sbDir, md, attDir) = <<w>>
  BY DEF WriteFileHeader, w
<1> QED BY <1>1, <1>2, OneElement

LEMMA WritesTidyNext ==
  ASSUME TypeInv, Inv, TidyInv, Next, NEW w \in Range(writes')
  PROVE  Tidy(w)
<1>1. /\ nextSegmentPos \in Nat /\ nextSegmentPos' \in Nat
      /\ metadataSegment \in Segments
      /\ subBlockDirectorySegment \in Segments
      /\ attachmentDirectorySegment \in Segments
      /\ attachmentDirectorySegment' \in Segments
      /\ Len(sbBlkDirectory) \in Nat /\ Len(attachmentDirectory) \in Nat
      /\ DOMAIN attachmentDirectory = 1..Len(attachmentDirectory)
  BY LenProperties, TypeNext DEF TypeInv, TypeOK
<1>2. /\ \A s \in Reusable : s.valid => SegmentEnd(s) <= nextSegmentPos
      /\ \A s \in Reusable' : s.valid => SegmentEnd(s) <= nextSegmentPos'
  BY InvNext DEF Inv, SegmentsBelowEnd
<1>3. CASE w \in Range(writes)
  BY <1>3 DEF TidyInv
<1>4. CASE (\E i \in WriterInfos : Create(i)) \/ AttachmentDirFinished
  <2>1. \E s, m, a : writes' = WriteFileHeader(s, m, a)
    BY <1>4 DEF AttachmentDirFinished, Create, Begin
  <2> QED BY <2>1, HeaderTidy
<1>5. CASE CreateHeaderWritten \/ MetadataReserved \/ SubBlkDirReserved
  <2>1. \E s, a : \E h \in {FixedHeaderSize, SubBlkDirHeaderSize} :
          writes' = Reserve(s, nextSegmentPos', h, a)
    BY <1>5 DEF CreateHeaderWritten, MetadataReserved, SubBlkDirReserved, Begin
  <2> QED BY <1>1, <2>1, ReserveTidy
          DEF FixedHeaderSize, SubBlkDirHeaderSize, SegmentHeaderSize
<1>6. ASSUME NEW c \in SubBlocks, SyncAddSubBlock(c) PROVE Tidy(w)
  BY <1>1, <1>6, ItemWritesPlain DEF SyncAddSubBlock, Begin, Plain
<1>7. ASSUME NEW a \in Attachments, SyncAddAttachment(a) PROVE Tidy(w)
  BY <1>1, <1>7, ItemWritesPlain DEF SyncAddAttachment, Begin, Plain
<1>8. ASSUME NEW m \in Metadatas, SyncWriteMetadata(m) PROVE Tidy(w)
  <2>1. w \in Range(WriteMetadata(metadataSegment, m, nextSegmentPos))
    BY <1>8 DEF SyncWriteMetadata, Begin
  <2> QED BY <1>1, <1>2, <2>1, MetadataLasts DEF Plain, Reusable
<1>9. CASE Close
  <2>1. w \in Range(WriteSubBlkDirectory(subBlockDirectorySegment,
                                         sbBlkDirectory, nextSegmentPos))
    BY <1>9 DEF Close, Begin
  <2> QED BY <1>1, <1>2, <2>1, SubBlkDirLasts DEF Reusable
<1>10. CASE SubBlkDirFinished
  <2>1. /\ UNCHANGED attachmentDirectorySegment
        /\ \/ writes' = <<>>
           \/ writes' = WriteAttachmentDirectory(attachmentDirectorySegment,
                                                 attachmentDirectory,
                                                 nextSegmentPos')
    BY <1>10 DEF SubBlkDirFinished, Begin
  <2>2. w \in Range(WriteAttachmentDirectory(attachmentDirectorySegment,
                                             attachmentDirectory,
                                             nextSegmentPos'))
    BY <2>1, NoElement
  <2> QED BY <1>1, <1>2, <2>1, <2>2, AttachmentDirLasts DEF Reusable
<1>11. CASE WriteOk
  BY <1>3, <1>11, HeadAndTail DEF WriteOk, TypeInv, WritesTyped
<1>12. CASE writes' = <<>> \/ writes' = writes
  BY <1>3, <1>12, NoElement
<1>13. \/ (\E i \in WriterInfos : Create(i)) \/ AttachmentDirFinished
       \/ CreateHeaderWritten \/ MetadataReserved \/ SubBlkDirReserved
       \/ \E c \in SubBlocks : SyncAddSubBlock(c)
       \/ \E a \in Attachments : SyncAddAttachment(a)
       \/ \E m \in Metadatas : SyncWriteMetadata(m)
       \/ Close \/ SubBlkDirFinished \/ WriteOk
       \/ writes' = <<>> \/ writes' = writes
  BY DEF Next, AttachmentDirReserved, SubBlockAdded, AttachmentAdded,
         MetadataWritten, Closed, WriteFails, Discard, ReturnToClient
<1> QED BY <1>4, <1>5, <1>6, <1>7, <1>8, <1>9, <1>10, <1>11, <1>12, <1>13

LEMMA TidyNext == TypeInv /\ Inv /\ TidyInv /\ [Next]_vars => TidyInv'
<1> SUFFICES ASSUME TypeInv, Inv, TidyInv, [Next]_vars PROVE TidyInv'
  OBVIOUS
<1>1. CASE UNCHANGED vars
  BY <1>1 DEF TidyInv, vars
<1>2. CASE Next
  <2>1. file' = file => TidyFile(file')
    BY DEF TidyInv
  <2>2. file' = {} => TidyFile(file')
    BY DEF TidyFile
  <2>3. ASSUME writes # <<>>,
               file' \in {file, Smash(file, Head(writes)),
                          Apply(file, Head(writes))}
        PROVE  TidyFile(file')
    <3>1. Head(writes) \in Range(writes)
      BY <2>3, HeadAndTail DEF TypeInv, WritesTyped
    <3>2. /\ IsWrite(Head(writes)) /\ Tidy(Head(writes))
          /\ TidyFile(file) /\ \A x \in file : IsExtent(x)
      BY <3>1 DEF TypeInv, TypeOK, WritesTyped, TidyInv, IsExtent
    <3> QED BY <2>3, <3>2, TidyStep
  <2>4. TidyFile(file')
    BY <1>2, <2>1, <2>2, <2>3, FileNext
  <2> QED BY <1>2, <2>4, WritesTidyNext DEF TidyInv
<1> QED BY <1>1, <1>2

LEMMA TidyInit == Init => TidyInv
BY NoElement DEF Init, TidyInv, TidyFile

-----------------------------------------------------------------------------
(* What Close finds, when no space is reserved for an attachment directory. *)

NoAttachmentsReserved == \A i \in WriterInfos : i.attachmentDir = NotReserved

LEMMA NothingToSpareNext ==
  ASSUME NoAttachmentsReserved, TypeInv, Inv, NothingToSpare, Next
  PROVE  NothingToSpare'
<1>1. /\ nextSegmentPos \in Nat /\ attachmentDirectorySegment \in Segments
      /\ Len(attachmentDirectory) \in Nat
      /\ DOMAIN attachmentDirectory = 1..Len(attachmentDirectory)
      /\ attachmentDirectory \in Seq([id : Attachments, pos : Nat])
  BY LenProperties DEF TypeInv, TypeOK
<1>2. info.attachmentDir = NotReserved
  BY DEF NoAttachmentsReserved, TypeInv, TypeOK, DefaultInfo
<1>3. phase' \in {"creating", "open"} /\ meta' = NoMeta =>
        ~metadataSegment'.valid \/ metadataSegment'.deleted
  <2>1. CASE UNCHANGED <<phase, meta, metadataSegment>>
    BY <2>1 DEF NothingToSpare
  <2>2. CASE \E i \in WriterInfos : Create(i)
    BY <2>2 DEF Create, segments, Inv, OpInPhase, Reusable
  <2>3. CASE MetadataReserved
    <3>1. metadataSegment' = metadataSegment \/ metadataSegment'.deleted
      BY <2>3 DEF MetadataReserved, Reserved, SegmentAt
    <3> QED BY <2>3, <3>1 DEF MetadataReserved, NothingToSpare, client
  <2>4. CASE AttachmentDirReserved
    <3>1. phase = "creating"
      BY <2>4 DEF AttachmentDirReserved, Done, Inv, OpInPhase, CreateOps
    <3> QED BY <2>4, <3>1 DEF AttachmentDirReserved, NothingToSpare
  <2>5. CASE MetadataWritten
    BY <2>5, WriterAssumption DEF MetadataWritten, Done, TypeInv, TypeOK
  <2>6. CASE WriteFails
    BY <2>6 DEF WriteFails, NothingToSpare, NoMeta, UnknownMeta, segments
  <2>7. CASE Closed \/ Discard
    BY <2>7 DEF Closed, Discard
  <2> QED BY <2>1, <2>2, <2>3, <2>4, <2>5, <2>6, <2>7
      DEF Next, CreateHeaderWritten, SubBlkDirReserved, SyncAddSubBlock,
          SubBlockAdded, SyncAddAttachment, AttachmentAdded,
          SyncWriteMetadata, Close, SubBlkDirFinished, AttachmentDirFinished,
          WriteOk, client, segments
<1> DEFINE NoRoomFor(dir, s) ==
             /\ dir = <<>> => ~s.valid
             /\ s.valid => s.allocated <= AttachmentDirUsed(Len(dir))
<1>4. NoRoomFor(attachmentDirectory', attachmentDirectorySegment')
  <2>1. CASE UNCHANGED <<attachmentDirectory, attachmentDirectorySegment>>
    BY <2>1 DEF NothingToSpare
  <2>2. ASSUME NEW a \in Attachments, SyncAddAttachment(a)
        PROVE  NoRoomFor(attachmentDirectory', attachmentDirectorySegment')
    <3>1. /\ attachmentDirectorySegment' = attachmentDirectorySegment
          /\ attachmentDirectory' = Append(attachmentDirectory,
                                           [id |-> a, pos |-> nextSegmentPos])
      BY <2>2 DEF SyncAddAttachment, segments
    <3>2. /\ Len(attachmentDirectory') = Len(attachmentDirectory) + 1
          /\ attachmentDirectory' # <<>>
      BY <1>1, <3>1
    <3>3. AttachmentDirUsed(Len(attachmentDirectory))
            <= AttachmentDirUsed(Len(attachmentDirectory'))
      BY <1>1, <3>2 DEF AttachmentDirUsed, AttachmentEntrySize
    <3>4. /\ AttachmentDirUsed(Len(attachmentDirectory)) \in Nat
          /\ AttachmentDirUsed(Len(attachmentDirectory')) \in Nat
          /\ attachmentDirectorySegment.allocated \in Nat
      BY <1>1, <3>2 DEF AttachmentDirUsed, AttachmentEntrySize, Segments
    <3> QED BY <3>1, <3>2, <3>3, <3>4 DEF NothingToSpare
  <2>3. CASE AttachmentDirReserved
    <3>1. UNCHANGED <<attachmentDirectory, attachmentDirectorySegment>>
      BY <1>2, <2>3 DEF AttachmentDirReserved, Reserved, directories
    <3> QED BY <2>1, <3>1
  <2>4. CASE AttachmentDirFinished /\ attachmentDirectory # <<>>
    <3> DEFINE at == AttachmentDirPlace(attachmentDirectorySegment,
                                        attachmentDirectory, nextSegmentPos)
    <3>1. /\ attachmentDirectory' = attachmentDirectory
          /\ attachmentDirectorySegment' =
               SegmentAt(at.pos, at.allocated, FALSE)
      BY <2>4 DEF AttachmentDirFinished, directories
    <3>2. at.allocated <= AttachmentDirUsed(Len(attachmentDirectory))
      BY <1>1, AttachmentDirLasts
         DEF NothingToSpare, Inv, SegmentsBelowEnd, Reusable
    <3> HIDE DEF at
    <3> QED BY <2>4, <3>1, <3>2 DEF SegmentAt
  <2>5. CASE Closed \/ Discard
    <3>1. attachmentDirectorySegment' = NoSegment
      BY <2>5 DEF Closed, Discard, Cleared
    <3> QED BY <3>1, NoSegmentTyped
  <2>6. \/ UNCHANGED <<attachmentDirectory, attachmentDirectorySegment>>
        \/ \E a \in Attachments : SyncAddAttachment(a)
        \/ AttachmentDirReserved
        \/ AttachmentDirFinished /\ attachmentDirectory # <<>>
        \/ Closed \/ Discard
    BY DEF Next, Create, CreateHeaderWritten, MetadataReserved,
       SubBlkDirReserved, SyncAddSubBlock, SubBlockAdded, AttachmentAdded,
       SyncWriteMetadata, MetadataWritten, Close, SubBlkDirFinished,
       AttachmentDirFinished, WriteOk, WriteFails, directories, segments
  <2> QED BY <2>1, <2>2, <2>3, <2>4, <2>5, <2>6
<1> QED BY <1>3, <1>4 DEF NothingToSpare

-----------------------------------------------------------------------------
(* What Close leaves. *)

\* The file header is exactly what was written last.
LEMMA HeaderApplied ==
  ASSUME NEW f, TidyFile(f), \A x \in f : IsExtent(x),
         NEW sbDir, NEW md, NEW attDir
  PROVE  HeaderOf(Apply(f, Write(0, FileHeaderSegmentSize,
                                 FileHeader(sbDir, md, attDir))),
                  sbDir, md, attDir)
<1> DEFINE h == FileHeader(sbDir, md, attDir)
           w == Write(0, FileHeaderSegmentSize, h)
           g == Apply(f, w)
           e1 == Extent(84, 8, <<"SubBlockDirectoryPosition", sbDir>>)
           e2 == Extent(92, 8, <<"MetadataPosition", md>>)
           e3 == Extent(104, 8, <<"AttachmentDirectoryPosition", attDir>>)
           m1 == Magic(0, "ZISRAWFILE")
           m2 == Extent(16, 8,
                        <<"allocated", FileHeaderSegmentSize - SegmentHeaderSize>>)
<1>1. h = {m1, m2, e1, e2, e3}
  BY DEF FileHeader, SegmentHeader
<1>2. /\ e1.hi = 92 /\ e1.what = <<"SubBlockDirectoryPosition", sbDir>>
      /\ e2.hi = 100 /\ e2.what = <<"MetadataPosition", md>>
      /\ e3.hi = 112 /\ e3.what = <<"AttachmentDirectoryPosition", attDir>>
      /\ m1.what = <<"magic", "ZISRAWFILE">>
      /\ m2.what[1] = "allocated"
  BY DEF Extent, Magic
<1> HIDE DEF e1, e2, e3, m1, m2
<1>3. h \subseteq g
  BY DEF Apply, Write
<1>4. ASSUME NEW x \in g, x.hi <= 112 PROVE x \in h
  <2>1. x \in h \/ (x \in f /\ Survives(x, w))
    BY DEF Apply, Write
  <2>2. ~(x \in f /\ Survives(x, w))
    <3> SUFFICES ASSUME x \in f, Survives(x, w) PROVE FALSE
      OBVIOUS
    <3>1. x.lo \in Nat /\ x.hi \in Nat /\ x.lo < x.hi
      BY DEF TidyFile, IsExtent
    <3>2. x.hi <= 0 \/ 544 <= x.lo
      BY DEF Survives, Write, FileHeaderSegmentSize
    <3> QED BY <1>4, <3>1, <3>2
  <2> QED BY <2>1, <2>2
<1> HIDE DEF g, h
<1>5. HeaderField(g, "SubBlockDirectoryPosition") = {sbDir}
  BY <1>1, <1>2, <1>3, <1>4 DEF HeaderField
<1>6. HeaderField(g, "MetadataPosition") = {md}
  BY <1>1, <1>2, <1>3, <1>4 DEF HeaderField
<1>7. HeaderField(g, "AttachmentDirectoryPosition") = {attDir}
  BY <1>1, <1>2, <1>3, <1>4 DEF HeaderField
<1>8. m1 \in g
  BY <1>1, <1>3
<1> QED BY <1>5, <1>6, <1>7, <1>8 DEF HeaderOf, g, h, m1

\* Nothing but the writes of Close happens while it runs.
LEMMA CloseSteps ==
  ASSUME Next
  PROVE  /\ op' = "FinishSubBlkDir" =>
              Close \/ (WriteOk /\ op = "FinishSubBlkDir")
         /\ op' = "FinishAttachmentDir" =>
              SubBlkDirFinished \/ (WriteOk /\ op = "FinishAttachmentDir")
         /\ op' = "FinishHeader" =>
              AttachmentDirFinished \/ (WriteOk /\ op = "FinishHeader")
<1>1. /\ Close => op' = "FinishSubBlkDir"
      /\ SubBlkDirFinished => op' = "FinishAttachmentDir"
      /\ AttachmentDirFinished => op' = "FinishHeader"
      /\ WriteOk => op' = op
  BY DEF Close, SubBlkDirFinished, AttachmentDirFinished, WriteOk, Begin
<1>2. \/ Close \/ SubBlkDirFinished \/ AttachmentDirFinished \/ WriteOk
      \/ op' \notin {"FinishSubBlkDir", "FinishAttachmentDir", "FinishHeader"}
  BY DEF Next, Create, CreateHeaderWritten, MetadataReserved,
         SubBlkDirReserved, AttachmentDirReserved, SyncAddSubBlock,
         SubBlockAdded, SyncAddAttachment, AttachmentAdded, SyncWriteMetadata,
         MetadataWritten, Closed, WriteFails, Discard, Begin, ReturnToClient
<1> QED BY <1>1, <1>2

LEMMA FinishSubBlkDirNext ==
  ASSUME TypeInv, Inv, CloseInv, Next, op' = "FinishSubBlkDir"
  PROVE  LET at == SubBlkDirPlace(subBlockDirectorySegment, sbBlkDirectory,
                                  nextSegmentPos)
         IN  Planned(at, DirectoryExtents(at.pos, sbBlkDirectory))'
<1> DEFINE at == SubBlkDirPlace(subBlockDirectorySegment, sbBlkDirectory,
                                nextSegmentPos)
<1>1. /\ nextSegmentPos \in Nat /\ subBlockDirectorySegment \in Segments
      /\ Len(sbBlkDirectory) \in Nat
      /\ subBlockDirectorySegment.valid =>
           SegmentEnd(subBlockDirectorySegment) <= nextSegmentPos
  BY LenProperties DEF TypeInv, TypeOK, Inv, SegmentsBelowEnd, Reusable
<1>2. /\ UNCHANGED <<sbBlkDirectory, subBlockDirectorySegment, nextSegmentPos>>
      /\ at' = at
  BY CloseSteps DEF Close, WriteOk, segments, directories
<1>3. \A x \in DirectoryExtents(at.pos, sbBlkDirectory) :
        Lasting(file', Range(writes'), x) /\ Within(x, at.pos, at.allocated)
  <2>1. CASE Close
    <3>1. /\ file' = file
          /\ writes' = WriteSubBlkDirectory(subBlockDirectorySegment,
                                            sbBlkDirectory, nextSegmentPos)
      BY <2>1 DEF Close, Begin
    <3> QED BY <1>1, <3>1, SubBlkDirLasts
  <2>2. CASE WriteOk /\ op = "FinishSubBlkDir"
    <3>1. Planned(at, DirectoryExtents(at.pos, sbBlkDirectory))
      BY <2>2 DEF CloseInv
    <3> HIDE DEF at
    <3> QED BY <2>2, <3>1, PlannedStep
  <2> QED BY <2>1, <2>2, CloseSteps
<1> HIDE DEF at
<1>4. Planned(at, DirectoryExtents(at.pos, sbBlkDirectory))'
  BY <1>2, <1>3 DEF Planned
<1> QED BY <1>4 DEF at

LEMMA FinishAttachmentDirNext ==
  ASSUME NoAttachmentsReserved, TypeInv, Inv, AreasInv, CloseInv,
         NothingToSpare, Next, op' = "FinishAttachmentDir"
  PROVE  /\ DirectoryWritten'
         /\ attachmentDirectory' # <<>> =>
              LET at == AttachmentDirPlace(attachmentDirectorySegment,
                                           attachmentDirectory, nextSegmentPos)
              IN  Planned(at, AttachmentDirExtents(at.pos,
                                                   attachmentDirectory))'
<1> DEFINE at == AttachmentDirPlace(attachmentDirectorySegment,
                                    attachmentDirectory, nextSegmentPos)
<1>1. /\ nextSegmentPos \in Nat /\ nextSegmentPos' \in Nat
      /\ attachmentDirectorySegment' \in Segments
      /\ Len(attachmentDirectory) \in Nat
      /\ DOMAIN attachmentDirectory = 1..Len(attachmentDirectory)
      /\ attachmentDirectorySegment'.valid =>
           SegmentEnd(attachmentDirectorySegment') <= nextSegmentPos'
  BY LenProperties, TypeNext, InvNext
     DEF TypeInv, TypeOK, Inv, SegmentsBelowEnd, Reusable
<1>2. CASE SubBlkDirFinished
  <2> DEFINE p == SubBlkDirPlace(subBlockDirectorySegment, sbBlkDirectory,
                                 nextSegmentPos)
  <2>1. /\ op = "FinishSubBlkDir" /\ writes = <<>> /\ file' = file
        /\ subBlockDirectorySegment' = SegmentAt(p.pos, p.allocated, FALSE)
        /\ UNCHANGED <<directories, attachmentDirectorySegment>>
        /\ attachmentDirectory # <<>> =>
             writes' = WriteAttachmentDirectory(attachmentDirectorySegment,
                                                attachmentDirectory,
                                                nextSegmentPos')
    BY <1>2 DEF SubBlkDirFinished, Done, Begin
  <2>2. Planned(p, DirectoryExtents(p.pos, sbBlkDirectory))
    BY <2>1 DEF CloseInv
  <2> HIDE DEF p
  <2>3. \A x \in DirectoryExtents(p.pos, sbBlkDirectory) :
          x \in file /\ Within(x, p.pos, p.allocated)
    BY <2>1, <2>2, PlannedDone
  <2>4. DirectoryWritten'
    BY <2>1, <2>3 DEF DirectoryWritten, Holds, SegmentAt, directories
  <2>5. ASSUME attachmentDirectory' # <<>>
        PROVE  Planned(at, AttachmentDirExtents(at.pos, attachmentDirectory))'
    <3> DEFINE q == AttachmentDirPlace(attachmentDirectorySegment,
                                       attachmentDirectory, nextSegmentPos')
               ws == WriteAttachmentDirectory(attachmentDirectorySegment,
                                              attachmentDirectory,
                                              nextSegmentPos')
    <3>1. /\ at' = q /\ attachmentDirectory' = attachmentDirectory
          /\ writes' = ws
      BY <2>1, <2>5 DEF directories
    <3>2. \A x \in AttachmentDirExtents(q.pos, attachmentDirectory) :
            Lasting(file', Range(ws), x) /\ Within(x, q.pos, q.allocated)
      BY <1>1, <2>1, AttachmentDirLasts DEF NothingToSpare
    <3> HIDE DEF at, q, ws
    <3> QED BY <3>1, <3>2 DEF Planned
  <2> QED BY <2>4, <2>5
<1>3. CASE WriteOk /\ op = "FinishAttachmentDir"
  <2>1. /\ UNCHANGED <<directories, attachmentDirectorySegment,
                       subBlockDirectorySegment, nextSegmentPos>>
        /\ at' = at
    BY <1>3 DEF WriteOk, segments, directories
  <2>2. DirectoryWritten /\ phase = "open"
    BY <1>3 DEF CloseInv, Inv, OpInPhase, Ops, CreateOps
  <2>3. \A x \in DirectoryExtents(subBlockDirectorySegment.pos,
                                  sbBlkDirectory) :
          /\ x \in file'
          /\ Within(x, subBlockDirectorySegment.pos,
                    subBlockDirectorySegment.allocated)
    BY <1>3, <2>2, HoldsNext DEF DirectoryWritten
  <2>4. DirectoryWritten'
    BY <2>1, <2>2, <2>3 DEF DirectoryWritten, Holds, directories
  <2>5. ASSUME attachmentDirectory' # <<>>
        PROVE  Planned(at, AttachmentDirExtents(at.pos, attachmentDirectory))'
    <3>1. Planned(at, AttachmentDirExtents(at.pos, attachmentDirectory))
      BY <1>3, <2>1, <2>5 DEF CloseInv, directories
    <3> HIDE DEF at
    <3>2. \A x \in AttachmentDirExtents(at.pos, attachmentDirectory) :
            Lasting(file', Range(writes'), x) /\ Within(x, at.pos, at.allocated)
      BY <1>3, <3>1, PlannedStep
    <3> QED BY <2>1, <3>2 DEF Planned, directories
  <2> QED BY <2>4, <2>5
<1> QED BY <1>2, <1>3, CloseSteps

LEMMA FinishHeaderNext ==
  ASSUME TypeInv, Inv, AreasInv, TidyInv, CloseInv, Next, op' = "FinishHeader"
  PROVE  /\ DirectoryWritten' /\ AttachmentDirWritten'
         /\ LET sbDir == HeaderPosition(subBlockDirectorySegment)'
                md == HeaderPosition(metadataSegment)'
                attDir == HeaderPosition(attachmentDirectorySegment)'
            IN  IF writes' = <<>>
                THEN HeaderOf(file', sbDir, md, attDir)
                ELSE writes' = WriteFileHeader(sbDir, md, attDir)
<1> DEFINE sbDir == HeaderPosition(subBlockDirectorySegment)
           md == HeaderPosition(metadataSegment)
           attDir == HeaderPosition(attachmentDirectorySegment)
<1>1. phase = "open" /\ op # "FinishSubBlkDir"
  BY CloseSteps
     DEF AttachmentDirFinished, Done, Inv, OpInPhase, Ops, CreateOps
<1>2. DirectoryWritten
  BY CloseSteps DEF AttachmentDirFinished, Done, CloseInv
<1>3. UNCHANGED <<subBlockDirectorySegment, metadataSegment, directories>>
  BY CloseSteps DEF AttachmentDirFinished, WriteOk, segments
<1>4. DirectoryWritten'
  <2>1. \A x \in DirectoryExtents(subBlockDirectorySegment.pos,
                                  sbBlkDirectory) :
          /\ x \in file'
          /\ Within(x, subBlockDirectorySegment.pos,
                    subBlockDirectorySegment.allocated)
    BY <1>1, <1>2, HoldsNext DEF DirectoryWritten
  <2> QED BY <1>2, <1>3, <2>1 DEF DirectoryWritten, Holds, directories
<1>5. CASE AttachmentDirFinished
  <2>1. writes' = WriteFileHeader(sbDir', md', attDir')
    BY <1>3, <1>5 DEF AttachmentDirFinished, Begin
  <2>2. writes' # <<>>
    BY <2>1 DEF WriteFileHeader
  <2>3. AttachmentDirWritten'
    <3> DEFINE at == AttachmentDirPlace(attachmentDirectorySegment,
                                        attachmentDirectory, nextSegmentPos)
    <3>1. CASE attachmentDirectory = <<>>
      BY <1>3, <3>1 DEF AttachmentDirWritten, directories
    <3>2. CASE attachmentDirectory # <<>>
      <4>1. /\ op = "FinishAttachmentDir" /\ writes = <<>> /\ file' = file
            /\ attachmentDirectorySegment' =
                 SegmentAt(at.pos, at.allocated, FALSE)
        BY <1>5, <3>2 DEF AttachmentDirFinished, Done
      <4>2. Planned(at, AttachmentDirExtents(at.pos, attachmentDirectory))
        BY <3>2, <4>1 DEF CloseInv
      <4> HIDE DEF at
      <4>3. \A x \in AttachmentDirExtents(at.pos, attachmentDirectory) :
              x \in file /\ Within(x, at.pos, at.allocated)
        BY <4>1, <4>2, PlannedDone
      <4> QED BY <1>3, <4>1, <4>3
              DEF AttachmentDirWritten, Holds, SegmentAt, directories
    <3> QED BY <3>1, <3>2
  <2> QED BY <1>4, <2>1, <2>2, <2>3
<1>6. CASE WriteOk /\ op = "FinishHeader"
  <2> DEFINE w == Write(0, FileHeaderSegmentSize,
                        FileHeader(sbDir, md, attDir))
  <2>1. /\ writes # <<>> /\ file' = Apply(file, Head(writes))
        /\ writes' = Tail(writes) /\ UNCHANGED attachmentDirectorySegment
    BY <1>6 DEF WriteOk, segments
  <2>2. /\ AttachmentDirWritten
        /\ writes = WriteFileHeader(sbDir, md, attDir)
    BY <1>6, <2>1 DEF CloseInv
  <2>3. AttachmentDirWritten'
    <3>1. CASE attachmentDirectory = <<>>
      BY <1>3, <3>1 DEF AttachmentDirWritten, directories
    <3>2. CASE attachmentDirectory # <<>>
      <4>1. \A x \in AttachmentDirExtents(attachmentDirectorySegment.pos,
                                          attachmentDirectory) :
              /\ x \in file'
              /\ Within(x, attachmentDirectorySegment.pos,
                        attachmentDirectorySegment.allocated)
        BY <1>1, <1>6, <2>2, <3>2, HoldsNext DEF AttachmentDirWritten
      <4> QED BY <1>3, <2>1, <2>2, <4>1
              DEF AttachmentDirWritten, Holds, directories
    <3> QED BY <3>1, <3>2
  <2>4. TidyFile(file) /\ \A x \in file : IsExtent(x)
    BY DEF TidyInv, TypeInv, TypeOK, IsExtent
  <2>5. HeaderOf(Apply(file, w), sbDir, md, attDir)
    BY <2>4, HeaderApplied
  <2>6. writes = <<w>>
    BY <2>2 DEF WriteFileHeader
  <2>7. sbDir' = sbDir /\ md' = md /\ attDir' = attDir
    BY <1>3, <2>1 DEF HeaderPosition
  <2> HIDE DEF w, sbDir, md, attDir
  <2>8. Head(writes) = w /\ Tail(writes) = <<>>
    BY <2>6
  <2>9. writes' = <<>> /\ HeaderOf(file', sbDir', md', attDir')
    BY <2>1, <2>5, <2>7, <2>8
  <2> QED BY <1>4, <2>3, <2>9 DEF sbDir, md, attDir
<1> QED BY <1>5, <1>6, CloseSteps

LEMMA CloseNext ==
  ASSUME NoAttachmentsReserved, TypeInv, Inv, AreasInv, TidyInv, CloseInv,
         NothingToSpare, Next
  PROVE  CloseInv'
BY FinishSubBlkDirNext, FinishAttachmentDirNext, FinishHeaderNext DEF CloseInv

-----------------------------------------------------------------------------
(* What a reader sees. *)

\* Every item that can be read was accepted, or its add has failed.
LEMMA OnlyNamedItemsAreRead ==
  ASSUME TypeInv, DirectoriesInv
  PROVE  ReadableSubBlocks(file) \cup ReadableAttachments(file)
           \subseteq accepted \cup doubtful
<1>1. ASSUME CanOpen(file), NEW x \in file PROVE NamesIntact(x)
  BY <1>1, StoredIntact, CreatingCannotBeOpened
<1>2. ASSUME NEW c \in ReadableSubBlocks(file) PROVE c \in accepted \cup doubtful
  <2>1. PICK e \in SubBlkDirRead(file) : CanOpen(file) /\ e.id = c
    BY <1>2 DEF ReadableSubBlocks
  <2>2. PICK y \in file : /\ y.what[1] = "entries"
                          /\ \E k \in DOMAIN y.what[2] : e = y.what[2][k]
    BY ReadEntries
  <2> QED BY <1>1, <2>1, <2>2 DEF NamesIntact
<1>3. ASSUME NEW a \in ReadableAttachments(file)
      PROVE  a \in accepted \cup doubtful
  <2>1. PICK e \in AttachmentDirRead(file) : CanOpen(file) /\ e.id = a
    BY <1>3 DEF ReadableAttachments
  <2>2. PICK y \in file : y.what[1] = "entryA1" /\ e = y.what[2]
    BY ReadEntries
  <2> QED BY <1>1, <2>1, <2>2 DEF NamesIntact
<1> QED BY <1>2, <1>3

LEMMA FinishedOpens ==
  ASSUME TypeInv, AreasInv, CloseInv, NothingToSpare, Done("FinishHeader")
  PROVE  /\ CanOpen(file)
         /\ \A k \in DOMAIN sbBlkDirectory :
              sbBlkDirectory[k] \in SubBlkDirRead(file)
         /\ \A k \in DOMAIN attachmentDirectory :
              attachmentDirectory[k] \in AttachmentDirRead(file)
<1> DEFINE sbDir == subBlockDirectorySegment.pos
           attDir == HeaderPosition(attachmentDirectorySegment)
           dir == attachmentDirectory
<1>1. /\ DirectoryWritten /\ AttachmentDirWritten
      /\ HeaderOf(file, HeaderPosition(subBlockDirectorySegment),
                  HeaderPosition(metadataSegment), attDir)
  BY DEF Done, CloseInv
<1>2. HeaderPosition(subBlockDirectorySegment) = sbDir
  BY <1>1 DEF HeaderPosition, DirectoryWritten, Holds
<1>3. /\ Magic(0, "ZISRAWFILE") \in file
      /\ HeaderField(file, "SubBlockDirectoryPosition") = {sbDir}
      /\ HeaderField(file, "AttachmentDirectoryPosition") = {attDir}
  BY <1>1, <1>2 DEF HeaderOf
<1>4. /\ sbDir \in Nat
      /\ Len(sbBlkDirectory) \in Nat /\ Len(dir) \in Nat
      /\ sbBlkDirectory = <<>> <=> Len(sbBlkDirectory) = 0
      /\ DOMAIN dir = 1..Len(dir)
  <2>1. /\ sbBlkDirectory \in Seq([id : SubBlocks, pos : Nat])
        /\ dir \in Seq([id : Attachments, pos : Nat])
        /\ subBlockDirectorySegment \in Segments
    BY DEF TypeInv, TypeOK
  <2> QED BY <2>1, LenProperties, EmptySeq DEF Segments
<1>5. sbBlkDirectory \in SubBlkDirAt(file, sbDir)
  <2>1. DirectoryExtents(sbDir, sbBlkDirectory) \subseteq file
    BY <1>1 DEF DirectoryWritten, Holds
  <2> HIDE DEF sbDir
  <2> QED BY <1>4, <2>1, DirectoryReadBack
<1>6. dir # <<>> =>
        /\ attDir = attachmentDirectorySegment.pos /\ attDir # 0
        /\ AttachmentDirExtents(attDir, dir) \subseteq file
  <2> SUFFICES ASSUME dir # <<>>
               PROVE  /\ attDir = attachmentDirectorySegment.pos /\ attDir # 0
                      /\ AttachmentDirExtents(attDir, dir) \subseteq file
    OBVIOUS
  <2>1. Holds(attachmentDirectorySegment,
              AttachmentDirExtents(attachmentDirectorySegment.pos, dir))
    BY <1>1 DEF AttachmentDirWritten
  <2>2. attDir = attachmentDirectorySegment.pos
    BY <2>1 DEF Holds, HeaderPosition
  <2>3. attachmentDirectorySegment.pos # 0
    BY <2>1 DEF Holds, AreasInv, SegmentsApart, Reusable,
                FileHeaderSegmentSize
  <2>4. AttachmentDirExtents(attachmentDirectorySegment.pos, dir)
          \subseteq file
    BY <2>1 DEF Holds
  <2> QED BY <2>2, <2>3, <2>4
<1>7. dir = <<>> => attDir = 0
  BY DEF NothingToSpare, HeaderPosition
<1> HIDE DEF sbDir, attDir
<1>8. attDir # 0 => HasMagic(file, attDir, "ZISRAWATTDIR")
  BY <1>6, <1>7 DEF AttachmentDirExtents, HasMagic
<1>9. CanOpen(file)
  BY <1>3, <1>5, <1>8 DEF CanOpen, HasMagic
<1>10. \A k \in DOMAIN sbBlkDirectory :
         sbBlkDirectory[k] \in SubBlkDirRead(file)
  BY <1>3, <1>5 DEF SubBlkDirRead
<1>11. ASSUME NEW k \in DOMAIN dir PROVE dir[k] \in AttachmentDirRead(file)
  <2>1. dir # <<>>
    BY <1>11
  <2>2. /\ Len(dir) \in Nat /\ DOMAIN dir = 1..Len(dir) /\ k \in DOMAIN dir
        /\ AttachmentDirExtents(attDir, dir) \subseteq file
    BY <1>4, <1>6, <1>11, <2>1
  <2> HIDE DEF dir
  <2>3. \E x \in AttachmentDirSlots(file, attDir) : x.what[2] = dir[k]
    <3>1. /\ AttachmentDirEntry(attDir, k, dir[k]) \in file
          /\ AttachmentDirCount(attDir, Len(dir)) \in file
          /\ HasMagic(file, attDir, "ZISRAWATTDIR")
      BY <2>2 DEF AttachmentDirExtents, HasMagic
    <3> QED BY <2>2, <3>1, AttachmentsReadBack
  <2>4. PICK x \in AttachmentDirSlots(file, attDir) : x.what[2] = dir[k]
    BY <2>3
  <2> QED BY <1>3, <1>6, <2>1, <2>4 DEF AttachmentDirRead
<1> QED BY <1>9, <1>10, <1>11

\* What a reader then gets is the document.
LEMMA FinishedIsComplete ==
  ASSUME TypeInv, Inv, AreasInv, MetadataKept, DirectoriesInv, TidyInv,
         CloseInv, NothingToSpare, Done("FinishHeader")
  PROVE  /\ CanOpen(file)
         /\ accepted \ CutShort \subseteq
              ReadableSubBlocks(file) \cup ReadableAttachments(file)
         /\ meta # UnknownMeta => ReadableMetadata(file) = {meta} \ {NoMeta}
<1>1. /\ phase = "open" /\ AcceptedKept /\ op = "FinishHeader"
  BY DEF Done, Inv, OpInPhase, Ops, CreateOps
<1>2. CanOpen(file)
  BY FinishedOpens
<1>3. \A x : Kept(x) => x \in file
  BY DEF Kept
<1>4. ASSUME NEW c \in (accepted \cap SubBlocks) \ CutShort
      PROVE  c \in ReadableSubBlocks(file)
  <2>1. PICK k \in DOMAIN sbBlkDirectory :
          /\ sbBlkDirectory[k].id = c
          /\ \A x \in SubBlockExtents(sbBlkDirectory[k].pos, c) : Kept(x)
    BY <1>1 DEF AcceptedKept
  <2>2. SubBlockAt(file, sbBlkDirectory[k].pos, c)
    BY <1>3, <2>1 DEF SubBlockAt
  <2>3. sbBlkDirectory[k] \in SubBlkDirRead(file)
    BY FinishedOpens
  <2> QED BY <1>2, <2>1, <2>2, <2>3 DEF ReadableSubBlocks
<1>5. ASSUME NEW a \in accepted \cap Attachments
      PROVE  a \in ReadableAttachments(file)
  <2>1. PICK k \in DOMAIN attachmentDirectory :
          /\ attachmentDirectory[k].id = a
          /\ \A x \in AttachmentExtents(attachmentDirectory[k].pos, a) : Kept(x)
    BY <1>1 DEF AcceptedKept
  <2>2. AttachmentAt(file, attachmentDirectory[k].pos, a)
    BY <1>3, <2>1 DEF AttachmentAt
  <2>3. attachmentDirectory[k] \in AttachmentDirRead(file)
    BY FinishedOpens
  <2> QED BY <1>2, <2>1, <2>2, <2>3 DEF ReadableAttachments
<1>6. accepted \subseteq SubBlocks \cup Attachments
  BY DEF TypeInv, TypeOK
<1>7. ASSUME meta # UnknownMeta
      PROVE  ReadableMetadata(file) = {meta} \ {NoMeta}
  <2> DEFINE md == HeaderPosition(metadataSegment)
  <2>1. HeaderField(file, "MetadataPosition") = {md}
    BY DEF Done, CloseInv, HeaderOf
  <2>2. CASE meta \in Metadatas
    <3>1. Holds(metadataSegment, MetadataExtents(metadataSegment.pos, meta))
      BY <1>1, <2>2 DEF MetadataKept
    <3>2. /\ md = metadataSegment.pos /\ MetadataAt(file, md, meta)
          /\ metadataSegment.valid
      BY <3>1 DEF Holds, HeaderPosition, MetadataAt
    <3>3. md \in Nat /\ md # 0
      BY <3>2 DEF TypeInv, TypeOK, Segments, AreasInv, SegmentsApart,
                  Reusable, FileHeaderSegmentSize
    <3> HIDE DEF md
    <3>4. \A n \in Metadatas : MetadataAt(file, md, n) => n = meta
      BY <3>2, <3>3, OneMetadata DEF TidyInv
    <3>5. ReadableMetadata(file) = {meta}
      BY <1>2, <2>1, <2>2, <3>2, <3>3, <3>4 DEF ReadableMetadata
    <3>6. meta # NoMeta
      BY <2>2, WriterAssumption
    <3> QED BY <3>5, <3>6
  <2>3. CASE meta = NoMeta
    <3>1. md = 0
      BY <1>1, <2>3 DEF NothingToSpare, HeaderPosition
    <3>2. ReadableMetadata(file) = {}
      BY <2>1, <3>1 DEF ReadableMetadata
    <3> QED BY <2>3, <3>2
  <2> QED BY <1>7, <2>2, <2>3 DEF TypeInv, TypeOK
<1> QED BY <1>2, <1>4, <1>5, <1>6, <1>7

-----------------------------------------------------------------------------
(* The writer implements CziDocument. *)

Reading ==
  /\ Document!Partial(Published)
  /\ phase = "creating" => Published = Document!Nothing
  /\ Done("FinishHeader") => Document!Complete(Published)

LEMMA PublishedReading ==
  ASSUME TypeInv, Inv, AreasInv, MetadataKept, DirectoriesInv, TidyInv,
         CloseInv, NothingToSpare
  PROVE  Reading
<1>1. /\ ~CanOpen(file) => Published = Document!Nothing
      /\ CanOpen(file) =>
           /\ Published.readable
           /\ Published.items = ReadableSubBlocks(file)
                                  \cup ReadableAttachments(file)
           /\ Published.metadata = ReadableMetadata(file)
  BY DEF Published, Document!Nothing
<1>2. Document!Partial(Published)
  BY <1>1, OnlyNamedItemsAreRead DEF Document!Partial
<1>3. phase = "creating" => Published = Document!Nothing
  BY <1>1, CreatingCannotBeOpened
<1>4. Done("FinishHeader") => Document!Complete(Published)
  BY <1>1, OnlyNamedItemsAreRead, FinishedIsComplete DEF Document!Complete
<1> QED BY <1>2, <1>3, <1>4 DEF Reading

LEMMA StepImplements ==
  ASSUME TypeInv, Inv, AreasInv, Reading, Reading', [Next]_vars
  PROVE  [Document!DocNext]_(Document!docVars)
<1> USE DEF Document!docVars
<1>1. file' = file => Published' = Published
  BY DEF Published
<1>2. CASE UNCHANGED <<file, client>>
  BY <1>1, <1>2 DEF client
<1>3. ASSUME NEW i \in WriterInfos, Create(i)
      PROVE  Document!Begin
  <2>1. phase \in {"none", "closed"}
    BY <1>3 DEF Create, Inv, OpInPhase, TypeInv, TypeOK
  <2> QED BY <1>3, <2>1 DEF Create, Document!Begin, Reading
<1>4. CASE AttachmentDirReserved
  <2>1. phase = "creating"
    BY <1>4 DEF AttachmentDirReserved, Done, Inv, OpInPhase, CreateOps
  <2>2. Document!Opened
    BY <1>1, <1>4, <2>1 DEF AttachmentDirReserved, Document!Opened
  <2> QED BY <2>2 DEF Document!DocNext
<1>5. CASE SubBlockAdded \/ AttachmentAdded
  <2>1. /\ phase = "open" /\ item \in SubBlocks \cup Attachments
        /\ accepted' = accepted \cup {item}
        /\ UNCHANGED <<file, phase, doubtful, meta>>
    BY <1>5 DEF SubBlockAdded, AttachmentAdded, Done, TypeInv, TypeOK, Inv,
                OpInPhase, Ops, CreateOps
  <2>2. CASE item \notin CutShort
    <3>1. Document!Accept(item)
      BY <1>1, <2>1, <2>2 DEF Document!Accept
    <3> QED BY <2>1, <3>1 DEF Document!DocNext
  <2>3. CASE item \in CutShort
    <3>1. Document!Fail(item)
      BY <1>1, <2>1, <2>3 DEF Document!Fail, Document!Partial, Reading
    <3> QED BY <2>1, <3>1 DEF Document!DocNext
  <2> QED BY <2>2, <2>3
<1>6. CASE MetadataWritten
  <2>1. /\ phase = "open" /\ item \in Metadatas /\ meta' = item
        /\ UNCHANGED <<file, phase, accepted, doubtful>>
    BY <1>6 DEF MetadataWritten, Done, TypeInv, TypeOK, Inv, OpInPhase, Ops,
                CreateOps
  <2>2. Document!Describe(item)
    BY <2>1 DEF Document!Describe, Document!Partial, Reading
  <2> QED BY <2>1, <2>2 DEF Document!DocNext
<1>7. CASE Closed
  <2>1. phase = "open" /\ Done("FinishHeader")
    BY <1>7 DEF Closed, Done, Inv, OpInPhase, Ops, CreateOps
  <2>2. Document!Finish
    BY <1>1, <1>7, <2>1 DEF Closed, Document!Finish, Reading
  <2> QED BY <2>2 DEF Document!DocNext
<1>8. CASE Discard
  <2>1. Document!Abandon
    BY <1>1, <1>8 DEF Discard, Document!Abandon
  <2> QED BY <2>1 DEF Document!DocNext
<1>9. CASE WriteOk \/ WriteFails
  <2>1. CASE phase = "creating"
    <3>1. UNCHANGED client
      BY <1>9, <2>1
         DEF WriteOk, WriteFails, client, Inv, OpInPhase, Ops, CreateOps
    <3> QED BY <2>1, <3>1 DEF Reading, client
  <2>2. CASE phase = "open"
    <3>1. CASE UNCHANGED client
      <4>1. Document!Publish
        BY <2>2, <3>1 DEF client, Document!Publish, Document!Partial, Reading
      <4> QED BY <4>1 DEF Document!DocNext
    <3>2. CASE WriteFails /\ op \in {"AddSubBlock", "AddAttachment"}
      <4>1. /\ item \in SubBlocks \cup Attachments
            /\ doubtful' = doubtful \cup {item}
            /\ UNCHANGED <<phase, accepted, meta>>
        BY <3>2 DEF WriteFails, TypeInv, TypeOK
      <4>2. Document!Fail(item)
        BY <2>2, <4>1 DEF Document!Fail, Document!Partial, Reading
      <4> QED BY <4>1, <4>2 DEF Document!DocNext
    <3>3. CASE WriteFails /\ op = "WriteMetadata"
      <4>1. /\ meta' = UnknownMeta
            /\ UNCHANGED <<phase, accepted, doubtful>>
        BY <3>3 DEF WriteFails
      <4>2. Document!Describe(UnknownMeta)
        BY <2>2, <4>1 DEF Document!Describe, Document!Partial, Reading
      <4> QED BY <4>2 DEF Document!DocNext
    <3> QED BY <1>9, <3>1, <3>2, <3>3 DEF WriteOk, WriteFails, client
  <2>3. phase \in {"creating", "open"}
    <3>1. op # "idle"
      BY <1>9 DEF WriteOk, WriteFails, AreasInv
    <3> QED BY <3>1 DEF Inv, OpInPhase, TypeInv, TypeOK
  <2> QED BY <2>1, <2>2, <2>3
<1>10. UNCHANGED vars => UNCHANGED <<file, client>>
  BY DEF vars
<1>11. Next =>
         \/ UNCHANGED <<file, client>>
         \/ \E i \in WriterInfos : Create(i)
         \/ AttachmentDirReserved \/ SubBlockAdded \/ AttachmentAdded
         \/ MetadataWritten \/ Closed \/ Discard \/ WriteOk \/ WriteFails
  BY DEF Next, CreateHeaderWritten, MetadataReserved, SubBlkDirReserved,
         SyncAddSubBlock, SyncAddAttachment, SyncWriteMetadata, Close,
         SubBlkDirFinished, AttachmentDirFinished
<1> QED BY <1>2, <1>3, <1>4, <1>5, <1>6, <1>7, <1>8, <1>9, <1>10, <1>11
        DEF Document!DocNext

\* Nothing is planned for Close before Close begins.
LEMMA CloseInit == Init => CloseInv /\ NothingToSpare
<1> SUFFICES ASSUME Init PROVE CloseInv /\ NothingToSpare
  OBVIOUS
<1>1. /\ op = "idle" /\ writes = <<>> /\ ~attachmentDirectorySegment.valid
      /\ ~metadataSegment.valid /\ info = DefaultInfo
  BY DEF Init, NoSegment
<1> QED BY <1>1 DEF CloseInv, NothingToSpare, DefaultInfo

\* The inductive invariant of the refinement
RefInv ==
  /\ TypeInv /\ Inv /\ AreasInv /\ MetadataKept
  /\ DirectoriesInv /\ TidyInv /\ CloseInv /\ NothingToSpare

LEMMA RefInit == Init => RefInv
<1>1. Init => MetadataKept /\ DirectoriesInv
  BY DEF Init, MetadataKept, DirectoriesInv
<1> QED BY <1>1, TypeInit, InvInit, AreasInit, TidyInit, CloseInit DEF RefInv

LEMMA RefNext ==
  ASSUME NoAttachmentsReserved, RefInv, [Next]_vars
  PROVE  RefInv'
<1>1. CloseInv' /\ NothingToSpare'
  <2>1. CASE UNCHANGED vars
    BY <2>1 DEF RefInv, CloseInv, NothingToSpare, DirectoryWritten,
                AttachmentDirWritten, Holds, Planned, vars, directories,
                segments, client
  <2>2. CASE Next
    BY <2>2, CloseNext, NothingToSpareNext DEF RefInv
  <2> QED BY <2>1, <2>2
<1>2. TypeInv' /\ Inv' /\ AreasInv' /\ MetadataKept'
  BY TypeNext, InvNext, AreasNext, MetadataNext DEF RefInv
<1>3. DirectoriesInv' /\ TidyInv'
  BY DirectoriesNext, TidyNext DEF RefInv
<1> QED BY <1>1, <1>2, <1>3 DEF RefInv

\* What a client, and a reader of the file, see of the writer is a document as
\* CziDocument describes it, if no attachment directory is reserved in advance
\* (with one that is, Close leaves a directory that a reader rejects; run
\* writer_reserved_attachments).
THEOREM WriterImplementsDocument ==
  ASSUME NoAttachmentsReserved
  PROVE  Spec => WriterKeepsPromise
<1>1. Init => Document!DocInit
  <2> SUFFICES ASSUME Init PROVE Document!DocInit
    OBVIOUS
  <2>1. ~CanOpen(file)
    BY DEF Init, CanOpen, HasMagic
  <2>2. Published = Document!Nothing
    BY <2>1 DEF Published, Document!Nothing
  <2> QED BY <2>2 DEF Init, Document!DocInit
<1>2. RefInv => Reading
  BY PublishedReading DEF RefInv
<1>3. RefInv /\ [Next]_vars => RefInv'
  BY RefNext
<1>4. RefInv /\ Reading /\ Reading' /\ [Next]_vars
        => [Document!DocNext]_(Document!docVars)
  BY StepImplements DEF RefInv
<1> QED
  BY <1>1, <1>2, <1>3, <1>4, RefInit, PTL
     DEF Spec, WriterKeepsPromise, Document!DocSpec
=============================================================================
