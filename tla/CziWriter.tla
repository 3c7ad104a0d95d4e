------------------------------ MODULE CziWriter ------------------------------
(***************************************************************************)
(* CCziWriter: writes a new CZI document, segment by segment.              *)
(*                                                                         *)
(* A call of the client (Create, SyncAddSubBlock, ...) is a start action   *)
(* that does what the method does before its first write, a step WriteOk   *)
(* for every call of the stream's Write, and an end action that does what  *)
(* remains.  Any of the writes may throw (WriteFails), which ends the call *)
(* as the exception leaves it, and the writer may be destroyed or its      *)
(* process die at any point (Discard).  Calls the code rejects before it   *)
(* changes anything (not operational, duplicate, bad argument) are no      *)
(* steps.  The class is documented as not thread-safe: calls do not        *)
(* overlap.                                                                *)
(***************************************************************************)
EXTENDS CziWriterUtils

CONSTANTS
  Coordinate,             \* the coordinate (with M-index) of a sub-block
  AllowDuplicates,        \* CZIWriterOptions.allow_duplicate_subblocks
  WriterInfos,            \* the ICziWriterInfo objects a client passes
  NoItem,                 \* no call is under way
  MaxEntries,             \* bound: sub-block directory entries
  MaxFaults               \* bound: writes that fail

\* An ICziWriterInfo says how much space to reserve for each segment: 0 asks
\* for a default.  (It has no dimension bounds here.)
NotReserved == -1
DefaultInfo == [metadata |-> NotReserved, subBlkDir |-> NotReserved,
                attachmentDir |-> NotReserved]

NoMeta == "none"      \* no metadata was written
UnknownMeta == "?"    \* writing metadata threw

ASSUME WriterAssumption ==
  /\ SubBlocks \cap Attachments = {}
  /\ Metadatas \cap {NoMeta, UnknownMeta} = {}
  /\ Coordinate \in [SubBlocks -> Nat]
  /\ AllowDuplicates \in BOOLEAN
  /\ WriterInfos \subseteq [metadata : Nat \cup {NotReserved},
                            subBlkDir : Nat \cup {NotReserved},
                            attachmentDir : Nat \cup {NotReserved}]
  /\ MaxEntries \in Nat
  /\ MaxFaults \in Nat

VARIABLES
  file,                         \* what the output stream holds
  stream,                       \* the writer has a stream
  info,                         \* what Create was given
  nextSegmentPos,
  sbBlkDirectory,               \* entries [id, pos], in the order added
  attachmentDirectory,          \* entries [id, pos]
  metadataSegment,
  subBlockDirectorySegment,
  attachmentDirectorySegment,
  op,                           \* the method, or the part of it, that runs
  item,                         \* its argument
  writes,                       \* the writes it still has to make
  phase,                        \* the client: none, creating, open, closed
  accepted,                     \* the client: adds that returned normally
  doubtful,                     \* the client: adds that threw
  meta,                         \* the client: metadata written last, if known
  faults                        \* writes that have failed

segments == <<metadataSegment, subBlockDirectorySegment,
              attachmentDirectorySegment>>
directories == <<sbBlkDirectory, attachmentDirectory>>
client == <<phase, accepted, doubtful, meta>>
vars == <<file, stream, info, nextSegmentPos, directories, segments, op, item,
          writes, client, faults>>

Items == SubBlocks \cup Attachments \cup Metadatas

-----------------------------------------------------------------------------
(* Reservations made by Create. *)

ReservedFor(s, default) == IF s = 0 THEN default ELSE s

MetadataReservation ==
  AlignSegmentSize(256 + ReservedFor(info.metadata, 10 * 1024))

SubBlkDirReservation ==
  AlignSegmentSize(128 + ReservedFor(info.subBlkDir, 10) * (32 + 20 * 40))

AttachmentDirReservation ==
  AlignSegmentSize(AttachmentDirUsed(ReservedFor(info.attachmentDir, 10)))

\* A reservation is the header of a DELETED segment, nothing behind it.
Reserve(s, pos, headerSize, allocated) ==
  IF s = NotReserved
  THEN <<>>
  ELSE <<Write(pos, headerSize, SegmentHeader(pos, "DELETED", allocated))>>

Reserved(s, segment, allocated) ==
  IF s = NotReserved
  THEN segment
  ELSE SegmentAt(nextSegmentPos, allocated, TRUE)

AfterReservation(s, allocated) ==
  IF s = NotReserved
  THEN nextSegmentPos
  ELSE nextSegmentPos + SegmentHeaderSize + allocated

-----------------------------------------------------------------------------
(* The calls. *)

\* The part `o` of a call is done: all its writes have been made.
Done(o) == op = o /\ writes = <<>>

\* The client uses a writer only after its Create has returned.
Callable == op = "idle" /\ stream /\ phase = "open"

\* Part `o` begins, with the writes `ws`.
Begin(o, ws) == op' = o /\ writes' = ws

ReturnToClient == op' = "idle" /\ item' = NoItem /\ UNCHANGED writes

Create(i) ==
  /\ op = "idle" /\ ~stream
  /\ stream' = TRUE
  /\ info' = i
  /\ file' = {}
  /\ Begin("Create", WriteFileHeader(0, 0, 0))
  /\ phase' = "creating"
  /\ accepted' = {} /\ doubtful' = {} /\ meta' = NoMeta
  /\ UNCHANGED <<nextSegmentPos, directories, segments, item, faults>>

CreateHeaderWritten ==
  /\ Done("Create")
  /\ nextSegmentPos' = FileHeaderSegmentSize
  /\ Begin("ReserveMetadata",
           Reserve(info.metadata, nextSegmentPos', FixedHeaderSize,
                   MetadataReservation))
  /\ UNCHANGED <<file, stream, info, directories, segments, item, client,
                 faults>>

MetadataReserved ==
  /\ Done("ReserveMetadata")
  /\ metadataSegment' =
       Reserved(info.metadata, metadataSegment, MetadataReservation)
  /\ nextSegmentPos' = AfterReservation(info.metadata, MetadataReservation)
  /\ Begin("ReserveSubBlkDir",
           Reserve(info.subBlkDir, nextSegmentPos', SubBlkDirHeaderSize,
                   SubBlkDirReservation))
  /\ UNCHANGED <<file, stream, info, directories, subBlockDirectorySegment,
                 attachmentDirectorySegment, item, client, faults>>

SubBlkDirReserved ==
  /\ Done("ReserveSubBlkDir")
  /\ subBlockDirectorySegment' =
       Reserved(info.subBlkDir, subBlockDirectorySegment,
                SubBlkDirReservation)
  /\ nextSegmentPos' = AfterReservation(info.subBlkDir, SubBlkDirReservation)
  /\ Begin("ReserveAttachmentDir",
           Reserve(info.attachmentDir, nextSegmentPos', FixedHeaderSize,
                   AttachmentDirReservation))
  /\ UNCHANGED <<file, stream, info, directories, metadataSegment,
                 attachmentDirectorySegment, item, client, faults>>

AttachmentDirReserved ==
  /\ Done("ReserveAttachmentDir")
  /\ attachmentDirectorySegment' =
       Reserved(info.attachmentDir, attachmentDirectorySegment,
                AttachmentDirReservation)
  /\ nextSegmentPos' =
       AfterReservation(info.attachmentDir, AttachmentDirReservation)
  /\ ReturnToClient
  /\ phase' = "open"
  /\ UNCHANGED <<file, stream, info, directories, metadataSegment,
                 subBlockDirectorySegment, accepted, doubtful, meta, faults>>

\* With duplicates allowed, entries still differ in their file position.
IsInDirectory(c) ==
  \E k \in DOMAIN sbBlkDirectory :
    /\ Coordinate[sbBlkDirectory[k].id] = Coordinate[c]
    /\ AllowDuplicates => sbBlkDirectory[k].pos = nextSegmentPos

SyncAddSubBlock(c) ==
  /\ Callable
  /\ Len(sbBlkDirectory) < MaxEntries
  /\ ~IsInDirectory(c)
  /\ sbBlkDirectory' =
       Append(sbBlkDirectory, [id |-> c, pos |-> nextSegmentPos])
  /\ item' = c
  /\ Begin("AddSubBlock",
           WriteSubBlock(nextSegmentPos, c, SubBlockAllocated(c)))
  /\ UNCHANGED <<file, stream, info, nextSegmentPos, attachmentDirectory,
                 segments, client, faults>>

SubBlockAdded ==
  /\ Done("AddSubBlock")
  /\ nextSegmentPos' =
       nextSegmentPos + SubBlockBytes(item, SubBlockAllocated(item))
  /\ accepted' = accepted \cup {item}
  /\ ReturnToClient
  /\ UNCHANGED <<file, stream, info, directories, segments, phase, doubtful,
                 meta, faults>>

\* Mutant: the entry names the argument of the previous call.
AddAttachmentStaleItem(a) ==
  /\ Callable
  /\ \A k \in DOMAIN attachmentDirectory : attachmentDirectory[k].id # a
  /\ attachmentDirectory' =
       Append(attachmentDirectory, [id |-> item, pos |-> nextSegmentPos])
  /\ item' = a
  /\ Begin("AddAttachment",
           WriteAttachment(nextSegmentPos, a, AttachmentAllocated(a)))
  /\ UNCHANGED <<file, stream, info, nextSegmentPos, sbBlkDirectory, segments,
                 client, faults>>

SyncAddAttachment(a) ==
  /\ Callable
  /\ \A k \in DOMAIN attachmentDirectory : attachmentDirectory[k].id # a
  /\ attachmentDirectory' =
       Append(attachmentDirectory, [id |-> a, pos |-> nextSegmentPos])
  /\ item' = a
  /\ Begin("AddAttachment",
           WriteAttachment(nextSegmentPos, a, AttachmentAllocated(a)))
  /\ UNCHANGED <<file, stream, info, nextSegmentPos, sbBlkDirectory, segments,
                 client, faults>>

AttachmentAdded ==
  /\ Done("AddAttachment")
  /\ nextSegmentPos' =
       nextSegmentPos + AttachmentBytes(item, AttachmentAllocated(item))
  /\ accepted' = accepted \cup {item}
  /\ ReturnToClient
  /\ UNCHANGED <<file, stream, info, directories, segments, phase, doubtful,
                 meta, faults>>

\* Mutant: the segment header is not counted.
AdvancedWithoutHeader(at) ==
  IF at.pos = nextSegmentPos
  THEN nextSegmentPos + at.allocated
  ELSE nextSegmentPos

\* Only a segment put at the append position moves it.
Advanced(at) ==
  IF at.pos = nextSegmentPos
  THEN nextSegmentPos + at.allocated + SegmentHeaderSize
  ELSE nextSegmentPos

SyncWriteMetadata(m) ==
  /\ Callable
  /\ item' = m
  /\ Begin("WriteMetadata", WriteMetadata(metadataSegment, m, nextSegmentPos))
  /\ UNCHANGED <<file, stream, info, nextSegmentPos, directories, segments,
                 client, faults>>

MetadataWritten ==
  LET at == MetadataPlace(metadataSegment, item, nextSegmentPos)
  IN  /\ Done("WriteMetadata")
      /\ metadataSegment' = SegmentAt(at.pos, at.allocated, FALSE)
      /\ nextSegmentPos' = Advanced(at)
      /\ meta' = item
      /\ ReturnToClient
      /\ UNCHANGED <<file, stream, info, directories, subBlockDirectorySegment,
                     attachmentDirectorySegment, phase, accepted, doubtful,
                     faults>>

-----------------------------------------------------------------------------
(* Close: sub-block directory, attachment directory, file header. *)

Close ==
  /\ Callable
  /\ Begin("FinishSubBlkDir",
           WriteSubBlkDirectory(subBlockDirectorySegment, sbBlkDirectory,
                                nextSegmentPos))
  /\ UNCHANGED <<file, stream, info, nextSegmentPos, directories, segments,
                 item, client, faults>>

\* No attachment directory is written for no attachments.
SubBlkDirFinished ==
  LET at == SubBlkDirPlace(subBlockDirectorySegment, sbBlkDirectory,
                           nextSegmentPos)
  IN  /\ Done("FinishSubBlkDir")
      /\ subBlockDirectorySegment' = SegmentAt(at.pos, at.allocated, FALSE)
      /\ nextSegmentPos' = Advanced(at)
      /\ Begin("FinishAttachmentDir",
               IF attachmentDirectory = <<>>
               THEN <<>>
               ELSE WriteAttachmentDirectory(attachmentDirectorySegment,
                                             attachmentDirectory,
                                             nextSegmentPos'))
      /\ UNCHANGED <<file, stream, info, directories, metadataSegment,
                     attachmentDirectorySegment, item, client, faults>>

HeaderPosition(segment) ==
  IF segment.valid /\ ~segment.deleted THEN segment.pos ELSE 0

\* Mutant: the header gets the attachment directory position as it was.
AttachmentDirFinishedStale ==
  LET at == AttachmentDirPlace(attachmentDirectorySegment,
                               attachmentDirectory, nextSegmentPos)
  IN  /\ Done("FinishAttachmentDir")
      /\ IF attachmentDirectory = <<>>
         THEN UNCHANGED <<attachmentDirectorySegment, nextSegmentPos>>
         ELSE /\ attachmentDirectorySegment' =
                   SegmentAt(at.pos, at.allocated, FALSE)
              /\ nextSegmentPos' = Advanced(at)
      /\ Begin("FinishHeader",
               WriteFileHeader(HeaderPosition(subBlockDirectorySegment),
                               HeaderPosition(metadataSegment),
                               HeaderPosition(attachmentDirectorySegment)))
      /\ UNCHANGED <<file, stream, info, directories, metadataSegment,
                     subBlockDirectorySegment, item, client, faults>>

AttachmentDirFinished ==
  LET at == AttachmentDirPlace(attachmentDirectorySegment,
                               attachmentDirectory, nextSegmentPos)
  IN  /\ Done("FinishAttachmentDir")
      /\ IF attachmentDirectory = <<>>
         THEN UNCHANGED <<attachmentDirectorySegment, nextSegmentPos>>
         ELSE /\ attachmentDirectorySegment' =
                   SegmentAt(at.pos, at.allocated, FALSE)
              /\ nextSegmentPos' = Advanced(at)
      /\ Begin("FinishHeader",
               WriteFileHeader(HeaderPosition(subBlockDirectorySegment),
                               HeaderPosition(metadataSegment),
                               HeaderPosition(attachmentDirectorySegment')))
      /\ UNCHANGED <<file, stream, info, directories, metadataSegment,
                     subBlockDirectorySegment, item, client, faults>>

\* Mutant: the sub-block directory keeps its entries.
ClearedButDirectory ==
  /\ stream' = FALSE
  /\ info' = DefaultInfo
  /\ nextSegmentPos' = 0
  /\ attachmentDirectory' = <<>> /\ UNCHANGED sbBlkDirectory
  /\ metadataSegment' = NoSegment
  /\ subBlockDirectorySegment' = NoSegment
  /\ attachmentDirectorySegment' = NoSegment

\* The members as the constructor, or the end of Close, leaves them
Cleared ==
  /\ stream' = FALSE
  /\ info' = DefaultInfo
  /\ nextSegmentPos' = 0
  /\ sbBlkDirectory' = <<>> /\ attachmentDirectory' = <<>>
  /\ metadataSegment' = NoSegment
  /\ subBlockDirectorySegment' = NoSegment
  /\ attachmentDirectorySegment' = NoSegment

Closed ==
  /\ Done("FinishHeader")
  /\ Cleared
  /\ ReturnToClient
  /\ phase' = "closed"
  /\ UNCHANGED <<file, accepted, doubtful, meta, faults>>

-----------------------------------------------------------------------------
(* The stream, and the end of a writer. *)

WriteOk ==
  /\ writes # <<>>
  /\ file' = Apply(file, Head(writes))
  /\ writes' = Tail(writes)
  /\ UNCHANGED <<stream, info, nextSegmentPos, directories, segments, op, item,
                 client, faults>>

\* A write throws, or is short, or a function of the client's delivers no data:
\* nothing, some or all of the bytes are in the file.  No method catches the
\* exception to undo what it has changed.
WriteFails ==
  LET w == Head(writes)
  IN  /\ writes # <<>>
      /\ faults < MaxFaults
      /\ file' \in {file, Smash(file, w), Apply(file, w)}
      /\ faults' = faults + 1
      /\ writes' = <<>> /\ op' = "idle" /\ item' = NoItem
      /\ doubtful' = IF op \in {"AddSubBlock", "AddAttachment"}
                     THEN doubtful \cup {item}
                     ELSE doubtful
      /\ meta' = IF op = "WriteMetadata" THEN UnknownMeta ELSE meta
      /\ UNCHANGED <<stream, info, nextSegmentPos, directories, segments,
                     phase, accepted>>

\* The object is destroyed without Close, or its process dies.
Discard ==
  /\ phase \in {"creating", "open"}
  /\ Cleared
  /\ op' = "idle" /\ item' = NoItem /\ writes' = <<>>
  /\ phase' = "none"
  /\ UNCHANGED <<file, accepted, doubtful, meta, faults>>

Init ==
  /\ file = {} /\ stream = FALSE /\ info = DefaultInfo /\ nextSegmentPos = 0
  /\ sbBlkDirectory = <<>> /\ attachmentDirectory = <<>>
  /\ metadataSegment = NoSegment
  /\ subBlockDirectorySegment = NoSegment
  /\ attachmentDirectorySegment = NoSegment
  /\ op = "idle" /\ item = NoItem /\ writes = <<>>
  /\ phase = "none" /\ accepted = {} /\ doubtful = {} /\ meta = NoMeta
  /\ faults = 0

Next ==
  \/ \E i \in WriterInfos : Create(i)
  \/ CreateHeaderWritten
  \/ MetadataReserved \/ SubBlkDirReserved \/ AttachmentDirReserved
  \/ \E c \in SubBlocks : SyncAddSubBlock(c)
  \/ SubBlockAdded
  \/ \E a \in Attachments : SyncAddAttachment(a)
  \/ AttachmentAdded
  \/ \E m \in Metadatas : SyncWriteMetadata(m)
  \/ MetadataWritten
  \/ Close \/ SubBlkDirFinished \/ AttachmentDirFinished \/ Closed
  \/ WriteOk \/ WriteFails \/ Discard

Spec == Init /\ [][Next]_vars

-----------------------------------------------------------------------------
(* Properties. *)

Ops == {"idle", "Create", "ReserveMetadata", "ReserveSubBlkDir",
        "ReserveAttachmentDir", "AddSubBlock", "AddAttachment",
        "WriteMetadata", "FinishSubBlkDir", "FinishAttachmentDir",
        "FinishHeader"}

\* The members of CCziWriter and the state of a call have their types; a call
\* to add or write has an argument of its kind.
TypeOK ==
  /\ \A x \in file : x.lo \in Nat /\ x.hi \in Nat
  /\ stream \in BOOLEAN
  /\ info \in WriterInfos \cup {DefaultInfo}
  /\ nextSegmentPos \in Nat
  /\ sbBlkDirectory \in Seq([id : SubBlocks, pos : Nat])
  /\ attachmentDirectory \in Seq([id : Attachments, pos : Nat])
  /\ metadataSegment \in Segments
  /\ subBlockDirectorySegment \in Segments
  /\ attachmentDirectorySegment \in Segments
  /\ op \in Ops
  /\ op = "AddSubBlock" => item \in SubBlocks
  /\ op = "AddAttachment" => item \in Attachments
  /\ op = "WriteMetadata" => item \in Metadatas
  /\ phase \in {"none", "creating", "open", "closed"}
  /\ accepted \subseteq SubBlocks \cup Attachments
  /\ doubtful \subseteq SubBlocks \cup Attachments
  /\ meta \in Metadatas \cup {NoMeta, UnknownMeta}
  /\ faults \in 0..MaxFaults

\* Sub-blocks that come out shorter than announced: their functions return
\* false with more than a chunk left, which WriteZeroes does not fill.
CutShort == {c \in SubBlocks : ~WrittenInFull(c)}

\* From the return of an add until the writer is closed or destroyed, the
\* segment of the item stays intact in the file, at the position its
\* directory entry gives: no later segment, reservation, retried or failed
\* write touches it, nor does a sub-block that is cut short, which only loses
\* its own end (SyncAddSubBlock, SyncAddAttachment, nextSegmentPos).
AcceptedIntact ==
  phase = "open" =>
    /\ \A c \in (accepted \cap SubBlocks) \ CutShort :
         \E k \in DOMAIN sbBlkDirectory :
           /\ sbBlkDirectory[k].id = c
           /\ SubBlockAt(file, sbBlkDirectory[k].pos, c)
    /\ \A a \in accepted \cap Attachments :
         \E k \in DOMAIN attachmentDirectory :
           /\ attachmentDirectory[k].id = a
           /\ AttachmentAt(file, attachmentDirectory[k].pos, a)

\* The metadata written last stays intact in its segment until the next
\* SyncWriteMetadata begins to replace it.
MetadataIntact ==
  phase = "open" /\ meta \in Metadatas /\ op # "WriteMetadata" =>
    /\ metadataSegment.valid /\ ~metadataSegment.deleted
    /\ MetadataAt(file, metadataSegment.pos, meta)

\* Whenever a crash or a failed Close leaves a file that can be opened, each
\* entry of its directories leads to the intact segment of its item, unless
\* the add of that item had failed, or it was cut short: Finish writes the
\* directories before the file header that makes them visible.
NoTornDirectory ==
  CanOpen(file) =>
    /\ \A e \in SubBlkDirRead(file) :
         SubBlockAt(file, e.pos, e.id) \/ e.id \in doubtful \cup CutShort
    /\ \A e \in AttachmentDirRead(file) :
         AttachmentAt(file, e.pos, e.id) \/ e.id \in doubtful

\* When Close has returned, a reader gets every attachment that was accepted.
AttachmentsSurviveClose ==
  phase = "closed" =>
    accepted \cap Attachments \subseteq ReadableAttachments(file)

\* And every sub-block: what its functions did not deliver has been filled with
\* zeroes until the announced size was reached (WriteSubBlkDataGeneric).
SubBlocksSurviveClose ==
  phase = "closed" =>
    accepted \cap SubBlocks \subseteq ReadableSubBlocks(file)

Published ==
  IF CanOpen(file)
  THEN [readable |-> TRUE,
        items |-> ReadableSubBlocks(file) \cup ReadableAttachments(file),
        metadata |-> ReadableMetadata(file)]
  ELSE [readable |-> FALSE, items |-> {}, metadata |-> {}]

\* The writer keeps the promise of CziDocument: what a reader sees of the
\* file is nothing or a part of the document until Close returns, then all of
\* it, and stays so (CCziWriter::Create to CCziWriter::Close).  A sub-block that
\* is cut short counts as one whose add has failed.
Document ==
  INSTANCE CziDocument
    WITH content <- accepted \ CutShort,
         doubtful <- doubtful \cup (accepted \cap CutShort),
         published <- Published,
         Items <- SubBlocks \cup Attachments

WriterKeepsPromise == Document!DocSpec
=============================================================================
