-------------------------- MODULE CziReaderWriter --------------------------
(***************************************************************************)
(* CCziReaderWriter: edits a CZI document in place.                        *)
(*                                                                         *)
(* Create reads the directories of the document, or begins an empty one.   *)
(* Every call then writes to the file at once: an item goes into the       *)
(* segment it replaces if it fits, or behind the last segment.  The        *)
(* directories and the file header are written by Close.                   *)
(*                                                                         *)
(* A call is split as in CziWriter: what the method does before its first  *)
(* write, a step for every write, and what remains.  A write may throw, and *)
(* the object may be destroyed or its process die at any point; the file   *)
(* can then be opened again.  Calls that are rejected before they change   *)
(* anything are no steps.  The order of the items in a directory is left   *)
(* out: it plays no role.                                                  *)
(*                                                                         *)
(* The client keeps to what the interface says of it: one call at a time,  *)
(* and none after Close, except that it may call Close again when it threw.*)
(* It replaces and removes only items that it knows to be there: those it  *)
(* could read when it opened the document, and those whose add returned.   *)
(* An object whose Create threw is not used again.                         *)
(***************************************************************************)
EXTENDS CziWriterUtils, SequencesExt

CONSTANTS
  Coordinate,             \* the coordinate (with M-index) of a sub-block
  Guids,                  \* GUIDs a client hands in, or that are generated
  Files,                  \* what the stream holds when it is first opened
  NoItem,                 \* no call is under way
  MaxKeys,                \* bound: keys given out in a directory
  MaxSessions,            \* bound: times the file is opened
  MaxEdits,               \* bound: calls that edit, over all sessions
  MaxFaults               \* bound: writes that fail

ASSUME ReaderWriterAssumption ==
  /\ SubBlocks \cap Attachments = {}
  /\ Coordinate \in [SubBlocks -> Nat]
  /\ MaxKeys \in Nat /\ MaxSessions \in Nat /\ MaxEdits \in Nat
  /\ MaxFaults \in Nat

VARIABLES
  file,                         \* what the stream holds
  stream,                       \* the object has a stream
  hdrSegmentData,               \* the file header when it was opened
  lastSegmentPos,
  nextSegmentPos,               \* 0: not determined yet
  sbBlkDirectory,               \* [entries: key -> [id, pos], next, modified]
  attachmentDirectory,          \* the same
  metadataSegment,
  subBlockDirectorySegment,
  attachmentDirectorySegment,
  op,                           \* the method, or the part of it, that runs
  item,                         \* its arguments
  key,
  writes,                       \* the writes it still has to make
  phase,                        \* client: none, creating, open, closing, ...
  known,                        \* client: the keys it may go on to use
  kept,                         \* client: the keys whose items it relies on
  untouched,                    \* client: sub-blocks found and left alone
  meta,                         \* client: the metadata, if known
  faults,
  sessions,
  edits

opened == <<stream, hdrSegmentData, lastSegmentPos>>
directories == <<sbBlkDirectory, attachmentDirectory>>
segments == <<metadataSegment, subBlockDirectorySegment,
              attachmentDirectorySegment>>
call == <<op, item, key, writes>>
client == <<phase, known, kept, untouched, meta>>
bounds == <<faults, sessions, edits>>
vars == <<file, opened, nextSegmentPos, directories, segments, call, client,
          bounds>>

NoMeta == "none"      \* there is no metadata
UnknownMeta == "?"    \* the metadata cannot be read, or writing it threw
NoKey == -1
TornGuid == "?"       \* parts of two GUIDs, or no GUID

ASSUME MetadataAssumption == Metadatas \cap {NoMeta, UnknownMeta} = {}

\* The functions of the client deliver all that they announce, or leave at most
\* a chunk for WriteZeroes to fill.  Else the next item is put over the end of
\* the sub-block, as CziWriter shows with SubBlocksSurviveClose (the methods that
\* write are the same), and as its segment promises more room than there is, a
\* sub-block that replaces it in place is put over the next item.
FunctorsDeliver == \A c \in SubBlocks : WrittenInFull(c)

SubBlock(k) == <<"subblock", k>>
Attachment(k) == <<"attachment", k>>

-----------------------------------------------------------------------------
(* The directories: items by keys, which are never given out twice. *)

EmptyDirectory == [entries |-> <<>>, next |-> 0, modified |-> FALSE]

DirectoryOf(dir) ==
  [entries |-> [k \in 0 .. Len(dir) - 1 |-> dir[k + 1]],
   next |-> Len(dir), modified |-> FALSE]

\* Mutant: the key of the next entry is not counted up.
AddEntrySameKey(d, e) ==
  [entries |-> [k \in DOMAIN d.entries \cup {d.next} |->
                  IF k = d.next THEN e ELSE d.entries[k]],
   next |-> d.next, modified |-> TRUE]

AddEntry(d, e) ==
  [entries |-> [k \in DOMAIN d.entries \cup {d.next} |->
                  IF k = d.next THEN e ELSE d.entries[k]],
   next |-> d.next + 1, modified |-> TRUE]

ModifyEntry(d, k, e) ==
  [d EXCEPT !.entries = [@ EXCEPT ![k] = e], !.modified = TRUE]

RemoveEntry(d, k) ==
  [d EXCEPT !.entries = [j \in DOMAIN d.entries \ {k} |-> d.entries[j]],
            !.modified = TRUE]

\* The entries in some order
Enumerated(d) ==
  LET keys == SetToSeq(DOMAIN d.entries)
  IN  [i \in DOMAIN keys |-> d.entries[keys[i]]]

EntriesOf(d) == {d.entries[k] : k \in DOMAIN d.entries}

-----------------------------------------------------------------------------
(* The GUIDs of the file header, which CziFile leaves out. *)

PrimaryFileGuid(guid) == Extent(48, 16, <<"PrimaryFileGuid", guid>>)
FileGuid(guid) == Extent(64, 16, <<"FileGuid", guid>>)

\* The GUID as a reader finds it
FileGuidIn(f) ==
  LET found == {x.what[2] : x \in {y \in f : y.what[1] = "FileGuid"}}
  IN  IF found = {} THEN TornGuid ELSE CHOOSE g \in found : TRUE

WriteHeaderSegment(guid, sbDir, md, attDir) ==
  <<Write(0, FileHeaderSegmentSize,
          FileHeader(sbDir, md, attDir)
            \cup {PrimaryFileGuid(guid), FileGuid(guid)})>>

\* Mutant: only one of the GUIDs is replaced.
UpdatePrimaryGuidOnly(guid) == <<Write(48, 16, {PrimaryFileGuid(guid)})>>

UpdateFileHeaderGuid(guid) ==
  <<Write(48, 16, {PrimaryFileGuid(guid)}), Write(64, 16, {FileGuid(guid)})>>

NoHeader == [guid |-> TornGuid, subBlockDirectory |-> 0,
             attachmentDirectory |-> 0, metadata |-> 0]

-----------------------------------------------------------------------------
(* The files a client has: each part is one that libCZI writes. *)

\* The segments begin behind the file header.
BehindHeader == {n \in Nat : n >= FileHeaderSegmentSize}

WellFormed(x) ==
  /\ x.lo \in Nat /\ x.hi \in Nat /\ x.lo < x.hi
  /\ x.what[1] = "allocated" =>
       /\ x.what[2] \in Nat
       /\ x.lo = 16 =>
            x.what[2] >= FileHeaderSegmentSize - SegmentHeaderSize
  /\ x.what[1] = "SubBlockDirectoryPosition" =>
       x.lo = 84 /\ x.what[2] \in BehindHeader \cup {0}
  /\ x.what[1] = "MetadataPosition" =>
       x.lo = 92 /\ x.what[2] \in BehindHeader \cup {0}
  /\ x.what[1] = "AttachmentDirectoryPosition" =>
       x.lo = 104 /\ x.what[2] \in BehindHeader \cup {0}
  /\ x.what[1] = "FileGuid" => \E g \in Guids \cup {TornGuid} : x = FileGuid(g)
  /\ x.what[1] = "entries" =>
       /\ x.what[2] \in Seq([id : SubBlocks, pos : BehindHeader])
       /\ x = Extent(x.lo, Len(x.what[2]) * EntryDVSize, x.what)
  /\ x.what[1] = "count" =>
       x.what[2] \in Nat /\ x = Extent(x.lo, 4, x.what)
  /\ x.what[1] = "entryA1" =>
       /\ x.what[2] \in [id : Attachments, pos : BehindHeader]
       /\ x = Extent(x.lo, AttachmentEntrySize, x.what)

IsCziFile(f) ==
  /\ IsFiniteSet(f)
  /\ \A x \in f : WellFormed(x) /\ \A y \in f : x.lo = y.lo => x = y

ASSUME FilesAssumption == \A f \in Files : IsCziFile(f)

-----------------------------------------------------------------------------
(* Where a new segment goes. *)

\* Mutant: only the sub-blocks are considered.
LastSegmentSubBlocksOnly(sbDir, attDir, hdr) ==
  LET all == {e.pos : e \in EntriesOf(sbDir)} \cup {0}
  IN  CHOOSE p \in all : \A q \in all : q <= p

DetermineNextSubBlockOffset(sbDir, attDir, hdr) ==
  LET all == {e.pos : e \in EntriesOf(sbDir) \cup EntriesOf(attDir)}
               \cup {hdr.subBlockDirectory, hdr.attachmentDirectory,
                     hdr.metadata, 0}
  IN  CHOOSE p \in all : \A q \in all : q <= p

\* Behind the last segment, whose header is read when this is first needed.
\* {}: there is no such header, and the call throws.
EnsureNextSegmentInfo ==
  IF nextSegmentPos # 0
  THEN {nextSegmentPos}
  ELSE {lastSegmentPos + SegmentHeaderSize + a :
          a \in AllocatedSize(file, lastSegmentPos)}

-----------------------------------------------------------------------------
(* The calls. *)

Done(o) == op = o /\ writes = <<>>

Callable == op = "idle" /\ stream /\ phase = "open"

\* Part `o` begins, for item i and key k, with the writes ws.
Begin(o, i, k, ws) == op' = o /\ item' = i /\ key' = k /\ writes' = ws

\* A call of the client that edits begins like this.
Edit(o, i, k, ws) ==
  Begin(o, i, k, ws) /\ edits' = edits + 1 /\ UNCHANGED <<faults, sessions>>

ReturnToClient ==
  op' = "idle" /\ item' = NoItem /\ key' = NoKey /\ UNCHANGED writes

\* Create takes an object of its own, and gives it the stream.
Create ==
  /\ op = "idle" /\ ~stream /\ phase = "none" /\ sessions < MaxSessions
  /\ stream' = TRUE /\ phase' = "creating" /\ sessions' = sessions + 1
  /\ UNCHANGED <<file, hdrSegmentData, lastSegmentPos, nextSegmentPos,
                 directories, segments, known, kept, untouched, meta, faults,
                 edits>>

\* The stream is empty: a file header is written.
CreateNew ==
  /\ Create
  /\ file = {}
  /\ \E g \in Guids :
       Begin("WriteHeader", g, NoKey, WriteHeaderSegment(g, 0, 0, 0))

CreatedNew ==
  /\ Done("WriteHeader")
  /\ hdrSegmentData' = [NoHeader EXCEPT !.guid = item]
  /\ lastSegmentPos' = 0
  /\ ReturnToClient
  /\ phase' = "open"
  /\ UNCHANGED <<file, stream, nextSegmentPos, directories, segments, known,
                 kept, untouched, meta, bounds>>

\* A document is there, and its GUIDs are left alone or replaced.
OpenDocument ==
  /\ Create
  /\ HasMagic(file, 0, "ZISRAWFILE")
  /\ \/ Begin("ReadCziStructure", NoItem, NoKey, <<>>)
     \/ \E g \in Guids :
          Begin("ReadCziStructure", g, NoKey, UpdateFileHeaderGuid(g))

\* The items of a directory that a client finds: the segments are theirs, and
\* no other entry leads to the same segment.
Found(dir, isAt(_, _, _)) ==
  {k \in 0 .. Len(dir) - 1 :
     /\ isAt(file, dir[k + 1].pos, dir[k + 1].id)
     /\ \A j \in DOMAIN dir \ {k + 1} : dir[j].pos # dir[k + 1].pos}

\* No attachment directory, or a readable one: <<its entries, its size>>
AttachmentDirectories(pos) ==
  IF pos = 0
  THEN {<<<<>>, NoSegment>>}
  ELSE LET slots == SetToSeq(AttachmentDirSlots(file, pos))
       IN  {<<[i \in DOMAIN slots |-> slots[i].what[2]],
              SegmentAt(pos, a, FALSE)>> :
              a \in {b \in AllocatedSize(file, pos) :
                       /\ HasMagic(file, pos, "ZISRAWATTDIR")
                       /\ \E x \in file : /\ x.lo = pos + SegmentHeaderSize
                                          /\ x.what[1] = "count"}}

MetadataSegments(pos) ==
  IF pos = 0
  THEN {NoSegment}
  ELSE {SegmentAt(pos, a, FALSE) :
          a \in {b \in AllocatedSize(file, pos) :
                   HasMagic(file, pos, "ZISRAWMETADATA")}}

MetadataRead(segment) ==
  IF ~segment.valid
  THEN NoMeta
  ELSE LET found == {m \in Metadatas : MetadataAt(file, segment.pos, m)}
       IN  IF found = {} THEN UnknownMeta ELSE CHOOSE m \in found : TRUE

GuidKept(f, forced) == IF forced = NoItem THEN FileGuidIn(f) ELSE forced

\* The header and the directories of the document are read.
ReadCziStructure ==
  /\ Done("ReadCziStructure")
  /\ \E p \in HeaderField(file, "SubBlockDirectoryPosition"),
        q \in HeaderField(file, "AttachmentDirectoryPosition"),
        r \in HeaderField(file, "MetadataPosition") :
       \E dir \in SubBlkDirAt(file, p), a \in AllocatedSize(file, p),
          att \in AttachmentDirectories(q), md \in MetadataSegments(r) :
         /\ hdrSegmentData' = [guid |-> GuidKept(file, item),
                               subBlockDirectory |-> p,
                               attachmentDirectory |-> q, metadata |-> r]
         /\ sbBlkDirectory' = DirectoryOf(dir)
         /\ subBlockDirectorySegment' = SegmentAt(p, a, FALSE)
         /\ attachmentDirectory' = DirectoryOf(att[1])
         /\ attachmentDirectorySegment' = att[2]
         /\ metadataSegment' = md
         /\ meta' = MetadataRead(md)
         /\ kept' = {SubBlock(k) : k \in Found(dir, SubBlockAt)}
                      \cup {Attachment(k) : k \in Found(att[1], AttachmentAt)}
         /\ untouched' = {dir[k + 1] : k \in Found(dir, SubBlockAt)}
  /\ lastSegmentPos' =
       DetermineNextSubBlockOffset(sbBlkDirectory', attachmentDirectory',
                                   hdrSegmentData')
  /\ known' = kept'
  /\ ReturnToClient
  /\ phase' = "open"
  /\ UNCHANGED <<file, stream, nextSegmentPos, bounds>>

\* One of the directories or the segment of the metadata cannot be read.
CreateThrows ==
  /\ Done("ReadCziStructure")
  /\ ~ \E p \in HeaderField(file, "SubBlockDirectoryPosition"),
          q \in HeaderField(file, "AttachmentDirectoryPosition"),
          r \in HeaderField(file, "MetadataPosition") :
         /\ SubBlkDirAt(file, p) # {} /\ AllocatedSize(file, p) # {}
         /\ AttachmentDirectories(q) # {} /\ MetadataSegments(r) # {}
  /\ ReturnToClient
  /\ stream' = FALSE /\ phase' = "none"
  /\ UNCHANGED <<file, hdrSegmentData, lastSegmentPos, nextSegmentPos,
                 directories, segments, known, kept, untouched, meta, bounds>>

SyncAddSubBlock(c) ==
  /\ Callable /\ edits < MaxEdits
  /\ sbBlkDirectory.next < MaxKeys
  /\ \A e \in EntriesOf(sbBlkDirectory) : Coordinate[e.id] # Coordinate[c]
  /\ nextSegmentPos' \in EnsureNextSegmentInfo
  /\ sbBlkDirectory' =
       AddEntry(sbBlkDirectory, [id |-> c, pos |-> nextSegmentPos'])
  /\ Edit("AddSubBlock", c, sbBlkDirectory.next,
           WriteSubBlock(nextSegmentPos', c, SubBlockAllocated(c)))
  /\ UNCHANGED <<file, opened, attachmentDirectory, segments, client>>

SubBlockAdded ==
  /\ Done("AddSubBlock")
  /\ nextSegmentPos' =
       nextSegmentPos + SubBlockBytes(item, SubBlockAllocated(item))
  /\ known' = known \cup {SubBlock(key)}
  /\ kept' = kept \cup {SubBlock(key)}
  /\ ReturnToClient
  /\ UNCHANGED <<file, opened, directories, segments, phase, untouched, meta,
                 bounds>>

SyncAddAttachment(a) ==
  /\ Callable /\ edits < MaxEdits
  /\ attachmentDirectory.next < MaxKeys
  /\ \A e \in EntriesOf(attachmentDirectory) : e.id # a
  /\ nextSegmentPos' \in EnsureNextSegmentInfo
  /\ attachmentDirectory' =
       AddEntry(attachmentDirectory, [id |-> a, pos |-> nextSegmentPos'])
  /\ Edit("AddAttachment", a, attachmentDirectory.next,
           WriteAttachment(nextSegmentPos', a, AttachmentAllocated(a)))
  /\ UNCHANGED <<file, opened, sbBlkDirectory, segments, client>>

\* Mutant: the allocated size is taken for all of the segment.
AttachmentAddedWithoutHeader ==
  /\ Done("AddAttachment")
  /\ nextSegmentPos' = nextSegmentPos + AttachmentAllocated(item)
  /\ known' = known \cup {Attachment(key)}
  /\ kept' = kept \cup {Attachment(key)}
  /\ ReturnToClient
  /\ UNCHANGED <<file, opened, directories, segments, phase, untouched, meta,
                 bounds>>

AttachmentAdded ==
  /\ Done("AddAttachment")
  /\ nextSegmentPos' =
       nextSegmentPos + AttachmentBytes(item, AttachmentAllocated(item))
  /\ known' = known \cup {Attachment(key)}
  /\ kept' = kept \cup {Attachment(key)}
  /\ ReturnToClient
  /\ UNCHANGED <<file, opened, directories, segments, phase, untouched, meta,
                 bounds>>

\* An add that is rejected because the item exists has determined the append
\* position before it looks.
AddRejected(exists) ==
  /\ Callable
  /\ exists
  /\ nextSegmentPos' \in EnsureNextSegmentInfo
  /\ UNCHANGED <<file, opened, directories, segments, call, client, bounds>>

AddSubBlockRejected(c) ==
  AddRejected(\E e \in EntriesOf(sbBlkDirectory) :
                Coordinate[e.id] = Coordinate[c])

AddAttachmentRejected(a) ==
  AddRejected(\E e \in EntriesOf(attachmentDirectory) : e.id = a)

\* Called for a segment that a reader can recognise: else it throws.  The new
\* sub-block goes into the segment, if it is large enough (`existing` is
\* without the segment header), or is appended.
ReplaceSubBlock(k, c) ==
  /\ Callable /\ edits < MaxEdits
  /\ SubBlock(k) \in known
  /\ LET old == sbBlkDirectory.entries[k]
     IN  /\ HasMagic(file, old.pos, "ZISRAWSUBBLOCK")
         /\ \E existing \in AllocatedSize(file, old.pos) :
              \/ /\ existing + SegmentHeaderSize
                      >= SubBlockHeadSize + SubBlockSize[c]
                 /\ Edit("ReplaceSubBlockInplace", c, k,
                          WriteSubBlock(old.pos, c, existing))
                 /\ UNCHANGED nextSegmentPos
              \/ /\ existing + SegmentHeaderSize
                      < SubBlockHeadSize + SubBlockSize[c]
                 /\ nextSegmentPos' \in EnsureNextSegmentInfo
                 /\ Edit("ReplaceSubBlockAddNewAtEnd", c, k,
                          WriteSubBlock(nextSegmentPos', c,
                                        SubBlockAllocated(c))
                            \o WriteDeletedSegment(old.pos))
         /\ untouched' = untouched \ {old}
  /\ kept' = kept \ {SubBlock(k)}
  /\ UNCHANGED <<file, opened, directories, segments, phase, known, meta>>

SubBlockReplacedInplace ==
  /\ Done("ReplaceSubBlockInplace")
  /\ sbBlkDirectory' =
       ModifyEntry(sbBlkDirectory, key,
                   [id |-> item, pos |-> sbBlkDirectory.entries[key].pos])
  /\ kept' = kept \cup {SubBlock(key)}
  /\ ReturnToClient
  /\ UNCHANGED <<file, opened, nextSegmentPos, attachmentDirectory, segments,
                 phase, known, untouched, meta, bounds>>

\* Mutant: the append position stays, as it does for attachments.
SubBlockReplacedNotAdvanced ==
  /\ Done("ReplaceSubBlockAddNewAtEnd")
  /\ sbBlkDirectory' =
       ModifyEntry(sbBlkDirectory, key, [id |-> item, pos |-> nextSegmentPos])
  /\ kept' = kept \cup {SubBlock(key)}
  /\ ReturnToClient
  /\ UNCHANGED <<file, opened, nextSegmentPos, attachmentDirectory, segments,
                 phase, known, untouched, meta, bounds>>

\* The segment header is counted once more than it should: a gap remains.
SubBlockReplacedAtEnd ==
  /\ Done("ReplaceSubBlockAddNewAtEnd")
  /\ sbBlkDirectory' =
       ModifyEntry(sbBlkDirectory, key, [id |-> item, pos |-> nextSegmentPos])
  /\ nextSegmentPos' =
       nextSegmentPos + SubBlockBytes(item, SubBlockAllocated(item))
         + SegmentHeaderSize
  /\ kept' = kept \cup {SubBlock(key)}
  /\ ReturnToClient
  /\ UNCHANGED <<file, opened, attachmentDirectory, segments, phase, known,
                 untouched, meta, bounds>>

RemoveSubBlock(k) ==
  /\ Callable /\ edits < MaxEdits
  /\ SubBlock(k) \in known
  /\ sbBlkDirectory' = RemoveEntry(sbBlkDirectory, k)
  /\ Edit("Remove", NoItem, k,
           WriteDeletedSegment(sbBlkDirectory.entries[k].pos))
  /\ known' = known \ {SubBlock(k)} /\ kept' = kept \ {SubBlock(k)}
  /\ untouched' = untouched \ {sbBlkDirectory.entries[k]}
  /\ UNCHANGED <<file, opened, nextSegmentPos, attachmentDirectory, segments,
                 phase, meta>>

\* The size is compared without the segment header on either side.
ReplaceAttachment(k, a) ==
  /\ Callable /\ edits < MaxEdits
  /\ Attachment(k) \in known
  /\ LET old == attachmentDirectory.entries[k]
     IN  /\ HasMagic(file, old.pos, "ZISRAWATTACH")
         /\ \E existing \in AllocatedSize(file, old.pos) :
              \/ /\ existing >= AttachmentUsed(a)
                 /\ Edit("ReplaceAttachmentInplace", a, k,
                          WriteAttachment(old.pos, a, existing))
                 /\ UNCHANGED nextSegmentPos
              \/ /\ existing < AttachmentUsed(a)
                 /\ nextSegmentPos' \in EnsureNextSegmentInfo
                 /\ Edit("ReplaceAttachmentAddNewAtEnd", a, k,
                          WriteAttachment(nextSegmentPos', a,
                                          AttachmentAllocated(a))
                            \o WriteDeletedSegment(old.pos))
  /\ kept' = kept \ {Attachment(k)}
  /\ UNCHANGED <<file, opened, directories, segments, phase, known, untouched,
                 meta>>

AttachmentReplacedInplace ==
  /\ Done("ReplaceAttachmentInplace")
  /\ attachmentDirectory' =
       ModifyEntry(attachmentDirectory, key,
                   [id |-> item, pos |-> attachmentDirectory.entries[key].pos])
  /\ kept' = kept \cup {Attachment(key)}
  /\ ReturnToClient
  /\ UNCHANGED <<file, opened, nextSegmentPos, sbBlkDirectory, segments, phase,
                 known, untouched, meta, bounds>>

\* The method reports that nothing was appended, so the append position stays
\* where the attachment is now.  The client uses this key no more: it would
\* find another item there.
AttachmentReplacedAtEnd ==
  /\ Done("ReplaceAttachmentAddNewAtEnd")
  /\ attachmentDirectory' =
       ModifyEntry(attachmentDirectory, key,
                   [id |-> item, pos |-> nextSegmentPos])
  /\ kept' = kept \cup {Attachment(key)}
  /\ known' = known \ {Attachment(key)}
  /\ ReturnToClient
  /\ UNCHANGED <<file, opened, nextSegmentPos, sbBlkDirectory, segments, phase,
                 untouched, meta, bounds>>

RemoveAttachment(k) ==
  /\ Callable /\ edits < MaxEdits
  /\ Attachment(k) \in known
  /\ attachmentDirectory' = RemoveEntry(attachmentDirectory, k)
  /\ Edit("Remove", NoItem, k,
           WriteDeletedSegment(attachmentDirectory.entries[k].pos))
  /\ known' = known \ {Attachment(k)} /\ kept' = kept \ {Attachment(k)}
  /\ UNCHANGED <<file, opened, nextSegmentPos, sbBlkDirectory, segments, phase,
                 untouched, meta>>

Removed ==
  /\ Done("Remove")
  /\ ReturnToClient
  /\ UNCHANGED <<file, opened, nextSegmentPos, directories, segments, client,
                 bounds>>

SyncWriteMetadata(m) ==
  /\ Callable /\ edits < MaxEdits
  /\ nextSegmentPos' \in EnsureNextSegmentInfo
  /\ Edit("WriteMetadata", m, NoKey,
           WriteMetadata(metadataSegment, m, nextSegmentPos'))
  /\ UNCHANGED <<file, opened, directories, segments, client>>

MetadataWritten ==
  LET at == MetadataPlace(metadataSegment, item, nextSegmentPos)
  IN  /\ Done("WriteMetadata")
      /\ IF at.pos = nextSegmentPos
         THEN /\ metadataSegment' = SegmentAt(at.pos, at.allocated, FALSE)
              /\ nextSegmentPos' = at.pos + at.allocated + SegmentHeaderSize
         ELSE UNCHANGED <<metadataSegment, nextSegmentPos>>
      /\ meta' = item
      /\ ReturnToClient
      /\ UNCHANGED <<file, opened, directories, subBlockDirectorySegment,
                     attachmentDirectorySegment, phase, known, kept, untouched,
                     bounds>>

-----------------------------------------------------------------------------
(* Close: the directories that were modified, and the file header.         *)

\* The client calls Close again if it threw.
Close ==
  /\ op = "idle" /\ stream /\ phase \in {"open", "closing"}
  /\ IF sbBlkDirectory.modified
     THEN /\ nextSegmentPos' \in EnsureNextSegmentInfo
          /\ Begin("FinishSubBlkDir", NoItem, NoKey,
                   WriteSubBlkDirectory(subBlockDirectorySegment,
                                        Enumerated(sbBlkDirectory),
                                        nextSegmentPos'))
     ELSE /\ UNCHANGED nextSegmentPos
          /\ Begin("FinishSubBlkDir", NoItem, NoKey, <<>>)
  /\ phase' = "closing"
  /\ UNCHANGED <<file, opened, directories, segments, known, kept, untouched,
                 meta, bounds>>

\* Behind an appended directory, the segment header is not counted.
AfterDirectory(at) ==
  IF at.pos = nextSegmentPos THEN at.pos + at.allocated ELSE nextSegmentPos

SubBlkDirFinished ==
  LET at == SubBlkDirPlace(subBlockDirectorySegment,
                           Enumerated(sbBlkDirectory), nextSegmentPos)
  IN  /\ Done("FinishSubBlkDir")
      /\ IF sbBlkDirectory.modified
         THEN /\ subBlockDirectorySegment' =
                   SegmentAt(at.pos, at.allocated, FALSE)
              /\ nextSegmentPos' = AfterDirectory(at)
         ELSE UNCHANGED <<subBlockDirectorySegment, nextSegmentPos>>
      /\ op' = "WriteAttachmentDir"
      /\ UNCHANGED <<file, opened, directories, metadataSegment,
                     attachmentDirectorySegment, item, key, writes, client,
                     bounds>>

AttachmentDirBegun ==
  /\ Done("WriteAttachmentDir")
  /\ IF attachmentDirectory.modified
     THEN /\ nextSegmentPos' \in EnsureNextSegmentInfo
          /\ Begin("FinishAttachmentDir", NoItem, NoKey,
                   WriteAttachmentDirectory(attachmentDirectorySegment,
                                            Enumerated(attachmentDirectory),
                                            nextSegmentPos'))
     ELSE /\ UNCHANGED nextSegmentPos
          /\ Begin("FinishAttachmentDir", NoItem, NoKey, <<>>)
  /\ UNCHANGED <<file, opened, directories, segments, client, bounds>>

\* Mutant: new metadata is no reason to write the file header.
HeaderIsStaleForDirectories(attSegment) ==
  \/ /\ attachmentDirectory.modified
     /\ hdrSegmentData.attachmentDirectory # attSegment.pos
  \/ /\ sbBlkDirectory.modified
     /\ hdrSegmentData.subBlockDirectory # subBlockDirectorySegment.pos

HeaderIsStale(attSegment) ==
  \/ /\ attachmentDirectory.modified
     /\ hdrSegmentData.attachmentDirectory # attSegment.pos
  \/ /\ sbBlkDirectory.modified
     /\ hdrSegmentData.subBlockDirectory # subBlockDirectorySegment.pos
  \/ hdrSegmentData.metadata # metadataSegment.pos

AttachmentDirFinished ==
  LET at == AttachmentDirPlace(attachmentDirectorySegment,
                               Enumerated(attachmentDirectory), nextSegmentPos)
  IN  /\ Done("FinishAttachmentDir")
      /\ IF attachmentDirectory.modified
         THEN /\ attachmentDirectorySegment' =
                   SegmentAt(at.pos, at.allocated, FALSE)
              /\ nextSegmentPos' = AfterDirectory(at)
         ELSE UNCHANGED <<attachmentDirectorySegment, nextSegmentPos>>
      /\ Begin("UpdateFileHeader", NoItem, NoKey,
               IF HeaderIsStale(attachmentDirectorySegment')
               THEN WriteHeaderSegment(hdrSegmentData.guid,
                                       subBlockDirectorySegment.pos,
                                       metadataSegment.pos,
                                       attachmentDirectorySegment'.pos)
               ELSE <<>>)
      /\ UNCHANGED <<file, opened, directories, metadataSegment,
                     subBlockDirectorySegment, client, bounds>>

\* The object keeps its stream and its members.
Closed ==
  /\ Done("UpdateFileHeader")
  /\ ReturnToClient
  /\ phase' = "closed"
  /\ UNCHANGED <<file, opened, nextSegmentPos, directories, segments, known,
                 kept, untouched, meta, bounds>>

-----------------------------------------------------------------------------
(* The stream, and the end of the object. *)

WriteOk ==
  /\ writes # <<>>
  /\ file' = Apply(file, Head(writes))
  /\ writes' = Tail(writes)
  /\ UNCHANGED <<opened, nextSegmentPos, directories, segments, op, item, key,
                 client, bounds>>

\* A write throws, or is short, or a function of the client's delivers no data.
\* Only Create catches it: it gives up its stream.
WriteFails ==
  LET w == Head(writes)
  IN  /\ writes # <<>>
      /\ faults < MaxFaults
      /\ file' \in {file, Smash(file, w), Apply(file, w)}
      /\ faults' = faults + 1
      /\ op' = "idle" /\ item' = NoItem /\ key' = NoKey /\ writes' = <<>>
      /\ IF op \in {"WriteHeader", "ReadCziStructure"}
         THEN stream' = FALSE /\ phase' = "none"
         ELSE UNCHANGED <<stream, phase>>
      /\ meta' = IF op = "WriteMetadata" THEN UnknownMeta ELSE meta
      /\ UNCHANGED <<hdrSegmentData, lastSegmentPos, nextSegmentPos,
                     directories, segments, known, kept, untouched, sessions,
                     edits>>

NewObject ==
  /\ stream' = FALSE
  /\ hdrSegmentData' = NoHeader
  /\ lastSegmentPos' = 0 /\ nextSegmentPos' = 0
  /\ sbBlkDirectory' = EmptyDirectory /\ attachmentDirectory' = EmptyDirectory
  /\ metadataSegment' = NoSegment /\ subBlockDirectorySegment' = NoSegment
  /\ attachmentDirectorySegment' = NoSegment
  /\ op' = "idle" /\ item' = NoItem /\ key' = NoKey /\ writes' = <<>>

\* The object is destroyed, or its process dies; the next one is new.
Discard ==
  /\ phase # "none"
  /\ NewObject
  /\ phase' = "none" /\ known' = {} /\ kept' = {} /\ untouched' = {}
  /\ meta' = NoMeta
  /\ UNCHANGED <<file, bounds>>

Init ==
  /\ file \in Files
  /\ stream = FALSE
  /\ hdrSegmentData = NoHeader
  /\ lastSegmentPos = 0 /\ nextSegmentPos = 0
  /\ sbBlkDirectory = EmptyDirectory /\ attachmentDirectory = EmptyDirectory
  /\ metadataSegment = NoSegment /\ subBlockDirectorySegment = NoSegment
  /\ attachmentDirectorySegment = NoSegment
  /\ op = "idle" /\ item = NoItem /\ key = NoKey /\ writes = <<>>
  /\ phase = "none" /\ known = {} /\ kept = {} /\ untouched = {}
  /\ meta = NoMeta
  /\ faults = 0 /\ sessions = 0 /\ edits = 0

Keys == 0 .. MaxKeys

Next ==
  \/ CreateNew \/ CreatedNew
  \/ OpenDocument \/ ReadCziStructure \/ CreateThrows
  \/ \E c \in SubBlocks : SyncAddSubBlock(c) \/ AddSubBlockRejected(c)
  \/ SubBlockAdded
  \/ \E a \in Attachments : SyncAddAttachment(a) \/ AddAttachmentRejected(a)
  \/ AttachmentAdded
  \/ \E k \in Keys, c \in SubBlocks : ReplaceSubBlock(k, c)
  \/ SubBlockReplacedInplace \/ SubBlockReplacedAtEnd
  \/ \E k \in Keys, a \in Attachments : ReplaceAttachment(k, a)
  \/ AttachmentReplacedInplace \/ AttachmentReplacedAtEnd
  \/ \E k \in Keys : RemoveSubBlock(k) \/ RemoveAttachment(k)
  \/ Removed
  \/ \E m \in Metadatas : SyncWriteMetadata(m)
  \/ MetadataWritten
  \/ Close \/ SubBlkDirFinished \/ AttachmentDirBegun \/ AttachmentDirFinished
  \/ Closed
  \/ WriteOk \/ WriteFails \/ Discard

Spec == Init /\ [][Next]_vars

-----------------------------------------------------------------------------
(* Properties. *)

Ops == {"idle", "WriteHeader", "ReadCziStructure", "AddSubBlock", "AddAttachment",
        "ReplaceSubBlockInplace", "ReplaceSubBlockAddNewAtEnd",
        "ReplaceAttachmentInplace", "ReplaceAttachmentAddNewAtEnd", "Remove",
        "WriteMetadata", "FinishSubBlkDir", "WriteAttachmentDir",
        "FinishAttachmentDir", "UpdateFileHeader"}

LiveSegments == [valid : BOOLEAN, deleted : {FALSE}, pos : Nat, allocated : Nat]

\* The entries have keys below the next one to be given out.
DirectoryOK(d, Ids) ==
  /\ d.next \in Nat /\ d.modified \in BOOLEAN
  /\ \A k \in DOMAIN d.entries :
       k \in 0 .. d.next - 1 /\ d.entries[k] \in [id : Ids, pos : Nat]

\* The members of CCziReaderWriter and the state of a call have their types;
\* no directory holds a key that will be given out again.
TypeOK ==
  /\ \A x \in file : x.lo \in Nat /\ x.hi \in Nat
  /\ stream \in BOOLEAN
  /\ hdrSegmentData \in [guid : Guids \cup {TornGuid},
                         subBlockDirectory : Nat, attachmentDirectory : Nat,
                         metadata : Nat]
  /\ lastSegmentPos \in Nat /\ nextSegmentPos \in Nat
  /\ DirectoryOK(sbBlkDirectory, SubBlocks)
  /\ DirectoryOK(attachmentDirectory, Attachments)
  /\ metadataSegment \in LiveSegments
  /\ subBlockDirectorySegment \in LiveSegments
  /\ attachmentDirectorySegment \in LiveSegments
  /\ op \in Ops
  /\ op \in {"AddSubBlock", "ReplaceSubBlockInplace",
             "ReplaceSubBlockAddNewAtEnd"} => item \in SubBlocks
  /\ op \in {"AddAttachment", "ReplaceAttachmentInplace",
             "ReplaceAttachmentAddNewAtEnd"} => item \in Attachments
  /\ op = "WriteMetadata" => item \in Metadatas
  /\ phase \in {"none", "creating", "open", "closing", "closed"}
  /\ meta \in Metadatas \cup {NoMeta, UnknownMeta}
  /\ faults \in 0..MaxFaults /\ sessions \in 0..MaxSessions
  /\ edits \in 0..MaxEdits

KeptIntact(k) ==
  SubBlock(k) \in kept =>
    /\ k \in DOMAIN sbBlkDirectory.entries
    /\ SubBlockAt(file, sbBlkDirectory.entries[k].pos,
                  sbBlkDirectory.entries[k].id)

KeptAttachmentIntact(k) ==
  /\ k \in DOMAIN attachmentDirectory.entries
  /\ AttachmentAt(file, attachmentDirectory.entries[k].pos,
                  attachmentDirectory.entries[k].id)

\* A sub-block that was found in the document, added or replaced, and has not
\* been replaced or removed since, can be read by its key from the segment its
\* entry names until Close, whatever else is added, replaced, removed or fails
\* (CCziReaderWriter::ReadSubBlock against every method that writes): as long as
\* FunctorsDeliver.
SubBlocksIntact == phase = "open" => \A k \in Keys : KeptIntact(k)

\* The same for attachments, except those that were replaced by larger ones
\* (CCziReaderWriter::ReadAttachment).
AttachmentsIntact ==
  phase = "open" =>
    \A k \in Keys :
      Attachment(k) \in kept \cap known => KeptAttachmentIntact(k)

\* The same for those too.
ReplacedAttachmentsIntact ==
  phase = "open" =>
    \A k \in Keys : Attachment(k) \in kept => KeptAttachmentIntact(k)

\* Until Close begins, a crash or a failed call leaves a file that still opens
\* and in which every sub-block that was there, and was not replaced or
\* removed, can be read: edits go behind all that the file header leads to
\* (DetermineNextSubBlockOffset, EnsureNextSegmentInfo).
UntouchedStayReadable ==
  phase = "open" /\ untouched # {} =>
    /\ CanOpen(file)
    /\ \A e \in untouched :
         e \in SubBlkDirRead(file) /\ SubBlockAt(file, e.pos, e.id)

\* AfterDirectory puts the attachment directory over the end of a sub-block
\* directory that is appended with it.  Either of them is then written over when
\* the other one is written again.
DirectoriesOverlap ==
  /\ attachmentDirectorySegment.valid
  /\ subBlockDirectorySegment.pos < attachmentDirectorySegment.pos
  /\ attachmentDirectorySegment.pos
       < subBlockDirectorySegment.pos + subBlockDirectorySegment.allocated
           + SegmentHeaderSize

\* When Close has returned, a reader finds the sub-block directory as it was in
\* memory, all sub-blocks relied on, the metadata that was there or was written
\* last, and the attachment directory, if it was not edited (Finish,
\* UpdateFileHeader): unless Close has put one directory over the other.  The
\* file can then be opened, if it has a sub-block directory: Close writes none
\* for a new document that got no sub-block, and its file header then names
\* position 0, at which no reader finds a directory
\* (CCZIParse::ReadSubBlockDirectory), though ICziReaderWriter::Close promises a
\* file that is valid.
EditsSurviveClose ==
  phase = "closed" /\ ~DirectoriesOverlap =>
    /\ SubBlkDirRead(file) = EntriesOf(sbBlkDirectory)
    /\ \A k \in Keys : KeptIntact(k)
    /\ meta \in Metadatas =>
         \E p \in HeaderField(file, "MetadataPosition") :
           MetadataAt(file, p, meta)
    /\ ~attachmentDirectory.modified =>
         AttachmentDirRead(file) = EntriesOf(attachmentDirectory)
    /\ ~attachmentDirectory.modified /\ subBlockDirectorySegment.valid =>
         CanOpen(file)

\* The GUID that the object reports, and writes back with the file header, is
\* the one in the file, whether it was found there, or replaced on request when
\* the document was opened (GetFileHeaderInfo, UpdateFileHeaderGuid,
\* UpdateFileHeader): a failed or a second Close does not bring an old one back.
GuidIsThatOfTheFile ==
  phase \in {"open", "closing", "closed"} =>
    FileGuidIn(file) = hdrSegmentData.guid

\* The positions that the file header and the directories name
NamedPositions(f) ==
  {0} \cup HeaderField(f, "SubBlockDirectoryPosition")
      \cup HeaderField(f, "AttachmentDirectoryPosition")
      \cup HeaderField(f, "MetadataPosition")
      \cup {e.pos : e \in SubBlkDirRead(f) \cup AttachmentDirRead(f)}

\* Where the segment at pos ends
Room(f, pos) == {pos + SegmentHeaderSize + a : a \in AllocatedSize(f, pos)}

\* No position that is named lies within the parts of the segment at pos, nor
\* before any of `ends`, and the segment is as large as its parts need.
LaidOutAt(f, pos, parts, ends) ==
  /\ \A y \in NamedPositions(f), end \in {x.hi : x \in parts} \cup ends :
       y <= pos \/ end <= y
  /\ \A x \in parts, end \in Room(f, pos) : x.hi <= end

\* The attachment directory at q lies over the end of the room of the sub-block
\* directory at p, which has none for entries (AfterDirectory).
LiesOver(f, p, q) ==
  \A end \in Room(f, p) :
    /\ p < q /\ end < p + SegmentHeaderSize + SubBlkDirAllocated(1)
    /\ \A y \in NamedPositions(f) \ {q} : y <= p \/ end <= y
    /\ \A other \in Room(f, q) : end <= other

\* The slots of the attachment directory at q
Slots(f, q) ==
  {Extent(q, SegmentHeaderSize + AttachmentDirUsed(z.what[2]), <<"slots">>) :
     z \in {y \in f : y.lo = q + SegmentHeaderSize /\ y.what[1] = "count"}}

LaidOut(f) ==
  /\ \A e \in SubBlkDirRead(f) :
       SubBlockAt(f, e.pos, e.id) =>
         LaidOutAt(f, e.pos, SubBlockExtents(e.pos, e.id), Room(f, e.pos))
  /\ \A e \in AttachmentDirRead(f) :
       AttachmentAt(f, e.pos, e.id) =>
         LaidOutAt(f, e.pos, AttachmentExtents(e.pos, e.id), Room(f, e.pos))
  /\ \A p \in HeaderField(f, "MetadataPosition") :
       HasMagic(f, p, "ZISRAWMETADATA") =>
         /\ LaidOutAt(f, p, {Magic(p, "ZISRAWMETADATA")}, Room(f, p))
         /\ \A m \in Metadatas :
              MetadataAt(f, p, m) => LaidOutAt(f, p, MetadataExtents(p, m), {})
  /\ \A p \in HeaderField(f, "SubBlockDirectoryPosition") :
       \A dir \in SubBlkDirAt(f, p) :
         /\ LaidOutAt(f, p, SubBlkDirExtents(p, dir), {})
         /\ \/ LaidOutAt(f, p, {}, Room(f, p))
            \/ \E q \in HeaderField(f, "AttachmentDirectoryPosition") :
                 LiesOver(f, p, q)
  /\ \A p \in HeaderField(f, "AttachmentDirectoryPosition") :
       HasMagic(f, p, "ZISRAWATTDIR") =>
         LaidOutAt(f, p, {Magic(p, "ZISRAWATTDIR")} \cup Slots(f, p),
                   Room(f, p))

\* Whatever was edited, has failed or was interrupted before, the segments of
\* a document that is opened lie apart: nothing that the file header or a
\* directory names begins within a segment that a reader finds, or within the
\* room in which a replacement is written.  The next segment, which goes behind
\* the last one named, is then behind all of them (DetermineNextSubBlockOffset).
DocumentIsLaidOut ==
  op = "ReadCziStructure" /\ CanOpen(file) => LaidOut(file)

\* When Close has returned, a reader gets every sub-block relied on, also when
\* attachments were edited.
SubBlocksSurviveClose ==
  phase = "closed" =>
    \A k \in Keys :
      SubBlock(k) \in kept =>
        sbBlkDirectory.entries[k].id \in ReadableSubBlocks(file)
=============================================================================
