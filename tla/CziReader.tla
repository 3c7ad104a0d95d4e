------------------------------ MODULE CziReader ------------------------------
(***************************************************************************)
(* CCZIReader: a document that is open for reading, shared by threads.     *)
(*                                                                         *)
(* The interface allows all its methods to be called from several threads. *)
(* The only synchronisation is a mutex around the pointer to the stream: a *)
(* read copies it, so that a Close that comes in between does not take the *)
(* stream away.  The operational flag and the parsed parts of the document *)
(* (file header, directories) are plain members, and Open assigns the      *)
(* stream without the mutex.                                               *)
(*                                                                         *)
(* So each access to a member is a step.  A std::shared_ptr is a pointer   *)
(* and a count: copying one is two steps, and the stream is gone when the  *)
(* count is zero.  A document is known by its stream; a part of a document *)
(* that the reader keeps is the stream it was parsed from.                 *)
(*                                                                         *)
(* Nothing keeps a thread from opening the reader again while the calls of *)
(* others run, after a Close or beside another Open.  What Open assigns is *)
(* then read without any synchronisation, so the program may do more than  *)
(* the steps here show: they are the outcomes where every access takes     *)
(* place as a whole.  The variable overlapped records that this happened;  *)
(* no action looks at it, and the properties that hold say nothing from    *)
(* there on.                                                               *)
(*                                                                         *)
(* Enumerations, statistics and TryGetSubBlockInfo, which look into a      *)
(* directory and use no stream, are Lookup steps that find nothing to      *)
(* read; a call that is refused because the reader is not operational      *)
(* changes nothing and is no step.  Parsing may fail anywhere (the file is *)
(* not as it should be, or cannot be read), and ends the call.             *)
(***************************************************************************)
EXTENDS Integers, FiniteSets

CONSTANTS
  Threads,
  Streams,
  Contents,         \* the parts the document of a stream has
  NoStream,         \* a null pointer; a part that was never parsed
  Nobody            \* nobody holds the mutex

\* What a reader reads an item of, by the directory or header that names it.
Parts == {"metadata", "subBlock", "attachment"}

ASSUME ReaderAssumption ==
  /\ IsFiniteSet(Threads)
  /\ Contents \in [Streams -> SUBSET Parts]
  /\ \A s \in Streams : "subBlock" \in Contents[s]
  /\ NoStream \notin Streams
  /\ Nobody \notin Threads

VARIABLES
  isOperational,
  stream,           \* the member: a stream or NoStream
  parsed,           \* part -> the stream it was parsed from
  mutex,            \* the thread that holds it, or Nobody
  references,       \* stream -> how many shared_ptr there are to it
  pc,               \* where a thread is
  argument,         \* what it was called with: a stream or a part
  entry,            \* the stream whose entry a thread looked up
  copy,             \* its own pointer to the stream
  overlapped        \* an Open has run beside another call (read by no action)

shared == <<isOperational, stream, parsed, mutex, references>>
local == <<pc, argument, entry, copy>>
vars == <<shared, local, overlapped>>

Opening == {"openHeader", "openSubBlocks", "openAttachments", "openStream",
            "openDone"}
Closing == {"closeFlag", "closeReset"}
Reading == {"lookup", "lock", "reference", "parse", "release"}

TypeOK ==
  /\ isOperational \in BOOLEAN
  /\ stream \in Streams \cup {NoStream}
  /\ parsed \in [Parts -> Streams \cup {NoStream}]
  /\ mutex \in Threads \cup {Nobody}
  /\ references \in [Streams -> Nat]
  /\ pc \in [Threads -> {"idle"} \cup Opening \cup Closing \cup Reading]
  /\ argument \in [Threads -> Streams \cup Parts \cup {NoStream}]
  /\ entry \in [Threads -> Streams \cup {NoStream}]
  /\ copy \in [Threads -> Streams \cup {NoStream}]
  /\ overlapped \in BOOLEAN

Init ==
  /\ isOperational = FALSE
  /\ stream = NoStream
  /\ parsed = [p \in Parts |-> NoStream]
  /\ mutex = Nobody
  /\ references = [s \in Streams |-> 0]
  /\ pc = [t \in Threads |-> "idle"]
  /\ argument = [t \in Threads |-> NoStream]
  /\ entry = [t \in Threads |-> NoStream]
  /\ copy = [t \in Threads |-> NoStream]
  /\ overlapped = FALSE

-----------------------------------------------------------------------------
(* Calls begin and end, pointers come and go. *)

\* A thread that does nothing calls a method, ...
Begin(t, label) ==
  /\ pc[t] = "idle"
  /\ pc' = [pc EXCEPT ![t] = label]
  /\ overlapped' =
       (overlapped \/ \E u \in Threads \ {t} :
                        /\ pc[u] # "idle"
                        /\ label \in Opening \/ pc[u] \in Opening)

\* ... and goes on in it.
Goto(t, label) ==
  /\ pc' = [pc EXCEPT ![t] = label]
  /\ UNCHANGED overlapped

\* A call ends: what the thread knew is gone.
Return(t) ==
  /\ Goto(t, "idle")
  /\ argument' = [argument EXCEPT ![t] = NoStream]
  /\ entry' = [entry EXCEPT ![t] = NoStream]
  /\ copy' = [copy EXCEPT ![t] = NoStream]

\* One pointer more to stream s, and one less.
Take(s) == references' = [references EXCEPT ![s] = @ + 1]
Drop(s) ==
  references' = IF s = NoStream
                THEN references ELSE [references EXCEPT ![s] = @ - 1]

-----------------------------------------------------------------------------
(* Open. *)

\* The client has a new stream, to which it has a pointer during the call.
\* Only the flag is looked at: the calls of other threads may still run.
Open(t, s) ==
  /\ references[s] = 0
  /\ ~isOperational
  /\ Take(s)
  /\ Begin(t, "openHeader")
  /\ argument' = [argument EXCEPT ![t] = s]
  /\ UNCHANGED <<isOperational, stream, parsed, mutex, entry, copy>>

\* The part is parsed and assigned, ...
Parse(t, part, next) ==
  /\ parsed' = [parsed EXCEPT ![part] = argument[t]]
  /\ Goto(t, next)
  /\ UNCHANGED <<isOperational, stream, mutex, references, argument, entry,
                 copy>>

\* ... or that fails, and so does Open.
OpenFails(t) ==
  /\ pc[t] \in {"openHeader", "openSubBlocks", "openAttachments"}
  /\ pc[t] = "openAttachments" => "attachment" \in Contents[argument[t]]
  /\ Drop(argument[t])
  /\ Return(t)
  /\ UNCHANGED <<isOperational, stream, parsed, mutex>>

OpenHeader(t) ==
  /\ pc[t] = "openHeader"
  /\ Parse(t, "metadata", "openSubBlocks")

\* Mutant: a directory that is there already is kept.
OpenSubBlocksOnce(t) ==
  /\ pc[t] = "openSubBlocks"
  /\ IF parsed["subBlock"] = NoStream
     THEN Parse(t, "subBlock", "openAttachments")
     ELSE /\ Goto(t, "openAttachments")
          /\ UNCHANGED <<shared, argument, entry, copy>>

OpenSubBlocks(t) ==
  /\ pc[t] = "openSubBlocks"
  /\ Parse(t, "subBlock", "openAttachments")

\* A document without an attachment directory leaves the member as it is.
OpenAttachments(t) ==
  /\ pc[t] = "openAttachments"
  /\ IF "attachment" \in Contents[argument[t]]
     THEN Parse(t, "attachment", "openStream")
     ELSE /\ Goto(t, "openStream")
          /\ UNCHANGED <<shared, argument, entry, copy>>

\* Mutant: the count is not raised for the member.
OpenStreamUncounted(t) ==
  /\ pc[t] = "openStream"
  /\ Drop(stream)
  /\ stream' = argument[t]
  /\ Goto(t, "openDone")
  /\ UNCHANGED <<isOperational, parsed, mutex, argument, entry, copy>>

\* The stream is assigned without the mutex.
OpenStream(t) ==
  /\ pc[t] = "openStream"
  /\ references' = [s \in Streams |->
       references[s] + (IF s = argument[t] THEN 1 ELSE 0)
                     - (IF s = stream THEN 1 ELSE 0)]
  /\ stream' = argument[t]
  /\ Goto(t, "openDone")
  /\ UNCHANGED <<isOperational, parsed, mutex, argument, entry, copy>>

OpenDone(t) ==
  /\ pc[t] = "openDone"
  /\ isOperational' = TRUE
  /\ Drop(argument[t])
  /\ Return(t)
  /\ UNCHANGED <<stream, parsed, mutex>>

-----------------------------------------------------------------------------
(* Close. *)

\* ThrowIfNotOperational, ...
Close(t) ==
  /\ isOperational
  /\ Begin(t, "closeFlag")
  /\ UNCHANGED <<shared, argument, entry, copy>>

CloseFlag(t) ==
  /\ pc[t] = "closeFlag"
  /\ isOperational' = FALSE
  /\ Goto(t, "closeReset")
  /\ UNCHANGED <<stream, parsed, mutex, references, argument, entry, copy>>

\* Mutant: the stream is kept.
CloseWithoutReset(t) ==
  /\ pc[t] = "closeReset" /\ mutex = Nobody
  /\ Return(t)
  /\ UNCHANGED shared

\* Mutant: without the mutex.
CloseResetUnlocked(t) ==
  /\ pc[t] = "closeReset"
  /\ Drop(stream)
  /\ stream' = NoStream
  /\ Return(t)
  /\ UNCHANGED <<isOperational, parsed, mutex>>

\* ... and, with the mutex, the reset of the stream.
CloseReset(t) ==
  /\ pc[t] = "closeReset" /\ mutex = Nobody
  /\ Drop(stream)
  /\ stream' = NoStream
  /\ Return(t)
  /\ UNCHANGED <<isOperational, parsed, mutex>>

-----------------------------------------------------------------------------
(* ReadSubBlock, ReadAttachment, ReadMetadataSegment. *)

\* ThrowIfNotOperational, ...
Read(t, part) ==
  /\ isOperational
  /\ Begin(t, "lookup")
  /\ argument' = [argument EXCEPT ![t] = part]
  /\ UNCHANGED <<shared, entry, copy>>

\* ... then the entry (or the position of the metadata) ...
Lookup(t) ==
  LET s == parsed[argument[t]]
  IN  /\ pc[t] = "lookup"
      /\ s # NoStream
      /\ argument[t] \in Contents[s]
      /\ entry' = [entry EXCEPT ![t] = s]
      /\ Goto(t, "lock")
      /\ UNCHANGED <<shared, argument, copy>>

\* ... (none for that index, or no stream is wanted) ...
LookupEnds(t) ==
  /\ pc[t] = "lookup"
  /\ Return(t)
  /\ UNCHANGED shared

\* Mutant: the pointer is copied without the mutex.
CopyStreamUnlocked(t) ==
  /\ pc[t] = "lock"
  /\ copy' = [copy EXCEPT ![t] = stream]
  /\ Goto(t, "reference")
  /\ UNCHANGED <<shared, argument, entry>>

\* ... then the pointer is copied, with the mutex: its value ...
CopyStream(t) ==
  /\ pc[t] = "lock" /\ mutex = Nobody
  /\ mutex' = t
  /\ copy' = [copy EXCEPT ![t] = stream]
  /\ Goto(t, "reference")
  /\ UNCHANGED <<isOperational, stream, parsed, references, argument, entry>>

\* ... and the count of the stream ...
CopyReference(t) ==
  /\ pc[t] = "reference"
  /\ copy[t] # NoStream
  /\ Take(copy[t])
  /\ mutex' = Nobody
  /\ Goto(t, "parse")
  /\ UNCHANGED <<isOperational, stream, parsed, argument, entry, copy>>

\* ... (there is none any more: logic_error) ...
CopyNull(t) ==
  /\ pc[t] = "reference"
  /\ copy[t] = NoStream
  /\ mutex' = Nobody
  /\ Return(t)
  /\ UNCHANGED <<isOperational, stream, parsed, references>>

\* ... and the item is read, or that fails: one step each, as the call ends
\* with dropping the pointer in either case.
ReadItem(t) ==
  /\ pc[t] = "parse"
  /\ Goto(t, "release")
  /\ UNCHANGED <<shared, argument, entry, copy>>

\* Mutant: the pointer is not dropped.
ReleaseNothing(t) ==
  /\ pc[t] = "release"
  /\ Return(t)
  /\ UNCHANGED shared

Release(t) ==
  /\ pc[t] = "release"
  /\ Drop(copy[t])
  /\ Return(t)
  /\ UNCHANGED <<isOperational, stream, parsed, mutex>>

-----------------------------------------------------------------------------
OpenStep(t) ==
  \/ OpenFails(t) \/ OpenHeader(t) \/ OpenSubBlocks(t) \/ OpenAttachments(t)
  \/ OpenStream(t) \/ OpenDone(t)

CloseStep(t) == CloseFlag(t) \/ CloseReset(t)

ReadStep(t) ==
  \/ Lookup(t) \/ LookupEnds(t) \/ CopyStream(t) \/ CopyReference(t)
  \/ CopyNull(t) \/ ReadItem(t) \/ Release(t)

\* A call goes on.
Continue(t) == OpenStep(t) \/ CloseStep(t) \/ ReadStep(t)

Next ==
  \E t \in Threads :
    \/ \E s \in Streams : Open(t, s)
    \/ Close(t)
    \/ \E part \in Parts : Read(t, part)
    \/ Continue(t)

Spec == Init /\ [][Next]_vars

\* A call that runs goes on.  No thread waits for another for long: inside
\* of the mutex there is nothing to wait for, and once Close has reset the
\* flag no new read asks for it, unless an Open runs beside the Close.
Fairness == \A t \in Threads : WF_vars(Continue(t))

FairSpec == Spec /\ Fairness

-----------------------------------------------------------------------------
(* Properties. *)

\* The pointers to stream s.
Holders(s) ==
  {t \in Threads : pc[t] \in Opening /\ argument[t] = s}
    \cup {t \in Threads : pc[t] \in {"parse", "release"} /\ copy[t] = s}
    \cup (IF stream = s THEN {Nobody} ELSE {})

\* There are as many references to a stream as there are pointers: no Open
\* that fails, Close or read, in any order, loses one or drops one too many,
\* as long as no Open runs beside another call.
ReferencesAreCounted ==
  ~overlapped =>
    \A s \in Streams : references[s] = Cardinality(Holders(s))

\* A stream that a read has got hold of is not gone, although Close may have
\* released it at any time before or since (CZIReader.cpp, the comment in
\* Close): also between the two halves of the copy.  Open takes no mutex, so
\* that this is only as long as no Open runs beside another call.
UsedStreamIsOpen ==
  ~overlapped =>
    \A t \in Threads : copy[t] # NoStream => references[copy[t]] > 0

\* A read that gets a stream reads its item from the document the entry is
\* of.  Left out: the attachments of a document without attachment directory,
\* where the reader still has those of an earlier one.
ReadsOneDocument(t) ==
  /\ pc[t] = "parse"
  /\ argument[t] \in Contents[copy[t]]
  => entry[t] = copy[t]

\* So it is although the reader was open on other documents before, some
\* failed to open half-way, and Close races with the read, as long as no Open
\* runs beside another call (CZIReader.cpp, Open, Close and ReadSubBlock).
ReadsTheirDocument == ~overlapped => \A t \in Threads : ReadsOneDocument(t)

\* So it is whatever runs at the same time, as libCZI.h says that all methods
\* of the reader may be called from multiple threads concurrently.  It is not:
\* between the entry that a thread looks up and the stream that it copies,
\* another opens the reader on the next document, after a Close or while the
\* Open before is about to end, when the flag still lets it.
ReadsTheirDocumentConcurrently == \A t \in Threads : ReadsOneDocument(t)

\* After Close the stream is released, as soon as the reads that still use it
\* have ended: nothing else keeps it (unless Open runs beside the Close, and
\* new reads may get the mutex before it every time).
ClosedStreamIsReleased ==
  \A s \in Streams :
    stream = s /\ (\E t \in Threads : pc[t] = "closeReset")
      ~> references[s] = 0 \/ overlapped

=============================================================================
