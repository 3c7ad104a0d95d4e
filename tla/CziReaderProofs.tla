--------------------------- MODULE CziReaderProofs ---------------------------
(***************************************************************************)
(* The pointers to a stream are counted, a read uses a stream only while   *)
(* it is there, and only with entries of its document, in all behaviours   *)
(* up to the first Open that runs beside another call.                     *)
(***************************************************************************)
EXTENDS CziReader, FiniteSetTheorems, TLAPS

(* The inductive invariant. *)

\* What a thread has, by where it is.
CallInv ==
  \A t \in Threads :
    /\ pc[t] \in Opening => argument[t] \in Streams
    /\ pc[t] \in Reading => argument[t] \in Parts
    /\ copy[t] # NoStream => pc[t] \in {"reference", "parse", "release"}
    /\ pc[t] \in {"parse", "release"} => copy[t] # NoStream

\* As many references as pointers: for accesses that take place as a whole,
\* also where an Open runs beside other calls.
Counted == \A s \in Streams : references[s] = Cardinality(Holders(s))

\* Who holds the mutex copies the pointer, which does not change meanwhile.
LockInv ==
  \A t \in Threads :
    /\ pc[t] = "reference" <=> mutex = t
    /\ ~overlapped /\ pc[t] = "reference" /\ copy[t] # NoStream =>
         stream = copy[t]

\* As long as no Open has run beside another call, who opens is alone.
AloneInv ==
  ~overlapped =>
    \A t \in Threads : pc[t] \in Opening =>
      \A u \in Threads \ {t} : pc[u] = "idle"

\* A reader that has a stream is open, or somebody is about to say so or to
\* reset the stream: an Open that runs alone finds none.
StreamInv ==
  ~overlapped =>
    /\ stream # NoStream =>
         isOperational
           \/ \E t \in Threads : pc[t] \in {"closeReset", "openDone"}
    /\ \A t \in Threads : pc[t] \in Opening => ~isOperational
    /\ \A t \in Threads : pc[t] \in Opening /\ pc[t] # "openDone" =>
         stream = NoStream

\* What Open has parsed so far is of its stream, ...
OpenInv ==
  ~overlapped => \A t \in Threads :
    /\ pc[t] \in {"openSubBlocks", "openAttachments", "openStream"} =>
         parsed["metadata"] = argument[t]
    /\ pc[t] \in {"openAttachments", "openStream"} =>
         parsed["subBlock"] = argument[t]
    /\ pc[t] = "openStream" /\ "attachment" \in Contents[argument[t]] =>
         parsed["attachment"] = argument[t]

\* ... so that the parts that the document of the stream has are all of it, ...
ParsedInv ==
  ~overlapped /\ stream # NoStream =>
    \A part \in Parts : part \in Contents[stream] => parsed[part] = stream

\* ... and stay so as long as a read of them runs.
ReadInv ==
  ~overlapped => \A t \in Threads :
    /\ pc[t] \in {"lock", "reference", "parse", "release"} =>
         entry[t] = parsed[argument[t]]
    /\ copy[t] # NoStream /\ argument[t] \in Contents[copy[t]] =>
         parsed[argument[t]] = copy[t]

IInv ==
  /\ TypeOK
  /\ CallInv
  /\ LockInv
  /\ AloneInv
  /\ StreamInv
  /\ OpenInv
  /\ ParsedInv
  /\ ReadInv
  /\ Counted

-----------------------------------------------------------------------------
(* Counting. *)

\* Whether thread t has a pointer to stream s.
Holds(t, s) ==
  \/ pc[t] \in Opening /\ argument[t] = s
  \/ pc[t] \in {"parse", "release"} /\ copy[t] = s

\* The pointers to a stream are finitely many: those of threads, and the
\* reader's own.
LEMMA HoldersAreFinite ==
  ASSUME NEW s \in Streams
  PROVE  /\ IsFiniteSet(Holders(s))
         /\ Nobody \in Holders(s) <=> stream = s
         /\ \A t \in Threads : t \in Holders(s) <=> Holds(t, s)
         /\ Holders(s) \subseteq Threads \cup {Nobody}
<1>1. /\ Holders(s) \subseteq Threads \cup {Nobody}
      /\ Nobody \in Holders(s) <=> stream = s
      /\ \A t \in Threads : t \in Holders(s) <=> Holds(t, s)
  BY ReaderAssumption DEF Holders, Holds
<1>2. IsFiniteSet(Threads \cup {Nobody})
  BY FS_AddElement, ReaderAssumption
<1> QED BY <1>1, <1>2, FS_Subset

\* The same, after a step.
LEMMA HoldersAreFiniteAfter ==
  ASSUME NEW s \in Streams
  PROVE  /\ Nobody \in Holders(s)' <=> stream' = s
         /\ \A t \in Threads : t \in Holders(s)' <=> Holds(t, s)'
         /\ Holders(s)' \subseteq Threads \cup {Nobody}
BY ReaderAssumption DEF Holders, Holds

\* A stream has one pointer more, one less, or as many.
LEMMA OneMore ==
  ASSUME NEW s \in Streams, NEW h \in Threads \cup {Nobody},
         h \notin Holders(s), Holders(s)' = Holders(s) \cup {h}
  PROVE  Cardinality(Holders(s)') = Cardinality(Holders(s)) + 1
BY HoldersAreFinite, FS_AddElement

LEMMA OneLess ==
  ASSUME NEW s \in Streams, NEW h \in Threads \cup {Nobody},
         h \in Holders(s), Holders(s)' = Holders(s) \ {h}
  PROVE  Cardinality(Holders(s)') = Cardinality(Holders(s)) - 1
BY HoldersAreFinite, FS_RemoveElement

\* A count is a natural number, and not zero while there is a pointer.
LEMMA HolderCounts ==
  ASSUME NEW s \in Streams
  PROVE  /\ Cardinality(Holders(s)) \in Nat
         /\ \A h \in Holders(s) : Cardinality(Holders(s)) > 0
<1>1. Cardinality(Holders(s)) \in Nat
  BY HoldersAreFinite, FS_CardinalityType
<1>2. Cardinality(Holders(s)) = 0 <=> Holders(s) = {}
  BY HoldersAreFinite, FS_EmptySet
<1> QED BY <1>1, <1>2

\* Nothing changes for a stream no pointer to which comes or goes.
LEMMA SameHolders ==
  ASSUME NEW s \in Streams, stream' = s <=> stream = s,
         \A u \in Threads : Holds(u, s)' <=> Holds(u, s)
  PROVE  Holders(s)' = Holders(s)
BY HoldersAreFinite, HoldersAreFiniteAfter

\* A pointer that is held is counted.
LEMMA HeldIsCounted ==
  ASSUME Counted, NEW s \in Streams, NEW t \in Threads,
         stream = s \/ Holds(t, s)
  PROVE  references[s] > 0
<1>1. \E h : h \in Holders(s)
  BY HoldersAreFinite
<1> QED BY <1>1, HolderCounts DEF Counted

\* As long as no pointer comes or goes, the counts stay right.
LEMMA NothingCounted ==
  ASSUME Counted, UNCHANGED <<stream, references>>,
         \A u \in Threads, s \in Streams : Holds(u, s)' <=> Holds(u, s)
  PROVE  Counted'
<1> SUFFICES ASSUME NEW s \in Streams
             PROVE  references'[s] = Cardinality(Holders(s)')
  BY DEF Counted
<1>1. Holders(s)' = Holders(s)
  BY HoldersAreFinite, HoldersAreFiniteAfter
<1> QED BY <1>1 DEF Counted

-----------------------------------------------------------------------------
(* The first state, and the steps. *)

LEMMA InitInvariant == Init => IInv
<1> SUFFICES ASSUME Init PROVE IInv
  OBVIOUS
<1>1. TypeOK
  BY ReaderAssumption DEF Init, TypeOK
<1>2. CallInv /\ LockInv /\ AloneInv /\ StreamInv /\ OpenInv /\ ParsedInv /\ ReadInv
  BY ReaderAssumption DEF Init, CallInv, LockInv, AloneInv, StreamInv, OpenInv,
    ParsedInv, ReadInv, Opening, Reading
<1>3. Counted
  <2> SUFFICES ASSUME NEW s \in Streams
               PROVE  references[s] = Cardinality(Holders(s))
    BY DEF Counted
  <2>1. Holders(s) = {}
    BY ReaderAssumption, HoldersAreFinite DEF Init, Holds, Opening
  <2> QED BY <2>1, FS_EmptySet DEF Init
<1> QED BY <1>1, <1>2, <1>3 DEF IInv

\* Open takes a pointer to its stream.
LEMMA OpenPreserves ==
  ASSUME IInv, NEW t \in Threads, NEW s0 \in Streams, Open(t, s0)
  PROVE  IInv'
<1> USE DEF IInv, Open, Begin, Take
<1>1. TypeOK'
  BY ReaderAssumption
    DEF TypeOK, CallInv, Opening, Closing, Reading, Parts
<1>2. CallInv'
  BY ReaderAssumption
    DEF TypeOK, CallInv,
      Opening, Closing, Reading, Parts
<1>3. LockInv' /\ AloneInv'
  BY ReaderAssumption
    DEF TypeOK, CallInv, LockInv, AloneInv,
      Opening, Closing, Reading, Parts
<1>4. StreamInv'
  BY ReaderAssumption
    DEF TypeOK, LockInv, AloneInv, StreamInv,
      Opening, Closing, Reading, Parts
<1>5. OpenInv'
  BY ReaderAssumption
    DEF TypeOK, CallInv, LockInv, AloneInv, OpenInv,
      Opening, Closing, Reading, Parts
<1>6. ParsedInv'
  BY ReaderAssumption
    DEF TypeOK, CallInv, LockInv, AloneInv, StreamInv, OpenInv, ParsedInv,
      Opening, Closing, Reading, Parts
<1>7. ReadInv'
  BY ReaderAssumption
    DEF TypeOK, CallInv, LockInv, AloneInv, ParsedInv, ReadInv,
      Opening, Closing, Reading, Parts
<1>8. Counted'
  <2> SUFFICES ASSUME NEW s \in Streams
               PROVE  references'[s] = Cardinality(Holders(s)')
    BY DEF Counted
  <2>1. CASE s = s0
    <3>1. ~(t \in Holders(s)) /\ Holders(s)' = Holders(s) \cup {t}
      BY <2>1, HoldersAreFinite, HoldersAreFiniteAfter, ReaderAssumption
        DEF TypeOK, CallInv, LockInv, AloneInv, Holds, Opening, Closing, Reading
    <3> QED
      BY <2>1, <3>1, OneMore, HolderCounts, ReaderAssumption
        DEF Counted, TypeOK
  <2>2. CASE s # s0
    <3>1. /\ stream' = s <=> stream = s
          /\ \A u \in Threads : Holds(u, s)' <=> Holds(u, s)
      BY <2>2, ReaderAssumption
        DEF TypeOK, CallInv, LockInv, AloneInv, Holds, Opening, Closing, Reading
    <3>2. Holders(s)' = Holders(s)
      BY <3>1, SameHolders
    <3> QED BY <2>2, <3>2, ReaderAssumption DEF Counted, TypeOK
  <2> QED BY <2>1, <2>2
<1> QED BY <1>1, <1>2, <1>3, <1>4, <1>5, <1>6, <1>7, <1>8

\* An Open that fails drops it.
LEMMA OpenFailsPreserves ==
  ASSUME IInv, NEW t \in Threads, OpenFails(t)
  PROVE  IInv'
<1> USE DEF IInv, OpenFails, Goto, Drop, Return
<1>0. references[argument[t]] \in Nat \ {0}
  BY HeldIsCounted DEF TypeOK, Counted, CallInv, Holds, Opening, Closing, Reading
<1>1. TypeOK'
  BY <1>0, ReaderAssumption
    DEF TypeOK, CallInv, Opening, Closing, Reading, Parts
<1>2. CallInv'
  BY ReaderAssumption
    DEF TypeOK, CallInv,
      Opening, Closing, Reading, Parts
<1>3. LockInv' /\ AloneInv'
  BY ReaderAssumption
    DEF TypeOK, CallInv, LockInv, AloneInv,
      Opening, Closing, Reading, Parts
<1>4. StreamInv'
  BY ReaderAssumption
    DEF TypeOK, LockInv, AloneInv, StreamInv,
      Opening, Closing, Reading, Parts
<1>5. OpenInv'
  BY ReaderAssumption
    DEF TypeOK, CallInv, LockInv, AloneInv, OpenInv,
      Opening, Closing, Reading, Parts
<1>6. ParsedInv'
  BY ReaderAssumption
    DEF TypeOK, CallInv, LockInv, AloneInv, StreamInv, OpenInv, ParsedInv,
      Opening, Closing, Reading, Parts
<1>7. ReadInv'
  BY ReaderAssumption
    DEF TypeOK, CallInv, LockInv, AloneInv, ParsedInv, ReadInv,
      Opening, Closing, Reading, Parts
<1>8. Counted'
  <2> SUFFICES ASSUME NEW s \in Streams
               PROVE  references'[s] = Cardinality(Holders(s)')
    BY DEF Counted
  <2>1. CASE s = argument[t]
    <3>1. (t \in Holders(s)) /\ Holders(s)' = Holders(s) \ {t}
      BY <2>1, HoldersAreFinite, HoldersAreFiniteAfter, ReaderAssumption
        DEF TypeOK, CallInv, LockInv, AloneInv, Holds, Opening, Closing, Reading
    <3> QED
      BY <2>1, <3>1, OneLess, HolderCounts, ReaderAssumption
        DEF Counted, TypeOK
  <2>2. CASE s # argument[t]
    <3>1. /\ stream' = s <=> stream = s
          /\ \A u \in Threads : Holds(u, s)' <=> Holds(u, s)
      BY <2>2, ReaderAssumption
        DEF TypeOK, CallInv, LockInv, AloneInv, Holds, Opening, Closing, Reading
    <3>2. Holders(s)' = Holders(s)
      BY <3>1, SameHolders
    <3> QED BY <2>2, <3>2, ReaderAssumption DEF Counted, TypeOK
  <2> QED BY <2>1, <2>2
<1> QED BY <1>1, <1>2, <1>3, <1>4, <1>5, <1>6, <1>7, <1>8

\* Parsing counts nothing.
LEMMA OpenHeaderPreserves ==
  ASSUME IInv, NEW t \in Threads, OpenHeader(t)
  PROVE  IInv'
<1> USE DEF IInv, OpenHeader, Parse, Goto
<1>1. TypeOK'
  BY ReaderAssumption
    DEF TypeOK, CallInv, Opening, Closing, Reading, Parts
<1>2. CallInv'
  BY ReaderAssumption
    DEF TypeOK, CallInv,
      Opening, Closing, Reading, Parts
<1>3. LockInv' /\ AloneInv'
  BY ReaderAssumption
    DEF TypeOK, CallInv, LockInv, AloneInv,
      Opening, Closing, Reading, Parts
<1>4. StreamInv'
  BY ReaderAssumption
    DEF TypeOK, LockInv, AloneInv, StreamInv,
      Opening, Closing, Reading, Parts
<1>5. OpenInv'
  BY ReaderAssumption
    DEF TypeOK, CallInv, LockInv, AloneInv, OpenInv,
      Opening, Closing, Reading, Parts
<1>6. ParsedInv'
  BY ReaderAssumption
    DEF TypeOK, CallInv, LockInv, AloneInv, StreamInv, OpenInv, ParsedInv,
      Opening, Closing, Reading, Parts
<1>7. ReadInv'
  BY ReaderAssumption
    DEF TypeOK, CallInv, LockInv, AloneInv, ParsedInv, ReadInv,
      Opening, Closing, Reading, Parts
<1>8. Counted'
  <2>1. \A u \in Threads, s \in Streams : Holds(u, s)' <=> Holds(u, s)
    BY ReaderAssumption DEF TypeOK, CallInv, Holds, Opening, Closing, Reading
  <2> QED BY <2>1, NothingCounted
<1> QED BY <1>1, <1>2, <1>3, <1>4, <1>5, <1>6, <1>7, <1>8

\* The sub-block directory is parsed after the file header, ...
LEMMA OpenSubBlocksPreserves ==
  ASSUME IInv, NEW t \in Threads, OpenSubBlocks(t)
  PROVE  IInv'
<1> USE DEF IInv, OpenSubBlocks, Parse, Goto
<1>1. TypeOK'
  BY ReaderAssumption
    DEF TypeOK, CallInv, Opening, Closing, Reading, Parts
<1>2. CallInv'
  BY ReaderAssumption
    DEF TypeOK, CallInv,
      Opening, Closing, Reading, Parts
<1>3. LockInv' /\ AloneInv'
  BY ReaderAssumption
    DEF TypeOK, CallInv, LockInv, AloneInv,
      Opening, Closing, Reading, Parts
<1>4. StreamInv'
  BY ReaderAssumption
    DEF TypeOK, LockInv, AloneInv, StreamInv,
      Opening, Closing, Reading, Parts
<1>5. OpenInv'
  BY ReaderAssumption
    DEF TypeOK, CallInv, LockInv, AloneInv, OpenInv,
      Opening, Closing, Reading, Parts
<1>6. ParsedInv'
  BY ReaderAssumption
    DEF TypeOK, CallInv, LockInv, AloneInv, StreamInv, OpenInv, ParsedInv,
      Opening, Closing, Reading, Parts
<1>7. ReadInv'
  BY ReaderAssumption
    DEF TypeOK, CallInv, LockInv, AloneInv, ParsedInv, ReadInv,
      Opening, Closing, Reading, Parts
<1>8. Counted'
  <2>1. \A u \in Threads, s \in Streams : Holds(u, s)' <=> Holds(u, s)
    BY ReaderAssumption DEF TypeOK, CallInv, Holds, Opening, Closing, Reading
  <2> QED BY <2>1, NothingCounted
<1> QED BY <1>1, <1>2, <1>3, <1>4, <1>5, <1>6, <1>7, <1>8

\* ... and then the attachment directory, if there is one.
LEMMA OpenAttachmentsPreserves ==
  ASSUME IInv, NEW t \in Threads, OpenAttachments(t)
  PROVE  IInv'
<1> USE DEF IInv, OpenAttachments, Parse, Goto, shared
<1>1. TypeOK'
  BY ReaderAssumption
    DEF TypeOK, CallInv, Opening, Closing, Reading, Parts
<1>2. CallInv'
  BY ReaderAssumption
    DEF TypeOK, CallInv,
      Opening, Closing, Reading, Parts
<1>3. LockInv' /\ AloneInv'
  BY ReaderAssumption
    DEF TypeOK, CallInv, LockInv, AloneInv,
      Opening, Closing, Reading, Parts
<1>4. StreamInv'
  BY ReaderAssumption
    DEF TypeOK, LockInv, AloneInv, StreamInv,
      Opening, Closing, Reading, Parts
<1>5. OpenInv'
  BY ReaderAssumption
    DEF TypeOK, CallInv, LockInv, AloneInv, OpenInv,
      Opening, Closing, Reading, Parts
<1>6. ParsedInv'
  BY ReaderAssumption
    DEF TypeOK, CallInv, LockInv, AloneInv, StreamInv, OpenInv, ParsedInv,
      Opening, Closing, Reading, Parts
<1>7. ReadInv'
  BY ReaderAssumption
    DEF TypeOK, CallInv, LockInv, AloneInv, ParsedInv, ReadInv,
      Opening, Closing, Reading, Parts
<1>8. Counted'
  <2>1. \A u \in Threads, s \in Streams : Holds(u, s)' <=> Holds(u, s)
    BY ReaderAssumption DEF TypeOK, CallInv, Holds, Opening, Closing, Reading
  <2> QED BY <2>1, NothingCounted
<1> QED BY <1>1, <1>2, <1>3, <1>4, <1>5, <1>6, <1>7, <1>8

\* The member becomes a pointer to a stream of which all is parsed.
LEMMA OpenStreamPreserves ==
  ASSUME IInv, NEW t \in Threads, OpenStream(t)
  PROVE  IInv'
<1> USE DEF IInv, OpenStream, Goto
<1>0. /\ argument[t] \in Streams
      /\ references[argument[t]] \in Nat
      /\ stream # NoStream => references[stream] \in Nat \ {0}
      /\ ~overlapped => stream = NoStream
  BY HeldIsCounted, ReaderAssumption
    DEF TypeOK, CallInv, StreamInv, Opening
<1>1. TypeOK'
  BY <1>0, ReaderAssumption
    DEF TypeOK, CallInv, Opening, Closing, Reading, Parts
<1>2. CallInv'
  BY ReaderAssumption
    DEF TypeOK, CallInv,
      Opening, Closing, Reading, Parts
<1>3. LockInv' /\ AloneInv'
  BY ReaderAssumption
    DEF TypeOK, CallInv, LockInv, AloneInv,
      Opening, Closing, Reading, Parts
<1>4. StreamInv'
  BY ReaderAssumption
    DEF TypeOK, LockInv, AloneInv, StreamInv,
      Opening, Closing, Reading, Parts
<1>5. OpenInv'
  BY ReaderAssumption
    DEF TypeOK, CallInv, LockInv, AloneInv, OpenInv,
      Opening, Closing, Reading, Parts
<1>6. ParsedInv'
  BY ReaderAssumption
    DEF TypeOK, CallInv, LockInv, AloneInv, StreamInv, OpenInv, ParsedInv,
      Opening, Closing, Reading, Parts
<1>7. ReadInv'
  BY ReaderAssumption
    DEF TypeOK, CallInv, LockInv, AloneInv, ParsedInv, ReadInv,
      Opening, Closing, Reading, Parts
<1>8. Counted'
  <2> SUFFICES ASSUME NEW s \in Streams
               PROVE  references'[s] = Cardinality(Holders(s)')
    BY DEF Counted
  <2>0. \A u \in Threads : Holds(u, s)' <=> Holds(u, s)
    BY ReaderAssumption DEF TypeOK, CallInv, Holds, Opening, Closing, Reading
  <2>1. CASE s = argument[t] /\ s # stream
    <3>1. Nobody \notin Holders(s) /\ Holders(s)' = Holders(s) \cup {Nobody}
      BY <2>0, <2>1, HoldersAreFinite, HoldersAreFiniteAfter
    <3>2. Cardinality(Holders(s)') = Cardinality(Holders(s)) + 1
      BY <3>1, OneMore
    <3> QED BY <2>1, <3>2, HolderCounts DEF Counted, TypeOK
  <2>2. CASE s = stream /\ s # argument[t]
    <3>1. Nobody \in Holders(s) /\ Holders(s)' = Holders(s) \ {Nobody}
      BY <2>0, <2>2, HoldersAreFinite, HoldersAreFiniteAfter, ReaderAssumption
    <3>2. Cardinality(Holders(s)') = Cardinality(Holders(s)) - 1
      BY <3>1, OneLess
    <3> QED BY <2>2, <3>2, HolderCounts DEF Counted, TypeOK
  <2>3. CASE s = stream <=> s = argument[t]
    <3>1. Holders(s)' = Holders(s)
      BY <2>0, <2>3, SameHolders
    <3> QED BY <2>3, <3>1 DEF Counted, TypeOK
  <2> QED BY <2>1, <2>2, <2>3
<1> QED BY <1>1, <1>2, <1>3, <1>4, <1>5, <1>6, <1>7, <1>8

\* The pointer of Open is dropped when the member has one.
LEMMA OpenDonePreserves ==
  ASSUME IInv, NEW t \in Threads, OpenDone(t)
  PROVE  IInv'
<1> USE DEF IInv, OpenDone, Goto, Drop, Return
<1>0. references[argument[t]] \in Nat \ {0}
  BY HeldIsCounted DEF TypeOK, Counted, CallInv, Holds, Opening, Closing, Reading
<1>1. TypeOK'
  BY <1>0, ReaderAssumption
    DEF TypeOK, CallInv, Opening, Closing, Reading, Parts
<1>2. CallInv'
  BY ReaderAssumption
    DEF TypeOK, CallInv,
      Opening, Closing, Reading, Parts
<1>3. LockInv' /\ AloneInv'
  BY ReaderAssumption
    DEF TypeOK, CallInv, LockInv, AloneInv,
      Opening, Closing, Reading, Parts
<1>4. StreamInv'
  BY ReaderAssumption
    DEF TypeOK, LockInv, AloneInv, StreamInv,
      Opening, Closing, Reading, Parts
<1>5. OpenInv'
  BY ReaderAssumption
    DEF TypeOK, CallInv, LockInv, AloneInv, OpenInv,
      Opening, Closing, Reading, Parts
<1>6. ParsedInv'
  BY ReaderAssumption
    DEF TypeOK, CallInv, LockInv, AloneInv, StreamInv, OpenInv, ParsedInv,
      Opening, Closing, Reading, Parts
<1>7. ReadInv'
  BY ReaderAssumption
    DEF TypeOK, CallInv, LockInv, AloneInv, ParsedInv, ReadInv,
      Opening, Closing, Reading, Parts
<1>8. Counted'
  <2> SUFFICES ASSUME NEW s \in Streams
               PROVE  references'[s] = Cardinality(Holders(s)')
    BY DEF Counted
  <2>1. CASE s = argument[t]
    <3>1. (t \in Holders(s)) /\ Holders(s)' = Holders(s) \ {t}
      BY <2>1, HoldersAreFinite, HoldersAreFiniteAfter, ReaderAssumption
        DEF TypeOK, CallInv, LockInv, AloneInv, Holds, Opening, Closing, Reading
    <3> QED
      BY <2>1, <3>1, OneLess, HolderCounts, ReaderAssumption
        DEF Counted, TypeOK
  <2>2. CASE s # argument[t]
    <3>1. /\ stream' = s <=> stream = s
          /\ \A u \in Threads : Holds(u, s)' <=> Holds(u, s)
      BY <2>2, ReaderAssumption
        DEF TypeOK, CallInv, LockInv, AloneInv, Holds, Opening, Closing, Reading
    <3>2. Holders(s)' = Holders(s)
      BY <3>1, SameHolders
    <3> QED BY <2>2, <3>2, ReaderAssumption DEF Counted, TypeOK
  <2> QED BY <2>1, <2>2
<1> QED BY <1>1, <1>2, <1>3, <1>4, <1>5, <1>6, <1>7, <1>8

\* Close begins; the reader is not being opened, or an Open has overlapped.
LEMMA ClosePreserves ==
  ASSUME IInv, NEW t \in Threads, Close(t)
  PROVE  IInv'
<1> USE DEF IInv, Close, Begin, shared
<1>1. TypeOK'
  BY ReaderAssumption
    DEF TypeOK, CallInv, Opening, Closing, Reading, Parts
<1>2. CallInv'
  BY ReaderAssumption
    DEF TypeOK, CallInv,
      Opening, Closing, Reading, Parts
<1>3. LockInv' /\ AloneInv'
  BY ReaderAssumption
    DEF TypeOK, CallInv, LockInv, AloneInv,
      Opening, Closing, Reading, Parts
<1>4. StreamInv'
  BY ReaderAssumption
    DEF TypeOK, LockInv, AloneInv, StreamInv,
      Opening, Closing, Reading, Parts
<1>5. OpenInv'
  BY ReaderAssumption
    DEF TypeOK, CallInv, LockInv, AloneInv, OpenInv,
      Opening, Closing, Reading, Parts
<1>6. ParsedInv'
  BY ReaderAssumption
    DEF TypeOK, CallInv, LockInv, AloneInv, StreamInv, OpenInv, ParsedInv,
      Opening, Closing, Reading, Parts
<1>7. ReadInv'
  BY ReaderAssumption
    DEF TypeOK, CallInv, LockInv, AloneInv, ParsedInv, ReadInv,
      Opening, Closing, Reading, Parts
<1>8. Counted'
  <2>1. \A u \in Threads, s \in Streams : Holds(u, s)' <=> Holds(u, s)
    BY ReaderAssumption DEF TypeOK, CallInv, Holds, Opening, Closing, Reading
  <2> QED BY <2>1, NothingCounted
<1> QED BY <1>1, <1>2, <1>3, <1>4, <1>5, <1>6, <1>7, <1>8

\* From the flag on, Close is about to reset the stream.
LEMMA CloseFlagPreserves ==
  ASSUME IInv, NEW t \in Threads, CloseFlag(t)
  PROVE  IInv'
<1> USE DEF IInv, CloseFlag, Goto
<1>1. TypeOK'
  BY ReaderAssumption
    DEF TypeOK, CallInv, Opening, Closing, Reading, Parts
<1>2. CallInv'
  BY ReaderAssumption
    DEF TypeOK, CallInv,
      Opening, Closing, Reading, Parts
<1>3. LockInv' /\ AloneInv'
  BY ReaderAssumption
    DEF TypeOK, CallInv, LockInv, AloneInv,
      Opening, Closing, Reading, Parts
<1>4. StreamInv'
  BY ReaderAssumption
    DEF TypeOK, LockInv, AloneInv, StreamInv,
      Opening, Closing, Reading, Parts
<1>5. OpenInv'
  BY ReaderAssumption
    DEF TypeOK, CallInv, LockInv, AloneInv, OpenInv,
      Opening, Closing, Reading, Parts
<1>6. ParsedInv'
  BY ReaderAssumption
    DEF TypeOK, CallInv, LockInv, AloneInv, StreamInv, OpenInv, ParsedInv,
      Opening, Closing, Reading, Parts
<1>7. ReadInv'
  BY ReaderAssumption
    DEF TypeOK, CallInv, LockInv, AloneInv, ParsedInv, ReadInv,
      Opening, Closing, Reading, Parts
<1>8. Counted'
  <2>1. \A u \in Threads, s \in Streams : Holds(u, s)' <=> Holds(u, s)
    BY ReaderAssumption DEF TypeOK, CallInv, Holds, Opening, Closing, Reading
  <2> QED BY <2>1, NothingCounted
<1> QED BY <1>1, <1>2, <1>3, <1>4, <1>5, <1>6, <1>7, <1>8

\* The member's pointer is dropped, if there is one.
LEMMA CloseResetPreserves ==
  ASSUME IInv, NEW t \in Threads, CloseReset(t)
  PROVE  IInv'
<1> USE DEF IInv, CloseReset, Goto, Drop, Return
<1>0. stream # NoStream => references[stream] \in Nat \ {0}
  BY HeldIsCounted DEF TypeOK, Counted, CallInv, Holds, Opening, Closing, Reading
<1>1. TypeOK'
  BY <1>0, ReaderAssumption
    DEF TypeOK, CallInv, Opening, Closing, Reading, Parts
<1>2. CallInv'
  BY ReaderAssumption
    DEF TypeOK, CallInv,
      Opening, Closing, Reading, Parts
<1>3. LockInv' /\ AloneInv'
  BY ReaderAssumption
    DEF TypeOK, CallInv, LockInv, AloneInv,
      Opening, Closing, Reading, Parts
<1>4. StreamInv'
  BY ReaderAssumption
    DEF TypeOK, LockInv, AloneInv, StreamInv,
      Opening, Closing, Reading, Parts
<1>5. OpenInv'
  BY ReaderAssumption
    DEF TypeOK, CallInv, LockInv, AloneInv, OpenInv,
      Opening, Closing, Reading, Parts
<1>6. ParsedInv'
  BY ReaderAssumption
    DEF TypeOK, CallInv, LockInv, AloneInv, StreamInv, OpenInv, ParsedInv,
      Opening, Closing, Reading, Parts
<1>7. ReadInv'
  BY ReaderAssumption
    DEF TypeOK, CallInv, LockInv, AloneInv, ParsedInv, ReadInv,
      Opening, Closing, Reading, Parts
<1>8. Counted'
  <2> SUFFICES ASSUME NEW s \in Streams
               PROVE  references'[s] = Cardinality(Holders(s)')
    BY DEF Counted
  <2>1. CASE s = stream
    <3>1. (Nobody \in Holders(s)) /\ Holders(s)' = Holders(s) \ {Nobody}
      BY <2>1, HoldersAreFinite, HoldersAreFiniteAfter, ReaderAssumption
        DEF TypeOK, CallInv, LockInv, AloneInv, Holds, Opening, Closing, Reading
    <3> QED
      BY <2>1, <3>1, OneLess, HolderCounts, ReaderAssumption
        DEF Counted, TypeOK
  <2>2. CASE s # stream
    <3>1. /\ stream' = s <=> stream = s
          /\ \A u \in Threads : Holds(u, s)' <=> Holds(u, s)
      BY <2>2, ReaderAssumption
        DEF TypeOK, CallInv, LockInv, AloneInv, Holds, Opening, Closing, Reading
    <3>2. Holders(s)' = Holders(s)
      BY <3>1, SameHolders
    <3> QED BY <2>2, <3>2, ReaderAssumption DEF Counted, TypeOK
  <2> QED BY <2>1, <2>2
<1> QED BY <1>1, <1>2, <1>3, <1>4, <1>5, <1>6, <1>7, <1>8

\* A read begins; the reader is not being opened, or an Open has overlapped.
LEMMA ReadPreserves ==
  ASSUME IInv, NEW t \in Threads, NEW part \in Parts, Read(t, part)
  PROVE  IInv'
<1> USE DEF IInv, Read, Begin, shared
<1>1. TypeOK'
  BY ReaderAssumption
    DEF TypeOK, CallInv, Opening, Closing, Reading, Parts
<1>2. CallInv'
  BY ReaderAssumption
    DEF TypeOK, CallInv,
      Opening, Closing, Reading, Parts
<1>3. LockInv' /\ AloneInv'
  BY ReaderAssumption
    DEF TypeOK, CallInv, LockInv, AloneInv,
      Opening, Closing, Reading, Parts
<1>4. StreamInv'
  BY ReaderAssumption
    DEF TypeOK, LockInv, AloneInv, StreamInv,
      Opening, Closing, Reading, Parts
<1>5. OpenInv'
  BY ReaderAssumption
    DEF TypeOK, CallInv, LockInv, AloneInv, OpenInv,
      Opening, Closing, Reading, Parts
<1>6. ParsedInv'
  BY ReaderAssumption
    DEF TypeOK, CallInv, LockInv, AloneInv, StreamInv, OpenInv, ParsedInv,
      Opening, Closing, Reading, Parts
<1>7. ReadInv'
  BY ReaderAssumption
    DEF TypeOK, CallInv, LockInv, AloneInv, ParsedInv, ReadInv,
      Opening, Closing, Reading, Parts
<1>8. Counted'
  <2>1. \A u \in Threads, s \in Streams : Holds(u, s)' <=> Holds(u, s)
    BY ReaderAssumption DEF TypeOK, CallInv, Holds, Opening, Closing, Reading
  <2> QED BY <2>1, NothingCounted
<1> QED BY <1>1, <1>2, <1>3, <1>4, <1>5, <1>6, <1>7, <1>8

\* The entry is of the document that was parsed.
LEMMA LookupPreserves ==
  ASSUME IInv, NEW t \in Threads, Lookup(t)
  PROVE  IInv'
<1> USE DEF IInv, Lookup, Goto, shared
<1>1. TypeOK'
  BY ReaderAssumption
    DEF TypeOK, CallInv, Opening, Closing, Reading, Parts
<1>2. CallInv'
  BY ReaderAssumption
    DEF TypeOK, CallInv,
      Opening, Closing, Reading, Parts
<1>3. LockInv' /\ AloneInv'
  BY ReaderAssumption
    DEF TypeOK, CallInv, LockInv, AloneInv,
      Opening, Closing, Reading, Parts
<1>4. StreamInv'
  BY ReaderAssumption
    DEF TypeOK, LockInv, AloneInv, StreamInv,
      Opening, Closing, Reading, Parts
<1>5. OpenInv'
  BY ReaderAssumption
    DEF TypeOK, CallInv, LockInv, AloneInv, OpenInv,
      Opening, Closing, Reading, Parts
<1>6. ParsedInv'
  BY ReaderAssumption
    DEF TypeOK, CallInv, LockInv, AloneInv, StreamInv, OpenInv, ParsedInv,
      Opening, Closing, Reading, Parts
<1>7. ReadInv'
  BY ReaderAssumption
    DEF TypeOK, CallInv, LockInv, AloneInv, ParsedInv, ReadInv,
      Opening, Closing, Reading, Parts
<1>8. Counted'
  <2>1. \A u \in Threads, s \in Streams : Holds(u, s)' <=> Holds(u, s)
    BY ReaderAssumption DEF TypeOK, CallInv, Holds, Opening, Closing, Reading
  <2> QED BY <2>1, NothingCounted
<1> QED BY <1>1, <1>2, <1>3, <1>4, <1>5, <1>6, <1>7, <1>8

\* A read may end there.
LEMMA LookupEndsPreserves ==
  ASSUME IInv, NEW t \in Threads, LookupEnds(t)
  PROVE  IInv'
<1> USE DEF IInv, LookupEnds, Return, Goto, shared
<1>1. TypeOK'
  BY ReaderAssumption
    DEF TypeOK, CallInv, Opening, Closing, Reading, Parts
<1>2. CallInv'
  BY ReaderAssumption
    DEF TypeOK, CallInv,
      Opening, Closing, Reading, Parts
<1>3. LockInv' /\ AloneInv'
  BY ReaderAssumption
    DEF TypeOK, CallInv, LockInv, AloneInv,
      Opening, Closing, Reading, Parts
<1>4. StreamInv'
  BY ReaderAssumption
    DEF TypeOK, LockInv, AloneInv, StreamInv,
      Opening, Closing, Reading, Parts
<1>5. OpenInv'
  BY ReaderAssumption
    DEF TypeOK, CallInv, LockInv, AloneInv, OpenInv,
      Opening, Closing, Reading, Parts
<1>6. ParsedInv'
  BY ReaderAssumption
    DEF TypeOK, CallInv, LockInv, AloneInv, StreamInv, OpenInv, ParsedInv,
      Opening, Closing, Reading, Parts
<1>7. ReadInv'
  BY ReaderAssumption
    DEF TypeOK, CallInv, LockInv, AloneInv, ParsedInv, ReadInv,
      Opening, Closing, Reading, Parts
<1>8. Counted'
  <2>1. \A u \in Threads, s \in Streams : Holds(u, s)' <=> Holds(u, s)
    BY ReaderAssumption DEF TypeOK, CallInv, Holds, Opening, Closing, Reading
  <2> QED BY <2>1, NothingCounted
<1> QED BY <1>1, <1>2, <1>3, <1>4, <1>5, <1>6, <1>7, <1>8

\* The pointer that is copied is that of the parsed document.
LEMMA CopyStreamPreserves ==
  ASSUME IInv, NEW t \in Threads, CopyStream(t)
  PROVE  IInv'
<1> USE DEF IInv, CopyStream, Goto
<1>1. TypeOK'
  BY ReaderAssumption
    DEF TypeOK, CallInv, Opening, Closing, Reading, Parts
<1>2. CallInv'
  BY ReaderAssumption
    DEF TypeOK, CallInv,
      Opening, Closing, Reading, Parts
<1>3. LockInv' /\ AloneInv'
  BY ReaderAssumption
    DEF TypeOK, CallInv, LockInv, AloneInv,
      Opening, Closing, Reading, Parts
<1>4. StreamInv'
  BY ReaderAssumption
    DEF TypeOK, LockInv, AloneInv, StreamInv,
      Opening, Closing, Reading, Parts
<1>5. OpenInv'
  BY ReaderAssumption
    DEF TypeOK, CallInv, LockInv, AloneInv, OpenInv,
      Opening, Closing, Reading, Parts
<1>6. ParsedInv'
  BY ReaderAssumption
    DEF TypeOK, CallInv, LockInv, AloneInv, StreamInv, OpenInv, ParsedInv,
      Opening, Closing, Reading, Parts
<1>7. ReadInv'
  BY ReaderAssumption
    DEF TypeOK, CallInv, LockInv, AloneInv, ParsedInv, ReadInv,
      Opening, Closing, Reading, Parts
<1>8. Counted'
  <2>1. \A u \in Threads, s \in Streams : Holds(u, s)' <=> Holds(u, s)
    BY ReaderAssumption DEF TypeOK, CallInv, Holds, Opening, Closing, Reading
  <2> QED BY <2>1, NothingCounted
<1> QED BY <1>1, <1>2, <1>3, <1>4, <1>5, <1>6, <1>7, <1>8

\* The count follows while the member still has the stream.
LEMMA CopyReferencePreserves ==
  ASSUME IInv, NEW t \in Threads, CopyReference(t)
  PROVE  IInv'
<1> USE DEF IInv, CopyReference, Goto, Take
<1>1. TypeOK'
  BY ReaderAssumption
    DEF TypeOK, CallInv, Opening, Closing, Reading, Parts
<1>2. CallInv'
  BY ReaderAssumption
    DEF TypeOK, CallInv,
      Opening, Closing, Reading, Parts
<1>3. LockInv' /\ AloneInv'
  BY ReaderAssumption
    DEF TypeOK, CallInv, LockInv, AloneInv,
      Opening, Closing, Reading, Parts
<1>4. StreamInv'
  BY ReaderAssumption
    DEF TypeOK, LockInv, AloneInv, StreamInv,
      Opening, Closing, Reading, Parts
<1>5. OpenInv'
  BY ReaderAssumption
    DEF TypeOK, CallInv, LockInv, AloneInv, OpenInv,
      Opening, Closing, Reading, Parts
<1>6. ParsedInv'
  BY ReaderAssumption
    DEF TypeOK, CallInv, LockInv, AloneInv, StreamInv, OpenInv, ParsedInv,
      Opening, Closing, Reading, Parts
<1>7. ReadInv'
  BY ReaderAssumption
    DEF TypeOK, CallInv, LockInv, AloneInv, ParsedInv, ReadInv,
      Opening, Closing, Reading, Parts
<1>8. Counted'
  <2> SUFFICES ASSUME NEW s \in Streams
               PROVE  references'[s] = Cardinality(Holders(s)')
    BY DEF Counted
  <2>1. CASE s = copy[t]
    <3>1. ~(t \in Holders(s)) /\ Holders(s)' = Holders(s) \cup {t}
      BY <2>1, HoldersAreFinite, HoldersAreFiniteAfter, ReaderAssumption
        DEF TypeOK, CallInv, LockInv, AloneInv, Holds, Opening, Closing, Reading
    <3> QED
      BY <2>1, <3>1, OneMore, HolderCounts, ReaderAssumption
        DEF Counted, TypeOK
  <2>2. CASE s # copy[t]
    <3>1. /\ stream' = s <=> stream = s
          /\ \A u \in Threads : Holds(u, s)' <=> Holds(u, s)
      BY <2>2, ReaderAssumption
        DEF TypeOK, CallInv, LockInv, AloneInv, Holds, Opening, Closing, Reading
    <3>2. Holders(s)' = Holders(s)
      BY <3>1, SameHolders
    <3> QED BY <2>2, <3>2, ReaderAssumption DEF Counted, TypeOK
  <2> QED BY <2>1, <2>2
<1> QED BY <1>1, <1>2, <1>3, <1>4, <1>5, <1>6, <1>7, <1>8

\* There may be no stream any more.
LEMMA CopyNullPreserves ==
  ASSUME IInv, NEW t \in Threads, CopyNull(t)
  PROVE  IInv'
<1> USE DEF IInv, CopyNull, Return, Goto
<1>1. TypeOK'
  BY ReaderAssumption
    DEF TypeOK, CallInv, Opening, Closing, Reading, Parts
<1>2. CallInv'
  BY ReaderAssumption
    DEF TypeOK, CallInv,
      Opening, Closing, Reading, Parts
<1>3. LockInv' /\ AloneInv'
  BY ReaderAssumption
    DEF TypeOK, CallInv, LockInv, AloneInv,
      Opening, Closing, Reading, Parts
<1>4. StreamInv'
  BY ReaderAssumption
    DEF TypeOK, LockInv, AloneInv, StreamInv,
      Opening, Closing, Reading, Parts
<1>5. OpenInv'
  BY ReaderAssumption
    DEF TypeOK, CallInv, LockInv, AloneInv, OpenInv,
      Opening, Closing, Reading, Parts
<1>6. ParsedInv'
  BY ReaderAssumption
    DEF TypeOK, CallInv, LockInv, AloneInv, StreamInv, OpenInv, ParsedInv,
      Opening, Closing, Reading, Parts
<1>7. ReadInv'
  BY ReaderAssumption
    DEF TypeOK, CallInv, LockInv, AloneInv, ParsedInv, ReadInv,
      Opening, Closing, Reading, Parts
<1>8. Counted'
  <2>1. \A u \in Threads, s \in Streams : Holds(u, s)' <=> Holds(u, s)
    BY ReaderAssumption DEF TypeOK, CallInv, Holds, Opening, Closing, Reading
  <2> QED BY <2>1, NothingCounted
<1> QED BY <1>1, <1>2, <1>3, <1>4, <1>5, <1>6, <1>7, <1>8

\* Reading counts nothing.
LEMMA ReadItemPreserves ==
  ASSUME IInv, NEW t \in Threads, ReadItem(t)
  PROVE  IInv'
<1> USE DEF IInv, ReadItem, Goto, shared
<1>1. TypeOK'
  BY ReaderAssumption
    DEF TypeOK, CallInv, Opening, Closing, Reading, Parts
<1>2. CallInv'
  BY ReaderAssumption
    DEF TypeOK, CallInv,
      Opening, Closing, Reading, Parts
<1>3. LockInv' /\ AloneInv'
  BY ReaderAssumption
    DEF TypeOK, CallInv, LockInv, AloneInv,
      Opening, Closing, Reading, Parts
<1>4. StreamInv'
  BY ReaderAssumption
    DEF TypeOK, LockInv, AloneInv, StreamInv,
      Opening, Closing, Reading, Parts
<1>5. OpenInv'
  BY ReaderAssumption
    DEF TypeOK, CallInv, LockInv, AloneInv, OpenInv,
      Opening, Closing, Reading, Parts
<1>6. ParsedInv'
  BY ReaderAssumption
    DEF TypeOK, CallInv, LockInv, AloneInv, StreamInv, OpenInv, ParsedInv,
      Opening, Closing, Reading, Parts
<1>7. ReadInv'
  BY ReaderAssumption
    DEF TypeOK, CallInv, LockInv, AloneInv, ParsedInv, ReadInv,
      Opening, Closing, Reading, Parts
<1>8. Counted'
  <2>1. \A u \in Threads, s \in Streams : Holds(u, s)' <=> Holds(u, s)
    BY ReaderAssumption DEF TypeOK, CallInv, Holds, Opening, Closing, Reading
  <2> QED BY <2>1, NothingCounted
<1> QED BY <1>1, <1>2, <1>3, <1>4, <1>5, <1>6, <1>7, <1>8

\* The pointer of the read is dropped.
LEMMA ReleasePreserves ==
  ASSUME IInv, NEW t \in Threads, Release(t)
  PROVE  IInv'
<1> USE DEF IInv, Release, Return, Goto, Drop
<1>0. references[copy[t]] \in Nat \ {0}
  BY HeldIsCounted DEF TypeOK, Counted, CallInv, Holds, Opening, Closing, Reading
<1>1. TypeOK'
  BY <1>0, ReaderAssumption
    DEF TypeOK, CallInv, Opening, Closing, Reading, Parts
<1>2. CallInv'
  BY ReaderAssumption
    DEF TypeOK, CallInv,
      Opening, Closing, Reading, Parts
<1>3. LockInv' /\ AloneInv'
  BY ReaderAssumption
    DEF TypeOK, CallInv, LockInv, AloneInv,
      Opening, Closing, Reading, Parts
<1>4. StreamInv'
  BY ReaderAssumption
    DEF TypeOK, LockInv, AloneInv, StreamInv,
      Opening, Closing, Reading, Parts
<1>5. OpenInv'
  BY ReaderAssumption
    DEF TypeOK, CallInv, LockInv, AloneInv, OpenInv,
      Opening, Closing, Reading, Parts
<1>6. ParsedInv'
  BY ReaderAssumption
    DEF TypeOK, CallInv, LockInv, AloneInv, StreamInv, OpenInv, ParsedInv,
      Opening, Closing, Reading, Parts
<1>7. ReadInv'
  BY ReaderAssumption
    DEF TypeOK, CallInv, LockInv, AloneInv, ParsedInv, ReadInv,
      Opening, Closing, Reading, Parts
<1>8. Counted'
  <2> SUFFICES ASSUME NEW s \in Streams
               PROVE  references'[s] = Cardinality(Holders(s)')
    BY DEF Counted
  <2>1. CASE s = copy[t]
    <3>1. (t \in Holders(s)) /\ Holders(s)' = Holders(s) \ {t}
      BY <2>1, HoldersAreFinite, HoldersAreFiniteAfter, ReaderAssumption
        DEF TypeOK, CallInv, LockInv, AloneInv, Holds, Opening, Closing, Reading
    <3> QED
      BY <2>1, <3>1, OneLess, HolderCounts, ReaderAssumption
        DEF Counted, TypeOK
  <2>2. CASE s # copy[t]
    <3>1. /\ stream' = s <=> stream = s
          /\ \A u \in Threads : Holds(u, s)' <=> Holds(u, s)
      BY <2>2, ReaderAssumption
        DEF TypeOK, CallInv, LockInv, AloneInv, Holds, Opening, Closing, Reading
    <3>2. Holders(s)' = Holders(s)
      BY <3>1, SameHolders
    <3> QED BY <2>2, <3>2, ReaderAssumption DEF Counted, TypeOK
  <2> QED BY <2>1, <2>2
<1> QED BY <1>1, <1>2, <1>3, <1>4, <1>5, <1>6, <1>7, <1>8

LEMMA NextPreserves == IInv /\ [Next]_vars => IInv'
<1> SUFFICES ASSUME IInv, [Next]_vars PROVE IInv'
  OBVIOUS
<1>1. ASSUME NEW t \in Threads, NEW s \in Streams, Open(t, s) PROVE IInv'
  BY <1>1, OpenPreserves
<1>2. ASSUME NEW t \in Threads, NEW part \in Parts, Read(t, part) PROVE IInv'
  BY <1>2, ReadPreserves
<1>3. ASSUME NEW t \in Threads, Close(t) \/ CloseStep(t) PROVE IInv'
  BY <1>3, ClosePreserves, CloseFlagPreserves, CloseResetPreserves DEF CloseStep
<1>4. ASSUME NEW t \in Threads, OpenStep(t) PROVE IInv'
  BY <1>4, OpenFailsPreserves, OpenHeaderPreserves, OpenSubBlocksPreserves,
    OpenAttachmentsPreserves, OpenStreamPreserves, OpenDonePreserves
    DEF OpenStep
<1>5. ASSUME NEW t \in Threads, ReadStep(t) PROVE IInv'
  BY <1>5, LookupPreserves, LookupEndsPreserves, CopyStreamPreserves,
    CopyReferencePreserves, CopyNullPreserves, ReadItemPreserves,
    ReleasePreserves
    DEF ReadStep
<1>6. ASSUME UNCHANGED vars PROVE IInv'
  <2> USE <1>6 DEF vars, shared, local, IInv
  <2>1. TypeOK' /\ CallInv' /\ LockInv' /\ AloneInv' /\ StreamInv' /\ OpenInv'
          /\ ParsedInv' /\ ReadInv'
    BY DEF TypeOK, CallInv, LockInv, AloneInv, StreamInv, OpenInv, ParsedInv, ReadInv
  <2>2. Counted'
    BY NothingCounted DEF Holds
  <2> QED BY <2>1, <2>2
<1> QED BY <1>1, <1>2, <1>3, <1>4, <1>5, <1>6 DEF Next, Continue

\* The invariant holds in every state that the reader reaches.
LEMMA InvariantHolds == Spec => []IInv
BY InitInvariant, NextPreserves, PTL DEF Spec

-----------------------------------------------------------------------------
(* The theorems. *)

\* The members of the reader and the state of its calls keep their types: no
\* count of references goes below zero, where each access to a member takes
\* place as a whole (CZIReader.cpp, all methods).
THEOREM TypeCorrect == Spec => []TypeOK
BY InvariantHolds, PTL DEF IInv

\* For any number of threads and documents, no method loses a pointer to a
\* stream or drops one too many, as long as no Open runs beside another call
\* (CZIReader.cpp:39-64, 174-185, 213-302).
THEOREM PointersAreCounted == Spec => []ReferencesAreCounted
BY InvariantHolds, PTL DEF IInv, Counted, ReferencesAreCounted

\* A read that has copied the pointer to the stream finds the stream open
\* until it drops it, whatever Close does meanwhile, as long as no Open runs
\* beside another call (CZIReader.cpp:225-254).
THEOREM UsedStreamStaysOpen == Spec => []UsedStreamIsOpen
<1>1. IInv => UsedStreamIsOpen
  <2> SUFFICES ASSUME IInv, ~overlapped, NEW t \in Threads,
                      copy[t] # NoStream
               PROVE  references[copy[t]] > 0
    BY DEF UsedStreamIsOpen
  <2>1. copy[t] \in Streams
    BY DEF IInv, TypeOK
  <2>2. \E h : h \in Holders(copy[t])
    BY <2>1, HoldersAreFinite DEF IInv, CallInv, LockInv, Holds
  <2> QED BY <2>1, <2>2, HolderCounts DEF IInv, Counted
<1> QED BY <1>1, InvariantHolds, PTL

\* Whatever was opened, closed or failed to open before, and with any number
\* of reads and calls of Close at the same time, a read that gets a stream
\* reads its item from the document of the entry it has looked up.  The
\* premise ~overlapped of the property is needed: Open looks at the flag alone
\* (CZIReader.cpp:39-64, 134-144, 213-254; MCCziReaderOpen.cfg).
THEOREM ReadsAreOfTheirDocument == Spec => []ReadsTheirDocument
<1>1. IInv => ReadsTheirDocument
  BY DEF IInv, CallInv, ReadInv, ReadsTheirDocument, ReadsOneDocument
<1> QED BY <1>1, InvariantHolds, PTL

=============================================================================
