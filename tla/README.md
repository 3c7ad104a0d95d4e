# Models and proofs of libCZI and CZIrepair

TLA+ models of the parts of this repository that keep state over several steps,
may be interrupted between them, or are shared by threads: the writers of CZI
documents, the reader, the directory of sub-blocks with its statistics, the
accessors that compose pictures, the sub-block cache and the CZIrepair tool. TLC
checks the models on small instances; TLAPS proves the main safety properties for
all values of the constants.

## The system

CZI documents are files of *segments*: a header of 32 bytes (a magic, an
allocated and a used size) and data. The file header segment at position 0
names the sub-block directory, the attachment directory and the metadata; the
directories name the segments of sub-blocks and attachments.

| Part | State | Operations | Hard to get right |
|---|---|---|---|
| Writer: `CziWriter.cpp` (`CCziWriter`, `CWriterUtils`) | stream, append position, two directories, three segments written or reserved | Create with reservations, SyncAddSubBlock, SyncAddAttachment, SyncWriteMetadata, Close | writes that fail inside a call, segments reused in place, sizes and alignment, crash inside Close |
| Reader-writer: `CziReaderWriter.cpp` | the same for an existing document, keys of items, where the last segment is | Create (the file GUID left or replaced), add, replace, remove, metadata, Close | items go in place or to the end; crash before Close; the append position; Close again after it failed |
| Reader: `CZIReader.cpp`, `CziReaderCommon.cpp` | stream, directories, an operational flag | Open, Close, ReadSubBlock, enumerations, statistics | Close while other threads read; reopening |
| Directories and statistics: `CziSubBlockDirectory.cpp`, `CziAttachmentsDirectory.cpp` | entries, statistics kept current, recreated or consolidated lazily | add, modify, remove, enumerate, statistics | stale or doubled statistics; comparison of coordinates |
| Parser: `CziParse.cpp` | none | reads and patches segments | files that are torn or of other origin |
| Sub-block cache: `subblock_cache.cpp` | map, LRU counter, two atomic statistics, a mutex | Get, Add, Prune, GetStatistics | atomics outside of the lock, two threads that add the same sub-block |
| CZIrepair: `czirepair/` | the document on disk, kept twice: directory and segments | dry run, patch | stopped half-way, run again |
| Accessors: `SingleChannel*Accessor*.cpp`, `utilities.cpp` | within a call: groups of tiles, covered area, picture | Get: check the plane, select, order, test for visibility and draw tiles | statistics against entries; the visibility test; choice of a layer by zoom |
| Compositor, metadata, coordinates, codecs, streams, sub-block objects | values, or a seek position under a lock | conversions | data, not control |

How they interact: an application calls the writer or reader-writer, which
calls the stream's Write for every part of a segment and hears of failure by an
exception. The reader parses the file through CCZIParse and keeps directory
entries; accessors ask it for sub-blocks (through a cache that threads share)
and compose bitmaps. CZIrepair opens a document with the reader, decodes its
bitmaps, and patches the file through CCZIParse. Writer and reader-writer are
documented as single-threaded, so their concurrency is with failing writes and
with the end of the process; the cache and the reader are used by threads.

What makes each correct:
- writer: what was accepted stays intact until Close and can be read after it;
  what a reader sees on disk is nothing, or a part of the document, or all of it;
- reader-writer: the same for edits, and the document that is on disk stays
  readable until Close replaces its directories;
- cache: statistics are those of the contents, eviction takes the least recently
  used, down to the limits and no further, nobody keeps the mutex;
- CZIrepair: no right size is made wrong, a finished run leaves none wrong;
- reader: a read that races with Close returns the item or nothing;
- statistics: they are those of the entries, after any sequence of edits;
- accessors: they show the tiles asked for, the highest M-index on top, and the
  visibility test changes nothing but the time it takes.

`PROJECT.json` lists every hazard with its line and the properties about it.

## Modules

| Module | Models |
|---|---|
| `CziFile` | the file: structures, sizes, and what a reader gets back |
| `CziWriterUtils` | `CWriterUtils`: the writes that put a segment into the file |
| `CziWriter` | `CCziWriter`, on top of both |
| `CziDocument` | abstract: what a writer promises its client |
| `CziReaderWriter` | `CCziReaderWriter`, on top of `CziFile` and `CziWriterUtils` |
| `CziReader` | `CCZIReader` used by threads |
| `SubBlockDirectory` | the directory of the reader-writer and its statistics (`CSbBlkStatisticsUpdater`) |
| `RectangleCoverage` | `RectangleCoverageCalculator` |
| `TileAccessor` | the three single-channel accessors, on top of the last two |
| `SubBlockCache` | `SubBlockCache` used by threads |
| `CziRepair` | the patch mode of CZIrepair |
| `MC...` | instances for TLC |
| `...Proofs` | theorems and proofs |

**CziFile, CziWriterUtils.** A file is a set of *extents*: ranges of bytes with
what is stored there. A write removes the extents it touches and leaves its own,
so "intact" means that no later write came near. Sizes, alignment and offsets
are those of `CziStructs.h` and the code; contents are model values. Each
operator of `CziWriterUtils` gives the writes of the method of its name, in
order, with its decision to go into an existing segment or to the end. The
quirks are kept: the loop of `WriteZeroes` that stops half-way for two chunks or
more, and the offset of the fill behind an attachment directory. Each of the
three parts of a sub-block is what the client announced and what its function
delivers of it before it returns false; the rest is filled by that loop
(`WriteSubBlkDataGeneric`), and what is still missing moves all that follows: the
parts behind it, the fill behind them, and the append position. To read such a
sub-block back intact takes the missing zeroes too (`SubBlockRest`), which are
there only if the fill behind the parts reaches over them. A sub-block
directory of which any part is written over counts as unreadable, an attachment
directory loses the entries that are; position fields that are torn are
unknown.

**CziWriter, CziReaderWriter.** A method is split into what it does before its first
write, one step `WriteOk` for every call of the stream's Write, and what it does after
its last. `WriteFails` ends the method as the exception does: with none, some or all
of the bytes in the file, and the members as they are then; that is also how a
function of the client ends a call when it hands over no data (`GetDataCallError`).
`Discard` is the destruction of the object or the end of the process, at any point.
Variables named as members are those members; `op`, `item`, `key` and `writes` are the
method that runs; `phase`, `accepted`, `doubtful`, `meta`, `known`, `kept` and
`untouched` are what the client has been told and may rely on. The client makes one
call at a time, does not go on after Create has thrown and (reader-writer) makes no
call after Close, except Close itself when it threw; it replaces and removes only
items whose add returned or that it could read. The reader-writer can open the file
again after a Close, a failure or a crash, and may then replace the GUIDs of the file
header, which are two writes of their own; a document whose directories cannot be read
makes it throw (`CreateThrows`). Not in it: calls that would read the header of a
segment that is not intact.

**CziDocument** says what the client may expect in terms of items alone.
`CziWriter!WriterKeepsPromise` states that the writer implements it; the
mapping takes what is published from what a reader gets from the bytes.

**CziReader.** Each access to a member is a step, the copy of the stream pointer
two: a `shared_ptr` is a pointer and a count, and a stream is gone when its count
is zero. A parsed part is known by the stream it was parsed from, so "of another
document" can be said of an entry that is used with a stream. Any number of
threads read, close and open, whatever the others do: Open looks at the
operational flag only. Parsing may fail at every part, and a reader can be opened
again. `overlapped` records that an Open has run beside another call, which no
action looks at: what holds is said of behaviours up to that point, and
`ReadsTheirDocumentConcurrently`, without that premise, is violated. From there on
the program has data races that the steps, each an access as a whole, do not show.

**SubBlockDirectory.** The state is that of the class: entries by key, the two
statistics, three flags. Modify and remove only mark the statistics; who asks for
them makes the directory recreate them, one step for each entry. Statistics of the
pyramid are counts by scene and layer; the layer of an entry is what
`TryToDeterminePyramidLayerInfo` makes of its sizes. The reference definitions
(`AreStatisticsOf`) are stated over the set of entries and know nothing of the
order in which they came, nor of the code: the bounds of the M-index are those of
all entries with a valid one, as libCZI.h:446-452 says. The code overlooks the
M-index of an entry without any dimension (CziSubBlockDirectory.cpp:53-96, `CountsM`
of the model), so these two bounds are compared only while there is no such entry.
The run has one, and without that premise `StatisticsAreOfTheEntries` is violated
as soon as it is loaded.

**RectangleCoverage, TileAccessor.** A call of an accessor begins with a set of
tiles or (for a zoom, with several scenes) a sequence of sets; each is put into
one of the orders that the sort may give, looked through from the top by
`CheckForVisibility` if that is asked for, and painted. Each turn of the recursion
of `AddRectangle` is a step: it takes any pending rectangle and any splitter that
overlaps it, so every order of the vector is covered. The picture maps each pixel
to the tile it shows. The repository is the document of `SubBlockDirectory`, which
is edited between calls. Zooms are fractions where the code has floats. The factor
between layers is at least 2 (with 0 or 1 the code would not end; a hazard). The
pixel types, tile borders, the resampling of pixels and the cache are left out. The
options of the accessor of layer 0 have a filter of scenes
(libCZI_Compositor.h:198) that the code does not read, so the model has none.

**SubBlockCache.** Each access to an atomic that another thread can see is a
step. The history variables `since` and `lastLaterThan` record of which indices all
accesses had ended when the last access of another one began.

**CziRepair.** Every size is a write of its own; the tool fails or is stopped
between any two and is started again.

## Runs

| Run | Configuration | Shows |
|---|---|---|
| `writer` | 2 sub-blocks (of one the data ends early and is filled; the other is cut short), 1 attachment, 2 metadata of different size, with and without reservations, duplicates allowed, 1 failing write (643 380 states) | `AcceptedIntact`, `MetadataIntact`, `NoTornDirectory`, and that the writer keeps the promise of `CziDocument` |
| `writer_reserved_attachments` | reservation for two attachments | violated: `AttachmentsSurviveClose` |
| `writer_filled` | the same sub-blocks, no attachment, no failures | violated: `SubBlocksSurviveClose` |
| `reader_writer` | 2 sub-blocks, 2 attachments, 2 metadata, each pair one that fits where the other was and one that does not; of one sub-block the data ends early; 2 GUIDs; a new file or a document; 2 sessions, 3 edits, 1 failing write (929 333 states) | `SubBlocksIntact`, `AttachmentsIntact`, `UntouchedStayReadable`, `EditsSurviveClose`, `GuidIsThatOfTheFile`, `DocumentIsLaidOut` |
| `reader_writer_close` | a new file, no failures | violated: `SubBlocksSurviveClose` |
| `reader_writer_replace` | no failures | violated: `ReplacedAttachmentsIntact` |
| `cache` | 2 threads, 3 sub-blocks, 2 bitmap sizes, either limit exceeded, 4 accesses | `Snapshot`, `EvictsLeastRecentlyUsed`, `PrunesToTheLimits`, `MutexIsReleased` |
| `reader` | 3 threads that open, close and read in any order, 2 documents without metadata, one of them without attachments (387 121 states) | `ReferencesAreCounted`, `UsedStreamIsOpen`, `ReadsTheirDocument`, `ClosedStreamIsReleased` |
| `reader_open` | the same | violated: `ReadsTheirDocumentConcurrently` |
| `tiles` | 4 kinds of entries, 3 keys, statistics recreated once, 4 calls: one of layer 0, one of a layer, two of a zoom (174 289 states) | `StatisticsAreOfTheEntries`, `PyramidMissesNothing`, `PlanesAreOfTheEntries`, `SplittersAreDisjoint`, `CoverageIsOfTheTiles`, `ComposesTheLayerAbove`, `ShowsTheHighestMIndex`, `SameAsWithoutOptimization`, `AddRectangleEnds` |
| `directory_pyramid` | the same with 2 keys | violated: `PyramidCountsTheEntries` |
| `repair` | 3 sub-blocks, one not JPGXR, any sizes in directory and segments, 2 runs | `DirectoryRepaired`, `SegmentsRepaired`, `NeverHarms` |

Each passing run also checks the type invariant of its module.

Bounds. The bounds are guards named `Max...`. One failing write suffices to leave
every kind of half-done call, as a failed call leaves nothing pending and later calls
start from the members and the file it left. A sub-block whose rest is less than a
chunk shows a fill that is complete, one whose rest is five chunks one that is not,
with more to write behind it. Two sub-blocks give duplicates, neighbours and a
directory that outgrows its segment; a second metadata document that does not fit
where the first was, and one that does, give both placements. Two sessions of the
reader-writer let it find what a crash or a Close left. Four accesses of the cache let
two threads add the same sub-block while a third access comes between, then evict. Two
runs of the tool are one that is stopped and one that follows. Three threads of the
reader let one close, one read and one be between its copy and its use, or two open
and one read; two documents that have different parts let every stale member show.
Three of the four kinds of entries at a time give tiles that overlap in part and
entirely, with equal and different M-indices, with and without a scene, in layer 0, in
a layer, and between; a third tile is the first that two others can hide together, and
that can be cut by several splitters. Statistics are stale or current, so recreating
them once leads to every state of the flags.

Deadlock is checked for `writer`, `cache` and `reader`. In the others the system
may stop: the clients of the reader-writer and of the directory at their bounds,
the tool after its runs.

Fairness is assumed in `cache` and `reader` (`FairSpec`). In `cache`, for
`MutexIsReleased`: a thread that holds the mutex waits for nothing inside, so it goes
on. Nothing is assumed of a thread that waits for the mutex, as `std::mutex` promises
no fairness, nor that anybody calls the cache. In `reader`, for
`ClosedStreamIsReleased`: a call that runs goes on, weakly, since what a thread waits
for (the mutex) is held only for the copy of a pointer, and once Close has reset the
flag no new read asks for it; nothing is assumed of calls to come. With an Open beside
the Close new reads may get the mutex before it every time, so the property says
nothing then. `AddRectangleEnds` (in `tiles`) needs no fairness: it says that every
step brings the recursion nearer to its end. The other models state safety only: a
process may end at any time.

## What the violated runs show

- `writer_reserved_attachments`: `WriteAttachmentDirectory` (CziWriter.cpp:760)
  fills a reused segment with zeroes from too early on; attachments written into
  a reserved directory are lost.
- `writer_filled`: what a function of the client does not deliver is filled with
  zeroes by `WriteZeroes` (CziWriter.cpp:465), which stops half-way for two chunks or
  more. Of the 20000 bytes of a sub-block 12288 are filled, and 4096 more behind
  them; the next segment, here the sub-block directory, is put at 17216, inside of
  that of the sub-block, which ends at 20832.
- `reader_writer_close`: `Finish` (CziReaderWriter.cpp:286) forgets the segment
  header behind a new sub-block directory; a new attachment directory is written
  over its end.
- `reader_writer_replace`: an attachment that was replaced at the end of the file
  (CziReaderWriter.cpp:810) is written over by the next item.
- `reader_open`: an Open looks at the flag once (CZIReader.cpp:41). A second Open
  that starts while the first is about to set the flag replaces the directories; a
  read then takes an entry of the second document and the stream of the first.
- `directory_pyramid`: the statistics of the pyramid are not cleared
  (CziSubBlockDirectory.cpp:37) before they are counted again, so after a sub-block
  was modified or removed those that are left are counted twice.

The properties that hold are stated to leave exactly these cases out, and some
more that the code does not keep:
- `AcceptedIntact`, `NoTornDirectory`, `WriterKeepsPromise`: the sub-blocks that come
  out shorter than announced (`CutShort`; such a one counts as one whose add
  failed). All other items stay intact beside them, which is checked and proved.
- `CziReaderWriter`: with a sub-block that is cut short, `SubBlocksIntact` and what
  rests on it do not hold, for more than that sub-block: its segment's header
  promises room that the next item takes, and a sub-block that replaces it in place
  goes over that item. The run has none that is (`FunctorsDeliver`, also the
  hypothesis of the theorems).
- `AttachmentsIntact`: the attachments that were replaced at the end.
- `EditsSurviveClose`: the attachments of a session that edited them, and documents
  in which a Close has put one directory over the other (`DirectoriesOverlap`: a
  later Close writes either of them over the other again, with five edits over two
  sessions also in sessions that edit no attachment). Of a new document that got no
  sub-block it says all but that it opens: Close writes no sub-block directory for
  it, the file header names position 0, and no reader finds a directory there,
  though libCZI_ReadWrite.h:95-96 speaks of a valid CZI.
- `ReferencesAreCounted`, `UsedStreamIsOpen`, `ReadsTheirDocument`,
  `ClosedStreamIsReleased`: what comes after an Open ran beside another call.
- `StatisticsAreOfTheEntries`: the bounds of the M-index while an entry with an
  M-index has no dimension.
- `PyramidMissesNothing` allows counts that are too high once the statistics were
  recreated.
- `EvictsLeastRecentlyUsed` compares the access of an index that stored its entry
  last. `Add` takes its LRU value before the lock (subblock_cache.cpp:57), so of two
  threads that add the same sub-block the one with the older value can be the last
  to store it, and the sub-block then counts as older than its last access, against
  libCZI_Compositor.h:75.
- `SegmentsRepaired`: documents whose directory and segments were wrong in different
  places. A run of the tool that stops between the two passes (czirepair.cpp:134)
  leaves such a one; the next run compares the bitmaps with the directory alone,
  finds nothing and succeeds, against src/README.md:13.

## Proofs

All hold for every value of the constants under the named ASSUMEs of the modules
(sizes are naturals; sub-blocks and attachments are different; no metadata document
is one of the markers for none and unknown; a document to be opened consists of
parts that libCZI writes; a finite set of indices; nobody is no thread).

- `CziWriterProofs`: `TypeCorrect`, `AcceptedStaysIntact`, `MetadataStaysIntact`,
  `NoDirectoryIsTorn`, `WriterImplementsDocument`; the lemmas about the writes of
  `CWriterUtils` and about reading back what they left are in
  `CziWriterUtilsProofs`: for each kind of segment, the range its writes stay in,
  what is in the file when they are done, and which of the extents name an item.
  The invariant has layers, each resting on those before:
  - `Inv` adds to `AcceptedIntact` why no write can reach an accepted item: the
    writes of a running call are confined to the file header, to the three
    segments that may be reused, or to what is behind the append position
    (`Confined`); those segments end before it (`SegmentsBelowEnd`); the extents of
    accepted items lie in front of it and outside of these segments (`Kept`); and
    while an add runs, its extents are in the file or still to be written by
    writes that none of the later ones undoes (`Lasting`). `AcceptedIntact` alone is
    not inductive: it does not say where the next write goes.
  - `AreasInv`: the reusable segments do not overlap, and a call writes only into
    its own or behind the end. With it, `MetadataKept`: the XML is in its segment,
    or planned to be there by the writes of the running call.
  - `DirectoriesInv`: every entry in memory, in the file and in a pending write
    names an item that is kept, doubtful, or being added; while Create runs there is
    none. A crash can therefore expose no entry before its item.
  - `TidyInv`, `CloseInv`, `NothingToSpare`: an extent is in the file once; at each
    stage of Close, the directories that are done are in their segments, and the
    file header, when written, leads to them.
  `WriterImplementsDocument` assumes `NoAttachmentsReserved` (as every
  configuration of `writer` has it), since with a reserved attachment directory the
  code does not keep the promise; the run `writer_reserved_attachments` shows how.
  The other four assume nothing of the reservations, and none of them anything of
  what the client's functions deliver: an item ends before the next one even where
  a sub-block is cut short, as the append position counts what was written.
- `SubBlockCacheProofs`: `TypeCorrect` (no statistic goes below zero),
  `StatisticsAreASnapshot`, `LeastRecentlyUsed`, `PruneStopsAtTheLimits`. The
  invariant says by how much the statistics differ from the contents at each
  point where a thread holds the mutex, that LRU values are different and below
  the counter, and how they relate to the recorded order of accesses.
- `CziReaderProofs`: `TypeCorrect`, `PointersAreCounted`, `UsedStreamStaysOpen`,
  `ReadsAreOfTheirDocument`. The invariant adds, as long as no Open has run beside
  another call (`overlapped`), what each position of a thread knows:
  that the mutex is held exactly by a thread between its lock and its unlock, that
  a thread that opens is alone and how far the parsed parts already are those of
  the new document, and that a copied pointer is counted. `UsedStreamIsOpen` alone
  is not inductive: without the count of all holders, the release of one pointer
  could close a stream that another thread uses.
- `TileAccessorProofs`: every property the runs of `TileAccessor` check.
  - First the directory: what one update does to each part of the statistics (a
    span or box of a set of entries becomes that of the set with one more), and that
    every step of the directory keeps `StatisticsAreOfTheEntries` and
    `PyramidMissesNothing`, strengthened by what holds in the middle of the loop that
    recreates them: they are those of the entries visited so far (`DirectoryInv`).
  - `SplittersStayDisjoint`, `CoverageStaysExact` (`IInv`) rest on the geometry of
    one cut (`SplitUp`: the pieces are what the rectangle has outside of the
    splitter, and lie apart); `StatisticsFollowTheEntries`, `PyramidIsNotMissed`
    and `PlanesFollowTheEntries` on the lemmas about the directory.
  - Areas are sums over sets (a fold of the community modules). That such a sum
    counts pixels is shown without induction: of the subsets for which it would
    not, take a least one, and remove an element (`SumCounts`). So the area that
    the check compares is the number of the region's pixels under the splitters
    (`AreaCountsPixels`), and a cut leaves fewer pixels to be added, of the
    rectangle's own and of what its pieces share (`SplitLeavesLess`): this gives
    `AddRectangleComesToAnEnd`.
  - `CallInv`: the count of covered pixels is that of the tiles looked at. Hence a
    tile that adds nothing to it is covered by those above it, and `PictureInv`,
    that what is still to be painted makes of the picture that of all tiles so
    far, survives leaving it out: `VisibilityCheckChangesNothing`. The property
    alone is not inductive, as it says nothing while tiles are looked at.
  - `OrderInv` (a group is in the order it was sorted) gives `HighestMIndexIsOnTop`
    together with `PictureInv`; `WantedInv` (the groups done, sorted and left are
    what is asked for) gives `LayerAboveIsComposed`, and rests on what the
    statistics say of the scenes' boxes; `TypeCorrect` needs `CallInv`.
- `CziRepairProofs`: `TypeCorrect`, `DirectoryIsRepaired`, `SegmentsAreRepaired`,
  `RunsNeverHarm`. The invariant says that what is still wrong is still to be
  written.
- `CziReaderWriterProofs`: `TypeCorrect`, `GuidIsKept`, and, under `FunctorsDeliver`
  and as long as `DocumentIsLaidOut`, `SubBlocksStayIntact`, `AttachmentsStayIntact`
  and `UntouchedIsReadable`; `CziReaderWriterCloseProofs`, on top of it,
  `EditsAreSaved` under the same hypotheses, and `OneSessionIsSafe`, the four with
  `FunctorsDeliver` alone. That one cannot be left out: see above.
  - `TypeInv` adds to `TypeOK` what the file and the pending writes consist of
    (parts that libCZI writes, so that what is read back has a type), that an edit
    writes only behind the file header, and which call may run in which phase.
  - `GuidInv`: what `Create` writes into a new document will be there when its
    writes are made (`Lasting`), and each pending header write holds the GUID that
    is there. Otherwise a torn header write could lose it.
  - `LayoutInv`: there are spans, each with an owner (the document's directories
    and metadata, a sub-block, an attachment), that lie apart and end before the
    append position; what is read of an item lies in spans of its owner; a running
    call writes only into the spans of the item it replaces or behind all
    others; and what it is to leave there will be there (`Running`). The spans are
    what opening finds, and each append adds one. `SubBlocksIntact` alone is not
    inductive: it says neither where other segments lie nor where the next write
    goes. For Close it also keeps what that relies on of the document as it was
    opened (`Frame`): the file header and the directories that were not edited lie
    in spans of the document, and no item lies in the room of a directory, in which
    it may be written again (`DirectoryRoom`).
  - `ClosingInv`, for `EditsAreSaved`: where the two directories go is settled before
    Close begins and stays so when Close fails and is called again, since a
    directory stays in its segment or goes behind all spans, and the append position
    is determined once (`Settled`). So every write of a Close, first or later,
    reaches only the two places, the marks of the segments given up, and the file
    header (`Finishing`), and all that a reader needs lies beside them, or is among
    what the writes leave (`Saves`). The exception is that one directory goes over
    the other, which is settled as early (`Excused`; it becomes
    `DirectoriesOverlap`). `NewDocument` adds what a document without
    sub-block directory needs: its directory in memory is empty until it is edited,
    and before Close the last segment known is the file header, which is in the
    file, so that Close finds an append position. `EditsSurviveClose` alone is not
    inductive, as it says nothing before Close has returned; nor is its instance at
    the end of a first Close enough, as that one may have failed after any write.
  - `DocumentIsLaidOut` stays a hypothesis, which TLC checks in `reader_writer`. It
    says that no two segments of a document overlap when it is opened, with the
    room in which they may be written again, hence of all that earlier sessions,
    crashes included, left behind; an attachment directory may lie over the end of
    the room of a sub-block directory without entries (`LiesOver`), as the code
    leaves them there itself. It is not proved, and
    may not hold of documents larger than those of the runs: an interrupted rewrite
    of an attachment directory can expose entries of an earlier one, as its count
    is written before its entries, and a Close can put one directory over the
    other (`DirectoriesOverlap`). For the first session with a document that is laid
    out, as CCziWriter writes it, or with a new one, it follows (`FirstInv`: before
    the document is read, only GUIDs were written): this is `OneSessionIsSafe`.

Only model-checked: `DocumentIsLaidOut` of `CziReaderWriter`, for the reason above;
and `MutexIsReleased` and `ClosedStreamIsReleased`, since liveness under fairness is
beyond the prover.

## Plan

Done: (1) `CziFile`, `CziWriterUtils`, `CziWriter`, `CziDocument` with proofs,
(2) `SubBlockCache` with proofs, (3) `CziRepair` with proofs, (4)
`CziReaderWriter` with GUIDs and a repeated Close, with proofs, (5) `CziReader`
with proofs, (6) `SubBlockDirectory`, `RectangleCoverage` and `TileAccessor`
with proofs.

Left, in this order:
1. The accessors' use of the cache, with a document that is edited.
2. The set in which `CziWriter` looks for duplicates, by its comparison of
   coordinates, M-indices and positions.
3. For which documents `DocumentIsLaidOut` holds after several sessions.

## Not modelled

By lines, most of the repository is code that a model would not say anything
about: vendored libraries (jxrlib, pugixml), tests and their data, the command
line tool, and conversions. Of the code that is left, nearly all that keeps state
over more than a call is in a module.

Compositor and bitmap operations, metadata documents, coordinates and index
sets, codecs and the objects that hold what was read: they convert data, and a
model would repeat the arithmetic. Streams: a write happens, does not, or is
torn; that is all the models need. CZICmd and the unit tests; jxrlib and
pugixml, which are vendored. Of the parser, the decoding of directory entries
and the strict and lax options.
