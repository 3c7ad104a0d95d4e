---------------------------- MODULE SubBlockCache ----------------------------
(***************************************************************************)
(* SubBlockCache: decoded bitmaps of sub-blocks, shared by threads.        *)
(*                                                                         *)
(* A mutex guards the map of the entries.  The LRU counter and the two     *)
(* statistics are atomics: Add takes its LRU value before it locks, and    *)
(* GetStatistics reads one statistic without the lock.  So each access to  *)
(* an atomic that another thread can see is a step of its own, and what    *)
(* happens to the map goes with one of them.  Get, which holds the lock    *)
(* for its single effect, is one step.                                     *)
(*                                                                         *)
(* Any thread may make any call: the accessors' own pattern (Get, and Add  *)
(* if the cache had nothing) is among the behaviours.  A Get that finds    *)
(* nothing, and GetStatistics, change nothing.                             *)
(***************************************************************************)
EXTENDS Integers, FiniteSets

CONSTANTS
  Threads,
  Indices,          \* sub-block indices
  Bitmaps,
  BitmapSize,       \* bytes of a bitmap (CalculateSizeInBytes)
  PruneOptions,     \* limits that Prune is called with
  MaxAccesses,      \* bound: values the LRU counter hands out
  Nobody            \* nobody holds the mutex

ASSUME CacheAssumption ==
  /\ IsFiniteSet(Indices)
  /\ BitmapSize \in [Bitmaps -> Nat]
  /\ PruneOptions \subseteq [maxMemoryUsage : Nat, maxSubBlockCount : Nat]
  /\ MaxAccesses \in Nat
  /\ Nobody \notin Threads

VARIABLES
  cache,            \* partial function from Indices to entries
  lruCounter,
  cacheSizeInBytes,
  cacheSubBlockCount,
  mutex,            \* the thread that holds it, or Nobody
  pc,               \* where a thread is
  adding,           \* what a thread adds: an index and an entry
  pruning,          \* the limits a thread prunes to
  since,            \* history: see below
  lastLaterThan

statistics == <<cacheSizeInBytes, cacheSubBlockCount>>
history == <<since, lastLaterThan>>
vars == <<cache, lruCounter, statistics, mutex, pc, adding, pruning, history>>

Entries == [bitmap : Bitmaps, lruValue : Nat]
Additions == [index : Indices, entry : Entries]
NoAddition == <<>>
NoLimits == [maxMemoryUsage |-> 0, maxSubBlockCount |-> 0]

\* The bytes a cached bitmap occupies, and all of them.
BytesOf(i, entry) == {i} \X (1 .. BitmapSize[entry.bitmap])
Contents(c) == UNION {BytesOf(i, c[i]) : i \in DOMAIN c}
MemoryUsage(c) == Cardinality(Contents(c))
ElementsCount(c) == Cardinality(DOMAIN c)

With(i, entry) ==
  [k \in DOMAIN cache \cup {i} |-> IF k = i THEN entry ELSE cache[k]]
Without(i) == [k \in DOMAIN cache \ {i} |-> cache[k]]

-----------------------------------------------------------------------------
(* History: the order of accesses (Add, and Get of a cached index).        *)
(* since[t] are the indices whose accesses had all ended when the access   *)
(* of t began.  <<i, k>> is in lastLaterThan if the last access of i to    *)
(* end began after every access of k had ended.                            *)

Accessed(i, S) ==
  lastLaterThan' =
    {p \in lastLaterThan : i \notin {p[1], p[2]}} \cup ({i} \X (S \ {i}))

Forget(i) ==
  /\ lastLaterThan' = {p \in lastLaterThan : i \notin {p[1], p[2]}}
  /\ UNCHANGED since

-----------------------------------------------------------------------------
(* The operations. *)

\* Mutant: the LRU value of the element that is found is not renewed.
GetWithoutTouch(i) ==
  /\ mutex = Nobody
  /\ i \in DOMAIN cache
  /\ lruCounter < MaxAccesses
  /\ lruCounter' = lruCounter + 1
  /\ Accessed(i, Indices)
  /\ since' = [t \in Threads |-> since[t] \ {i}]
  /\ UNCHANGED <<cache, statistics, mutex, pc, adding, pruning>>

Get(i) ==
  /\ mutex = Nobody
  /\ i \in DOMAIN cache
  /\ lruCounter < MaxAccesses
  /\ cache' = [cache EXCEPT ![i].lruValue = lruCounter]
  /\ lruCounter' = lruCounter + 1
  /\ Accessed(i, Indices)
  /\ since' = [t \in Threads |-> since[t] \ {i}]
  /\ UNCHANGED <<statistics, mutex, pc, adding, pruning>>

\* Add makes the entry to be added, with its LRU value ...
Add(t, i, bitmap) ==
  /\ pc[t] = "idle"
  /\ lruCounter < MaxAccesses
  /\ adding' = [adding EXCEPT
       ![t] = [index |-> i,
               entry |-> [bitmap |-> bitmap, lruValue |-> lruCounter]]]
  /\ lruCounter' = lruCounter + 1
  /\ pc' = [pc EXCEPT ![t] = "add"]
  /\ since' = [since EXCEPT ![t] = Indices]
  /\ UNCHANGED <<cache, statistics, mutex, pruning, lastLaterThan>>

\* ... and then locks: a new element is inserted and its size added, ...
AddInsert(t) ==
  /\ pc[t] = "add" /\ mutex = Nobody
  /\ adding[t].index \notin DOMAIN cache
  /\ mutex' = t
  /\ cache' = With(adding[t].index, adding[t].entry)
  /\ cacheSizeInBytes' =
       cacheSizeInBytes + BitmapSize[adding[t].entry.bitmap]
  /\ pc' = [pc EXCEPT ![t] = "inserted"]
  /\ UNCHANGED <<lruCounter, cacheSubBlockCount, adding, pruning, history>>

\* Mutant: the size of the bitmap that is added is subtracted.
AddOverwriteOwnSize(t) ==
  /\ pc[t] = "add" /\ mutex = Nobody
  /\ adding[t].index \in DOMAIN cache
  /\ mutex' = t
  /\ cacheSizeInBytes' =
       cacheSizeInBytes - BitmapSize[adding[t].entry.bitmap]
  /\ pc' = [pc EXCEPT ![t] = "overwriting"]
  /\ UNCHANGED <<cache, lruCounter, cacheSubBlockCount, adding, pruning,
                 history>>

\* ... or the size of the element that is there already is subtracted.
AddOverwrite(t) ==
  /\ pc[t] = "add" /\ mutex = Nobody
  /\ adding[t].index \in DOMAIN cache
  /\ mutex' = t
  /\ cacheSizeInBytes' =
       cacheSizeInBytes - BitmapSize[cache[adding[t].index].bitmap]
  /\ pc' = [pc EXCEPT ![t] = "overwriting"]
  /\ UNCHANGED <<cache, lruCounter, cacheSubBlockCount, adding, pruning,
                 history>>

AddReturns(t) ==
  /\ mutex' = Nobody
  /\ adding' = [adding EXCEPT ![t] = NoAddition]
  /\ pc' = [pc EXCEPT ![t] = "idle"]
  /\ Accessed(adding[t].index, since[t])
  /\ since' = [u \in Threads |->
                 IF u = t THEN {} ELSE since[u] \ {adding[t].index}]

\* Mutant: the element is not counted.
AddInsertedUncounted(t) ==
  /\ pc[t] = "inserted"
  /\ AddReturns(t)
  /\ UNCHANGED <<cache, lruCounter, statistics, pruning>>

AddInserted(t) ==
  /\ pc[t] = "inserted"
  /\ cacheSubBlockCount' = cacheSubBlockCount + 1
  /\ AddReturns(t)
  /\ UNCHANGED <<cache, lruCounter, cacheSizeInBytes, pruning>>

AddOverwritten(t) ==
  /\ pc[t] = "overwriting"
  /\ cache' = With(adding[t].index, adding[t].entry)
  /\ cacheSizeInBytes' =
       cacheSizeInBytes + BitmapSize[adding[t].entry.bitmap]
  /\ AddReturns(t)
  /\ UNCHANGED <<lruCounter, cacheSubBlockCount, pruning>>

\* Mutant: Prune goes on only while both limits are exceeded.
ExceedsBoth(options) ==
  /\ cacheSizeInBytes > options.maxMemoryUsage
  /\ cacheSubBlockCount > options.maxSubBlockCount

\* Prune evicts oldest elements until both limits are met.
Exceeds(options) ==
  \/ cacheSizeInBytes > options.maxMemoryUsage
  \/ cacheSubBlockCount > options.maxSubBlockCount

Oldest(i) ==
  /\ i \in DOMAIN cache
  /\ \A k \in DOMAIN cache : cache[i].lruValue <= cache[k].lruValue

Prune(t, options) ==
  /\ pc[t] = "idle" /\ mutex = Nobody
  /\ mutex' = t
  /\ pruning' = [pruning EXCEPT ![t] = options]
  /\ pc' = [pc EXCEPT ![t] = "pruning"]
  /\ UNCHANGED <<cache, lruCounter, statistics, adding, history>>

PruneSubtract(t, i) ==
  /\ pc[t] = "pruning"
  /\ Exceeds(pruning[t]) /\ Oldest(i)
  /\ cacheSizeInBytes' = cacheSizeInBytes - BitmapSize[cache[i].bitmap]
  /\ pc' = [pc EXCEPT ![t] = "evicting"]
  /\ UNCHANGED <<cache, lruCounter, cacheSubBlockCount, mutex, adding, pruning,
                 history>>

PruneErase(t, i) ==
  /\ pc[t] = "evicting"
  /\ Oldest(i)
  /\ cacheSubBlockCount' = cacheSubBlockCount - 1
  /\ cache' = Without(i)
  /\ Forget(i)
  /\ pc' = [pc EXCEPT ![t] = "pruning"]
  /\ UNCHANGED <<lruCounter, cacheSizeInBytes, mutex, adding, pruning>>

\* Mutant: Prune returns without unlocking.
PruneReturnsLocked(t) ==
  /\ pc[t] = "pruning"
  /\ ~Exceeds(pruning[t]) \/ DOMAIN cache = {}
  /\ pc' = [pc EXCEPT ![t] = "idle"]
  /\ pruning' = [pruning EXCEPT ![t] = NoLimits]
  /\ UNCHANGED <<cache, lruCounter, statistics, mutex, adding, history>>

PruneReturns(t) ==
  /\ pc[t] = "pruning"
  /\ ~Exceeds(pruning[t]) \/ DOMAIN cache = {}
  /\ mutex' = Nobody
  /\ pc' = [pc EXCEPT ![t] = "idle"]
  /\ pruning' = [pruning EXCEPT ![t] = NoLimits]
  /\ UNCHANGED <<cache, lruCounter, statistics, adding, history>>

-----------------------------------------------------------------------------

Init ==
  /\ cache = <<>>
  /\ lruCounter = 0
  /\ cacheSizeInBytes = 0
  /\ cacheSubBlockCount = 0
  /\ mutex = Nobody
  /\ pc = [t \in Threads |-> "idle"]
  /\ adding = [t \in Threads |-> NoAddition]
  /\ pruning = [t \in Threads |-> NoLimits]
  /\ since = [t \in Threads |-> {}]
  /\ lastLaterThan = {}

AddStep(t) ==
  \/ AddInsert(t) \/ AddOverwrite(t)
  \/ AddInserted(t) \/ AddOverwritten(t)

PruneStep(t) ==
  \/ \E i \in Indices : PruneSubtract(t, i) \/ PruneErase(t, i)
  \/ PruneReturns(t)

Next ==
  \/ \E i \in Indices : Get(i)
  \/ \E t \in Threads :
       \/ \E i \in Indices, b \in Bitmaps : Add(t, i, b)
       \/ AddStep(t)
       \/ \E options \in PruneOptions : Prune(t, options)
       \/ PruneStep(t)

Spec == Init /\ [][Next]_vars

\* A thread that has the mutex goes on (it waits for nothing).  Nothing is
\* assumed of one that waits for it: std::mutex promises no fairness.
Fairness ==
  \A t \in Threads :
    /\ WF_vars(AddInserted(t) \/ AddOverwritten(t))
    /\ WF_vars(PruneStep(t))

FairSpec == Spec /\ Fairness

-----------------------------------------------------------------------------
(* Properties. *)

\* The members keep their types: in particular the unsigned statistics never
\* go below zero, not even between the subtraction and the addition of an
\* overwriting Add, or with a Prune among Adds.
TypeOK ==
  /\ DOMAIN cache \subseteq Indices
  /\ cache \in [DOMAIN cache -> Entries]
  /\ lruCounter \in 0 .. MaxAccesses
  /\ cacheSizeInBytes \in Nat
  /\ cacheSubBlockCount \in Nat
  /\ mutex \in Threads \cup {Nobody}
  /\ pc \in [Threads -> {"idle", "add", "inserted", "overwriting", "pruning",
                         "evicting"}]
  /\ adding \in [Threads -> Additions \cup {NoAddition}]
  /\ pruning \in [Threads -> PruneOptions \cup {NoLimits}]
  /\ since \in [Threads -> SUBSET Indices]
  /\ lastLaterThan \subseteq Indices \X Indices

\* What GetStatistics reads under the lock is what the cache holds: the
\* statistics, kept incrementally by Add and Prune, never drift from the map.
Snapshot ==
  mutex = Nobody =>
    /\ cacheSizeInBytes = MemoryUsage(cache)
    /\ cacheSubBlockCount = ElementsCount(cache)

\* Prune evicts the least recently used: it never evicts i and keeps k if the
\* last access of i to end began after all accesses of k had ended.  That an
\* earlier access of i did is not enough: an Add that took its LRU value before
\* that access and got the mutex after it puts the older value over the younger
\* (SubBlockCache::Add), though libCZI_Compositor.h says of Prune that any Add
\* and any Get counts as an access.
EvictsLeastRecentlyUsed ==
  [][\A i \in DOMAIN cache \ DOMAIN cache' :
       \A k \in DOMAIN cache' : <<i, k>> \notin lastLaterThan]_vars

\* Prune stops when the cache meets both limits, and not before; it evicts
\* only while the cache exceeds one.
PrunesToTheLimits ==
  [][\A t \in Threads :
       LET within(c) ==
             /\ MemoryUsage(c) <= pruning[t].maxMemoryUsage
             /\ ElementsCount(c) <= pruning[t].maxSubBlockCount
       IN  /\ pc[t] = "pruning" /\ pc'[t] = "idle" => within(cache)
           /\ pc[t] = "evicting" /\ pc'[t] # "evicting" => ~within(cache)]_vars

\* A thread that has taken the mutex gives it back: Prune ends, whatever was
\* added before it, and so does Add.
MutexIsReleased ==
  \A t \in Threads : mutex = t ~> mutex # t

=============================================================================
